-------------------------------- MODULE Rtc ---------------------------------
(***************************************************************************)
(* The real-time clock driver (rtc.c), used by the programs of several     *)
(* terminals at once.  There is one rtc_signal and one rate register for   *)
(* all of them.  rtc_read runs with interrupts on: the clock and the timer *)
(* may come between any two of its statements.                             *)
(*                                                                         *)
(* The device latches an interrupt in its register C and raises no other   *)
(* until that register is read.  interrupt_time_count only serves          *)
(* rtc_pulse, which nothing calls, and is left out.                        *)
(***************************************************************************)
EXTENDS Terminals

CONSTANTS
  LOW_FREQUENCY,    \* 2
  HIGH_FREQUENCY,   \* 1024
  BootFrame,        \* the rate bits of register A at boot
  Asked             \* the frequencies programs ask for

(* Two to the k. *)
Pow2[k \in 0..31] == IF k = 0 THEN 1 ELSE 2 * Pow2[k - 1]

(* The bounds are rates that the device has: 2 and 1024 in rtc.h. *)
ASSUME RtcAssumption ==
  /\ TERM_NUM \in Nat \ {0}
  /\ LOW_FREQUENCY \in Nat /\ LOW_FREQUENCY >= 2
  /\ HIGH_FREQUENCY \in Nat /\ HIGH_FREQUENCY <= Pow2[13]
  /\ BootFrame \in 3..15
  /\ Asked \subseteq Int

VARIABLES
  rtc_signal,   \* whether an interrupt has come, as readers see it
  frame,        \* the rate bits of register A
  fre,          \* the frequency that was last set, 0 before the first
  regC,         \* an interrupt is latched in register C
  irq,          \* it is on its way to the processor
  open,         \* whether each terminal's program has the clock open
  reader,       \* where it is in rtc_read
  since         \* whether an interrupt came since that read began

rtcVars == <<rtc_signal, frame, fre, regC, irq, open, reader, since, running>>

(* The type invariant: the rate is one the device has. *)
RtcTypeOK ==
  /\ rtc_signal \in {0, 1}
  /\ frame \in 3..15
  /\ fre \in Int
  /\ regC \in BOOLEAN
  /\ irq \in BOOLEAN
  /\ open \in [Tid -> BOOLEAN]
  /\ reader \in [Tid -> {"user", "wait", "seen"}]
  /\ since \in [Tid -> BOOLEAN]
  /\ running \in Tid

RtcInit ==
  /\ rtc_signal = 0
  /\ frame = BootFrame
  /\ fre = 0
  /\ regC = FALSE
  /\ irq = FALSE
  /\ open = [t \in Tid |-> FALSE]
  /\ reader = [t \in Tid |-> "user"]
  /\ since = [t \in Tid |-> FALSE]
  /\ running = 0

-----------------------------------------------------------------------------
(* The device and its interrupt *)

Raise ==
  /\ ~ regC
  /\ regC' = TRUE
  /\ irq' = TRUE
  /\ UNCHANGED <<rtc_signal, frame, fre, open, reader, since, running>>

(* Mutant: register C is not read. *)
rtc_int_handler_NoRegC ==
  /\ irq
  /\ irq' = FALSE
  /\ rtc_signal' = 1
  /\ since' = [t \in Tid |-> TRUE]
  /\ UNCHANGED <<frame, fre, regC, open, reader, running>>

rtc_int_handler ==
  /\ irq
  /\ irq' = FALSE
  /\ rtc_signal' = 1
  /\ regC' = FALSE
  /\ since' = [t \in Tid |-> TRUE]
  /\ UNCHANGED <<frame, fre, open, reader, running>>

-----------------------------------------------------------------------------
(* The programs' calls *)

(* Mutant: the lower bound is not checked. *)
Settable_NoLowBound(f) ==
  /\ f <= HIGH_FREQUENCY
  /\ \E k \in 0..30 : f = Pow2[k]

(* fre & (fre - 1) is 0: a power of two. *)
Settable(f) ==
  /\ LOW_FREQUENCY <= f /\ f <= HIGH_FREQUENCY
  /\ \E k \in 0..30 : f = Pow2[k]

(* How often f can be halved before it is 0, less one. *)
Log2(f) == CHOOSE k \in 0..30 : Pow2[k] <= f /\ f < Pow2[k + 1]

set_frequency(f) ==
  IF Settable(f)
    THEN frame' = 16 - Log2(f) /\ fre' = f
    ELSE UNCHANGED <<frame, fre>>

rtc_open ==
  /\ reader[running] = "user"
  /\ set_frequency(LOW_FREQUENCY)
  /\ open' = [open EXCEPT ![running] = TRUE]
  /\ UNCHANGED <<rtc_signal, regC, irq, reader, since, running>>

rtc_write ==
  /\ reader[running] = "user"
  /\ open[running]
  /\ \E f \in Asked : set_frequency(f)
  /\ UNCHANGED <<rtc_signal, regC, irq, open, reader, since, running>>

(* syscall_close frees the descriptor; rtc_close would do nothing more. *)
syscall_close ==
  /\ reader[running] = "user"
  /\ open[running]
  /\ open' = [open EXCEPT ![running] = FALSE]
  /\ UNCHANGED <<rtc_signal, frame, fre, regC, irq, reader, since, running>>

(* Mutant: a signal left from before the read is not cleared. *)
ReadBegin_NoReset ==
  /\ reader[running] = "user"
  /\ open[running]
  /\ reader' = [reader EXCEPT ![running] = "wait"]
  /\ since' = [since EXCEPT ![running] = FALSE]
  /\ UNCHANGED <<rtc_signal, frame, fre, regC, irq, open, running>>

(* rtc_read: rtc_signal = 0, *)
ReadBegin ==
  /\ reader[running] = "user"
  /\ open[running]
  /\ rtc_signal' = 0
  /\ reader' = [reader EXCEPT ![running] = "wait"]
  /\ since' = [since EXCEPT ![running] = FALSE]
  /\ UNCHANGED <<frame, fre, regC, irq, open, running>>

(* while (rtc_signal != 1), *)
ReadSees ==
  /\ reader[running] = "wait"
  /\ rtc_signal = 1
  /\ reader' = [reader EXCEPT ![running] = "seen"]
  /\ UNCHANGED <<rtc_signal, frame, fre, regC, irq, open, since, running>>

(* rtc_signal = 0 and return. *)
ReadReturn ==
  /\ reader[running] = "seen"
  /\ rtc_signal' = 0
  /\ reader' = [reader EXCEPT ![running] = "user"]
  /\ UNCHANGED <<frame, fre, regC, irq, open, since, running>>

NextTurn ==
  /\ running' = IF running + 1 = TERM_NUM THEN 0 ELSE running + 1
  /\ UNCHANGED <<rtc_signal, frame, fre, regC, irq, open, reader, since>>

RtcNext ==
  \/ Raise \/ rtc_int_handler
  \/ rtc_open \/ rtc_write \/ syscall_close
  \/ ReadBegin \/ ReadSees \/ ReadReturn
  \/ NextTurn

RtcSpec == RtcInit /\ [][RtcNext]_rtcVars

(***************************************************************************)
(* The clock and the timer never stop, and a program whose turns find it   *)
(* able to go on does.                                                     *)
(***************************************************************************)
RtcFairSpec ==
  /\ RtcSpec
  /\ WF_rtcVars(Raise)
  /\ WF_rtcVars(rtc_int_handler)
  /\ WF_rtcVars(NextTurn)
  /\ \A t \in Tid : SF_rtcVars(running = t /\ (ReadSees \/ ReadReturn))

-----------------------------------------------------------------------------
(* Properties *)

(***************************************************************************)
(* rtc_read returns only if the clock has interrupted since this very read *)
(* began, however many programs share rtc_signal.                          *)
(***************************************************************************)
ReadSeesInterrupt ==
  [][\A t \in Tid : (reader[t] = "seen" /\ reader'[t] = "user") => since[t]]_rtcVars

(* What the device does with its rate bits: 32768 >> (frame - 1), where it *)
(* has that rate.                                                          *)
Hz(n) == IF n \in 3..15 THEN Pow2[16 - n] ELSE 0

(***************************************************************************)
(* Once set_frequency has accepted a frequency, the rate bits it computed  *)
(* make the device run at exactly that frequency.                          *)
(***************************************************************************)
RateAsAccepted == fre # 0 => Hz(frame) = fre

(***************************************************************************)
(* While some program waits in rtc_read, reads keep returning: the         *)
(* interrupts one reader takes from another always wake somebody.          *)
(***************************************************************************)
SomeReadReturns ==
  []<>(\A t \in Tid : reader[t] = "user")
    \/ []<><<\E t \in Tid : reader[t] = "seen" /\ reader'[t] = "user">>_rtcVars

(***************************************************************************)
(* "block until the interrupt status is changed": a program in rtc_read    *)
(* gets out of it, since the clock keeps interrupting.                     *)
(***************************************************************************)
EveryReadReturns == \A t \in Tid : (reader[t] = "wait") ~> (reader[t] = "user")
=============================================================================
