----------------------------- MODULE Interrupts -----------------------------
(***************************************************************************)
(* Interrupts: the two 8259 controllers (i8259.c), the gates of the IDT    *)
(* (idt.c), the entry stubs, and the frame every device handler has: work  *)
(* with interrupts off, end-of-interrupt, sti, iret.  The timer's handler  *)
(* changes to another terminal's kernel stack after its end-of-interrupt,  *)
(* or starts that terminal's first shell and never comes back.             *)
(*                                                                         *)
(* All gates are interrupt gates, so a system call, too, enters with       *)
(* interrupts off; read turns them on.  What the handlers do otherwise is  *)
(* in the other modules.                                                   *)
(***************************************************************************)
EXTENDS Terminals, Sequences

CONSTANTS
  MaxNest    \* bound: handlers nested on one kernel stack

ASSUME InterruptsAssumption ==
  /\ TERM_NUM \in Nat \ {0}
  /\ MaxNest \in Nat \ {0}

PIT_IRQ == 0
KEYBOARD_IRQ == 1
SLAVE_IRQ_LINE == 2
RTC_IRQ == 8
Device == {PIT_IRQ, KEYBOARD_IRQ, RTC_IRQ}

VARIABLES
  irr,        \* the devices whose request waits in a controller
  isr,        \* the lines in service, of both controllers
  masked,     \* the lines that are masked, of both controllers
  if,         \* whether the processor takes interrupts
  launched,   \* the terminals that have had their first shell
  in_call,    \* the terminals whose program is in a system call
  stack       \* the handlers on each terminal's kernel stack, innermost last

intVars == <<irr, isr, masked, if, running, launched, in_call, stack>>

Line == 0..15
Handler == {"pit_entry", "keyboard_entry", "rtc_entry"}

(* A handler before its end-of-interrupt, between two terminals, or after *)
(* its sti.                                                               *)
Frame == [handler : Handler, at : {"work", "switched", "ret"}]

(* The type invariant; the lines of the devices stay unmasked. *)
IntTypeOK ==
  /\ irr \subseteq Device
  /\ isr \subseteq Line
  /\ masked \subseteq Line \ (Device \cup {SLAVE_IRQ_LINE})
  /\ if \in BOOLEAN
  /\ running \in Tid
  /\ launched \subseteq Tid
  /\ in_call \subseteq Tid
  /\ stack \in [Tid -> Seq(Frame)]

-----------------------------------------------------------------------------
(* The controllers *)

enable_irq(mask, line) == mask \ {line}

(* i8259_init masks everything; the drivers' inits unmask their lines. *)
BootMask ==
  enable_irq(enable_irq(enable_irq(enable_irq(Line, RTC_IRQ), SLAVE_IRQ_LINE),
                        KEYBOARD_IRQ), PIT_IRQ)

(* The lines in the order the master serves them: the slave's after 1. *)
Rank(line) == IF line = RTC_IRQ THEN 2 ELSE line

(* The lines a device's interrupt occupies in the controllers. *)
Occupies(line) == IF line >= 8 THEN {line, SLAVE_IRQ_LINE} ELSE {line}

(* Mutant: a slave's interrupt is only ended at the slave. *)
send_eoi_SlaveOnly(line) == isr \ {line}

send_eoi(line) ==
  isr \ (IF line >= 8 THEN {line, SLAVE_IRQ_LINE} ELSE {line})

(* Fully nested: no line of its rank or before is in service, and none of  *)
(* those before it also requests.                                          *)
Deliverable(line) ==
  /\ line \in irr
  /\ Occupies(line) \cap masked = {}
  /\ \A other \in isr : Rank(other) > Rank(line)
  /\ \A other \in irr : Occupies(other) \cap masked = {} => Rank(other) >= Rank(line)

(* ICW2: the master's vectors start at 0x20, the slave's at 0x28. *)
Vector(line) == IF line < 8 THEN 32 + line ELSE 40 + (line - 8)

(* The device interrupts' gates.  The others lead to the system calls and  *)
(* the exceptions, which end as a halt: both enter as SyscallEntry does.   *)
idt(vector) ==
  CASE vector = 32 -> "pit_entry" [] vector = 33 -> "keyboard_entry" [] vector = 40 -> "rtc_entry"

-----------------------------------------------------------------------------

(* kernel.c: everything is initialised, then sti. *)
IntInit ==
  /\ irr = {}
  /\ isr = {}
  /\ masked = BootMask
  /\ if = TRUE
  /\ running = 0
  /\ launched = {}
  /\ in_call = {}
  /\ stack = [t \in Tid |-> <<>>]

Request(line) ==
  /\ line \notin irr
  /\ irr' = irr \cup {line}
  /\ UNCHANGED <<isr, masked, if, running, launched, in_call, stack>>

(* The processor takes an interrupt, through a gate that clears IF. *)
Accept(line) ==
  /\ if
  /\ Deliverable(line)
  /\ Len(stack[running]) < MaxNest
  /\ irr' = irr \ {line}
  /\ isr' = isr \cup Occupies(line)
  /\ if' = FALSE
  /\ stack' = [stack EXCEPT ![running] =
                 Append(@, [handler |-> idt(Vector(line)), at |-> "work"])]
  /\ UNCHANGED <<masked, running, launched, in_call>>

Depth(t) == Len(stack[t])
Top(t) == stack[t][Depth(t)]
TopIs(t, h, at) == stack[t] # <<>> /\ Top(t) = [handler |-> h, at |-> at]

(* keyboard_int_handler and rtc_int_handler: work, EOI, sti. *)
DeviceHandler(h, line) ==
  /\ TopIs(running, h, "work")
  /\ isr' = send_eoi(line)
  /\ if' = TRUE
  /\ stack' = [stack EXCEPT ![running][Depth(running)].at = "ret"]
  /\ UNCHANGED <<irr, masked, running, launched, in_call>>

Keyboard == DeviceHandler("keyboard_entry", KEYBOARD_IRQ)
Rtc == DeviceHandler("rtc_entry", RTC_IRQ)

(* schedule: the next terminal's stack, or its first shell, in user mode.  *)
(* The loop in entry that the first tick interrupts is never resumed.      *)
Switch(next) ==
  /\ running' = next
  /\ IF next \in launched
       THEN /\ if' = FALSE
            /\ stack' = [stack EXCEPT ![running][Depth(running)].at = "switched"]
            /\ UNCHANGED <<launched, in_call>>
       ELSE /\ if' = TRUE
            /\ launched' = launched \cup {next}
            /\ in_call' = in_call \ {next}
            /\ stack' = [stack EXCEPT ![running][Depth(running)].at = "switched",
                                      ![next] = <<>>]

NextTerm == IF running + 1 = TERM_NUM THEN 0 ELSE running + 1

(* Mutant: the end-of-interrupt is sent when schedule has returned. *)
pit_int_handler_LateEoi ==
  /\ TopIs(running, "pit_entry", "work")
  /\ Switch(NextTerm)
  /\ isr' = IF NextTerm \in launched THEN send_eoi(PIT_IRQ) ELSE isr
  /\ UNCHANGED <<irr, masked>>

(* The first half: EOI, and schedule changes stacks. *)
pit_int_handler ==
  /\ TopIs(running, "pit_entry", "work")
  /\ isr' = send_eoi(PIT_IRQ)
  /\ Switch(NextTerm)
  /\ UNCHANGED <<irr, masked>>

(* The second, on the stack of the terminal whose turn it is: sti. *)
PitResumes ==
  /\ TopIs(running, "pit_entry", "switched")
  /\ if' = TRUE
  /\ stack' = [stack EXCEPT ![running][Depth(running)].at = "ret"]
  /\ UNCHANGED <<irr, isr, masked, running, launched, in_call>>

(* iret, to code that was interrupted with interrupts on. *)
Iret ==
  /\ stack[running] # <<>>
  /\ Top(running).at = "ret"
  /\ if' = TRUE
  /\ stack' = [stack EXCEPT ![running] = SubSeq(@, 1, Depth(running) - 1)]
  /\ UNCHANGED <<irr, isr, masked, running, launched, in_call>>

(* A program calls the kernel; read lets interrupts in; the call returns. *)
SyscallEntry ==
  /\ running \in launched \ in_call
  /\ stack[running] = <<>>
  /\ in_call' = in_call \cup {running}
  /\ if' = FALSE
  /\ UNCHANGED <<irr, isr, masked, running, launched, stack>>

ReadSti ==
  /\ running \in in_call
  /\ stack[running] = <<>>
  /\ ~ if
  /\ if' = TRUE
  /\ UNCHANGED <<irr, isr, masked, running, launched, in_call, stack>>

SyscallReturn ==
  /\ running \in in_call
  /\ stack[running] = <<>>
  /\ in_call' = in_call \ {running}
  /\ if' = TRUE
  /\ UNCHANGED <<irr, isr, masked, running, launched, stack>>

IntNext ==
  \/ \E line \in Device : Request(line) \/ Accept(line)
  \/ Keyboard \/ Rtc \/ pit_int_handler \/ PitResumes \/ Iret
  \/ SyscallEntry \/ ReadSti \/ SyscallReturn

IntSpec == IntInit /\ [][IntNext]_intVars

(***************************************************************************)
(* Handlers and system calls with interrupts off come to their end.  The   *)
(* processor takes a pending interrupt between instructions whenever IF is *)
(* set, so one that is deliverable again and again is taken.               *)
(***************************************************************************)
IntFairSpec ==
  /\ IntSpec
  /\ WF_intVars(Keyboard \/ Rtc \/ pit_int_handler \/ PitResumes \/ Iret)
  /\ WF_intVars(~ if /\ SyscallReturn)
  /\ SF_intVars(Accept(PIT_IRQ))

-----------------------------------------------------------------------------
(* Properties *)

IrqOf(h) ==
  CASE h = "pit_entry" -> PIT_IRQ [] h = "keyboard_entry" -> KEYBOARD_IRQ [] h = "rtc_entry" -> RTC_IRQ

(***************************************************************************)
(* A line is in service, at both controllers if it is the slave's, exactly *)
(* while its handler is at work on the running terminal's stack: no        *)
(* end-of-interrupt is lost or sent for another line, whatever the         *)
(* handlers' nesting and the terminal changes under them.                  *)
(***************************************************************************)
InServiceExact ==
  isr = UNION {Occupies(IrqOf(stack[running][k].handler)) :
                 k \in {j \in 1..Depth(running) : stack[running][j].at = "work"}}

(***************************************************************************)
(* Every tick of the timer is handled: neither a first shell that starts   *)
(* inside the handler, nor nested handlers, nor system calls lose the      *)
(* timer for good.                                                         *)
(***************************************************************************)
TimerServed == (PIT_IRQ \in irr) ~> (PIT_IRQ \notin irr)
=============================================================================
