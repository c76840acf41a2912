------------------------------ MODULE Keyboard ------------------------------
(***************************************************************************)
(* The keyboard component: the line buffers of the terminals, the keyboard *)
(* interrupt, and terminal_read (keyboard.c, and switch_terminal in        *)
(* terminal.c).  KeyDecode models how scan codes become the keys below.    *)
(*                                                                         *)
(* syscall_read turns interrupts on, so the keyboard and the timer may     *)
(* interrupt a reader between any two characters it copies.  The handlers  *)
(* themselves run with interrupts off.  kbd_buf and buf_pos are those of   *)
(* the terminal on the monitor, whichever terminal's program runs.  A      *)
(* buffer changes only while kbd_buf points to it, so loading kbd_buf and  *)
(* loading a character through it count as one step.                       *)
(***************************************************************************)
EXTENDS Terminals, Sequences

CONSTANTS
  KBD_BUF_SIZE,   \* the size of a line buffer (128)
  Char,           \* the characters keys give, Enter aside
  Newline,        \* the one Enter gives
  Nul,            \* what a buffer holds before anything is typed
  NBytes          \* the lengths programs ask for

ASSUME KeyboardAssumption ==
  /\ TERM_NUM \in Nat \ {0}
  /\ KBD_BUF_SIZE \in Nat \ {0, 1}
  /\ Newline \notin Char
  /\ Nul \notin Char \cup {Newline}
  /\ NBytes \subseteq Nat \ {0}

Index == 0..(KBD_BUF_SIZE - 1)
Key == Char \cup {Newline}

VARIABLES
  term_buf,   \* kbd_buf of each terminal_t
  term_pos,   \* buf_pos of each terminal_t: where its line stood when left
  ready,      \* kbd_buf_ready of each terminal_t
  kbd_buf,    \* the terminal whose buffer kbd_buf points to
  buf_pos,    \* the next free place in that buffer
  viewing,    \* viewing_term_ptr->tid
  reader,     \* the read call of each terminal's program
  owed        \* the line that a read is to return, <<>> if none

vars == <<term_buf, term_pos, ready, kbd_buf, buf_pos, viewing, running, reader, owed>>

(* A program outside read, in the loop that waits for Enter, or copying,   *)
(* with what it has copied so far.                                         *)
Idle == [at |-> "user", nbytes |-> 0, out |-> <<>>]

(* The type invariant: no index leaves its buffer. *)
TypeOK ==
  /\ term_buf \in [Tid -> [Index -> Key \cup {Nul}]]
  /\ term_pos \in [Tid -> Index]
  /\ ready \in [Tid -> BOOLEAN]
  /\ kbd_buf \in Tid
  /\ buf_pos \in Index
  /\ viewing \in Tid
  /\ running \in Tid
  /\ reader \in [Tid -> [at : {"user", "wait", "copy"}, nbytes : NBytes \cup {0},
                         out : Seq(Key \cup {Nul})]]
  /\ owed \in [Tid -> Seq(Key)]

Init ==
  /\ term_buf = [t \in Tid |-> [i \in Index |-> Nul]]
  /\ term_pos = [t \in Tid |-> 0]
  /\ ready = [t \in Tid |-> FALSE]
  /\ kbd_buf = 0
  /\ buf_pos = 0
  /\ viewing = 0
  /\ running = 0
  /\ reader = [t \in Tid |-> Idle]
  /\ owed = [t \in Tid |-> <<>>]

(* The first n characters of terminal t's buffer. *)
Prefix(t, n) == [i \in 1..n |-> term_buf[t][i - 1]]

(* How many characters terminal t's reader has copied. *)
Copied(t) == IF reader[t].at = "copy" THEN Len(reader[t].out) ELSE 0

-----------------------------------------------------------------------------
(* The keyboard interrupt *)

(* Mutant: the place reserved for '\n' is given away. *)
StoreKey_NoReserve(c) ==
  /\ term_buf' = [term_buf EXCEPT ![kbd_buf][buf_pos] = c]
  /\ IF c = Newline
       THEN buf_pos' = 0 /\ ready' = [ready EXCEPT ![viewing] = TRUE]
       ELSE buf_pos' = buf_pos + 1 /\ UNCHANGED ready

(* Mutant: Enter is ignored when the buffer is full. *)
StoreKey_EnterNeedsRoom(c) ==
  IF buf_pos <= KBD_BUF_SIZE - 2
    THEN /\ term_buf' = [term_buf EXCEPT ![kbd_buf][buf_pos] = c]
         /\ IF c = Newline
              THEN buf_pos' = 0 /\ ready' = [ready EXCEPT ![viewing] = TRUE]
              ELSE buf_pos' = buf_pos + 1 /\ UNCHANGED ready
    ELSE UNCHANGED <<term_buf, buf_pos, ready>>

(* The last place in the buffer is reserved for '\n'. *)
StoreKey(c) ==
  IF buf_pos <= KBD_BUF_SIZE - 2 \/ (buf_pos = KBD_BUF_SIZE - 1 /\ c = Newline)
    THEN /\ term_buf' = [term_buf EXCEPT ![kbd_buf][buf_pos] = c]
         /\ IF c = Newline
              THEN buf_pos' = 0 /\ ready' = [ready EXCEPT ![viewing] = TRUE]
              ELSE buf_pos' = buf_pos + 1 /\ UNCHANGED ready
    ELSE UNCHANGED <<term_buf, buf_pos, ready>>

(***************************************************************************)
(* A printable key or Enter.  owed is no state of the program: Enter owes  *)
(* the reader of the viewed terminal the line typed, until a key changes a *)
(* place of the buffer that the reader has not copied yet.  What is        *)
(* entered while a read is copying is owed to no one.                      *)
(***************************************************************************)
PressKey(c) ==
  /\ StoreKey(c)
  /\ owed' = [owed EXCEPT ![viewing] =
                IF c = Newline /\ reader[viewing].at # "copy"
                  THEN Append(Prefix(viewing, buf_pos), Newline)
                ELSE IF buf_pos < Copied(viewing) \/ UNCHANGED term_buf THEN @ ELSE <<>>]
  /\ UNCHANGED <<term_pos, kbd_buf, viewing, running, reader>>

Backspace ==
  /\ buf_pos > 0
  /\ buf_pos' = buf_pos - 1
  /\ UNCHANGED <<term_buf, term_pos, ready, kbd_buf, viewing, running, reader, owed>>

(* Mutant: the position in the old terminal's line is not saved. *)
switch_terminal_NoSave(target) ==
  /\ target # viewing
  /\ kbd_buf' = target
  /\ buf_pos' = term_pos[target]
  /\ viewing' = target
  /\ UNCHANGED <<term_buf, term_pos, ready, running, reader, owed>>

switch_terminal(target) ==
  /\ target # viewing
  /\ term_pos' = [term_pos EXCEPT ![viewing] = buf_pos]
  /\ kbd_buf' = target
  /\ buf_pos' = term_pos[target]
  /\ viewing' = target
  /\ UNCHANGED <<term_buf, ready, running, reader, owed>>

-----------------------------------------------------------------------------
(* terminal_read, by the program of the running terminal *)

ReadBegin ==
  /\ reader[running].at = "user"
  /\ \E n \in NBytes :
       reader' = [reader EXCEPT ![running] = [at |-> "wait", nbytes |-> n, out |-> <<>>]]
  /\ UNCHANGED <<term_buf, term_pos, ready, kbd_buf, buf_pos, viewing, running, owed>>

(* The loop on kbd_buf_ready ends. *)
WaitEnds ==
  /\ reader[running].at = "wait"
  /\ ready[running]
  /\ reader' = [reader EXCEPT ![running].at = "copy"]
  /\ UNCHANGED <<term_buf, term_pos, ready, kbd_buf, buf_pos, viewing, running, owed>>

(* Mutant: the last place of the buffer is never copied. *)
CopyEnds_OneShort(r) ==
  \/ Len(r.out) >= r.nbytes
  \/ Len(r.out) >= KBD_BUF_SIZE - 1
  \/ r.out # <<>> /\ r.out[Len(r.out)] = Newline

(* nbytes copied, the whole buffer copied, or '\n' reached. *)
CopyEnds(r) ==
  \/ Len(r.out) >= r.nbytes
  \/ Len(r.out) > KBD_BUF_SIZE - 1
  \/ r.out # <<>> /\ r.out[Len(r.out)] = Newline

(* One character is copied, from the buffer kbd_buf points to by now. *)
CopyChar ==
  LET r == reader[running]
  IN  /\ r.at = "copy"
      /\ ~ CopyEnds(r)
      /\ reader' = [reader EXCEPT ![running].out =
                      Append(@, term_buf[kbd_buf][Len(r.out)])]
      /\ owed' = IF kbd_buf = running THEN owed ELSE [owed EXCEPT ![running] = <<>>]
      /\ UNCHANGED <<term_buf, term_pos, ready, kbd_buf, buf_pos, viewing, running>>

ReadReturn ==
  /\ reader[running].at = "copy"
  /\ CopyEnds(reader[running])
  /\ ready' = [ready EXCEPT ![running] = FALSE]
  /\ reader' = [reader EXCEPT ![running] = Idle]
  /\ owed' = [owed EXCEPT ![running] = <<>>]
  /\ UNCHANGED <<term_buf, term_pos, kbd_buf, buf_pos, viewing, running>>

(***************************************************************************)
(* The program's buffer cannot be written: the page fault ends the program *)
(* inside read, which resets nothing.  The terminal's next program is one  *)
(* that can read, and is owed the line if the buffer still holds it all.   *)
(***************************************************************************)
ReadFaults ==
  /\ reader[running].at = "copy"
  /\ ~ CopyEnds(reader[running])
  /\ reader' = [reader EXCEPT ![running] = Idle]
  /\ owed' = [owed EXCEPT ![running] = IF Prefix(running, Len(@)) = @ THEN @ ELSE <<>>]
  /\ UNCHANGED <<term_buf, term_pos, ready, kbd_buf, buf_pos, viewing, running>>

ReadStep == WaitEnds \/ CopyChar \/ ReadReturn

-----------------------------------------------------------------------------
(* schedule() *)
Tick ==
  /\ running' = IF running + 1 = TERM_NUM THEN 0 ELSE running + 1
  /\ UNCHANGED <<term_buf, term_pos, ready, kbd_buf, buf_pos, viewing, reader, owed>>

Next ==
  \/ \E c \in Key : PressKey(c)
  \/ Backspace
  \/ \E t \in Tid : switch_terminal(t)
  \/ ReadBegin
  \/ ReadStep
  \/ ReadFaults
  \/ Tick

Spec == Init /\ [][Next]_vars

(***************************************************************************)
(* The timer never stops.  A terminal's program gets a whole tick each     *)
(* time its turn comes, so a reader that can go on at its turns does.      *)
(***************************************************************************)
FairSpec ==
  /\ Spec
  /\ WF_vars(Tick)
  /\ \A t \in Tid : SF_vars(running = t /\ ReadStep)

-----------------------------------------------------------------------------
(* Properties *)

L == INSTANCE LineEditor WITH
       Size <- KBD_BUF_SIZE,
       line <- [t \in Tid |-> Prefix(t, IF t = viewing THEN buf_pos ELSE term_pos[t])],
       entered <- ready,
       viewed <- viewing

(***************************************************************************)
(* The buffers, the saved positions and the one kbd_buf and buf_pos that   *)
(* switch_terminal moves between terminals make a line editor per          *)
(* terminal: keys edit the viewed terminal's line and no other, a switch   *)
(* loses nothing, and no read returns without an Enter in its terminal.    *)
(***************************************************************************)
RefinesLineEditor == L!Spec

(***************************************************************************)
(* A read returns the line that was entered, cut off at the length asked   *)
(* for, unless a key changes a place of the terminal's buffer before the   *)
(* read has copied that place, or a character is copied while another      *)
(* terminal is viewed; keys typed behind the reader, in places it has      *)
(* copied, and changes of terminal back and forth between two characters   *)
(* do no harm.  The line is not lost with a program that ends inside read, *)
(* but goes to the next one.  A read returns by resetting kbd_buf_ready.   *)
(***************************************************************************)
ReadReturnsLine ==
  [][\A t \in Tid :
       (ready[t] /\ ~ ready'[t] /\ owed[t] # <<>>) =>
         LET n == reader[t].nbytes
         IN  reader[t].out = SubSeq(owed[t], 1, IF n < Len(owed[t]) THEN n ELSE Len(owed[t]))
    ]_vars

(***************************************************************************)
(* A program that waits in read when a line is entered in its terminal     *)
(* gets out of read, a full buffer, a change of terminal or a reader that  *)
(* ended before it notwithstanding.                                        *)
(***************************************************************************)
EnterWakesReader ==
  \A t \in Tid : (reader[t].at = "wait" /\ owed[t] # <<>>) ~> (reader[t].at = "user")

(***************************************************************************)
(* "if we reach '\n', we should stop (there is always a '\n' in the        *)
(* keyboard buffer)": the buffer a reader copies from has one.             *)
(***************************************************************************)
AlwaysNewline ==
  reader[running].at = "copy" => \E i \in Index : term_buf[kbd_buf][i] = Newline
=============================================================================
