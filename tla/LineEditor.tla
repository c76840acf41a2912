----------------------------- MODULE LineEditor -----------------------------
(***************************************************************************)
(* What the keyboard component promises.  Each terminal has a line that is *)
(* being typed, of at most Size - 1 characters.  Keys edit the line of the *)
(* terminal on the monitor; Enter ends it, tells the terminal's reader,    *)
(* and starts an empty one; a reader takes the news of one Enter.          *)
(***************************************************************************)
EXTENDS Integers, Sequences

CONSTANTS TERM_NUM, Size, Char

Tid == 0..(TERM_NUM - 1)

VARIABLES
  line,      \* what has been typed in each terminal since its last Enter
  entered,   \* whether it has had an Enter that no read has taken
  viewed     \* the terminal on the monitor

vars == <<line, entered, viewed>>

Init ==
  /\ line = [t \in Tid |-> <<>>]
  /\ entered = [t \in Tid |-> FALSE]
  /\ viewed = 0

Type ==
  /\ Len(line[viewed]) < Size - 1
  /\ \E c \in Char : line' = [line EXCEPT ![viewed] = Append(@, c)]
  /\ UNCHANGED <<entered, viewed>>

RubOut ==
  /\ line[viewed] # <<>>
  /\ line' = [line EXCEPT ![viewed] = SubSeq(@, 1, Len(@) - 1)]
  /\ UNCHANGED <<entered, viewed>>

Enter ==
  /\ line' = [line EXCEPT ![viewed] = <<>>]
  /\ entered' = [entered EXCEPT ![viewed] = TRUE]
  /\ UNCHANGED viewed

View ==
  /\ viewed' \in Tid
  /\ UNCHANGED <<line, entered>>

Take ==
  /\ \E t \in Tid : entered[t] /\ entered' = [entered EXCEPT ![t] = FALSE]
  /\ UNCHANGED <<line, viewed>>

Next == Type \/ RubOut \/ Enter \/ View \/ Take

Spec == Init /\ [][Next]_vars
=============================================================================
