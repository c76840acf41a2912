------------------------------ MODULE Screens ------------------------------
(***************************************************************************)
(* What the video component promises.  Each terminal has a screen of its   *)
(* own, with a cursor.  A program draws on the screen of its terminal      *)
(* whether or not it is the one on the monitor; the keyboard draws on the  *)
(* screen that is on the monitor; changing either of the two terminals     *)
(* draws nothing.                                                          *)
(***************************************************************************)
EXTENDS Integers

CONSTANTS TERM_NUM, Char, Pos

Tid == 0..(TERM_NUM - 1)

VARIABLES
  screen,   \* what each terminal's screen shows
  cursor,   \* where its cursor is
  viewed,   \* the terminal on the monitor
  turn      \* the terminal whose program runs

vars == <<screen, cursor, viewed, turn>>

Init ==
  /\ screen \in [Tid -> Char]
  /\ cursor \in [Tid -> Pos]
  /\ viewed = 0
  /\ turn = 0

Draw(t) ==
  \E c \in Char, p \in Pos :
    /\ screen' = [screen EXCEPT ![t] = c]
    /\ cursor' = [cursor EXCEPT ![t] = p]

(* The running program writes, or the user types. *)
Put ==
  /\ Draw(turn) \/ Draw(viewed)
  /\ UNCHANGED <<viewed, turn>>

View ==
  /\ viewed' \in Tid
  /\ UNCHANGED <<screen, cursor, turn>>

(* A terminal's turn may begin with the banner of its base shell. *)
TakeTurn ==
  /\ turn' = IF turn + 1 = TERM_NUM THEN 0 ELSE turn + 1
  /\ Draw(turn') \/ UNCHANGED <<screen, cursor>>
  /\ UNCHANGED viewed

Next == Put \/ View \/ TakeTurn

Spec == Init /\ [][Next]_vars
=============================================================================
