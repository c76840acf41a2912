------------------------------ MODULE Sessions ------------------------------
(***************************************************************************)
(* What the process component promises.  Each terminal has a session: the  *)
(* stack of programs started in it, the base shell at the bottom and the   *)
(* program that runs at the top.  The terminals take turns; only the top   *)
(* program of the terminal whose turn it is can start a program above it   *)
(* or end, and a base shell that ends is replaced.  A program that starts  *)
(* another learns how that one ended, or at once why it could not start.   *)
(***************************************************************************)
EXTENDS Integers, Sequences, Functions

CONSTANTS MAX_NUM_PROCESS, TERM_NUM, Status

Pid == 0..(MAX_NUM_PROCESS - 1)
Tid == 0..(TERM_NUM - 1)

VARIABLES
  session, turn,
  answer  \* what the last program that went on was told

vars == <<session, turn, answer>>

Used == UNION {Range(session[t]) : t \in Tid}

Init ==
  /\ session = [t \in Tid |-> <<>>]
  /\ turn = 0
  /\ answer = 0

Start ==
  /\ session[turn] # <<>>
  /\ \E p \in Pid \ Used :
       session' = [session EXCEPT ![turn] = Append(@, p)]
  /\ UNCHANGED <<turn, answer>>

(* There is no such program. *)
Missing ==
  /\ session[turn] # <<>>
  /\ answer' = -1
  /\ UNCHANGED <<session, turn>>

(* Every pid is in use: the answer is that of a program that ended well. *)
Full ==
  /\ session[turn] # <<>> /\ Used = Pid
  /\ answer' = 0
  /\ UNCHANGED <<session, turn>>

(* An exception, and the status 255, are answered with 256. *)
End ==
  /\ Len(session[turn]) > 1
  /\ session' = [session EXCEPT ![turn] = SubSeq(@, 1, Len(@) - 1)]
  /\ \E status \in Status \cup {255} : answer' = IF status = 255 THEN 256 ELSE status
  /\ UNCHANGED turn

Replace ==
  /\ Len(session[turn]) = 1
  /\ \E p \in (Pid \ Used) \cup Range(session[turn]) :
       session' = [session EXCEPT ![turn] = <<p>>]
  /\ UNCHANGED <<turn, answer>>

TakeTurn ==
  /\ turn' = (turn + 1) % TERM_NUM
  /\ IF session[turn'] = <<>> /\ Used # Pid
       THEN \E p \in Pid \ Used : session' = [session EXCEPT ![turn'] = <<p>>]
       ELSE UNCHANGED session
  /\ UNCHANGED answer

Next == Start \/ Missing \/ Full \/ End \/ Replace \/ TakeTurn

Spec == Init /\ [][Next]_vars
=============================================================================
