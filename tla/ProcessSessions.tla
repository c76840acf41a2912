--------------------------- MODULE ProcessSessions ---------------------------
(***************************************************************************)
(* The process component implements Sessions: the session of a terminal is *)
(* read off the parent_pid chain that starts at the terminal's process.    *)
(***************************************************************************)
EXTENDS Process, Sequences

(* The chain that ends in p, from the base shell, by the parents given;    *)
(* cut off if it is longer than the pool, which a cycle would make it.     *)
Chain(parent, p) ==
  LET C[n \in 0..MAX_NUM_PROCESS] ==
        [q \in Pid \cup {None} |->
           IF n = 0 \/ q = None THEN <<>> ELSE Append(C[n - 1][parent[q]], q)]
  IN  C[MAX_NUM_PROCESS][p]

SessionsRead == [t \in Tid |-> Chain(parent_pid, Leaf(t))]

S == INSTANCE Sessions WITH
       session <- SessionsRead,
       turn <- running_term,
       answer <- exec_ret.eax

(***************************************************************************)
(* Every execute, halt and tick is a step of Sessions: the parent_pid      *)
(* links, cur_pid and term_arr[].pid always make one disjoint stack of     *)
(* programs per terminal, and execute returns -1 without starting a        *)
(* program, 0 without one only if every pid is taken, and otherwise the    *)
(* status of the program above its caller, 256 after an exception.         *)
(***************************************************************************)
RefinesSessions == S!Spec
=============================================================================
