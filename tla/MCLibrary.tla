----------------------------- MODULE MCLibrary ------------------------------
(***************************************************************************)
(* The algorithms on memory and text, one in each behaviour: the parsing   *)
(* of a command line, grep's search of a file, calls of the memory         *)
(* functions, and a call of printf.                                        *)
(***************************************************************************)
EXTENDS ParseArgs, Grep, LibMemory, LibPrintf

Init ==
  \/ ParseInit("start") /\ GrepInit("off") /\ MemInit(MaxCalls) /\ PrintfInit(FALSE)
  \/ ParseInit("off") /\ GrepInit("read") /\ MemInit(MaxCalls) /\ PrintfInit(FALSE)
  \/ ParseInit("off") /\ GrepInit("off") /\ MemInit(0) /\ PrintfInit(FALSE)
  \/ ParseInit("off") /\ GrepInit("off") /\ MemInit(MaxCalls) /\ PrintfInit(TRUE)

Next ==
  \/ ParseNext /\ UNCHANGED <<grepVars, memVars, items, word>>
  \/ GrepNext /\ UNCHANGED <<parseVars, memVars, items, word>>
  \/ MemNext /\ UNCHANGED <<parseVars, grepVars, items, word>>

Spec == Init /\ [][Next]_<<parseVars, grepVars, memVars, items, word>>
=============================================================================
