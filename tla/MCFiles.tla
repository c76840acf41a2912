------------------------------ MODULE MCFiles -------------------------------
(* Images of the file system for Files and Programs. *)
EXTENDS Programs, TLC

Entry(key, type, inode, len) == [key |-> key, type |-> type, inode |-> inode, len |-> len]

MCName == {[key |-> k, long |-> FALSE] : k \in {"dot", "text", "rtc", "absent"}}
            \cup {[key |-> "text", long |-> TRUE]}

MCDot == [key |-> "dot", long |-> FALSE]
MCAbsent == [key |-> "absent", long |-> FALSE]

(* The directory, a file that ends within its third block, the clock, and  *)
(* a file that fills its block.                                            *)
MCFilesTable ==
  << Entry("dot", 1, 0, 1), Entry("text", 2, 1, 4),
     Entry("rtc", 0, 0, 3), Entry("pair", 2, 2, 4) >>

MCInodes ==
  0 :> [length |-> 0, blocks |-> [j \in 0..3 |-> 0]]
  @@ 1 :> [length |-> 5, blocks |-> [j \in 0..3 |-> IF j < 3 THEN 3 - j ELSE 0]]
  @@ 2 :> [length |-> 2, blocks |-> [j \in 0..3 |-> IF j < 1 THEN 4 ELSE 0]]
=============================================================================
