------------------------------- MODULE MCFish -------------------------------
(***************************************************************************)
(* An instance of Fish: shorts of two bits, a screen of five cells in rows *)
(* of two, three slots, and frames of at most three characters.            *)
(***************************************************************************)
EXTENDS Fish

CONSTANTS a, b

Request(l, on, off, n, m) ==
  [location |-> l, on_char |-> on, off_char |-> off, on_length |-> n, off_length |-> m]

(* The lengths 1 and 2^15, and the two kinds that last one tick only. *)
MCStruct == {Request(1, a, b, 1, HALF), Request(2, b, a, HALF + 1, 0)}
MCExtra == Request(4, b, a, HALF + 1, 1)
MCText == SeqOf({a, Blank, NL}, 3)
=============================================================================
