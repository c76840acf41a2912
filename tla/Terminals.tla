----------------------------- MODULE Terminals ------------------------------
(* What the modules about several terminals share: how many there are, and *)
(* the one whose program the processor runs.                               *)
EXTENDS Integers

CONSTANT TERM_NUM    \* the length of term_arr (3)

Tid == 0..(TERM_NUM - 1)

VARIABLE running     \* running_term_ptr->tid
=============================================================================
