----------------------------- MODULE Characters ------------------------------
(* The characters that programs and the kernel tell apart in a text. *)

CONSTANTS
  Char,            \* characters other than the following
  Blank, NL, Nul   \* the blank, the newline and '\0'

ASSUME CharactersAssumption ==
  /\ Blank # NL /\ Blank # Nul /\ NL # Nul
  /\ Char \cap {Blank, NL, Nul} = {}
=============================================================================
