----------------------------- MODULE ParseArgs ------------------------------
(***************************************************************************)
(* execute's command line: parse_args, the copy of the arguments into the  *)
(* PCB, and getargs (syscall_handler.c).  parse_args counts the characters *)
(* of the line but skips blanks without counting them, so it goes on past  *)
(* the line's end: what follows the line in memory is part of the model,   *)
(* as is the part of the args array that memset does not clear.            *)
(***************************************************************************)
EXTENDS Characters, Integers, Sequences, SequencesExt

CONSTANTS
  ARG_LEN,    \* the size of args (128)
  CLEARED,    \* how much of it memset clears (50)
  MaxLine,    \* bound: the length of a command line
  Beyond      \* bound: how much of the memory after it is arbitrary

ASSUME ParseArgsAssumption ==
  /\ ARG_LEN \in Nat /\ CLEARED \in 0..ARG_LEN
  /\ MaxLine \in Nat /\ MaxLine <= ARG_LEN /\ Beyond \in Nat

VARIABLES
  input,        \* the command line
  memory,       \* what comes after its terminating '\0'
  user_input,   \* the pointer, as an index into the line, from 1
  i, length, flag,
  fname, args,  \* parsed_fname and the array of parsed_args
  n,            \* how many characters were stored through parsed_args
  pcb_args,     \* args of the new PCB
  parsing       \* where parse_args is; "off" if it is not called

parseVars == <<input, memory, user_input, i, length, flag, fname, args, n, pcb_args, parsing>>

Index == 0..(ARG_LEN - 1)

ParseInit(phase) ==
  /\ input \in IF phase = "off" THEN {<<>>} ELSE SeqOf(Char \cup {Blank}, MaxLine)
  /\ memory \in [1..Beyond -> IF phase = "off" THEN {Nul} ELSE Char \cup {Blank, Nul}]
  /\ user_input = 1 /\ i = 0 /\ length = 0 /\ flag = 0
  /\ fname = <<>>
  /\ \E junk \in IF phase = "off" THEN {Nul} ELSE Char \cup {Nul} :
       args = [k \in Index |-> IF k < CLEARED THEN Nul ELSE junk]
  /\ n = 0
  /\ pcb_args = [k \in Index |-> Nul]
  /\ parsing = phase

(* The character at a place of the line, or after it. *)
At(p) ==
  IF p <= Len(input) THEN input[p]
  ELSE IF p = Len(input) + 1 \/ p - Len(input) - 1 > Beyond THEN Nul
  ELSE memory[p - Len(input) - 1]

RECURSIVE SkipBlanks(_)
SkipBlanks(p) == IF At(p) = Blank THEN SkipBlanks(p + 1) ELSE p

(* Blanks before the name are skipped, and the rest is measured. *)
Start ==
  /\ parsing = "start"
  /\ user_input' = SkipBlanks(1)
  /\ length' = Len(input) + 1 - SkipBlanks(1)
  /\ parsing' = "loop"
  /\ UNCHANGED <<input, memory, i, flag, fname, args, n, pcb_args>>

(* A character of the name, or the blank that ends it. *)
NameChar ==
  IF At(user_input) # Blank
    THEN fname' = Append(fname, At(user_input)) /\ user_input' = user_input + 1
         /\ UNCHANGED flag
    ELSE flag' = 1 /\ UNCHANGED <<fname, user_input>>

(* Mutant: blanks are not skipped. *)
ArgChar_KeepsBlanks ==
  /\ args' = [args EXCEPT ![n] = At(user_input)]
  /\ n' = n + 1
  /\ user_input' = user_input + 1

(* Blanks are skipped, and one character is stored. *)
ArgChar ==
  LET p == SkipBlanks(user_input)
  IN  /\ args' = [args EXCEPT ![n] = At(p)]
      /\ n' = n + 1
      /\ user_input' = p + 1

Loop ==
  /\ parsing = "loop"
  /\ i < length
  /\ IF flag = 0 THEN NameChar /\ UNCHANGED <<args, n>>
                 ELSE ArgChar /\ UNCHANGED <<flag, fname>>
  /\ i' = i + 1
  /\ UNCHANGED <<input, memory, length, pcb_args, parsing>>

(* The characters of an array up to the first '\0'. *)
String(a) ==
  LET end == CHOOSE e \in 0..ARG_LEN : /\ e < ARG_LEN => a[e] = Nul
                                       /\ \A k \in 0..(e - 1) : a[k] # Nul
  IN  [k \in 1..end |-> a[k - 1]]

(* strncpy of the arguments into the PCB: the string, padded with '\0'. *)
Store ==
  /\ parsing = "loop"
  /\ i >= length
  /\ pcb_args' = [k \in Index |-> IF k < Len(String(args)) THEN args[k] ELSE Nul]
  /\ parsing' = "done"
  /\ UNCHANGED <<input, memory, user_input, i, length, flag, fname, args, n>>

ParseNext == Start \/ Loop \/ Store

(* nbytes of the array and, beyond its end, of the PCB's next fields. *)
Copied(nbytes, behind) ==
  [k \in 1..nbytes |-> IF k <= ARG_LEN THEN pcb_args[k - 1] ELSE behind]

(* Mutant: no arguments is not an error. *)
syscall_getargs_NoCheck(buf, nbytes, behind) ==
  IF nbytes < 0 \/ buf = "NULL" THEN [ret |-> -1, buf |-> <<>>]
  ELSE [ret |-> 0, buf |-> Copied(nbytes, behind)]

(* getargs: the first nbytes of the array, which may be more than it has;  *)
(* behind is what the bytes after it are.                                  *)
syscall_getargs(buf, nbytes, behind) ==
  IF nbytes < 0 \/ buf = "NULL" \/ pcb_args[0] = Nul THEN [ret |-> -1, buf |-> <<>>]
  ELSE [ret |-> 0, buf |-> Copied(nbytes, behind)]

-----------------------------------------------------------------------------
(* Properties *)

NotBlank(c) == c # Blank

(* The place of the line's first character that is not a blank, and of the *)
(* first blank after it.                                                   *)
WordStart == CHOOSE k \in 1..(Len(input) + 1) :
               /\ k <= Len(input) => NotBlank(input[k])
               /\ \A j \in 1..(k - 1) : ~ NotBlank(input[j])
WordEnd == CHOOSE k \in WordStart..(Len(input) + 1) :
             /\ k <= Len(input) => ~ NotBlank(input[k])
             /\ \A j \in WordStart..(k - 1) : NotBlank(input[j])

Word == SubSeq(input, WordStart, WordEnd - 1)
Rest == SelectSeq(SubSeq(input, WordEnd, Len(input)), NotBlank)

(***************************************************************************)
(* The name is the line's first word and the arguments are the other words *)
(* without their blanks, whatever comes after the line in memory, as long  *)
(* as they are shorter than the part of args that memset clears.           *)
(***************************************************************************)
ParsedRight ==
  parsing = "done" =>
    /\ fname = Word
    /\ Len(Rest) < CLEARED => String(pcb_args) = Rest

(***************************************************************************)
(* getargs gives the program the arguments' string, ended by '\0' when the *)
(* program's buffer has room for it, also if the program asks for more     *)
(* than the array has (cat and grep ask for 1024), and fails if the line   *)
(* held no arguments, even when blanks followed the name, if the buffer is *)
(* NULL or the length negative.                                            *)
(***************************************************************************)
GetargsGives ==
  (parsing = "done" /\ Len(Rest) < CLEARED) =>
    \A buf \in {"NULL", "buf"}, nbytes \in -1..(ARG_LEN + 1), behind \in Char \cup {Nul} :
      LET got == syscall_getargs(buf, nbytes, behind)
      IN  IF Rest = <<>> \/ buf = "NULL" \/ nbytes < 0 THEN got.ret = -1
          ELSE /\ got.ret = 0 /\ Len(got.buf) = nbytes
               /\ \A k \in 1..nbytes : k <= Len(Rest) => got.buf[k] = Rest[k]
               /\ nbytes > Len(Rest) => got.buf[Len(Rest) + 1] = Nul
=============================================================================
