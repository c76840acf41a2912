----------------------------- MODULE LibMemory ------------------------------
(***************************************************************************)
(* The memory functions of lib.c: memset, memset_word, memset_dword,       *)
(* memcpy and memmove.  They move bytes up to the first aligned address,   *)
(* double words from there and the bytes that are left, with the string    *)
(* instructions of the processor, whose direction flag outlives a call:    *)
(* memmove sets it and does not clear it again.                            *)
(***************************************************************************)
EXTENDS Integers, FiniteSetsExt

CONSTANTS
  Size,     \* bound: the window of memory the calls work on
  Fill,     \* the byte that memset stores; another value than the window's
  MaxCalls  \* bound: how many calls are made

VARIABLES
  mem,   \* the bytes of the window
  df,    \* the step of string instructions: 1, or -1 if the flag is set
  call,  \* the last call
  calls  \* how many calls were made

memVars == <<mem, df, call, calls>>

Addr == 0..(Size - 1)
Calls == [f : {"memset", "memset_word", "memset_dword"}, dest : Addr, src : {0}, n : 0..Size]
           \cup [f : {"memcpy", "memmove"}, dest : Addr, src : Addr, n : 0..Size]

(* No call is made if all that may be were made already. *)
MemInit(made) == mem = [a \in Addr |-> a] /\ df = 1 /\ call = <<>> /\ calls = made

-----------------------------------------------------------------------------
(* rep stos of n elements of w bytes: the bytes that it fills. *)
Stos(edi, w, n, d) == {edi + d * w * k + b : k \in 0..(n - 1), b \in 0..(w - 1)}

Filled(m, bytes) == [a \in Addr |-> IF a \in bytes THEN Fill ELSE m[a]]

(* rep movs of n elements of w bytes, one after the other. *)
RECURSIVE Movs(_, _, _, _, _, _)
Movs(m, edi, esi, w, n, d) ==
  IF n = 0 THEN [mem |-> m, edi |-> edi, esi |-> esi]
  ELSE Movs([a \in Addr |-> IF a \in edi..(edi + w - 1) /\ esi + a - edi \in Addr
                              THEN m[esi + a - edi] ELSE m[a]],
            edi + d * w, esi + d * w, w, n - 1, d)

(* The bytes before the first aligned address. *)
Unaligned(dest, n) == Min({n, (4 - (dest % 4)) % 4})

memset(m, s, n) ==
  LET head == Unaligned(s, n)
      ecx  == (n - head) \div 4
  IN  Filled(m, Stos(s, 1, head, 1) \cup Stos(s + head, 4, ecx, 1)
                  \cup Stos(s + head + 4 * ecx, 1, (n - head) % 4, 1))

memset_word(m, s, n) == Filled(m, Stos(s, 2, n, 1))
memset_dword(m, s, n) == Filled(m, Stos(s, 4, n, 1))

(* Mutant: the direction flag is not cleared. *)
memcpy_NoCld(m, dest, src, n, d) ==
  LET r1 == Movs(m, dest, src, 1, Unaligned(dest, n), 1)
      left == n - Unaligned(dest, n)
      r2 == Movs(r1.mem, r1.edi, r1.esi, 4, left \div 4, d)
  IN  Movs(r2.mem, r2.edi, r2.esi, 1, left % 4, 1).mem

(* d is the direction flag at the call, which cld makes 1. *)
memcpy(m, dest, src, n, d) ==
  LET r1 == Movs(m, dest, src, 1, Unaligned(dest, n), 1)
      left == n - Unaligned(dest, n)
      r2 == Movs(r1.mem, r1.edi, r1.esi, 4, left \div 4, 1)
  IN  Movs(r2.mem, r2.edi, r2.esi, 1, left % 4, 1).mem

memmove(m, dest, src, n) ==
  IF src >= dest THEN Movs(m, dest, src, 1, n, 1).mem
                 ELSE Movs(m, dest + n - 1, src + n - 1, 1, n, -1).mem

(* What a call leaves in memory and in the direction flag.  memset goes    *)
(* through cld only if it gets to an aligned address with bytes left.      *)
Call(c) ==
  CASE c.f = "memset" -> /\ mem' = memset(mem, c.dest, c.n)
                         /\ df' = IF Unaligned(c.dest, c.n) < c.n THEN 1 ELSE df
    [] c.f = "memset_word" -> mem' = memset_word(mem, c.dest, c.n) /\ df' = 1
    [] c.f = "memset_dword" -> mem' = memset_dword(mem, c.dest, c.n) /\ df' = 1
    [] c.f = "memcpy" -> /\ mem' = memcpy(mem, c.dest, c.src, c.n, df)
                         /\ df' = IF Unaligned(c.dest, c.n) < c.n THEN 1 ELSE df
    [] c.f = "memmove" -> /\ mem' = memmove(mem, c.dest, c.src, c.n)
                          /\ df' = IF c.src >= c.dest THEN 1 ELSE -1

Width(f) == CASE f = "memset_word" -> 2 [] f = "memset_dword" -> 4 [] OTHER -> 1

MemNext ==
  /\ calls < MaxCalls
  /\ calls' = calls + 1
  /\ \E c \in Calls :
       /\ c.dest + Width(c.f) * c.n <= Size /\ c.src + c.n <= Size
       /\ Call(c)
       /\ call' = c

-----------------------------------------------------------------------------
(* The "Function" lines of lib.c's comments: what is where after a call.   *)
(* n counts locations, of 16 bits for memset_word and of 32 for            *)
(* memset_dword; the "Inputs" lines of these two call it a number of bytes *)
(* (lib.c:502 and 522), which rep stosw and rep stosl do not follow.       *)
Promised(c) ==
  [a \in Addr |->
     IF a \notin c.dest..(c.dest + Width(c.f) * c.n - 1) THEN mem[a]
     ELSE IF c.f \in {"memcpy", "memmove"} THEN mem[c.src + a - c.dest]
     ELSE Fill]

(***************************************************************************)
(* Every call sets or copies just the n locations it was asked for (bytes, *)
(* words for memset_word, double words for memset_dword), at any alignment *)
(* and length, whichever calls came before it, though memmove leaves the   *)
(* direction flag set.  For memcpy this holds too if the areas overlap and *)
(* the destination is the lower one.                                       *)
(***************************************************************************)
CallsDoAsPromised ==
  [][ \/ calls' = calls
      \/ /\ call'.f = "memcpy"
         /\ call'.dest \in (call'.src + 1)..(call'.src + call'.n - 1)
      \/ mem' = Promised(call') ]_memVars
=============================================================================
