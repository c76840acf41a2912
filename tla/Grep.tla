-------------------------------- MODULE Grep --------------------------------
(***************************************************************************)
(* do_one_file of grep: print the lines of a file that contain a string,   *)
(* through a buffer that is refilled when it ends within a line.  A line's *)
(* end is looked for in data[last] too, which no read has filled.  Files   *)
(* may hold '\0' bytes, as the programs that grep searches too do: strcpy  *)
(* and fdputs stop at them, last and the search do not.                    *)
(***************************************************************************)
EXTENDS Characters, Integers, Sequences, SequencesExt, FiniteSetsExt

CONSTANTS
  BUFSIZE,   \* the buffer's size (1024)
  MaxString, \* bound: the length of the string
  MaxFile    \* bound: the length of a file

ASSUME GrepAssumption ==
  /\ BUFSIZE \in Nat \ {0} /\ MaxString \in Nat /\ MaxFile \in Nat

VARIABLES
  file, s,                     \* the file's bytes and the string
  spare,                       \* what data[BUFSIZE] held at the start
  pos,                         \* the descriptor's position
  data, cnt, last, line_start,
  out,                         \* the lines printed
  grepping                     \* where do_one_file is; "off" if it is not called

grepVars == <<file, s, spare, pos, data, cnt, last, line_start, out, grepping>>

(* data is uninitialised: each byte is a newline or, here, a '\0'. *)
GrepInit(phase) ==
  /\ file \in IF phase = "off" THEN {<<>>} ELSE SeqOf(Char \cup {NL, Nul}, MaxFile)
  /\ s \in IF phase = "off" THEN {<<>>} ELSE SeqOf(Char, MaxString) \ {<<>>}
  /\ data \in [0..BUFSIZE -> IF phase = "off" THEN {Nul} ELSE {NL, Nul}]
  /\ spare = data[BUFSIZE]
  /\ pos = 0 /\ cnt = 0 /\ last = 0 /\ line_start = 0
  /\ out = <<>>
  /\ grepping = phase

(* The read system call on a file: as much as there is and as fits. *)
ece391_read(nbytes) == Min({nbytes, Len(file) - pos})

Read ==
  /\ grepping = "read"
  /\ cnt' = ece391_read(BUFSIZE - last)
  /\ data' = [k \in 0..BUFSIZE |-> IF k \in last..(last + cnt' - 1)
                                     THEN file[pos + k - last + 1] ELSE data[k]]
  /\ pos' = pos + cnt'
  /\ last' = last + cnt'
  /\ line_start' = 0
  /\ grepping' = "line"
  /\ UNCHANGED <<file, s, spare, out>>

(* The first newline from line_start on, or last. *)
line_end == Min({last} \cup {k \in line_start..(last - 1) : data[k] = NL})

(* Mutant: a line that the buffer cuts is never completed. *)
Incomplete_Never == FALSE

(* The buffer ends within the line, and there may be room for more of it. *)
Incomplete == data[line_end] # NL /\ cnt # 0 /\ line_start # 0

(* strcpy of the rest of the line, which a '\0' is put after, to the       *)
(* buffer's start: it stops when it has copied a '\0'.                     *)
Moved ==
  LET ended == [data EXCEPT ![line_end] = Nul]
      nul == Min({k \in line_start..line_end : ended[k] = Nul})
  IN  [k \in 0..BUFSIZE |-> IF k <= nul - line_start THEN ended[line_start + k] ELSE ended[k]]

(* Mutant: the line's beginning is not moved. *)
Shift_NoCopy ==
  /\ data' = [data EXCEPT ![line_end] = Nul]
  /\ last' = last - line_start
  /\ grepping' = "read"
  /\ UNCHANGED <<line_start, out>>

(* The line's beginning goes to the start of the buffer, and is read on. *)
Shift ==
  /\ data' = Moved
  /\ last' = last - line_start
  /\ grepping' = "read"
  /\ UNCHANGED <<line_start, out>>

(* The string is in the line at some place. *)
Matches(line) == \E k \in 1..Len(line) : IsPrefix(s, SubSeq(line, k, Len(line)))

(* What fdputs prints of a line: what stands before its first '\0'. *)
Printed(line) ==
  SubSeq(line, 1, Min({Len(line)} \cup {k - 1 : k \in {j \in DOMAIN line : line[j] = Nul}}))

(* Search the line, and go on to the next, to the next read or to the end. *)
Search ==
  LET line == [k \in 1..(line_end - line_start) |-> data[line_start + k - 1]]
  IN  /\ data' = [data EXCEPT ![line_end] = Nul]
      /\ out' = IF Matches(line) THEN Append(out, Printed(line)) ELSE out
      /\ IF line_end + 1 < last
           THEN line_start' = line_end + 1 /\ UNCHANGED <<last, grepping>>
           ELSE /\ last' = 0
                /\ grepping' = IF cnt = 0 THEN "done" ELSE "read"
                /\ UNCHANGED line_start

Line ==
  /\ grepping = "line"
  /\ IF Incomplete THEN Shift ELSE Search
  /\ UNCHANGED <<file, s, spare, pos, cnt>>

GrepNext == Read \/ Line

-----------------------------------------------------------------------------
(* Properties *)

(* The lines of a text, without their newlines. *)
Lines(text) ==
  LET Add(ls, c) == IF c = NL THEN Append(ls, <<>>)
                    ELSE [ls EXCEPT ![Len(ls)] = Append(@, c)]
  IN  FoldLeft(Add, << <<>> >>, text)

(* The file's lines up to the first that has a '\0': all, if none has. *)
TextLines ==
  LET lines == Lines(file)
      Binary(k) == Nul \in ToSet(lines[k])
  IN  SubSeq(lines, 1, Min({Len(lines)} \cup {k - 1 : k \in {j \in DOMAIN lines : Binary(j)}}))

(***************************************************************************)
(* grep prints the lines that contain the string, whole, once each and in  *)
(* their order, wherever the reads cut them, if each fits in the buffer    *)
(* and the byte after the buffer is not a newline by chance.  In a file    *)
(* with a '\0' that holds for the lines before the first '\0'.             *)
(***************************************************************************)
PrintsMatchingLines ==
  (/\ grepping = "done" /\ spare # NL
   /\ \A k \in DOMAIN TextLines : Len(TextLines[k]) < BUFSIZE)
     => LET found == SelectSeq(TextLines, Matches)
        IN  IF Nul \in ToSet(file) THEN IsPrefix(found, out) ELSE out = found

(***************************************************************************)
(* Also if lines are longer than the buffer, or an uninitialised newline   *)
(* ends one too early, what grep prints until it reads a '\0' is a part of *)
(* one line of the file that contains the string: the buffer never mixes   *)
(* two lines.                                                              *)
(***************************************************************************)
PrintsOnlyParts ==
  Nul \notin ToSet(SubSeq(file, 1, pos)) =>
    \A k \in DOMAIN out :
      /\ Matches(out[k])
      /\ \E j \in DOMAIN Lines(file) : \E from, to \in DOMAIN Lines(file)[j] :
           out[k] = SubSeq(Lines(file)[j], from, to)
=============================================================================
