------------------------------ MODULE Console -------------------------------
(***************************************************************************)
(* Text output of one terminal: nb_putc, scrolling, clear (lib.c), and the *)
(* keyboard's echo (keyboard.c), with the line being typed.  The first row *)
(* begins with the terminal's bar, which scrolling and clear leave alone.  *)
(* Where the text is in memory, and which terminal is on the monitor, is   *)
(* the matter of Video.                                                    *)
(***************************************************************************)
EXTENDS Integers, Sequences

CONSTANTS
  NUM_COLS, NUM_ROWS,   \* 80 and 25
  START_HEIGHT,         \* the first row that scrolls (1)
  BarCells,             \* the cells that clear spares (30)
  KBD_BUF_SIZE,         \* 128
  Char, Newline, Rubout,
  Blank, Bar            \* a cell's contents when it has no character

(* A whole line fits on the rows that scroll, but for the last of them. *)
ASSUME ConsoleAssumption ==
  /\ NUM_COLS \in Nat \ {0} /\ NUM_ROWS \in Nat
  /\ START_HEIGHT \in 1..(NUM_ROWS - 2)
  /\ BarCells \in 0..NUM_COLS
  /\ KBD_BUF_SIZE \in Nat \ {0, 1}
  /\ KBD_BUF_SIZE - 1 <= (NUM_ROWS - 1 - START_HEIGHT) * NUM_COLS
  /\ Newline \notin Char /\ Rubout \notin Char \cup {Newline}
  /\ Blank \notin {Newline, Rubout}

Cell == 0..(NUM_ROWS * NUM_COLS - 1)

VARIABLES
  scr,    \* video_mem, and the x and y of the cursor
  line,   \* the characters in the line buffer: the first buf_pos
  clean   \* nothing but the line's keys has touched the screen since it began

conVars == <<scr, line, clean>>

Screen(video, x, y) == [video |-> video, x |-> x, y |-> y]

At(s) == NUM_COLS * s.y + s.x

(* The type invariant: the cursor never leaves the screen. *)
ConTypeOK ==
  /\ scr.video \in [Cell -> Char \cup {Blank, Bar}]
  /\ scr.x \in 0..(NUM_COLS - 1)
  /\ scr.y \in 0..(NUM_ROWS - 1)
  /\ line \in Seq(Char) /\ Len(line) < KBD_BUF_SIZE
  /\ clean \in BOOLEAN

(* The bar has been printed, and the cursor is below it. *)
ConInit ==
  /\ scr = Screen([i \in Cell |-> IF i < BarCells THEN Bar ELSE Blank], 0, START_HEIGHT)
  /\ line = <<>>
  /\ clean = TRUE

(* Mutant: the bar scrolls with the text. *)
up_scroll_for_one_line_All(s) ==
  Screen([i \in Cell |-> IF i >= (NUM_ROWS - 1) * NUM_COLS THEN Blank
                         ELSE s.video[i + NUM_COLS]],
         s.x, s.y - 1)

up_scroll_for_one_line(s) ==
  Screen([i \in Cell |-> IF i >= (NUM_ROWS - 1) * NUM_COLS THEN Blank
                         ELSE IF i >= START_HEIGHT * NUM_COLS THEN s.video[i + NUM_COLS]
                         ELSE s.video[i]],
         s.x, s.y - 1)

(* Mutant: a Backspace at the left edge stays on its row. *)
Back_SameRow(s) ==
  LET t == IF s.x = 0 THEN Screen(s.video, NUM_COLS, s.y) ELSE s
  IN  IF s.x = 0 /\ s.y = 0 THEN s
      ELSE Screen([s.video EXCEPT ![At(t) - 1] = Blank], t.x - 1, t.y)

Back(s) ==
  LET t == IF s.x = 0 THEN Screen(s.video, NUM_COLS, s.y - 1) ELSE s
  IN  IF s.x = 0 /\ s.y = 0 THEN s
      ELSE Screen([s.video EXCEPT ![At(t) - 1] = Blank], t.x - 1, t.y)

NewLine(s) == Screen(s.video, 0, s.y + 1)

(* Mutant: a full row is not noticed until the next character. *)
Place_LateWrap(s, c) ==
  LET t == Screen([s.video EXCEPT ![At(s)] = c], s.x + 1, s.y)
  IN  IF s.x = NUM_COLS THEN NewLine(t) ELSE t

Place(s, c) ==
  LET t == Screen([s.video EXCEPT ![At(s)] = c], s.x + 1, s.y)
  IN  IF t.x = NUM_COLS THEN NewLine(t) ELSE t

(* A '\0' is put as a blank. *)
nb_putc(s, c) ==
  IF c = Rubout THEN Back(s)
  ELSE LET t == IF c = Newline THEN NewLine(s) ELSE Place(s, c)
       IN  IF t.y = NUM_ROWS THEN up_scroll_for_one_line(t) ELSE t

-----------------------------------------------------------------------------
(* A key is echoed, and stored if there is room before the last place. *)
PressKey(c) ==
  /\ scr' = nb_putc(scr, c)
  /\ IF Len(line) <= KBD_BUF_SIZE - 2
       THEN line' = Append(line, c) /\ UNCHANGED clean
       ELSE clean' = FALSE /\ UNCHANGED line

Enter ==
  /\ scr' = nb_putc(scr, Newline)
  /\ line' = <<>>
  /\ clean' = TRUE

Backspace ==
  /\ line # <<>>
  /\ scr' = nb_putc(scr, Rubout)
  /\ line' = SubSeq(line, 1, Len(line) - 1)
  /\ UNCHANGED clean

(* Ctrl + l *)
clear ==
  /\ scr' = Screen([i \in Cell |-> IF i < BarCells THEN scr.video[i] ELSE Blank], 0, START_HEIGHT)
  /\ clean' = (clean /\ line = <<>>)
  /\ UNCHANGED line

(* A program's terminal_write, a character at a time. *)
Write(c) ==
  /\ scr' = nb_putc(scr, c)
  /\ clean' = (clean /\ line = <<>> /\ c # Rubout)
  /\ UNCHANGED line

Typing ==
  \/ \E c \in Char : PressKey(c)
  \/ Enter
  \/ Backspace
  \/ clear

ConNext ==
  \/ Typing
  \/ \E c \in Char \cup {Newline, Rubout, Blank} : Write(c)

ConSpec == ConInit /\ [][ConNext]_conVars

-----------------------------------------------------------------------------
(* Properties *)

(***************************************************************************)
(* While only the keys of a line have touched the screen since it began,   *)
(* the text before the cursor is the line in the buffer, however the       *)
(* typing and rubbing out wrapped and scrolled: what the user sees is what *)
(* the program will read.                                                  *)
(***************************************************************************)
EchoIsLine ==
  clean => \A i \in 1..Len(line) : scr.video[At(scr) - Len(line) + i - 1] = line[i]

BarCell == 0..(BarCells - 1)

(***************************************************************************)
(* Typing, rubbing out, scrolling and output never change the bar, as long *)
(* as no clear came between a key and its Backspace and no program writes  *)
(* '\b'.                                                                   *)
(***************************************************************************)
BarKeptWhileClean ==
  [][clean' => \A i \in BarCell : scr'.video[i] = scr.video[i]]_conVars
=============================================================================
