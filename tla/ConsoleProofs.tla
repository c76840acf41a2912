---------------------------- MODULE ConsoleProofs ---------------------------
(***************************************************************************)
(* What is typed and what is shown: nb_putc, scrolling and the echo of the *)
(* keyboard, for any size of screen and of the line buffer; the scan codes *)
(* and modifiers, for any number of keys held and codes waiting.           *)
(***************************************************************************)
EXTENDS Console, KeyDecode, TLAPS

INSTANCE SequenceTheorems

-----------------------------------------------------------------------------
(* The text on the screen *)

Glyph == Char \cup {Blank, Bar}
ScreenType == [video : [Cell -> Glyph], x : 0..(NUM_COLS - 1), y : 0..(NUM_ROWS - 1)]

(***************************************************************************)
(* A line that only its keys have touched begins below the bar's row, and  *)
(* so never reaches back to it.                                            *)
(***************************************************************************)
EchoInv ==
  /\ scr \in ScreenType
  /\ line \in Seq(Char) /\ Len(line) < KBD_BUF_SIZE
  /\ clean \in BOOLEAN
  /\ clean => At(scr) - Len(line) >= NUM_COLS
  /\ EchoIsLine

-----------------------------------------------------------------------------
(* The grid. *)
LEMMA Product ==
  ASSUME NEW a \in Nat, NEW m \in Int, NEW n \in Int, m <= n
  PROVE  a * m <= a * n
<1>1. n - m \in Nat
  OBVIOUS
<1>2. a * (n - m) >= 0
  BY <1>1
<1>3. a * (n - m) = a * n - a * m
  OBVIOUS
<1>4. a * m \in Int /\ a * n \in Int
  OBVIOUS
<1> QED
  BY <1>2, <1>3, <1>4

Size == NUM_ROWS * NUM_COLS

LEMMA Grid ==
  /\ NUM_COLS \in Nat \ {0} /\ NUM_ROWS \in Nat /\ START_HEIGHT \in Nat
  /\ Size \in Nat /\ START_HEIGHT * NUM_COLS \in Nat
  /\ Cell = 0..(Size - 1)
  /\ (NUM_ROWS - 1) * NUM_COLS = Size - NUM_COLS
  /\ NUM_COLS <= START_HEIGHT * NUM_COLS
  /\ START_HEIGHT * NUM_COLS + 2 * NUM_COLS <= Size
  /\ KBD_BUF_SIZE \in Nat \ {0, 1}
  /\ KBD_BUF_SIZE - 1 <= Size - NUM_COLS - START_HEIGHT * NUM_COLS
  /\ BarCells \in 0..NUM_COLS
<1>1. /\ NUM_COLS \in Nat \ {0} /\ NUM_ROWS \in Nat /\ START_HEIGHT \in Nat
      /\ 1 <= START_HEIGHT /\ START_HEIGHT + 2 <= NUM_ROWS
      /\ KBD_BUF_SIZE \in Nat \ {0, 1} /\ BarCells \in 0..NUM_COLS
  BY ConsoleAssumption
<1>2. Size \in Nat /\ START_HEIGHT * NUM_COLS \in Nat
  BY <1>1 DEF Size
<1>3. (NUM_ROWS - 1) * NUM_COLS = Size - NUM_COLS
  BY <1>1 DEF Size
<1>4. NUM_COLS * 1 <= NUM_COLS * START_HEIGHT
  BY <1>1, Product
<1>5. NUM_COLS * (START_HEIGHT + 2) <= NUM_COLS * NUM_ROWS
  BY <1>1, Product
<1>6. NUM_COLS * (START_HEIGHT + 2) = START_HEIGHT * NUM_COLS + 2 * NUM_COLS
  BY <1>1
<1>7. (NUM_ROWS - 1 - START_HEIGHT) * NUM_COLS = Size - NUM_COLS - START_HEIGHT * NUM_COLS
  BY <1>1 DEF Size
<1>8. NUM_COLS * 1 = NUM_COLS /\ NUM_COLS * START_HEIGHT = START_HEIGHT * NUM_COLS /\ NUM_COLS * NUM_ROWS = Size
  BY <1>1 DEF Size
<1>9. KBD_BUF_SIZE - 1 <= Size - NUM_COLS - START_HEIGHT * NUM_COLS
  BY <1>7, ConsoleAssumption
<1> QED
  BY <1>1, <1>2, <1>3, <1>4, <1>5, <1>6, <1>8, <1>9 DEF Cell, Size

(* The cursor is on a cell, and on the last cell only at the end of the    *)
(* last row.                                                               *)
LEMMA CursorCell ==
  ASSUME NEW x \in 0..(NUM_COLS - 1), NEW y \in 0..(NUM_ROWS - 1)
  PROVE  /\ NUM_COLS * y + x \in Cell
         /\ NUM_COLS * (y + 1) = NUM_COLS * y + NUM_COLS
         /\ NUM_COLS * (y - 1) = NUM_COLS * y - NUM_COLS
         /\ NUM_COLS * y \in Nat
         /\ y < NUM_ROWS - 1 => NUM_COLS * y + x < Size - NUM_COLS
         /\ y = NUM_ROWS - 1 => NUM_COLS * y = Size - NUM_COLS
         /\ y > 0 => NUM_COLS * y >= NUM_COLS
<1>1. NUM_COLS \in Nat \ {0} /\ NUM_ROWS \in Nat /\ x \in Nat /\ y \in Nat /\ Size \in Nat
  BY Grid
<1>2. /\ NUM_COLS * (y + 1) = NUM_COLS * y + NUM_COLS
      /\ NUM_COLS * (y - 1) = NUM_COLS * y - NUM_COLS
      /\ NUM_COLS * y \in Nat
  BY <1>1
<1>3. NUM_COLS * (NUM_ROWS - 1) = Size - NUM_COLS
  BY <1>1 DEF Size
<1>4. NUM_COLS * y <= NUM_COLS * (NUM_ROWS - 1)
  BY <1>1, Product
<1>5. NUM_COLS * y + x \in Cell
  BY <1>1, <1>2, <1>3, <1>4, Grid
<1>6. ASSUME y < NUM_ROWS - 1 PROVE NUM_COLS * y + x < Size - NUM_COLS
  <2>1. NUM_COLS * (y + 1) <= NUM_COLS * (NUM_ROWS - 1)
    BY <1>1, <1>6, Product
  <2> QED  BY <1>1, <1>2, <1>3, <2>1
<1>7. ASSUME y > 0 PROVE NUM_COLS * y >= NUM_COLS
  <2>1. NUM_COLS * 1 <= NUM_COLS * y
    BY <1>1, <1>7, Product
  <2> QED  BY <1>1, <1>2, <2>1
<1> QED
  BY <1>2, <1>3, <1>5, <1>6, <1>7

-----------------------------------------------------------------------------
(* What nb_putc does to a screen. *)

LEMMA ScreenFields ==
  ASSUME NEW v, NEW x, NEW y
  PROVE  /\ Screen(v, x, y).video = v /\ Screen(v, x, y).x = x /\ Screen(v, x, y).y = y
         /\ At(Screen(v, x, y)) = NUM_COLS * y + x
         /\ v \in [Cell -> Glyph] /\ x \in 0..(NUM_COLS - 1) /\ y \in 0..(NUM_ROWS - 1)
              => Screen(v, x, y) \in ScreenType
  BY DEF Screen, At, ScreenType

(* What scrolling does to the cells. *)
Scrolled(v) ==
  [i \in Cell |-> IF i >= (NUM_ROWS - 1) * NUM_COLS THEN Blank
                  ELSE IF i >= START_HEIGHT * NUM_COLS THEN v[i + NUM_COLS]
                  ELSE v[i]]

LEMMA ScrolledCells ==
  ASSUME NEW v \in [Cell -> Glyph]
  PROVE  /\ Scrolled(v) \in [Cell -> Glyph]
         /\ \A i \in Cell : i < START_HEIGHT * NUM_COLS => Scrolled(v)[i] = v[i]
         /\ \A i \in Cell : START_HEIGHT * NUM_COLS <= i /\ i < Size - NUM_COLS
                              => i + NUM_COLS \in Cell /\ Scrolled(v)[i] = v[i + NUM_COLS]
<1> DEFINE top == START_HEIGHT * NUM_COLS
           end == (NUM_ROWS - 1) * NUM_COLS
<1>1. top \in Nat /\ end = Size - NUM_COLS /\ top < end /\ NUM_COLS \in Nat \ {0} /\ Size \in Nat
  BY Grid
<1>2. \A i \in Cell : i \in Nat /\ (i < end => i + NUM_COLS \in Cell)
  BY <1>1, Grid
<1>3. \A i \in Cell : Scrolled(v)[i] = IF i >= end THEN Blank ELSE IF i >= top THEN v[i + NUM_COLS] ELSE v[i]
  BY DEF Scrolled
<1>4. Blank \in Glyph
  BY DEF Glyph
<1> HIDE DEF top, end
<1>5. \A i \in Cell : Scrolled(v)[i] \in Glyph
  <2> TAKE i \in Cell
  <2>1. CASE i >= end
    BY <1>3, <1>4, <2>1
  <2>2. CASE ~(i >= end) /\ i >= top
    BY <1>1, <1>2, <1>3, <2>2
  <2>3. CASE ~(i >= end) /\ ~(i >= top)
    BY <1>3, <2>3
  <2> QED  BY <2>1, <2>2, <2>3
<1>6. Scrolled(v) \in [Cell -> Glyph]
  BY <1>5 DEF Scrolled
<1>7. \A i \in Cell : i < top => Scrolled(v)[i] = v[i]
  BY <1>1, <1>2, <1>3
<1>8. \A i \in Cell : top <= i /\ i < Size - NUM_COLS => i + NUM_COLS \in Cell /\ Scrolled(v)[i] = v[i + NUM_COLS]
  BY <1>1, <1>2, <1>3
<1> QED
  BY <1>6, <1>7, <1>8 DEF top

LEMMA ScrollIs ==
  ASSUME NEW v \in [Cell -> Glyph], NEW x \in 0..(NUM_COLS - 1)
  PROVE  LET r == up_scroll_for_one_line(Screen(v, x, NUM_ROWS))
         IN  r \in ScreenType /\ r.video = Scrolled(v) /\ At(r) = Size - NUM_COLS + x
<1> DEFINE r == up_scroll_for_one_line(Screen(v, x, NUM_ROWS))
<1>1. r = Screen(Scrolled(v), x, NUM_ROWS - 1)
  BY ScreenFields DEF up_scroll_for_one_line, Scrolled
<1>2. Scrolled(v) \in [Cell -> Glyph]
  BY ScrolledCells
<1>3. NUM_ROWS - 1 \in 0..(NUM_ROWS - 1) /\ NUM_COLS * (NUM_ROWS - 1) = Size - NUM_COLS
  BY ConsoleAssumption DEF Size
<1> HIDE DEF r
<1>4. At(r) = NUM_COLS * (NUM_ROWS - 1) + x
  BY <1>1, ScreenFields
<1> QED
  BY <1>1, <1>2, <1>3, <1>4, ScreenFields DEF r

(* A character other than '\n' and '\b' is put under the cursor, which     *)
(* goes one cell on; past the last cell the screen scrolls.                *)
LEMMA PutChar ==
  ASSUME NEW s \in ScreenType, NEW c \in Glyph, c \notin {Newline, Rubout}
  PROVE  LET v == [s.video EXCEPT ![At(s)] = c]
             r == nb_putc(s, c)
         IN  /\ r \in ScreenType
             /\ At(s) \in Cell
             /\ At(s) < Size - 1 => r.video = v /\ At(r) = At(s) + 1
             /\ At(s) = Size - 1 => r.video = Scrolled(v) /\ At(r) = Size - NUM_COLS
<1>1. PICK w \in [Cell -> Glyph], x \in 0..(NUM_COLS - 1), y \in 0..(NUM_ROWS - 1) :
        s = Screen(w, x, y)
  BY DEF ScreenType, Screen
<1> DEFINE p == NUM_COLS * y + x
           v == [w EXCEPT ![p] = c]
           r == nb_putc(s, c)
           wrap == Screen(v, 0, y + 1)
           on == Screen(v, x + 1, y)
<1>2. At(s) = p /\ p \in Cell /\ s.video = w
  BY <1>1, CursorCell, ScreenFields
<1>3. v \in [Cell -> Glyph]
  BY <1>2
<1>4. Place(s, c) = IF x + 1 = NUM_COLS THEN wrap ELSE on
  <2>1. Screen([s.video EXCEPT ![At(s)] = c], s.x + 1, s.y) = on
    BY <1>1, <1>2, ScreenFields
  <2>2. NewLine(on) = wrap /\ on.x = x + 1
    BY ScreenFields DEF NewLine
  <2> QED  BY <2>1, <2>2 DEF Place
<1>5. r = IF Place(s, c).y = NUM_ROWS THEN up_scroll_for_one_line(Place(s, c)) ELSE Place(s, c)
  BY DEF nb_putc
<1>6. NUM_COLS \in Nat \ {0} /\ NUM_ROWS \in Nat /\ Size \in Nat /\ x \in Nat /\ y \in Nat
  BY Grid
<1>7. /\ NUM_COLS * (y + 1) = NUM_COLS * y + NUM_COLS
      /\ NUM_COLS * y \in Nat
      /\ y < NUM_ROWS - 1 => p < Size - NUM_COLS
      /\ y = NUM_ROWS - 1 => NUM_COLS * y = Size - NUM_COLS
  BY CursorCell
<1> HIDE DEF v, r
<1>8. CASE x + 1 # NUM_COLS
  <2>1. r = on
    BY <1>4, <1>5, <1>6, <1>8, ScreenFields
  <2>2. on \in ScreenType /\ on.video = v
    BY <1>3, <1>6, <1>8, ScreenFields
  <2>3. At(on) = p + 1
    BY <1>6, <1>7, ScreenFields
  <2>4. p < Size - 1
    BY <1>6, <1>7, <1>8
  <2> QED  BY <1>2, <1>6, <2>1, <2>2, <2>3, <2>4 DEF r, v
<1>9. CASE x + 1 = NUM_COLS /\ y # NUM_ROWS - 1
  <2>1. r = wrap
    BY <1>4, <1>5, <1>6, <1>9, ScreenFields
  <2>2. wrap \in ScreenType /\ wrap.video = v
    BY <1>3, <1>6, <1>9, ScreenFields
  <2>3. At(wrap) = p + 1
    BY <1>6, <1>7, <1>9, ScreenFields
  <2>4. p < Size - 1
    BY <1>6, <1>7, <1>9
  <2> QED  BY <1>2, <1>6, <2>1, <2>2, <2>3, <2>4 DEF r, v
<1>10. CASE x + 1 = NUM_COLS /\ y = NUM_ROWS - 1
  <2>1. r = up_scroll_for_one_line(Screen(v, 0, NUM_ROWS))
    BY <1>4, <1>5, <1>6, <1>10, ScreenFields
  <2>2. 0 \in 0..(NUM_COLS - 1) /\ Size - NUM_COLS + 0 = Size - NUM_COLS
    BY <1>6
  <2>3. r \in ScreenType /\ r.video = Scrolled(v) /\ At(r) = Size - NUM_COLS
    BY <1>3, <2>1, <2>2, ScrollIs
  <2>4. p = Size - 1
    BY <1>6, <1>7, <1>10
  <2> QED  BY <1>2, <1>6, <2>3, <2>4 DEF r, v
<1> QED
  BY <1>8, <1>9, <1>10

(* '\n' writes no cell above the rows that scroll, and leaves the cursor   *)
(* below the first row.                                                    *)
LEMMA PutNewline ==
  ASSUME NEW s \in ScreenType
  PROVE  LET r == nb_putc(s, Newline)
         IN  /\ r \in ScreenType
             /\ At(r) >= NUM_COLS
             /\ \A i \in Cell : i < START_HEIGHT * NUM_COLS => r.video[i] = s.video[i]
<1>1. PICK w \in [Cell -> Glyph], x \in 0..(NUM_COLS - 1), y \in 0..(NUM_ROWS - 1) :
        s = Screen(w, x, y)
  BY DEF ScreenType, Screen
<1> DEFINE r == nb_putc(s, Newline)
           t == Screen(w, 0, y + 1)
<1>2. NewLine(s) = t
  BY <1>1, ScreenFields DEF NewLine
<1>3. r = IF y + 1 = NUM_ROWS THEN up_scroll_for_one_line(t) ELSE t
  BY <1>2, ConsoleAssumption, ScreenFields DEF nb_putc
<1>4. NUM_COLS \in Nat \ {0} /\ NUM_ROWS \in Nat /\ Size \in Nat /\ y \in Nat /\ 0 \in 0..(NUM_COLS - 1)
  BY Grid
<1> HIDE DEF r
<1>5. CASE y + 1 = NUM_ROWS
  <2>1. r = up_scroll_for_one_line(Screen(w, 0, NUM_ROWS))
    BY <1>3, <1>5
  <2>2. r \in ScreenType /\ r.video = Scrolled(w) /\ At(r) = Size - NUM_COLS + 0
    BY <1>4, <2>1, ScrollIs
  <2>3. Size - NUM_COLS >= NUM_COLS
    BY Grid
  <2> QED  BY <1>1, <1>4, <2>2, <2>3, ScrolledCells, ScreenFields DEF r
<1>6. CASE y + 1 # NUM_ROWS
  <2>1. r = t
    BY <1>3, <1>6
  <2>2. y + 1 \in 0..(NUM_ROWS - 1) /\ y + 1 > 0
    BY <1>4, <1>6
  <2>3. t \in ScreenType
    BY <1>4, <2>2, ScreenFields
  <2>4. NUM_COLS * (y + 1) >= NUM_COLS /\ NUM_COLS * (y + 1) \in Nat
    BY <1>4, <2>2, CursorCell
  <2>5. At(t) >= NUM_COLS
    BY <1>4, <2>4, ScreenFields
  <2> QED  BY <1>1, <2>1, <2>3, <2>5, ScreenFields DEF r
<1> QED
  BY <1>5, <1>6

(* '\b' blanks the cell before the cursor and goes back to it, unless the  *)
(* cursor is on the first cell.                                            *)
LEMMA PutRubout ==
  ASSUME NEW s \in ScreenType
  PROVE  LET r == nb_putc(s, Rubout)
         IN  /\ r \in ScreenType
             /\ At(s) > 0 => At(r) = At(s) - 1 /\ r.video = [s.video EXCEPT ![At(s) - 1] = Blank]
<1>1. PICK w \in [Cell -> Glyph], x \in 0..(NUM_COLS - 1), y \in 0..(NUM_ROWS - 1) :
        s = Screen(w, x, y)
  BY DEF ScreenType, Screen
<1> DEFINE p == NUM_COLS * y + x
           v == [w EXCEPT ![p - 1] = Blank]
           r == nb_putc(s, Rubout)
<1>2. At(s) = p /\ p \in Cell /\ s.video = w /\ s.x = x /\ s.y = y
  BY <1>1, CursorCell, ScreenFields
<1>3. NUM_COLS \in Nat \ {0} /\ NUM_ROWS \in Nat /\ x \in Nat /\ y \in Nat /\ p \in Nat
  BY <1>2, Grid
<1>4. NUM_COLS * (y - 1) = NUM_COLS * y - NUM_COLS /\ NUM_COLS * y \in Nat
  BY CursorCell
<1>5. v \in [Cell -> Glyph]
  BY Zenon DEF Glyph
<1>6. r = Back(s)
  BY DEF nb_putc
<1> HIDE DEF v, r
<1>7. CASE x = 0 /\ y = 0
  <2>1. r = s
    BY <1>2, <1>6, <1>7 DEF Back
  <2>2. p = 0
    BY <1>3, <1>7
  <2> QED  BY <1>2, <2>1, <2>2 DEF r
<1>8. CASE x = 0 /\ y # 0
  <2>1. At(Screen(w, NUM_COLS, y - 1)) = p
    BY <1>3, <1>4, <1>8, ScreenFields
  <2>2. r = Screen(v, NUM_COLS - 1, y - 1)
    <3> DEFINE t == Screen(w, NUM_COLS, y - 1)
    <3>1. r = Screen([w EXCEPT ![At(t) - 1] = Blank], t.x - 1, t.y)
      BY <1>2, <1>6, <1>8 DEF Back
    <3>2. t.x = NUM_COLS /\ t.y = y - 1
      BY ScreenFields
    <3> QED  BY <2>1, <3>1, <3>2, Zenon DEF v
  <2>3. NUM_COLS - 1 \in 0..(NUM_COLS - 1) /\ y - 1 \in 0..(NUM_ROWS - 1)
    BY <1>3, <1>8
  <2>4. r \in ScreenType /\ r.video = v
    BY <1>5, <2>2, <2>3, ScreenFields
  <2>5. At(r) = p - 1
    BY <1>3, <1>4, <1>8, <2>2, ScreenFields
  <2> QED  BY <1>2, <2>4, <2>5 DEF r, v
<1>9. CASE x # 0
  <2>1. r = Screen(v, x - 1, y)
    BY <1>2, <1>6, <1>9, ScreenFields DEF Back, v
  <2>2. x - 1 \in 0..(NUM_COLS - 1)
    BY <1>3, <1>9
  <2>3. r \in ScreenType /\ r.video = v
    BY <1>5, <2>1, <2>2, ScreenFields
  <2>4. At(r) = p - 1
    BY <1>3, <1>4, <2>1, ScreenFields
  <2> QED  BY <1>2, <2>3, <2>4 DEF r, v
<1> QED
  BY <1>7, <1>8, <1>9

-----------------------------------------------------------------------------
(* The invariant. *)
LEMMA InitEchoInv == ConInit => EchoInv
<1> SUFFICES ASSUME ConInit PROVE EchoInv
  OBVIOUS
<1>1. /\ [i \in Cell |-> IF i < BarCells THEN Bar ELSE Blank] \in [Cell -> Glyph]
      /\ 0 \in 0..(NUM_COLS - 1) /\ START_HEIGHT \in 0..(NUM_ROWS - 1)
  BY ConsoleAssumption DEF Glyph
<1>2. scr \in ScreenType /\ At(scr) = NUM_COLS * START_HEIGHT + 0
  BY <1>1, ScreenFields DEF ConInit
<1>3. NUM_COLS * START_HEIGHT = START_HEIGHT * NUM_COLS
  BY Grid
<1>4. At(scr) \in Nat /\ At(scr) >= NUM_COLS
  BY <1>2, <1>3, Grid
<1>5. line \in Seq(Char) /\ Len(line) = 0 /\ clean \in BOOLEAN
  BY DEF ConInit
<1>6. EchoIsLine
  BY <1>5 DEF EchoIsLine
<1> QED
  BY <1>2, <1>4, <1>5, <1>6, Grid DEF EchoInv

(* The text of the line is on the cells from here to the cursor. *)
Start == At(scr) - Len(line)

LEMMA Known ==
  ASSUME EchoInv
  PROVE  /\ scr \in ScreenType /\ At(scr) \in Cell /\ At(scr) \in Nat
         /\ scr.video \in [Cell -> Glyph]
         /\ line \in Seq(Char) /\ Len(line) \in Nat /\ Len(line) < KBD_BUF_SIZE
         /\ Start \in Int
         /\ clean => /\ Start >= NUM_COLS
                     /\ \A i \in 1..Len(line) : scr.video[Start + i - 1] = line[i]
<1>1. scr \in ScreenType
  BY DEF EchoInv
<1>2. PICK w \in [Cell -> Glyph], x \in 0..(NUM_COLS - 1), y \in 0..(NUM_ROWS - 1) :
        scr = Screen(w, x, y)
  BY <1>1 DEF ScreenType, Screen
<1>3. At(scr) \in Cell /\ scr.video \in [Cell -> Glyph]
  BY <1>2, CursorCell, ScreenFields
<1>4. At(scr) \in Nat
  BY <1>3, Grid
<1> QED
  BY <1>1, <1>3, <1>4 DEF EchoInv, Start, EchoIsLine

(* A key is echoed where the line ends, or the echo stops counting. *)
LEMMA PressKeyKeeps ==
  ASSUME EchoInv, NEW c \in Char, PressKey(c)
  PROVE  EchoInv'
<1> DEFINE p == At(scr)
           v == [scr.video EXCEPT ![p] = c]
<1>1. c \in Glyph /\ c \notin {Newline, Rubout}
  BY ConsoleAssumption DEF Glyph
<1>2. /\ scr' \in ScreenType
      /\ p < Size - 1 => scr'.video = v /\ At(scr)' = p + 1
      /\ p = Size - 1 => scr'.video = Scrolled(v) /\ At(scr)' = Size - NUM_COLS
  BY <1>1, Known, PutChar DEF PressKey, At
<1>3. p \in Cell /\ p \in Nat /\ v \in [Cell -> Glyph]
  BY <1>1, Known
<1>4. CASE Len(line) > KBD_BUF_SIZE - 2
  <2>1. clean' = FALSE /\ line' = line
    BY <1>4, Known, Grid DEF PressKey
  <2> QED  BY <1>2, <2>1, Known, Zenon DEF EchoInv, EchoIsLine
<1>5. CASE Len(line) <= KBD_BUF_SIZE - 2
  <2>1. line' = Append(line, c) /\ clean' = clean
    BY <1>5, Known, Grid DEF PressKey
  <2>2. /\ line' \in Seq(Char) /\ Len(line') = Len(line) + 1 /\ line'[Len(line) + 1] = c
        /\ \A i \in 1..Len(line) : line'[i] = line[i]
    BY <2>1, Known, AppendProperties
  <2>3. Len(line') < KBD_BUF_SIZE /\ Len(line) \in Nat
    BY <1>5, <2>2, Known, Grid
  <2>4. ASSUME clean
        PROVE  /\ At(scr)' - Len(line') >= NUM_COLS
               /\ \A i \in 1..Len(line') : scr'.video[At(scr)' - Len(line') + i - 1] = line'[i]
    <3> HIDE DEF p, v
    <3>1. /\ Start = p - Len(line) /\ Start \in Nat /\ Start >= NUM_COLS /\ NUM_COLS \in Nat \ {0}
          /\ \A i \in 1..Len(line) : scr.video[Start + i - 1] = line[i]
      BY <2>4, Known, Grid DEF Start, p
    <3>2. /\ \A i \in 1..Len(line) : Start + i - 1 \in Cell /\ v[Start + i - 1] = line'[i]
          /\ v[Start + Len(line)] = c /\ Start + Len(line) = p
      <4>1. PICK a \in Nat, n \in Nat : a = Start /\ n = Len(line) /\ a = p - n
        BY <2>3, <3>1
      <4>2. \A i \in 1..n : a + i - 1 \in Nat /\ a + i - 1 < p
        BY <1>3, <4>1
      <4>3. \A i \in 1..n : a + i - 1 \in Cell /\ a + i - 1 # p
        BY <1>3, <4>2, Grid
      <4>4. v[p] = c /\ \A j \in Cell : j # p => v[j] = scr.video[j]
        BY <1>3, Known DEF v
      <4>5. \A i \in 1..n : v[a + i - 1] = scr.video[a + i - 1]
        BY <4>3, <4>4, Zenon
      <4>6. a + n = p
        BY <1>3, <4>1
      <4>7. \A i \in 1..n : scr.video[a + i - 1] = line[i] /\ line'[i] = line[i]
        BY <2>2, <3>1, <4>1, Zenon
      <4> QED  BY <4>1, <4>3, <4>4, <4>5, <4>6, <4>7, Zenon
    <3>3. \A i \in 1..Len(line') : v[Start + i - 1] = line'[i] /\ Start + i - 1 \in Cell
      <4> TAKE i \in 1..Len(line')
      <4>1. CASE i \in 1..Len(line)
        BY <3>2, <4>1
      <4>2. CASE i = Len(line) + 1
        BY <1>3, <2>2, <2>3, <3>1, <3>2, <4>2
      <4> QED  BY <2>2, <2>3, <4>1, <4>2
    <3>4. CASE p < Size - 1
      <4>1. scr'.video = v /\ At(scr)' - Len(line') = Start
        BY <1>2, <1>3, <2>2, <2>3, <3>1, <3>4
      <4> QED  BY <3>1, <3>3, <4>1
    <3>5. CASE p = Size - 1
      <4>1. /\ scr'.video = Scrolled(v) /\ At(scr)' = Size - NUM_COLS
            /\ At(scr)' - Len(line') = Start - NUM_COLS
        BY <1>2, <1>3, <2>2, <2>3, <3>1, <3>5, Grid
      <4>2. Start - NUM_COLS >= START_HEIGHT * NUM_COLS
        <5>1. PICK top \in Nat : /\ top = START_HEIGHT * NUM_COLS
                                /\ KBD_BUF_SIZE - 1 <= Size - NUM_COLS - top
          BY Grid
        <5>2. Len(line) + 1 <= KBD_BUF_SIZE - 1 /\ KBD_BUF_SIZE \in Nat /\ Size \in Nat
          BY <2>2, <2>3, Grid
        <5>3. Start = Size - 1 - Len(line) /\ Len(line) \in Nat /\ NUM_COLS \in Nat
          BY <2>2, <3>1, <3>5, Grid
        <5>4. Start - NUM_COLS >= top
          <6> HIDE DEF Start, Size
          <6> QED  BY <5>1, <5>2, <5>3
        <5> QED  BY <5>1, <5>4
      <4>3. ASSUME NEW i \in 1..Len(line')
            PROVE  Scrolled(v)[Start - NUM_COLS + i - 1] = line'[i]
        <5> DEFINE j == Start - NUM_COLS + i - 1
        <5>1. PICK top \in Nat : top = START_HEIGHT * NUM_COLS
          BY Grid, Zenon
        <5>2. j + NUM_COLS = Start + i - 1 /\ j \in Nat /\ top <= j
          <6>1. Start - NUM_COLS >= top
            BY <4>2, <5>1, Zenon
          <6>2. Start \in Nat /\ NUM_COLS \in Nat
            BY <3>1, Zenon
          <6> HIDE DEF Start
          <6> QED  BY <6>1, <6>2
        <5>3. j < Size - NUM_COLS
          <6>1. i <= Len(line) + 1 /\ Len(line) \in Nat
            BY <2>2, <2>3
          <6>2. Start = Size - 1 - Len(line) /\ Size \in Nat /\ NUM_COLS \in Nat
            BY <3>1, <3>5, Grid
          <6> HIDE DEF Start, Size
          <6> QED  BY <6>1, <6>2
        <5>4. j \in Cell
          <6>1. Cell = 0..(Size - 1) /\ Size \in Nat /\ NUM_COLS \in Nat
            BY Grid, Zenon
          <6> HIDE DEF j, Size
          <6> QED  BY <5>2, <5>3, <6>1
        <5> HIDE DEF j
        <5>5. Scrolled(v)[j] = v[j + NUM_COLS]
          BY <1>3, <5>1, <5>2, <5>3, <5>4, ScrolledCells, Zenon
        <5> QED  BY <3>3, <5>2, <5>5 DEF j
      <4>4. Start - NUM_COLS >= NUM_COLS
        <5>1. PICK top \in Nat : top = START_HEIGHT * NUM_COLS /\ NUM_COLS <= top
          BY Grid
        <5> QED  BY <3>1, <4>2, <5>1
      <4> QED  BY <4>1, <4>3, <4>4
    <3>6. p < Size - 1 \/ p = Size - 1
      BY <1>3, Grid
    <3> QED  BY <3>4, <3>5, <3>6
  <2> QED
    BY <1>2, <2>1, <2>2, <2>3, <2>4, Known DEF EchoInv, EchoIsLine
<1> QED
  BY <1>4, <1>5, Known, Grid

(* Enter begins an empty line below the first row. *)
LEMMA EnterKeeps == ASSUME EchoInv, Enter PROVE EchoInv'
<1>1. scr' \in ScreenType /\ At(scr)' >= NUM_COLS
  BY Known, PutNewline DEF Enter, At
<1>2. line' \in Seq(Char) /\ Len(line') = 0 /\ clean' = TRUE
  BY DEF Enter
<1>3. At(scr') \in Nat
  <2>1. PICK w \in [Cell -> Glyph], x \in 0..(NUM_COLS - 1), y \in 0..(NUM_ROWS - 1) :
          scr' = Screen(w, x, y)
    BY <1>1 DEF ScreenType, Screen
  <2>2. At(scr') \in Cell
    BY <2>1, CursorCell, ScreenFields
  <2> QED  BY <2>2, Grid
<1>4. At(scr)' = At(scr')
  BY DEF At
<1>5. EchoIsLine' /\ Len(line') < KBD_BUF_SIZE
  BY <1>2, Grid DEF EchoIsLine
<1>6. At(scr)' - Len(line') >= NUM_COLS
  BY <1>1, <1>2, <1>3, <1>4, Grid
<1> QED
  BY <1>1, <1>2, <1>5, <1>6 DEF EchoInv

(* Backspace takes off the line and the screen the same character. *)
LEMMA BackspaceKeeps ==
  ASSUME EchoInv, Backspace
  PROVE  EchoInv' /\ (clean => At(scr) > NUM_COLS /\ scr'.video = [scr.video EXCEPT ![At(scr) - 1] = Blank])
<1> DEFINE p == At(scr)
<1>1. /\ scr' \in ScreenType
      /\ p > 0 => At(scr)' = p - 1 /\ scr'.video = [scr.video EXCEPT ![p - 1] = Blank]
  BY Known, PutRubout DEF Backspace, At
<1>2. line # <<>> /\ line' = SubSeq(line, 1, Len(line) - 1) /\ clean' = clean
  BY DEF Backspace
<1>3. Len(line) \in Nat \ {0}
  BY <1>2, Known, EmptySeq
<1>4. /\ line' \in Seq(Char) /\ Len(line') = Len(line) - 1
      /\ \A i \in 1..(Len(line) - 1) : line'[i] = line[i]
  <2>1. line \in Seq(Char)
    BY Known
  <2>2. LET t == SubSeq(line, 1, Len(line) - 1)
        IN  /\ t \in Seq(Char) /\ Len(t) = Len(line) - 1
            /\ \A i \in 1..(Len(line) - 1) : t[i] = line[i]
    <3>1. PICK n \in Nat \ {0} : n = Len(line)
      BY <1>3
    <3>2. 1 \in 1..(n + 1) /\ n - 1 \in (1 - 1)..n /\ (n - 1) - 1 + 1 = n - 1
      BY <3>1
    <3> QED  BY <2>1, <3>1, <3>2, SubSeqProperties
  <2> QED  BY <1>2, <2>2, Zenon
<1>5. Len(line') < KBD_BUF_SIZE
  <2>1. Len(line) < KBD_BUF_SIZE
    BY Known
  <2>2. KBD_BUF_SIZE \in Nat
    BY Grid
  <2> QED  BY <1>3, <1>4, <2>1, <2>2
<1>6. ASSUME clean
      PROVE  /\ p > NUM_COLS /\ p > 0 /\ At(scr)' - Len(line') >= NUM_COLS
             /\ \A i \in 1..Len(line') : scr'.video[At(scr)' - Len(line') + i - 1] = line'[i]
  <2>1. /\ p = Start + Len(line) /\ p \in Nat /\ Start \in Nat /\ Start >= NUM_COLS /\ NUM_COLS \in Nat \ {0}
        /\ \A i \in 1..Len(line) : scr.video[Start + i - 1] = line[i]
    BY <1>6, Known, Grid DEF Start
  <2> HIDE DEF p
  <2>2. p > NUM_COLS /\ p > 0
    BY <1>3, <2>1
  <2>3. At(scr)' - Len(line') = Start
    BY <1>1, <1>3, <1>4, <2>1, <2>2
  <2>4. ASSUME NEW i \in 1..Len(line') PROVE scr'.video[Start + i - 1] = line'[i]
    <3>1. Start + i - 1 # p - 1 /\ i \in 1..Len(line) /\ i \in 1..(Len(line) - 1)
      BY <1>3, <1>4, <2>1
    <3>2. Start + i - 1 \in Cell
      BY <1>3, <1>4, <2>1, <3>1, Known, Grid DEF p
    <3> QED  BY <1>1, <1>4, <2>1, <2>2, <3>1, <3>2, Known, Zenon
  <2> QED  BY <2>1, <2>2, <2>3, <2>4
<1> QED
  BY <1>1, <1>2, <1>4, <1>5, <1>6, Known DEF EchoInv, EchoIsLine

(* After a clear an empty line begins below the bar; any other no longer   *)
(* counts.                                                                 *)
LEMMA ClearKeeps == ASSUME EchoInv, clear PROVE EchoInv'
<1> DEFINE v == [i \in Cell |-> IF i < BarCells THEN scr.video[i] ELSE Blank]
<1>1. scr' = Screen(v, 0, START_HEIGHT) /\ clean' = (clean /\ line = <<>>) /\ line' = line
  BY DEF clear
<1>2. v \in [Cell -> Glyph]
  BY Known DEF Glyph
<1> HIDE DEF v
<1>3. scr' \in ScreenType /\ At(scr') = NUM_COLS * START_HEIGHT + 0
  BY <1>1, <1>2, ConsoleAssumption, ScreenFields
<1>4. NUM_COLS * START_HEIGHT = START_HEIGHT * NUM_COLS
  BY Grid
<1>5. At(scr)' \in Nat /\ At(scr)' >= NUM_COLS /\ NUM_COLS \in Nat
  BY <1>3, <1>4, Grid DEF At
<1>6. clean' \in BOOLEAN /\ (clean' => Len(line') = 0)
  BY <1>1, Zenon
<1>7. EchoIsLine'
  BY <1>6 DEF EchoIsLine
<1>8. clean' => At(scr)' - Len(line') >= NUM_COLS
  BY <1>5, <1>6
<1> QED
  BY <1>1, <1>3, <1>6, <1>7, <1>8, Known DEF EchoInv

(* Output leaves no line but an empty one in place. *)
LEMMA WriteKeeps ==
  ASSUME EchoInv, NEW c \in Char \cup {Newline, Rubout, Blank}, Write(c)
  PROVE  EchoInv'
<1>1. scr' = nb_putc(scr, c) /\ clean' = (clean /\ line = <<>> /\ c # Rubout) /\ line' = line
  BY DEF Write
<1>2. clean' \in BOOLEAN /\ (clean' => clean /\ Len(line') = 0 /\ Len(line) = 0 /\ c # Rubout)
  BY <1>1, Zenon
<1>3. /\ scr' \in ScreenType
      /\ clean' => At(scr') \in Nat /\ At(scr') >= NUM_COLS
  <2>1. CASE c = Rubout
    BY <1>1, <1>2, <2>1, Known, PutRubout, Zenon
  <2>2. CASE c = Newline
    <3>1. scr' \in ScreenType /\ At(scr') >= NUM_COLS
      BY <1>1, <2>2, Known, PutNewline
    <3>2. PICK w \in [Cell -> Glyph], x \in 0..(NUM_COLS - 1), y \in 0..(NUM_ROWS - 1) :
            scr' = Screen(w, x, y)
      BY <3>1 DEF ScreenType, Screen
    <3>3. At(scr') \in Cell
      BY <3>2, CursorCell, ScreenFields
    <3> QED  BY <3>1, <3>3, Grid
  <2>3. CASE c \notin {Newline, Rubout}
    <3>1. c \in Glyph
      BY <2>3 DEF Glyph
    <3>2. /\ scr' \in ScreenType
          /\ At(scr) < Size - 1 => At(scr') = At(scr) + 1
          /\ At(scr) = Size - 1 => At(scr') = Size - NUM_COLS
      BY <1>1, <2>3, <3>1, Known, PutChar, Zenon
    <3>3. At(scr) < Size - 1 \/ At(scr) = Size - 1
      <4>1. At(scr) \in 0..(Size - 1) /\ Size \in Nat
        BY Known, Grid
      <4> QED  BY <4>1
    <3>4. clean' => At(scr) \in Nat /\ At(scr) >= NUM_COLS /\ NUM_COLS \in Nat
      BY <1>2, Known, Grid DEF Start
    <3>5. Size - NUM_COLS \in Nat /\ Size - NUM_COLS >= NUM_COLS
      <4>1. PICK top \in Nat : top + 2 * NUM_COLS <= Size
        BY Grid
      <4>2. Size \in Nat /\ NUM_COLS \in Nat
        BY Grid
      <4> QED  BY <4>1, <4>2
    <3> QED  BY <3>2, <3>3, <3>4, <3>5
  <2> QED  BY <2>1, <2>2, <2>3
<1>4. EchoIsLine'
  BY <1>2 DEF EchoIsLine
<1>5. clean' => At(scr)' - Len(line') >= NUM_COLS
  BY <1>2, <1>3, Grid DEF At
<1> QED
  BY <1>1, <1>2, <1>3, <1>4, <1>5, Known DEF EchoInv

LEMMA StepEchoInv == EchoInv /\ [ConNext]_conVars => EchoInv'
<1>1. ASSUME EchoInv, UNCHANGED conVars PROVE EchoInv'
  BY <1>1 DEF conVars, EchoInv, EchoIsLine, At
<1> QED
  BY <1>1, PressKeyKeeps, EnterKeeps, BackspaceKeeps, ClearKeeps, WriteKeeps DEF ConNext, Typing

(* The cursor never leaves the screen, whatever is typed and printed. *)
THEOREM CursorOnScreen == ConSpec => []ConTypeOK
<1>1. EchoInv => ConTypeOK
  BY DEF EchoInv, ConTypeOK, ScreenType, Glyph
<1> QED
  BY <1>1, InitEchoInv, StepEchoInv, PTL DEF ConSpec

(***************************************************************************)
(* On any screen that a whole line fits on, what is before the cursor is   *)
(* the line in the buffer, however it wrapped and scrolled.                *)
(***************************************************************************)
THEOREM EchoShowsLine == ConSpec => []EchoIsLine
<1>1. EchoInv => EchoIsLine
  BY DEF EchoInv
<1> QED
  BY <1>1, InitEchoInv, StepEchoInv, PTL DEF ConSpec

-----------------------------------------------------------------------------
(* The cells of the bar are above those that scroll. *)
LEMMA BarAbove ==
  ASSUME NEW i \in BarCell
  PROVE  i \in Cell /\ i \in Nat /\ i < NUM_COLS /\ i < START_HEIGHT * NUM_COLS
<1>1. i \in Nat /\ i < NUM_COLS
  BY Grid DEF BarCell
<1>2. PICK top \in Nat : top = START_HEIGHT * NUM_COLS /\ NUM_COLS <= top /\ top + 2 * NUM_COLS <= Size
  BY Grid
<1>3. Size \in Nat /\ NUM_COLS \in Nat /\ Cell = 0..(Size - 1)
  BY Grid
<1> QED
  BY <1>1, <1>2, <1>3

(* A character put below the first row leaves the bar alone. *)
LEMMA PutKeepsBar ==
  ASSUME NEW s \in ScreenType, NEW c \in Glyph, c \notin {Newline, Rubout},
         At(s) \in Nat, At(s) >= NUM_COLS, NEW i \in BarCell
  PROVE  nb_putc(s, c).video[i] = s.video[i]
<1> DEFINE v == [s.video EXCEPT ![At(s)] = c]
           r == nb_putc(s, c)
<1>1. i \in Cell /\ i # At(s) /\ i < START_HEIGHT * NUM_COLS
  BY BarAbove, Grid
<1>2. s.video \in [Cell -> Glyph]
  BY DEF ScreenType
<1>3. v \in [Cell -> Glyph] /\ v[i] = s.video[i]
  BY <1>1, <1>2, Zenon
<1>4. /\ At(s) \in Cell
      /\ At(s) < Size - 1 => r.video = v
      /\ At(s) = Size - 1 => r.video = Scrolled(v)
  BY PutChar
<1>5. At(s) < Size - 1 \/ At(s) = Size - 1
  BY <1>4, Grid
<1> HIDE DEF v, r
<1>6. CASE r.video = v
  BY <1>3, <1>6 DEF r
<1>7. CASE r.video = Scrolled(v)
  BY <1>1, <1>3, <1>7, ScrolledCells DEF r
<1> QED
  BY <1>4, <1>5, <1>6, <1>7

LEMMA StepKeepsBar ==
  ASSUME EchoInv, [ConNext]_conVars, clean', NEW i \in BarCell
  PROVE  scr'.video[i] = scr.video[i]
<1>0. clean => At(scr) \in Nat /\ At(scr) >= NUM_COLS
  BY Known, Grid DEF Start
<1>1. ASSUME NEW c \in Char, PressKey(c) PROVE scr'.video[i] = scr.video[i]
  <2>1. clean /\ scr' = nb_putc(scr, c)
    BY <1>1, Zenon DEF PressKey
  <2>2. c \in Glyph /\ c \notin {Newline, Rubout}
    BY ConsoleAssumption DEF Glyph
  <2> QED  BY <1>0, <2>1, <2>2, Known, PutKeepsBar
<1>2. CASE Enter
  BY <1>2, Known, BarAbove, PutNewline DEF Enter
<1>3. CASE Backspace
  <2>1. clean
    BY <1>3 DEF Backspace
  <2>2. At(scr) > NUM_COLS /\ scr'.video = [scr.video EXCEPT ![At(scr) - 1] = Blank]
    BY <1>3, <2>1, BackspaceKeeps
  <2>3. i # At(scr) - 1
    BY <1>0, <2>1, <2>2, BarAbove, Grid
  <2> QED  BY <2>2, <2>3, BarAbove, Known
<1>4. CASE clear
  <2>1. i \in Cell /\ i < BarCells
    BY BarAbove, Grid DEF BarCell
  <2>2. scr'.video = [j \in Cell |-> IF j < BarCells THEN scr.video[j] ELSE Blank]
    BY <1>4, ScreenFields DEF clear
  <2> QED  BY <2>1, <2>2
<1>5. ASSUME NEW c \in Char \cup {Newline, Rubout, Blank}, Write(c) PROVE scr'.video[i] = scr.video[i]
  <2>1. clean /\ c # Rubout /\ scr' = nb_putc(scr, c)
    BY <1>5, Zenon DEF Write
  <2>2. CASE c = Newline
    BY <2>1, <2>2, Known, BarAbove, PutNewline
  <2>3. CASE c # Newline
    <3>1. c \in Glyph
      BY <2>1, <2>3 DEF Glyph
    <3> QED  BY <1>0, <2>1, <2>3, <3>1, Known, PutKeepsBar
  <2> QED  BY <2>2, <2>3
<1>6. CASE UNCHANGED conVars
  BY <1>6 DEF conVars
<1> QED
  BY <1>1, <1>2, <1>3, <1>4, <1>5, <1>6 DEF ConNext, Typing

(***************************************************************************)
(* Typing, rubbing out, scrolling and output never change the bar, as long *)
(* as no clear came between a key and its Backspace and no program writes  *)
(* '\b'.                                                                   *)
(***************************************************************************)
THEOREM BarIsKept == ConSpec => BarKeptWhileClean
<1>1. EchoInv /\ [ConNext]_conVars => [clean' => \A i \in BarCell : scr'.video[i] = scr.video[i]]_conVars
  BY StepKeepsBar
<1> QED
  BY <1>1, InitEchoInv, StepEchoInv, PTL DEF ConSpec, BarKeptWhileClean

-----------------------------------------------------------------------------
(***************************************************************************)
(* The keyboard's codes.  The argument follows the flags through the codes *)
(* that wait: there is one sequence of flags from those the program has,   *)
(* through what each code will make of them, to those of the keys that are *)
(* down now.                                                               *)
(***************************************************************************)

Want == [shift : BOOLEAN, caps : BOOLEAN, ctrl : BOOLEAN, alt : BOOLEAN]
Code == [key : Key, pressed : BOOLEAN, want : Want]
FlagSet == [left : Flag, right : Flag, ctrl : Flag, caps : Flag, alt : Flag]

Typed ==
  /\ TypeOK
  /\ codes \in Seq(Code)

(* The flags, as one value. *)
Now == [left |-> left_shift_flag, right |-> right_shift_flag, ctrl |-> ctrl_flag,
        caps |-> capslock_flag, alt |-> alt_flag]

Bit(b) == IF b THEN 1 ELSE 0

(* What the handler makes of the flags with a code. *)
After(f, c) ==
  [left  |-> IF c.key = "lshift" THEN Bit(c.pressed) ELSE f.left,
   right |-> IF c.key = "rshift" THEN Bit(c.pressed) ELSE f.right,
   ctrl  |-> IF c.key \in CtrlKeys THEN Bit(c.pressed)
             ELSE IF c.key = "letter" /\ c.pressed THEN 0 ELSE f.ctrl,
   caps  |-> IF c.key = "caps" /\ c.pressed THEN 1 - f.caps ELSE f.caps,
   alt   |-> IF c.key \in AltKeys THEN Bit(c.pressed) ELSE f.alt]

(* Flags that agree with what was held when a code was sent. *)
Agree(f, w) ==
  /\ w.shift <=> (f.left = 1 \/ f.right = 1)
  /\ w.caps <=> (f.caps = 1)
  /\ (f.ctrl = 1) => w.ctrl
  /\ (f.alt = 1) => w.alt

(* Flags that agree with the keys that are down. *)
Follow(f, down, lock, over) ==
  /\ (f.left = 1) <=> ("lshift" \in down)
  /\ (f.right = 1) <=> ("rshift" \in down)
  /\ (f.alt = 1) <=> (down \cap AltKeys # {} /\ "alt" \notin over)
  /\ (f.ctrl = 1) <=> (down \cap CtrlKeys # {} /\ "ctrl" \notin over)
  /\ lock <=> (f.caps = 1)

(* The flags before each code and after the last. *)
Through(st) ==
  /\ st \in [1..(Len(codes) + 1) -> FlagSet]
  /\ st[1] = Now
  /\ \A j \in 1..Len(codes) : Agree(st[j], codes[j].want) /\ st[j + 1] = After(st[j], codes[j])
  /\ Follow(st[Len(codes) + 1], held, caps, lapsed)

IInv == Typed /\ KeysAsPressed /\ \E st : Through(st)

-----------------------------------------------------------------------------
(* A code leads from flags to flags. *)
LEMMA AfterType ==
  ASSUME NEW f \in FlagSet, NEW c \in Code
  PROVE  After(f, c) \in FlagSet
BY DEF After, FlagSet, Code, Flag, Bit

(* What the handler did is told by its first element. *)
LEMMA DeedsDiffer ==
  ASSUME NEW x, NEW y, NEW v
  PROVE  /\ <<x>> # <<y, v>>
         /\ <<y, v>> # <<x>>
         /\ x # y => <<x>> # <<y>>
<1>1. Len(<<x>>) = 1 /\ Len(<<y, v>>) = 2
  OBVIOUS
<1>2. <<x>>[1] = x /\ <<y>>[1] = y
  OBVIOUS
<1> QED
  BY <1>1, <1>2

(* A code that types nothing and switches nothing cannot be wrong. *)
LEMMA NothingSaysNothing ==
  ASSUME out = Nothing
  PROVE  KeysAsPressed
<1>1. out.did = <<"nothing">>
  BY DEF Nothing
<1>2. /\ out.did # <<"letter", 0>> /\ out.did # <<"letter", 1>>
      /\ out.did # <<"digit", 0>> /\ out.did # <<"digit", 1>>
  BY <1>1, DeedsDiffer
<1>3. out.did # <<"switch">> /\ out.did # <<"clear">>
  BY <1>1, DeedsDiffer
<1> QED
  BY <1>2, <1>3 DEF KeysAsPressed

(* The same after a step. *)
LEMMA NothingSaysNothingNext ==
  ASSUME out' = Nothing
  PROVE  KeysAsPressed'
<1>1. out'.did = <<"nothing">>
  BY DEF Nothing
<1>2. /\ out'.did # <<"letter", 0>> /\ out'.did # <<"letter", 1>>
      /\ out'.did # <<"digit", 0>> /\ out'.did # <<"digit", 1>>
  BY <1>1, DeedsDiffer
<1>3. out'.did # <<"switch">> /\ out'.did # <<"clear">>
  BY <1>1, DeedsDiffer
<1> QED
  BY <1>2, <1>3 DEF KeysAsPressed

(* Before the first key all flags are clear and nothing is held. *)
LEMMA InitIInv == Init => IInv
<1> SUFFICES ASSUME Init PROVE IInv
  OBVIOUS
<1>1. Typed
  <2>1. codes \in Seq(Code)
    BY DEF Init
  <2>2. TypeOK
    BY Zenon DEF Init, TypeOK, Flag
  <2> QED
    BY <2>1, <2>2 DEF Typed
<1>2. KeysAsPressed
  BY NothingSaysNothing DEF Init
<1>3. Through([j \in 1..1 |-> Now])
  <2>1. Len(codes) = 0 /\ Len(codes) + 1 = 1 /\ 1 \in 1..1
    BY DEF Init
  <2>2. Now \in FlagSet /\ Follow(Now, held, caps, lapsed)
    BY DEF Init, Now, FlagSet, Flag, Follow
  <2> QED
    BY <2>1, <2>2 DEF Through
<1> QED
  BY <1>1, <1>2, <1>3 DEF IInv

(* A code is sent with what is held, and the flags after it follow. *)
LEMMA SendKeeps ==
  ASSUME IInv, NEW k \in Key, NEW pressed \in BOOLEAN, Send(k, pressed),
         held' = IF pressed THEN held \cup {k} ELSE held \ {k},
         caps' = IF k = "caps" /\ pressed THEN ~ caps ELSE caps
  PROVE  IInv'
<1> DEFINE w == [shift |-> held \cap {"lshift", "rshift"} # {}, caps |-> caps,
                 ctrl |-> held \cap CtrlKeys # {}, alt |-> held \cap AltKeys # {}]
           c == [key |-> k, pressed |-> pressed, want |-> w]
           n == Len(codes)
<1>1. PICK st : Through(st)
  BY DEF IInv
<1>2. /\ codes \in Seq(Code) /\ n \in Nat /\ codes' = Append(codes, c)
      /\ held \subseteq Key /\ caps \in BOOLEAN /\ UNCHANGED <<flags, out>>
      /\ lapsed' = LapsedAfter(k, pressed, held')
  BY DEF IInv, Typed, TypeOK, Send
<1>3. w \in Want
  BY <1>2 DEF Want
<1>4. c \in Code
  BY <1>3 DEF Code
<1>5. st[n + 1] \in FlagSet /\ Follow(st[n + 1], held, caps, lapsed)
  BY <1>1, <1>2 DEF Through
<1>6. Agree(st[n + 1], w)
  BY <1>5, Zenon DEF Agree, Follow
<1>7. Follow(After(st[n + 1], c), held', caps', lapsed')
  <2> DEFINE f == st[n + 1]
             g == After(f, c)
  <2>1. /\ g.left = IF k = "lshift" THEN Bit(pressed) ELSE f.left
        /\ g.right = IF k = "rshift" THEN Bit(pressed) ELSE f.right
        /\ g.ctrl = IF k \in CtrlKeys THEN Bit(pressed)
                    ELSE IF k = "letter" /\ pressed THEN 0 ELSE f.ctrl
        /\ g.caps = IF k = "caps" /\ pressed THEN 1 - f.caps ELSE f.caps
        /\ g.alt = IF k \in AltKeys THEN Bit(pressed) ELSE f.alt
    BY Zenon DEF After
  <2>2. f.caps \in {0, 1}
    BY <1>5 DEF FlagSet, Flag
  <2> HIDE DEF g
  <2>3. ((g.left = 1) <=> ("lshift" \in held')) /\ ((g.right = 1) <=> ("rshift" \in held'))
    BY <1>5, <2>1 DEF Follow, Bit
  <2>4. (g.alt = 1) <=> (held' \cap AltKeys # {} /\ "alt" \notin lapsed')
    <3>1. "alt" \in lapsed' <=>
            held' \cap AltKeys # {} /\ IF k \in AltKeys THEN ~ pressed ELSE "alt" \in lapsed
      BY <1>2 DEF LapsedAfter
    <3> QED
      BY <1>5, <2>1, <3>1 DEF Follow, Bit, AltKeys
  <2>5. (g.ctrl = 1) <=> (held' \cap CtrlKeys # {} /\ "ctrl" \notin lapsed')
    <3>1. "ctrl" \in lapsed' <=>
            /\ held' \cap CtrlKeys # {}
            /\ IF k \in CtrlKeys THEN ~ pressed
               ELSE "ctrl" \in lapsed \/ (k = "letter" /\ pressed)
      BY <1>2 DEF LapsedAfter
    <3> QED
      BY <1>5, <2>1, <3>1 DEF Follow, Bit, CtrlKeys
  <2>6. caps' <=> (g.caps = 1)
    <3>1. caps <=> (f.caps = 1)
      BY <1>5 DEF Follow
    <3>2. CASE k = "caps" /\ pressed
      <4>1. (g.caps = 1) <=> ~ (f.caps = 1)
        BY <2>1, <2>2, <3>2
      <4> QED
        BY <3>1, <3>2, <4>1, Zenon
    <3>3. CASE ~ (k = "caps" /\ pressed)
      BY <2>1, <3>1, <3>3, Zenon
    <3> QED
      BY <3>2, <3>3
  <2>7. Follow(g, held', caps', lapsed')
    BY <2>3, <2>4, <2>5, <2>6 DEF Follow
  <2> QED
    BY <2>7 DEF g
<1> HIDE DEF c
<1> PICK new : new = [j \in 1..(n + 2) |-> IF j = n + 2 THEN After(st[n + 1], c) ELSE st[j]]
  BY Zenon
<1>8. /\ Len(codes') = n + 1 /\ codes'[n + 1] = c /\ codes' \in Seq(Code)
      /\ \A j \in 1..n : codes'[j] = codes[j]
  BY <1>2, <1>4
<1>9. /\ Now' = Now /\ held' \subseteq Key /\ caps' \in BOOLEAN
      /\ lapsed' \subseteq {"ctrl", "alt"}
  BY <1>2, Zenon DEF Now, flags, LapsedAfter
<1>10. Through(new)'
  <2>1. After(st[n + 1], c) \in FlagSet
    BY <1>4, <1>5, AfterType
  <2>2. /\ st \in [1..(n + 1) -> FlagSet] /\ st[1] = Now
        /\ \A j \in 1..n : Agree(st[j], codes[j].want) /\ st[j + 1] = After(st[j], codes[j])
    BY <1>1 DEF Through
  <2>3. new \in [1..(n + 2) -> FlagSet] /\ new[1] = Now
    BY <1>2, <2>1, <2>2
  <2>4. new[n + 2] = After(st[n + 1], c) /\ \A j \in 1..(n + 1) : new[j] = st[j]
    BY <1>2, SMTT(30)
  <2>5. c.want = w
    BY DEF c
  <2> HIDE DEF n, w
  <2>6. ASSUME NEW j \in 1..(n + 1)
        PROVE  Agree(new[j], codes'[j].want) /\ new[j + 1] = After(new[j], codes'[j])
    <3>1. CASE j = n + 1
      BY <1>2, <1>6, <1>8, <2>4, <2>5, <3>1
    <3>2. CASE j \in 1..n
      BY <1>2, <1>8, <2>2, <2>4, <3>2
    <3>3. j = n + 1 \/ j \in 1..n
      BY <1>2
    <3> QED
      BY <3>1, <3>2, <3>3
  <2>7. Len(codes') = n + 1 /\ Len(codes') + 1 = n + 2
    BY <1>2, <1>8
  <2>8. Follow(new[n + 2], held', caps', lapsed')
    BY <1>7, <2>4
  <2> QED
    BY <1>9, <2>3, <2>6, <2>7, <2>8, Zenon DEF Through
<1>11. Typed'
  <2>1. /\ left_shift_flag' \in Flag /\ right_shift_flag' \in Flag
        /\ ctrl_flag' \in Flag /\ capslock_flag' \in Flag /\ alt_flag' \in Flag
    BY <1>2, Zenon DEF IInv, Typed, TypeOK, flags
  <2> QED
    BY <1>8, <1>9, <2>1, Zenon DEF Typed, TypeOK
<1>12. KeysAsPressed'
  BY <1>2 DEF IInv, KeysAsPressed
<1> QED
  BY <1>10, <1>11, <1>12 DEF IInv

(* The handler changes the flags as After says. *)
LEMMA HandlerFlags ==
  ASSUME Typed, keyboard_int_handler
  PROVE  Now' = After(Now, Head(codes))
<1> DEFINE c == Head(codes)
<1>1. c \in Code
  BY DEF Typed, keyboard_int_handler
<1>2. c.key \in Key /\ c.pressed \in BOOLEAN
  BY <1>1 DEF Code
<1>3. ctrl_flag \in {0, 1} /\ capslock_flag \in {0, 1}
  BY DEF Typed, TypeOK, Flag
<1>4. \/ check_and_handle_special_button(c.key, c.pressed)
      \/ c.key = "fn" /\ FunctionKey(c.pressed, c.want)
      \/ c.key \in {"letter", "digit"} /\ c.pressed /\ TypeKey(c.key, c.want)
      \/ c.key \in {"letter", "digit"} /\ ~ c.pressed /\ UNCHANGED flags
  BY DEF keyboard_int_handler
<1> SUFFICES Now' = After(Now, c)
  OBVIOUS
<1> HIDE DEF c
<1>5. CASE check_and_handle_special_button(c.key, c.pressed)
  <2>1. CASE c.key \in {"lshift", "rshift"} /\ ShiftKey(c.key, IF c.pressed THEN 1 ELSE 0)
    BY <2>1 DEF ShiftKey, Now, After, Bit, CtrlKeys, AltKeys
  <2>2. CASE c.key \in CtrlKeys /\ CtrlKey(IF c.pressed THEN 1 ELSE 0)
    BY <2>2 DEF CtrlKey, Now, After, Bit, CtrlKeys, AltKeys
  <2>3. CASE c.key \in AltKeys /\ AltKey(IF c.pressed THEN 1 ELSE 0)
    BY <2>3 DEF AltKey, Now, After, Bit, CtrlKeys, AltKeys
  <2>4. CASE c.key = "caps" /\ CapsKey(c.pressed)
    BY <2>4 DEF CapsKey, Now, After, CtrlKeys, AltKeys
  <2> QED
    BY <1>5, <2>1, <2>2, <2>3, <2>4 DEF check_and_handle_special_button
<1>6. CASE c.key = "fn" /\ FunctionKey(c.pressed, c.want)
  BY <1>6 DEF FunctionKey, flags, Now, After, CtrlKeys, AltKeys
<1>7. CASE c.key \in {"letter", "digit"} /\ c.pressed /\ TypeKey(c.key, c.want)
  BY <1>3, <1>7, Zenon DEF TypeKey, flags, Now, After, CtrlKeys, AltKeys
<1>8. CASE c.key \in {"letter", "digit"} /\ ~ c.pressed /\ UNCHANGED flags
  BY <1>8 DEF flags, Now, After, CtrlKeys, AltKeys
<1> QED
  BY <1>4, <1>5, <1>6, <1>7, <1>8

(* A key is typed as the keys were when it was pressed. *)
LEMMA TypedAsPressed ==
  ASSUME Typed, NEW k \in {"letter", "digit"}, NEW w \in Want, Agree(Now, w), TypeKey(k, w)
  PROVE  KeysAsPressed'
<1>1. /\ w.shift <=> (left_shift_flag = 1 \/ right_shift_flag = 1)
      /\ w.caps <=> (capslock_flag = 1)
      /\ (ctrl_flag = 1) => w.ctrl
  BY DEF Agree, Now
<1>2. CASE ctrl_flag = 1 /\ k = "letter"
  <2>1. out' = [did |-> <<"clear">>, want |-> w]
    BY <1>2 DEF TypeKey
  <2>2. out'.did = <<"clear">> /\ out'.want = w
    BY <2>1
  <2>3. /\ out'.did # <<"letter", 0>> /\ out'.did # <<"letter", 1>>
        /\ out'.did # <<"digit", 0>> /\ out'.did # <<"digit", 1>>
        /\ out'.did # <<"switch">>
    BY <2>2, DeedsDiffer
  <2> QED
    BY <1>1, <1>2, <2>2, <2>3 DEF KeysAsPressed
<1>3. CASE ~ (ctrl_flag = 1 /\ k = "letter")
  <2>1. out' = [did |-> <<k, Column(k)>>, want |-> w]
    BY <1>3 DEF TypeKey
  <2>2. out'.did = <<k, Column(k)>> /\ out'.want = w
    BY <2>1
  <2>3. out'.did # <<"switch">> /\ out'.did # <<"clear">>
    BY <2>2, DeedsDiffer
  <2>4. \A y, v : out'.did = <<y, v>> => k = y /\ Column(k) = v
    BY <2>2
  <2>5. out'.did = <<"letter", 0>> => (w.shift <=> w.caps)
    <3>1. SUFFICES ASSUME k = "letter", Column(k) = 0 PROVE w.shift <=> w.caps
      BY <2>4
    <3>2. (left_shift_flag = 1 \/ right_shift_flag = 1) <=> (capslock_flag = 1)
      BY <3>1 DEF Column
    <3> QED
      BY <1>1, <3>2, Zenon
  <2>6. out'.did = <<"letter", 1>> => (w.shift <=> ~ w.caps)
    <3>1. SUFFICES ASSUME k = "letter", Column(k) = 1 PROVE w.shift <=> ~ w.caps
      BY <2>4
    <3>2. (left_shift_flag = 1 \/ right_shift_flag = 1) <=> ~ (capslock_flag = 1)
      BY <3>1 DEF Column
    <3> QED
      BY <1>1, <3>2, Zenon
  <2>7. out'.did = <<"digit", 0>> => ~ w.shift
    <3>1. SUFFICES ASSUME k = "digit", Column(k) = 0 PROVE ~ w.shift
      BY <2>4
    <3>2. ~ (left_shift_flag = 1 \/ right_shift_flag = 1)
      BY <3>1 DEF Column
    <3> QED
      BY <1>1, <3>2, Zenon
  <2>8. out'.did = <<"digit", 1>> => w.shift
    <3>1. SUFFICES ASSUME k = "digit", Column(k) = 1 PROVE w.shift
      BY <2>4
    <3>2. left_shift_flag = 1 \/ right_shift_flag = 1
      BY <3>1 DEF Column
    <3> QED
      BY <1>1, <3>2, Zenon
  <2> QED
    BY <2>2, <2>3, <2>5, <2>6, <2>7, <2>8, Zenon DEF KeysAsPressed
<1> QED
  BY <1>2, <1>3

(* The handler takes the first code, and the flags move one code on. *)
LEMMA HandlerKeeps ==
  ASSUME IInv, keyboard_int_handler
  PROVE  IInv'
<1> DEFINE c == Head(codes)
           n == Len(codes)
<1>1. PICK st : Through(st)
  BY DEF IInv
<1>2. /\ codes \in Seq(Code) /\ codes # <<>> /\ n \in Nat \ {0} /\ c \in Code /\ c = codes[1]
      /\ codes' = Tail(codes) /\ UNCHANGED <<held, last, caps, lapsed>>
  BY DEF IInv, Typed, keyboard_int_handler
<1>3. /\ codes' \in Seq(Code) /\ Len(codes') = n - 1
      /\ \A j \in 1..(n - 1) : codes'[j] = codes[j + 1]
  BY <1>2
<1>4. /\ st \in [1..(n + 1) -> FlagSet] /\ st[1] = Now
      /\ \A j \in 1..n : Agree(st[j], codes[j].want) /\ st[j + 1] = After(st[j], codes[j])
      /\ Follow(st[n + 1], held, caps, lapsed)
  BY <1>1 DEF Through
<1>5. Now' = After(Now, c)
  BY HandlerFlags DEF IInv
<1>6. Agree(Now, c.want) /\ st[2] = Now'
  BY <1>2, <1>4, <1>5
<1>7. Now' \in FlagSet
  BY <1>2, <1>4, <1>6, SMTT(30)
<1>8. Typed'
  <2>1. Now'.left = left_shift_flag' /\ Now'.right = right_shift_flag' /\ Now'.ctrl = ctrl_flag'
        /\ Now'.caps = capslock_flag' /\ Now'.alt = alt_flag'
    BY DEF Now
  <2> QED
    BY <1>2, <1>3, <1>7, <2>1 DEF IInv, Typed, TypeOK, FlagSet
<1>9. KeysAsPressed'
  <2> HIDE DEF c
  <2>1. c.want \in Want /\ Typed
    BY <1>2 DEF Code, IInv
  <2>2. \/ out' = Nothing
        \/ c.key = "fn" /\ FunctionKey(c.pressed, c.want)
        \/ c.key \in {"letter", "digit"} /\ TypeKey(c.key, c.want)
    BY DEF keyboard_int_handler, c
  <2>3. CASE out' = Nothing
    BY <2>3, NothingSaysNothingNext
  <2>4. CASE c.key = "fn" /\ FunctionKey(c.pressed, c.want)
    <3>1. CASE ~ (c.pressed /\ alt_flag = 1)
      BY <2>4, <3>1, NothingSaysNothingNext DEF FunctionKey
    <3>2. CASE c.pressed /\ alt_flag = 1
      <4>1. out' = [did |-> <<"switch">>, want |-> c.want]
        BY <2>4, <3>2 DEF FunctionKey
      <4>2. out'.did = <<"switch">> /\ out'.want = c.want
        BY <4>1
      <4>3. /\ out'.did # <<"letter", 0>> /\ out'.did # <<"letter", 1>>
            /\ out'.did # <<"digit", 0>> /\ out'.did # <<"digit", 1>>
            /\ out'.did # <<"clear">>
        BY <4>2, DeedsDiffer
      <4>4. c.want.alt
        BY <1>6, <3>2 DEF Agree, Now
      <4> QED
        BY <4>2, <4>3, <4>4, Zenon DEF KeysAsPressed
    <3> QED
      BY <3>1, <3>2
  <2>5. CASE c.key \in {"letter", "digit"} /\ TypeKey(c.key, c.want)
    BY <1>6, <2>1, <2>5, TypedAsPressed
  <2> QED
    BY <2>2, <2>3, <2>4, <2>5
<1> PICK new : new = [j \in 1..n |-> st[j + 1]]
  BY Zenon
<1>10. Through(new)'
  <2> HIDE DEF n, c
  <2>1. new \in [1..n -> FlagSet] /\ new[1] = Now'
    BY <1>2, <1>4, <1>6
  <2>2. \A j \in 1..n : new[j] = st[j + 1]
    OBVIOUS
  <2>3. ASSUME NEW j \in 1..(n - 1)
        PROVE  Agree(new[j], codes'[j].want) /\ new[j + 1] = After(new[j], codes'[j])
    <3>1. j \in 1..n /\ j + 1 \in 1..n
      BY <1>2
    <3> QED
      BY <1>3, <1>4, <2>2, <3>1
  <2>4. Follow(new[n], held', caps', lapsed')
    BY <1>2, <1>4, <2>2
  <2>5. (n - 1) + 1 = n
    BY <1>2
  <2> QED
    BY <1>3, <2>1, <2>3, <2>4, <2>5, Zenon DEF Through
<1> QED
  BY <1>8, <1>9, <1>10 DEF IInv

(* Every press, release and interrupt keeps IInv. *)
LEMMA StepIInv == IInv /\ [Next]_vars => IInv'
<1> SUFFICES ASSUME IInv, [Next]_vars PROVE IInv'
  OBVIOUS
<1>1. ASSUME NEW k \in Key, Press(k) PROVE IInv'
  <2>1. /\ held' = held \cup {k} /\ Send(k, TRUE)
        /\ caps' = IF k = "caps" THEN ~ caps ELSE caps
    BY <1>1, Zenon DEF Press
  <2> QED
    BY <2>1, SendKeeps, Zenon
<1>2. ASSUME NEW k \in Key, Release(k) PROVE IInv'
  <2>1. held' = held \ {k} /\ Send(k, FALSE) /\ caps' = caps
    BY <1>2, Zenon DEF Release
  <2> QED
    BY <2>1, SendKeeps, Zenon
<1>3. CASE keyboard_int_handler
  BY <1>3, HandlerKeeps
<1>4. CASE UNCHANGED vars
  <2>1. PICK st : Through(st)
    BY DEF IInv
  <2>2. Through(st)'
    BY <1>4, <2>1 DEF Through, vars, flags, Now
  <2> QED
    BY <1>4, <2>2 DEF IInv, Typed, TypeOK, KeysAsPressed, vars, flags
<1> QED
  BY <1>1, <1>2, <1>3, <1>4 DEF Next

(***************************************************************************)
(* Whatever number of keys is held and of codes waits, once the handler    *)
(* has caught up with the keyboard the flags of Shift, Ctrl and Alt are    *)
(* set just while a key of theirs is down, Ctrl and Alt but for the two    *)
(* cases in which the handler gives them up: one of both keys is released, *)
(* or L is pressed with Ctrl.                                              *)
(***************************************************************************)
THEOREM ModifiersFollowKeys == Spec => []FlagsFollowKeys
<1>1. IInv => FlagsFollowKeys
  <2> SUFFICES ASSUME IInv, codes = <<>> PROVE FlagsFollowKeys
    BY DEF FlagsFollowKeys
  <2>1. PICK st : Through(st)
    BY DEF IInv
  <2>2. Len(codes) + 1 = 1
    OBVIOUS
  <2>3. Follow(Now, held, caps, lapsed)
    BY <2>1, <2>2 DEF Through
  <2> QED
    BY <2>3 DEF Follow, Now, FlagsFollowKeys
<1> QED
  BY <1>1, InitIInv, StepIInv, PTL DEF Spec

(***************************************************************************)
(* However late the handler comes to a code, it types, clears or switches  *)
(* as the keys were when the code was sent.                                *)
(***************************************************************************)
THEOREM CodesMeanWhatWasHeld == Spec => []KeysAsPressed
<1>1. IInv => KeysAsPressed
  BY DEF IInv
<1> QED
  BY <1>1, InitIInv, StepIInv, PTL DEF Spec
=============================================================================
