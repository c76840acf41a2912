-------------------------------- MODULE Fish --------------------------------
(***************************************************************************)
(* fish: add_frames walks two text files side by side, and lets every      *)
(* place where one of them has a character blink between the two; main     *)
(* then runs the tasklet, adds one cell, synchronises it with the fish's   *)
(* first cell and removes it.  The program "any" makes whatever calls of   *)
(* the blink library it likes.                                             *)
(***************************************************************************)
EXTENDS Blink

CONSTANTS
  NL,         \* the newline
  COLS,       \* columns of a row (80)
  OFFSET,     \* where the fish starts (40)
  LENGTH,     \* ticks of each frame (15)
  EXTRA,      \* the cell main adds (location 6*80+60, 7 and 6 ticks)
  WAIT,       \* ticks between main's calls (100)
  Text        \* the texts that a frame may be

ASSUME FishAssumption ==
  /\ NL \notin Char \cup {Blank, Zero} /\ Blank \notin Char
  /\ OFFSET \in Nat \ {0} /\ COLS \in Nat \ {0} /\ WAIT \in Nat
  /\ \A t \in Text : t \in Seq(Char \cup {Blank, NL})

VARIABLES
  prog,        \* the program: "fish" or "any"
  frame,       \* the two files
  fd,          \* per file: whether it is open, and its position
  c, eof,      \* c0 and c1, eof0 and eof1
  row, col,
  at,          \* where main is
  i            \* main's loop counter

MaxFrame == Max({Len(t) : t \in Text})

walkVars == <<frame, fd, c, eof, row, col>>
fishVars == <<blinkVars, prog, walkVars, at, i>>

Two == {0, 1}

FishInit ==
  /\ BlinkInit
  /\ prog \in {"fish", "any"}
  /\ frame \in IF prog = "fish" THEN [Two -> Text]
               ELSE [Two -> {<<>>}]
  /\ fd = [f \in Two |-> [open |-> FALSE, pos |-> 0]]
  /\ c = [f \in Two |-> Zero] /\ eof = [f \in Two |-> FALSE]
  /\ row = 0 /\ col = 0
  /\ at = "open" /\ i = 0

(* The frames are opened one after the other; a missing one halts fish. *)
Open ==
  /\ prog = "fish" /\ at = "open"
  /\ \E there \in SUBSET Two :
       /\ fd' = [f \in Two |-> [open |-> 0..f \subseteq there, pos |-> 0]]
       /\ at' = IF there = Two THEN "column" ELSE "done"
  /\ UNCHANGED <<prog, blinkVars, frame, c, eof, row, col, i>>

(* A read of one byte, at the end none, from a closed file nothing at all. *)
ece391_read(f) ==
  IF ~fd[f].open THEN -1 ELSE IF fd[f].pos < Len(frame[f]) THEN 1 ELSE 0

(* The next column's character of a file whose row has not ended. *)
NextChar(f) ==
  IF c[f] = NL \/ ece391_read(f) = -1 THEN c[f]
  ELSE IF ece391_read(f) = 0 THEN NL ELSE frame[f][fd[f].pos + 1]

Column ==
  /\ prog = "fish" /\ at = "column"
  /\ c' = [f \in Two |-> NextChar(f)]
  /\ fd' = [f \in Two |-> IF c[f] # NL /\ ece391_read(f) = 1
                            THEN [fd[f] EXCEPT !.pos = @ + 1] ELSE fd[f]]
  /\ eof' = [f \in Two |-> eof[f] \/ (c[f] # NL /\ ece391_read(f) = 0)]
  /\ IF \A f \in Two : c'[f] = NL
       THEN at' = "row" /\ UNCHANGED <<col, blinkVars>>
       ELSE LET shown == [f \in Two |-> IF c'[f] = NL THEN Blank ELSE c'[f]]
            IN  /\ IF \E f \in Two : shown[f] # Blank
                     THEN mp1_ioctl_add([location |-> row * COLS + col + OFFSET,
                                         on_char |-> shown[0], off_char |-> shown[1],
                                         on_length |-> LENGTH, off_length |-> LENGTH])
                     ELSE UNCHANGED blinkVars
                /\ col' = col + 1
                /\ UNCHANGED at
  /\ UNCHANGED <<prog, frame, row, i>>

(* Mutant: the walk ends with the shorter frame. *)
EndRow_Shorter ==
  /\ prog = "fish" /\ at = "row"
  /\ c' = [f \in Two |-> IF eof[f] THEN NL ELSE Zero]
  /\ fd' = [f \in Two |-> [fd[f] EXCEPT !.open = @ /\ ~eof[f]]]
  /\ row' = row + 1 /\ col' = 0
  /\ at' = IF \E f \in Two : eof[f] THEN "wait1" ELSE "column"
  /\ UNCHANGED <<prog, blinkVars, frame, eof, i>>

(* A file that has ended is closed, and stays at a newline. *)
EndRow ==
  /\ prog = "fish" /\ at = "row"
  /\ c' = [f \in Two |-> IF eof[f] THEN NL ELSE Zero]
  /\ fd' = [f \in Two |-> [fd[f] EXCEPT !.open = @ /\ ~eof[f]]]
  /\ row' = row + 1 /\ col' = 0
  /\ at' = IF \A f \in Two : eof[f] THEN "wait1" ELSE "column"
  /\ UNCHANGED <<prog, blinkVars, frame, eof, i>>

(* One of main's loops: WAIT times a tick, then the call that follows. *)
Loop(here, call, next) ==
  /\ prog = "fish" /\ at = here
  /\ IF i < WAIT THEN mp1_rtc_tasklet /\ i' = i + 1 /\ UNCHANGED at
     ELSE call /\ i' = 0 /\ at' = next
  /\ UNCHANGED <<prog, walkVars>>

main ==
  \/ Loop("wait1", mp1_ioctl_add(EXTRA), "wait2")
  \/ Loop("wait2", mp1_ioctl_sync(OFFSET, EXTRA.location), "wait3")
  \/ Loop("wait3", mp1_ioctl_remove(EXTRA.location), "wait4")
  \/ Loop("wait4", UNCHANGED blinkVars, "done")

AnyCall ==
  /\ prog = "any"
  /\ mp1_ioctl \/ mp1_rtc_tasklet
  /\ UNCHANGED <<prog, walkVars, at, i>>

FishNext == Open \/ Column \/ EndRow \/ main \/ AnyCall

FishSpec == FishInit /\ [][FishNext]_fishVars

-----------------------------------------------------------------------------
(* Properties *)

(* The characters of the frames. *)
Drawn == {Blank} \cup (UNION {ToSet(t) : t \in Text} \ {NL})

(* What fish asks to blink, and what other programs do. *)
Requests ==
  Struct \cup {EXTRA}
    \cup [location : OFFSET..(OFFSET + (MaxFrame - 1) * COLS),
          on_char : Drawn, off_char : Drawn,
          on_length : {LENGTH}, off_length : {LENGTH}]

B == INSTANCE Blinkers WITH pile <- Pile, ret <- Found, Struct <- Requests

(***************************************************************************)
(* The slots, the list's pointers and the signed countdowns implement a    *)
(* pile of blinking cells: no call or tick loses, doubles or mixes up a    *)
(* cell, a removed cell's slot can be used again, and a call fails only if *)
(* all slots are blinking or the location is not to be found.              *)
(***************************************************************************)
RefinesBlinkers == B!Spec

(* The rows of a file, without their newlines. *)
Rows(file) ==
  FoldLeft(LAMBDA rows, ch : IF ch = NL THEN Append(rows, <<>>)
                             ELSE [rows EXCEPT ![Len(rows)] = Append(@, ch)],
           << <<>> >>, file)

(* A file's character at a place, blank where it has none. *)
CharAt(f, r, k) ==
  LET rows == Rows(frame[f])
  IN  IF r \in DOMAIN rows /\ k \in DOMAIN rows[r] THEN rows[r][k] ELSE Blank

(* The places, row by row, where one of the frames has a character. *)
Places ==
  LET all == [n \in 1..((MaxFrame + 1) * MaxFrame) |->
                <<((n - 1) \div MaxFrame) + 1, ((n - 1) % MaxFrame) + 1>>]
  IN  SelectSeq(all, LAMBDA p : \E f \in Two : CharAt(f, p[1], p[2]) # Blank)

(***************************************************************************)
(* After add_frames the list has one node for each place where one of the  *)
(* frames has a character, with both frames' characters, last place first: *)
(* rows of different lengths and a frame that ends before the other shift  *)
(* nothing.  Places below the screen's end, and those for which no slot is *)
(* left, are dropped.                                                      *)
(***************************************************************************)
FramesAdded ==
  (prog = "fish" /\ at = "wait1" /\ i = 0) =>
    LET wanted == [k \in DOMAIN Places |->
                     [location |-> (Places[k][1] - 1) * COLS + Places[k][2] - 1 + OFFSET,
                      on_char |-> CharAt(0, Places[k][1], Places[k][2]),
                      off_char |-> CharAt(1, Places[k][1], Places[k][2])]]
        shown == SelectSeq(wanted, LAMBDA w : w.location < CELLS)
        kept == SubSeq(shown, 1, Min({NSLOTS, Len(shown)}))
    IN  Reverse(kept) = [k \in DOMAIN List |->
                           [location |-> blink_array[List[k]].location,
                            on_char |-> blink_array[List[k]].on_char,
                            off_char |-> blink_array[List[k]].off_char]]
=============================================================================
