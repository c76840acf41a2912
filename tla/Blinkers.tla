------------------------------ MODULE Blinkers ------------------------------
(***************************************************************************)
(* What the blink library of fish promises, without its heap and its list  *)
(* pointers: a pile of blinking cells, newest first, that each tick        *)
(* advances.  A cell shows its two characters in turn, each for its own    *)
(* number of ticks.                                                        *)
(***************************************************************************)
EXTENDS Integers, Sequences, SequencesExt, FiniteSetsExt

CONSTANTS
  Char, Blank,  \* characters
  CELLS,        \* cells of the screen (80*25)
  NSLOTS,       \* cells that can blink at a time (80*25)
  HALF,         \* half the values of a length (2^15)
  Struct        \* the requests: location, the characters and their lengths

VARIABLES
  pile,    \* the blinking cells, newest first
  screen,  \* what each cell of the screen shows
  ret      \* the last call, its value and what it found

(* A length's ticks: the countdown is signed, and decremented before it is  *)
(* looked at, so that 2^15 is a length and what is above it lasts one tick. *)
Ticks(length) == IF length \in 1..HALF THEN length ELSE 1

(* The places in the pile of a location, and the newest of them. *)
At(l) == LET p == pile IN {k \in DOMAIN p : p[k].location = l}
Newest(l) == Min(At(l))

Ok(call) == [call |-> call, value |-> 0, found |-> <<>>]
Failed(call) == [call |-> call, value |-> -1, found |-> <<>>]

Init ==
  /\ pile = <<>>
  /\ screen = [l \in 0..(CELLS - 1) |-> Blank]
  /\ ret = Ok(<<"none">>)

Add(b) ==
  /\ ret' = Ok(<<"add", b.location>>)
  /\ b.location < CELLS /\ Len(pile) < NSLOTS
  /\ pile' = <<[location |-> b.location, on_char |-> b.on_char, off_char |-> b.off_char,
                on_for |-> Ticks(b.on_length), off_for |-> Ticks(b.off_length),
                lit |-> TRUE, left |-> Ticks(b.on_length)]>> \o pile
  /\ screen' = [screen EXCEPT ![b.location] = b.on_char]

Discard(l) ==
  /\ ret' = Ok(<<"remove", l>>)
  /\ At(l) # {}
  /\ pile' = RemoveAt(pile, Newest(l))
  /\ UNCHANGED screen

Find(l) ==
  /\ ret'.call = <<"find", l>>
  /\ At(l) # {}
  /\ ret' = [Ok(<<"find", l>>) EXCEPT !.found = <<pile[Newest(l)]>>]
  /\ UNCHANGED <<pile, screen>>

(* The cell takes the other's lengths and phase, and shows its off_char. *)
Sync(from, to) ==
  /\ ret' = Ok(<<"sync", from, to>>)
  /\ At(from) # {} /\ At(to) # {}
  /\ LET old == pile
         f == old[Newest(from)]
         k == Newest(to)
     IN  /\ pile' = [old EXCEPT ![k].on_for = f.on_for, ![k].off_for = f.off_for,
                                ![k].left = f.left, ![k].lit = f.lit]
         /\ screen' = [screen EXCEPT ![to] = old[k].off_char]

(* A call, of any location, fails only for want of room or of the location. *)
Fail ==
  LET call == ret'.call
  IN  /\ ret' = Failed(call)
      /\ CASE call[1] = "add" -> call[2] >= CELLS \/ Len(pile) >= NSLOTS
           [] OTHER -> \E k \in 2..Len(call) : At(call[k]) = {}
      /\ UNCHANGED <<pile, screen>>

(* Every cell of the pile loses a tick, and shows its other character when *)
(* it was the last; of two at one location the older is what is seen.      *)
Tick ==
  LET old == pile
      Turns == {k \in DOMAIN old : old[k].left = 1}
      Turned(k) == [old[k] EXCEPT !.lit = ~@,
                                  !.left = IF old[k].lit THEN old[k].off_for ELSE old[k].on_for]
      Other(k) == IF old[k].lit THEN old[k].off_char ELSE old[k].on_char
      Seen(l) == {k \in Turns : old[k].location = l}
  IN  /\ ret' = Ok(<<"tick">>)
      /\ pile' = [k \in DOMAIN old |-> IF k \in Turns THEN Turned(k)
                                       ELSE [old[k] EXCEPT !.left = @ - 1]]
      /\ screen' = [l \in DOMAIN screen |-> IF Seen(l) = {} THEN screen[l]
                                             ELSE Other(Max(Seen(l)))]

(* A tick, or the call whose value ret becomes. *)
Next ==
  LET op == ret'.call[1]
      arg(k) == ret'.call[k + 1]
  IN  \/ op = "tick" /\ Tick
      \/ op = "remove" /\ Discard(arg(1))
      \/ op = "find" /\ Find(arg(1))
      \/ op = "sync" /\ Sync(arg(1), arg(2))
      \/ op = "add" /\ \E b \in Struct : Add(b)
      \/ Fail

Spec == Init /\ [][Next]_<<pile, screen, ret>>
=============================================================================
