------------------------------- MODULE Blink --------------------------------
(***************************************************************************)
(* The blink library of fish: cells of the screen that show two characters *)
(* in turn, each for a number of real-time clock ticks.  The cells are the *)
(* nodes of a linked list, taken from an array whose slots are free while  *)
(* their location is 0.                                                    *)
(***************************************************************************)
EXTENDS Integers, Sequences, SequencesExt, FiniteSetsExt

CONSTANTS
  Char, Blank,  \* characters
  Zero,         \* the character 0
  CELLS,        \* cells of the screen (80*25)
  NSLOTS,       \* elements of blink_array (80*25)
  HALF,         \* half the values of a short (2^15)
  Struct        \* what programs ask to blink

ASSUME BlinkAssumption ==
  /\ CELLS \in Nat /\ NSLOTS \in Nat /\ HALF \in Nat \ {0}
  /\ \A b \in Struct :
       /\ DOMAIN b = {"location", "on_char", "off_char", "on_length", "off_length"}
       /\ b.location \in Nat \ {0}
       /\ {b.on_char, b.off_char} \subseteq Char \cup {Blank}
       /\ {b.on_length, b.off_length} \subseteq 0..(2 * HALF - 1)

NULL == -1
Slot == 0..(NSLOTS - 1)
SHORTS == 2 * HALF

VARIABLES
  blink_array,    \* the slots
  mp1_list_head,  \* the first node's slot, or NULL
  screen,         \* the character each cell shows
  ret             \* the last call, its value and the node it copied out

blinkVars == <<blink_array, mp1_list_head, screen, ret>>

Cleared == [location |-> 0, on_char |-> Zero, off_char |-> Zero, on_length |-> 0,
            off_length |-> 0, countdown |-> 0, status |-> 0, next |-> NULL]

BlinkInit ==
  /\ blink_array = [i \in Slot |-> Cleared]
  /\ mp1_list_head = NULL
  /\ screen = [l \in 0..(CELLS - 1) |-> Blank]
  /\ ret = [call |-> <<"none">>, value |-> 0, found |-> <<>>]

(* At most n slots from p on, along next. *)
RECURSIVE Nodes(_, _)
Nodes(p, n) ==
  IF p = NULL \/ n = 0 THEN <<>> ELSE <<p>> \o Nodes(blink_array[p].next, n - 1)

(* The list: its end is reached within NSLOTS nodes unless it has a cycle, *)
(* which then shows as one node more.                                      *)
List == Nodes(mp1_list_head, NSLOTS + 1)

(* The first node at the location, or NULL. *)
mp1_find_helper(l) ==
  LET k == SelectInSeq(List, LAMBDA i : blink_array[i].location = l)
  IN  IF k = 0 THEN NULL ELSE List[k]

(* Mutant: a slot is taken to be free when its node is the last one. *)
mp1_malloc_ByNext ==
  LET free == {i \in Slot : blink_array[i].next = NULL}
  IN  IF free = {} THEN NULL ELSE Min(free)

(* The first slot whose location is 0, or NULL. *)
mp1_malloc ==
  LET free == {i \in Slot : blink_array[i].location = 0}
  IN  IF free = {} THEN NULL ELSE Min(free)

Return(call, value, found) == ret' = [call |-> call, value |-> value, found |-> found]
Fails(call) == Return(call, -1, <<>>) /\ UNCHANGED <<blink_array, mp1_list_head, screen>>

(* The new node is lit, in front of the list. *)
mp1_ioctl_add(b) ==
  LET call == <<"add", b.location>>
      new == mp1_malloc
  IN  IF b.location >= CELLS \/ new = NULL THEN Fails(call)
      ELSE /\ blink_array' = [blink_array EXCEPT ![new] =
                [location |-> b.location, on_char |-> b.on_char, off_char |-> b.off_char,
                 on_length |-> b.on_length, off_length |-> b.off_length,
                 countdown |-> b.on_length, status |-> 1, next |-> mp1_list_head]]
           /\ mp1_list_head' = new
           /\ screen' = [screen EXCEPT ![b.location] = b.on_char]
           /\ Return(call, 0, <<>>)

(* What pointed to the node points to its successor; its slot is cleared. *)
mp1_ioctl_remove(l) ==
  LET call == <<"remove", l>>
      node == mp1_find_helper(l)
      next == blink_array[node].next
  IN  IF node = NULL THEN Fails(call)
      ELSE /\ IF node = mp1_list_head
                THEN /\ mp1_list_head' = next
                     /\ blink_array' = [blink_array EXCEPT ![node] = Cleared]
                ELSE LET prev == CHOOSE i \in ToSet(List) : blink_array[i].next = node
                     IN  /\ blink_array' = [blink_array EXCEPT ![prev].next = next,
                                                               ![node] = Cleared]
                         /\ UNCHANGED mp1_list_head
           /\ Return(call, 0, <<>>)
           /\ UNCHANGED screen

(* A conditional move that tests a sign, of a value that has none, would  *)
(* choose the on_char: it is the off_char that is shown, lit or not.      *)
mp1_ioctl_sync(from, to) ==
  LET call == <<"sync", from, to>>
      f == mp1_find_helper(from)
      t == mp1_find_helper(to)
  IN  IF f = NULL \/ t = NULL THEN Fails(call)
      ELSE LET src == blink_array[f]
           IN  /\ blink_array' = [blink_array EXCEPT
                    ![t].on_length = src.on_length, ![t].off_length = src.off_length,
                    ![t].countdown = src.countdown, ![t].status = src.status]
               /\ screen' = [screen EXCEPT ![blink_array[t].location] = blink_array[t].off_char]
               /\ Return(call, 0, <<>>)
               /\ UNCHANGED mp1_list_head

mp1_ioctl_find(l) ==
  LET call == <<"find", l>>
      node == mp1_find_helper(l)
  IN  IF node = NULL THEN Fails(call)
      ELSE /\ Return(call, 0, <<blink_array[node]>>)
           /\ UNCHANGED <<blink_array, mp1_list_head, screen>>

Location == {b.location : b \in Struct}

mp1_ioctl ==
  \/ \E b \in Struct : mp1_ioctl_add(b)
  \/ \E l \in Location : mp1_ioctl_remove(l) \/ mp1_ioctl_find(l)
  \/ \E from, to \in Location : mp1_ioctl_sync(from, to)

-----------------------------------------------------------------------------
(* The tasklet, run by the program after each read of the clock. *)

(* A 16-bit value, compared as a signed one with 0. *)
Positive(short) == short \in 1..(HALF - 1)

(* One node: when its countdown is over it shows its other character. *)
Visit(m, i) ==
  LET node == m.array[i]
      countdown == (node.countdown - 1) % SHORTS
      on == node.status % 2 = 1
  IN  IF Positive(countdown)
        THEN [m EXCEPT !.array[i].countdown = countdown]
        ELSE [m EXCEPT
               !.screen[node.location] = IF on THEN node.off_char ELSE node.on_char,
               !.array[i].countdown = IF on THEN node.off_length ELSE node.on_length,
               !.array[i].status = IF on THEN 0 ELSE 1]

mp1_rtc_tasklet ==
  LET after == FoldLeft(Visit, [array |-> blink_array, screen |-> screen], List)
  IN  /\ blink_array' = after.array
      /\ screen' = after.screen
      /\ Return(<<"tick">>, 0, <<>>)
      /\ UNCHANGED mp1_list_head

-----------------------------------------------------------------------------
(* The pile of blinking cells that the list stands for. *)

Cell(node) ==
  LET Ticks(length) == IF length \in 1..HALF THEN length ELSE 1
  IN  [location |-> node.location, on_char |-> node.on_char, off_char |-> node.off_char,
       on_for |-> Ticks(node.on_length), off_for |-> Ticks(node.off_length),
       lit |-> node.status = 1, left |-> Ticks(node.countdown)]

Pile == LET list == List IN [k \in DOMAIN list |-> Cell(blink_array[list[k]])]
Found == [ret EXCEPT !.found = [k \in DOMAIN ret.found |-> Cell(ret.found[k])]]
=============================================================================
