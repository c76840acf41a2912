----------------------------- MODULE KeyDecode ------------------------------
(***************************************************************************)
(* How scan codes become characters, Ctrl+L and terminal switches          *)
(* (keyboard_int_handler and check_and_handle_special_button in            *)
(* keyboard.c).  The keyboard sends a code for every press, repeat and     *)
(* release; codes wait until the handler takes them.  With each press goes *)
(* what the user held at that moment, which the program never sees.        *)
(*                                                                         *)
(* Keys stand for their kind: "letter" is the L key, "digit" any key that  *)
(* Caps Lock does not change, "fn" one of F1 to F3.  The right Ctrl and    *)
(* Alt keys send the left ones' codes after a prefix, 0xE0, that falls     *)
(* outside the table, so the program cannot tell the two apart.  Left out  *)
(* are the cursor keys, around which a keyboard may send codes of Shift    *)
(* after the prefix.                                                       *)
(***************************************************************************)
EXTENDS Integers, Sequences, FiniteSets

CONSTANTS
  MaxHeld,    \* bound: keys held at once
  MaxCodes    \* bound: codes that wait

ASSUME KeyDecodeAssumption == MaxHeld \in Nat /\ MaxCodes \in Nat \ {0}

Key == {"lshift", "rshift", "lctrl", "rctrl", "lalt", "ralt", "caps", "letter", "digit", "fn"}
CtrlKeys == {"lctrl", "rctrl"}
AltKeys == {"lalt", "ralt"}

VARIABLES
  held,      \* the keys that are down
  last,      \* the key pressed last, which repeats
  caps,      \* Caps Lock, as the user has set it
  lapsed,    \* "ctrl" or "alt", if held but given up, as LapsedAfter says
  codes,     \* the codes not yet handled
  left_shift_flag, right_shift_flag, ctrl_flag, capslock_flag, alt_flag,
  out        \* what the last code did, and what the user held

flags == <<left_shift_flag, right_shift_flag, ctrl_flag, capslock_flag, alt_flag>>
vars == <<held, last, caps, lapsed, codes, flags, out>>

Flag == {0, 1}
Nothing == [did |-> <<"nothing">>, want |-> [shift |-> FALSE, caps |-> FALSE,
                                         ctrl |-> FALSE, alt |-> FALSE]]

(* The type invariant: flags are 0 or 1, the columns of the scan code table. *)
TypeOK ==
  /\ held \subseteq Key
  /\ caps \in BOOLEAN
  /\ lapsed \subseteq {"ctrl", "alt"}
  /\ left_shift_flag \in Flag /\ right_shift_flag \in Flag
  /\ ctrl_flag \in Flag /\ capslock_flag \in Flag /\ alt_flag \in Flag

Init ==
  /\ held = {} /\ last = "none" /\ caps = FALSE /\ lapsed = {} /\ codes = <<>>
  /\ left_shift_flag = 0 /\ right_shift_flag = 0 /\ ctrl_flag = 0
  /\ capslock_flag = 0 /\ alt_flag = 0
  /\ out = Nothing

-----------------------------------------------------------------------------
(* The keyboard *)

(* Of a modifier that is down, one of two keys was released, or L pressed  *)
(* with Ctrl, and no key of it was pressed again since.                    *)
LapsedAfter(k, pressed, down) ==
  {m \in {"ctrl", "alt"} :
     LET keys == IF m = "ctrl" THEN CtrlKeys ELSE AltKeys
     IN  /\ down \cap keys # {}
         /\ IF k \in keys THEN ~ pressed
            ELSE m \in lapsed \/ (m = "ctrl" /\ k = "letter" /\ pressed)}

Send(k, pressed) ==
  /\ Len(codes) < MaxCodes
  /\ codes' = Append(codes, [key |-> k, pressed |-> pressed,
       want |-> [shift |-> held \cap {"lshift", "rshift"} # {}, caps |-> caps,
                 ctrl |-> held \cap CtrlKeys # {}, alt |-> held \cap AltKeys # {}]])
  /\ lapsed' = LapsedAfter(k, pressed, held')
  /\ UNCHANGED <<flags, out>>

(* The first press of a key or, while it is held, a repeat. *)
Press(k) ==
  /\ \/ k \notin held /\ Cardinality(held) < MaxHeld
     \/ k \in held /\ k = last
  /\ held' = held \cup {k}
  /\ last' = k
  /\ caps' = (IF k = "caps" THEN ~ caps ELSE caps)
  /\ Send(k, TRUE)

Release(k) ==
  /\ k \in held
  /\ held' = held \ {k}
  /\ last' = IF last = k THEN "none" ELSE last
  /\ UNCHANGED caps
  /\ Send(k, FALSE)

-----------------------------------------------------------------------------
(* The handler *)

(* Mutant: both shift keys clear the left one's flag. *)
ShiftKey_ClearsLeft(k, value) ==
  /\ left_shift_flag' = IF k = "lshift" \/ value = 0 THEN value ELSE left_shift_flag
  /\ right_shift_flag' = IF k = "rshift" THEN value ELSE right_shift_flag
  /\ UNCHANGED <<ctrl_flag, capslock_flag, alt_flag>>

ShiftKey(k, value) ==
  /\ left_shift_flag' = IF k = "lshift" THEN value ELSE left_shift_flag
  /\ right_shift_flag' = IF k = "rshift" THEN value ELSE right_shift_flag
  /\ UNCHANGED <<ctrl_flag, capslock_flag, alt_flag>>

CapsKey(pressed) ==
  /\ capslock_flag' = IF pressed THEN 1 - capslock_flag ELSE capslock_flag
  /\ UNCHANGED <<left_shift_flag, right_shift_flag, ctrl_flag, alt_flag>>

CtrlKey(value) ==
  /\ ctrl_flag' = value
  /\ UNCHANGED <<left_shift_flag, right_shift_flag, capslock_flag, alt_flag>>

AltKey(value) ==
  /\ alt_flag' = value
  /\ UNCHANGED <<left_shift_flag, right_shift_flag, ctrl_flag, capslock_flag>>

(* The special keys, which print nothing. *)
check_and_handle_special_button(k, pressed) ==
  LET value == IF pressed THEN 1 ELSE 0
  IN  \/ k \in {"lshift", "rshift"} /\ ShiftKey(k, value)
      \/ k \in CtrlKeys /\ CtrlKey(value)
      \/ k \in AltKeys /\ AltKey(value)
      \/ k = "caps" /\ CapsKey(pressed)

(* Mutant: a letter is a capital if either Shift or Caps Lock says so. *)
Column_Or(k) ==
  IF left_shift_flag = 1 \/ right_shift_flag = 1 \/ (k = "letter" /\ capslock_flag = 1)
    THEN 1 ELSE 0

(* should_modify: the column of the scan code table. *)
Column(k) ==
  LET shift == left_shift_flag = 1 \/ right_shift_flag = 1
  IN  IF k = "letter" THEN (IF shift # (capslock_flag = 1) THEN 1 ELSE 0)
      ELSE (IF shift THEN 1 ELSE 0)

(* Ctrl+L clears, and forgets that Ctrl is held; other keys are typed. *)
TypeKey(k, want) ==
  IF ctrl_flag = 1 /\ k = "letter"
    THEN /\ ctrl_flag' = 0
         /\ out' = [did |-> <<"clear">>, want |-> want]
         /\ UNCHANGED <<left_shift_flag, right_shift_flag, capslock_flag, alt_flag>>
    ELSE /\ out' = [did |-> <<k, Column(k)>>, want |-> want]
         /\ UNCHANGED flags

FunctionKey(pressed, want) ==
  /\ out' = IF pressed /\ alt_flag = 1 THEN [did |-> <<"switch">>, want |-> want] ELSE Nothing
  /\ UNCHANGED flags

keyboard_int_handler ==
  /\ codes # <<>>
  /\ LET c == Head(codes)
     IN  \/ check_and_handle_special_button(c.key, c.pressed) /\ out' = Nothing
         \/ c.key = "fn" /\ FunctionKey(c.pressed, c.want)
         \/ c.key \in {"letter", "digit"} /\ c.pressed /\ TypeKey(c.key, c.want)
         \/ c.key \in {"letter", "digit"} /\ ~ c.pressed /\ out' = Nothing /\ UNCHANGED flags
  /\ codes' = Tail(codes)
  /\ UNCHANGED <<held, last, caps, lapsed>>

Next ==
  \/ \E k \in Key : Press(k) \/ Release(k)
  \/ keyboard_int_handler

Spec == Init /\ [][Next]_vars

-----------------------------------------------------------------------------
(* Properties *)

(***************************************************************************)
(* Once all codes are handled, no modifier is stuck or forgotten: each     *)
(* Shift key's flag is set just while the key is down, and the flags of    *)
(* Ctrl and Alt just while a key of theirs is, but for two cases: one of   *)
(* both keys was released, or L was pressed with Ctrl (Ctrl+L), and none   *)
(* was pressed again since.                                                *)
(***************************************************************************)
FlagsFollowKeys ==
  codes = <<>> =>
    /\ (left_shift_flag = 1) <=> ("lshift" \in held)
    /\ (right_shift_flag = 1) <=> ("rshift" \in held)
    /\ (alt_flag = 1) <=> (held \cap AltKeys # {} /\ "alt" \notin lapsed)
    /\ (ctrl_flag = 1) <=> (held \cap CtrlKeys # {} /\ "ctrl" \notin lapsed)

(***************************************************************************)
(* A code means what its keys meant when it was pressed, however late the  *)
(* handler comes to it: letters are capitals if exactly one of Shift and   *)
(* Caps Lock was on, other keys follow Shift alone, and terminals change   *)
(* only with Alt.                                                          *)
(***************************************************************************)
KeysAsPressed ==
  /\ out.did = <<"letter", 0>> => (out.want.shift <=> out.want.caps)
  /\ out.did = <<"letter", 1>> => (out.want.shift <=> ~ out.want.caps)
  /\ out.did = <<"digit", 0>> => ~ out.want.shift
  /\ out.did = <<"digit", 1>> => out.want.shift
  /\ out.did = <<"switch">> => out.want.alt
  /\ out.did = <<"clear">> => out.want.ctrl
=============================================================================
