------------------------------ MODULE LibPrintf ------------------------------
(***************************************************************************)
(* printf of lib.c: its walk over the format and the parameters, and how   *)
(* itoa and strrev write a number.  What is written is a sequence of       *)
(* <<"digit", value>>, <<"plain", character>> and, for a %c or a %s, which *)
(* copy what they are given, <<"copy", parameter>>.                        *)
(***************************************************************************)
EXTENDS Integers, Sequences, SequencesExt, FiniteSetsExt

CONSTANTS
  HEXDIGITS,   \* hexadecimal digits of a machine word (8)
  MaxItems     \* bound: plain characters and conversions in a format

ASSUME LibPrintfAssumption == HEXDIGITS \in Nat \ {0} /\ MaxItems \in Nat

WORD == 16 ^ HEXDIGITS

VARIABLES
  items,   \* the format, as the sequence of its items
  word     \* the first parameter; each one after it is the next word

(* The items of a format: a plain character or a conversion. *)
Items == { <<"x">>, <<"#">>, <<"%", "%">>, <<"%", "x">>, <<"%", "#", "x">>,
           <<"%", "u">>, <<"%", "d">>, <<"%", "c">>, <<"%", "s">> }

(* One call of printf, with all its inputs, or an empty format. *)
PrintfInit(called) ==
  /\ items \in IF called THEN SeqOf(Items, MaxItems) ELSE {<<>>}
  /\ word \in IF called THEN 0..(WORD - 1) ELSE {0}

-----------------------------------------------------------------------------
Zero == <<"digit", 0>>

(* The digits from the lowest place value on, while there are any. *)
RECURSIVE PlaceValues(_, _)
PlaceValues(newval, radix) ==
  IF newval > 0
    THEN << <<"digit", newval % radix>> >> \o PlaceValues(newval \div radix, radix)
    ELSE <<>>

(* Mutant: the two characters in the middle are not exchanged. *)
RECURSIVE strrev_Short(_, _, _)
strrev_Short(str, beg, end) ==
  IF beg >= end - 1 THEN str
  ELSE strrev_Short([str EXCEPT ![end] = str[beg], ![beg] = str[end]], beg + 1, end - 1)

(* The outer characters are exchanged, from beg and end inwards. *)
RECURSIVE strrev(_, _, _)
strrev(str, beg, end) ==
  IF beg >= end THEN str
  ELSE strrev([str EXCEPT ![end] = str[beg], ![beg] = str[end]], beg + 1, end - 1)

itoa(value, radix) ==
  IF value = 0 THEN <<Zero>>
  ELSE LET digits == PlaceValues(value, radix) IN strrev(digits, 1, Len(digits))

(* A word as an int32_t. *)
Signed(w) == IF w >= WORD \div 2 THEN w - WORD ELSE w

(* What a conversion writes of a parameter.  For %#x conv_buf holds the    *)
(* digits from 8 on and zeros from their number up to 8, and is printed    *)
(* from their number on.                                                   *)
Convert(spec, alternate, w) ==
  CASE spec = "x" /\ ~ alternate -> itoa(w, 16)
    [] spec = "x" /\ alternate ->
         LET digits == itoa(w, 16)
             conv_buf == [k \in Len(digits)..(HEXDIGITS + Len(digits) - 1) |->
                            IF k < HEXDIGITS THEN Zero ELSE digits[k - HEXDIGITS + 1]]
         IN  [k \in 1..HEXDIGITS |-> conv_buf[Len(digits) + k - 1]]
    [] spec = "u" -> itoa(w, 10)
    [] spec = "d" -> IF Signed(w) < 0 THEN << <<"plain", "-">> >> \o itoa((-Signed(w)) % WORD, 10)
                                      ELSE itoa(w, 10)
    [] OTHER -> << <<"copy", w>> >>   \* c, s

(* The walk from a place of the format, with the next parameter. *)
RECURSIVE Walk(_, _, _)
Walk(format, buf, esp) ==
  IF buf > Len(format) THEN <<>>
  ELSE IF format[buf] # "%"
    THEN << <<"plain", format[buf]>> >> \o Walk(format, buf + 1, esp)
  ELSE
    LET alternate == format[buf + 1] = "#"
        at   == IF alternate THEN buf + 2 ELSE buf + 1
        spec == format[at]
    IN  IF spec = "%" THEN << <<"plain", "%">> >> \o Walk(format, at + 1, esp)
        ELSE Convert(spec, alternate, esp) \o Walk(format, at + 1, (esp + 1) % WORD)

printf(format) == Walk(format, 1, word)

-----------------------------------------------------------------------------
(* A value in a radix, without a zero that could be left out. *)
Numeral(value, radix) ==
  LET len == CHOOSE l \in 1..(4 * HEXDIGITS) :
               radix ^ l > value /\ (l > 1 => radix ^ (l - 1) <= value)
  IN  [k \in 1..len |-> <<"digit", (value \div radix ^ (len - k)) % radix>>]

(* What the comment on printf says of an item. *)
Meaning(item, w) ==
  CASE Len(item) = 1 -> << <<"plain", item[1]>> >>
    [] item = <<"%", "%">> -> << <<"plain", "%">> >>
    [] item = <<"%", "x">> -> Numeral(w, 16)
    [] item = <<"%", "#", "x">> -> [k \in 1..HEXDIGITS |->
                                     <<"digit", (w \div 16 ^ (HEXDIGITS - k)) % 16>>]
    [] item = <<"%", "u">> -> Numeral(w, 10)
    [] item = <<"%", "d">> -> IF w < WORD \div 2 THEN Numeral(w, 10)
                              ELSE << <<"plain", "-">> >> \o Numeral(WORD - w, 10)
    [] OTHER -> << <<"copy", w>> >>

(* The parameter of an item: one for each conversion but %%. *)
Parameter(k) ==
  (word + Cardinality({j \in 1..(k - 1) : items[j][1] = "%" /\ items[j] # <<"%", "%">>})) % WORD

(***************************************************************************)
(* printf writes each item of the format as its comment says, from the     *)
(* parameter that belongs to it: numbers as their digits with no zeros     *)
(* before them, exactly 8 with %#x, and the smallest negative number too,  *)
(* which has no positive counterpart.                                      *)
(***************************************************************************)
PrintsTheFormat ==
  printf(FlattenSeq(items)) =
    FlattenSeq([k \in DOMAIN items |-> Meaning(items[k], Parameter(k))])
=============================================================================
