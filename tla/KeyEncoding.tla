---------------------------- MODULE KeyEncoding ----------------------------
(***************************************************************************)
(* The code of a typed character: MainActivity.dispatchKeyEvent packs the  *)
(* UTF-16LE bytes of a text into a Java int, which Key::ReportSend sends   *)
(* as the 32 bits of report 3.                                             *)
(*                                                                         *)
(* An int is a pair of 16-bit halves, the low one first, so that nothing   *)
(* here exceeds the integers of TLC.  A text is what the event holds: one  *)
(* UTF-16 unit for most characters, two for the others, any number for     *)
(* ACTION_MULTIPLE.                                                        *)
(***************************************************************************)
EXTENDS Integers, Sequences

CONSTANTS
  Texts            \* sequences of UTF-16 units

LastUnit == 65535
Units16  == 0..LastUnit

ASSUME KeyEncodingAssumption == Texts \subseteq Seq(Units16) \ {<<>>}

VARIABLES
  text,          \* being packed
  b,             \* loop index: bytes packed so far
  utf16          \* int: its halves

vars == <<text, b, utf16>>

-----------------------------------------------------------------------------
(* The two bytes of a unit, and the unit and byte of it at an index.       *)
Low(unit)  == unit % 256
High(unit) == unit \div 256
Half(at)   == at \div 2
Upper(at)  == at % 2 = 1

(* What fits a half of an int, and what is carried. *)
Wrap(x)  == x % 65536
Carry(x) == x \div 65536

(* getBytes (StandardCharsets.UTF_16LE)[at] & 0xFF *)
ByteOf(units, at) ==
  IF Upper(at) THEN High(units[Half(at) + 1]) ELSE Low(units[Half(at) + 1])

(* Mutant: the byte is not masked, and its sign is extended. *)
SignedByte(at) ==
  LET byte == ByteOf(text, at) IN IF byte < 128 THEN byte ELSE byte - 256

Byte(at) == ByteOf(text, at)

(* x << at * 8 on an int: the distance is taken modulo 32, so that byte    *)
(* at lands in half Half(at) % 2, shifted by 0 or 8 bits.                  *)
Shifted(x, at) == IF Upper(at) THEN x * 256 ELSE x

(* int addition: the low half carries into the high one, whose carry is    *)
(* lost.                                                                   *)
Plus(word, at, amount) ==
  IF Upper(Half(at))
    THEN <<word[1], Wrap(word[2] + amount)>>
    ELSE <<Wrap(word[1] + amount), Wrap(word[2] + Carry(word[1] + amount))>>

Size == 2 * Len(text)

Init == text \in Texts /\ b = 0 /\ utf16 = <<0, 0>>

(* One turn of the loop. *)
Pack ==
  /\ b < Size
  /\ utf16' = Plus(utf16, b, Shifted(Byte(b), b))
  /\ b' = b + 1
  /\ UNCHANGED text

(* pressRcuKey (0x03, utf16, true); then the next text. *)
Type ==
  /\ b = Size
  /\ text' \in Texts /\ b' = 0 /\ utf16' = <<0, 0>>

Next == Pack \/ Type

Spec == Init /\ [][Next]_vars

-----------------------------------------------------------------------------
TypeOK ==
  /\ text \in Texts
  /\ b \in 0..Size
  /\ utf16 \in Units16 \X Units16

(* A text of one or two units, and so each single character, is sent as    *)
(* exactly those units: two characters never share a code, a character of  *)
(* one unit fits the 24 bits the report declares (Rcu.cpp:80), and a code  *)
(* is 0, which the box takes for a release, for the character 0 only.      *)
Unit(i) == IF i <= Len(text) THEN text[i] ELSE 0
CharactersExact ==
  (b = Size /\ Len(text) <= 2) => utf16 = <<Unit(1), Unit(2)>>

=============================================================================
