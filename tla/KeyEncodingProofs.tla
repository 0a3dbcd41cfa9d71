------------------------- MODULE KeyEncodingProofs -------------------------
(* The packing of a character is exact, for any text of one or two units.  *)
EXTENDS KeyEncoding, TLAPS

(* A range of integers by its bounds: with them a range as long as that of *)
(* the units is never written out.                                         *)
LEMMA RangeIs ==
  ASSUME NEW last \in Int
  PROVE  /\ \A u \in 0..last : u \in Int /\ 0 <= u /\ u <= last
         /\ \A u \in Int : 0 <= u /\ u <= last => u \in 0..last
OBVIOUS

(* The last unit is the last number of 16 bits. *)
LEMMA LastIs == LastUnit \in Int /\ \A u \in Int : u <= LastUnit <=> u < 65536
BY DEF LastUnit

(* The units are the numbers of 16 bits. *)
LEMMA UnitsAre ==
  /\ \A u \in Units16 : u \in Int /\ 0 <= u /\ u < 65536
  /\ \A u \in Int : 0 <= u /\ u < 65536 => u \in Units16
<1>1. /\ \A u \in Units16 : u \in Int /\ 0 <= u /\ u <= LastUnit
      /\ \A u \in Int : 0 <= u /\ u <= LastUnit => u \in Units16
  BY LastIs, RangeIs DEF Units16
<1>2. ASSUME NEW u \in Units16 PROVE u \in Int /\ 0 <= u /\ u < 65536
  BY <1>1, LastIs
<1>3. ASSUME NEW u \in Int, 0 <= u, u < 65536 PROVE u \in Units16
  <2>1. u <= LastUnit
    BY <1>3, LastIs
  <2> QED BY <1>1, <1>3, <2>1
<1> QED BY <1>2, <1>3

(* The low byte of a unit is a byte. *)
LEMMA LowIs == ASSUME NEW u \in Units16 PROVE Low(u) \in Int /\ 0 <= Low(u) /\ Low(u) < 256
<1>1. u \in Int /\ 0 <= u /\ u < 65536
  BY UnitsAre
<1> QED BY <1>1 DEF Low

(* Its high byte counts 256 times. *)
LEMMA BytesOf == ASSUME NEW u \in Units16 PROVE Low(u) + High(u) * 256 = u
<1>1. u \in Int /\ 0 <= u /\ u < 65536
  BY UnitsAre
<1> QED BY <1>1 DEF Low, High

(* A unit fits a half of an int. *)
LEMMA WrapIs == ASSUME NEW u \in Units16 PROVE Wrap(u) = u
<1>1. u \in Int /\ 0 <= u /\ u < 65536
  BY UnitsAre
<1> QED BY <1>1 DEF Wrap

(* Nothing is carried from it into the other half. *)
LEMMA CarryIs == ASSUME NEW u \in Units16 PROVE Carry(u) = 0
<1>1. u \in Int /\ 0 <= u /\ u < 65536
  BY UnitsAre
<1> QED BY <1>1 DEF Carry

(* Which bytes go where. *)
LEMMA HalfIs == Half(0) = 0 /\ Half(1) = 0 /\ Half(2) = 1 /\ Half(3) = 1
BY DEF Half

(* Odd bytes are the upper ones. *)
LEMMA UpperIs == Upper(1) /\ Upper(3) /\ ~Upper(0) /\ ~Upper(2)
BY DEF Upper

(* What the texts are, and how far one of them is packed. *)
Typed == text \in Texts /\ b \in 0..Size

(* Texts are not empty, and consist of units. *)
LEMMA TextIs ==
  ASSUME text \in Texts
  PROVE  /\ Len(text) \in Nat \ {0}
         /\ \A i \in 1..Len(text) : text[i] \in Units16
<1>1. text \in Seq(Units16) /\ text # <<>>
  BY KeyEncodingAssumption
<1>2. Len(text) \in Nat /\ \A i \in 1..Len(text) : text[i] \in Units16
  BY <1>1
<1>3. Len(text) # 0
  BY <1>1
<1> QED BY <1>2, <1>3

(* What has been packed of a text of one or two units, byte by byte.       *)
Packed ==
  Len(text) <= 2 =>
    /\ b = 0 => utf16 = <<0, 0>>
    /\ b = 1 => utf16 = <<Low(text[1]), 0>>
    /\ b = 2 => utf16 = <<text[1], 0>>
    /\ b = 3 => utf16 = <<text[1], Low(text[2])>>
    /\ b = 4 => utf16 = <<text[1], text[2]>>

(* The first byte begins the first unit, in the low half of the int. *)
LEMMA LowInLow ==
  ASSUME NEW u \in Units16
  PROVE  Plus(<<0, 0>>, 0, Low(u)) = <<Low(u), 0>>
<1>0. Low(u) \in Int /\ 0 <= Low(u) /\ Low(u) < 256
  BY LowIs
<1>1. Low(u) \in Units16 /\ 0 + Low(u) = Low(u) /\ 0 \in Units16
  <2> DEFINE x == Low(u)
  <2>1. x \in Int /\ 0 <= x /\ x < 256
    BY <1>0
  <2> HIDE DEF x
  <2>2. x \in Int /\ 0 <= x /\ x < 65536 /\ 0 + x = x
    BY <2>1
  <2>3. x \in Units16 /\ 0 \in Units16
    BY <2>2, UnitsAre
  <2> QED BY <2>2, <2>3 DEF x
<1>2. Wrap(Low(u)) = Low(u) /\ Carry(Low(u)) = 0 /\ Wrap(0 + 0) = 0
  BY <1>1, WrapIs, CarryIs
<1> QED BY <1>1, <1>2, HalfIs, UpperIs DEF Plus

(* The second byte completes the unit in the low half. *)
LEMMA HighInLow ==
  ASSUME NEW u \in Units16
  PROVE  Plus(<<Low(u), 0>>, 1, High(u) * 256) = <<u, 0>>
<1>0. 0 \in Units16
  BY UnitsAre
<1>1. Low(u) + High(u) * 256 = u
  BY BytesOf
<1>2. Wrap(u) = u /\ Carry(u) = 0 /\ Wrap(0 + 0) = 0
  BY <1>0, WrapIs, CarryIs
<1> QED BY <1>1, <1>2, HalfIs, UpperIs DEF Plus

(* The third byte begins the second unit, in the high half. *)
LEMMA LowInHigh ==
  ASSUME NEW w, NEW u \in Units16
  PROVE  Plus(<<w, 0>>, 2, Low(u)) = <<w, Low(u)>>
<1>0. Low(u) \in Int /\ 0 <= Low(u) /\ Low(u) < 256
  BY LowIs
<1>1. Low(u) \in Units16 /\ 0 + Low(u) = Low(u)
  <2> DEFINE x == Low(u)
  <2>1. x \in Int /\ 0 <= x /\ x < 256
    BY <1>0
  <2> HIDE DEF x
  <2>2. x \in Int /\ 0 <= x /\ x < 65536 /\ 0 + x = x
    BY <2>1
  <2>3. x \in Units16 /\ 0 \in Units16
    BY <2>2, UnitsAre
  <2> QED BY <2>2, <2>3 DEF x
<1>2. Wrap(Low(u)) = Low(u)
  BY <1>1, WrapIs
<1> QED BY <1>1, <1>2, HalfIs, UpperIs DEF Plus

(* The fourth byte completes it. *)
LEMMA HighInHigh ==
  ASSUME NEW w, NEW u \in Units16
  PROVE  Plus(<<w, Low(u)>>, 3, High(u) * 256) = <<w, u>>
<1>1. Low(u) + High(u) * 256 = u
  BY BytesOf
<1>2. Wrap(u) = u
  BY <1>1, WrapIs
<1> QED BY <1>1, <1>2, HalfIs, UpperIs DEF Plus

(* One turn of the loop packs one more byte. *)
LEMMA PackStep == Typed /\ Packed /\ [Next]_vars => Typed' /\ Packed'
<1> SUFFICES ASSUME Typed, Packed, [Next]_vars PROVE Typed' /\ Packed'
  OBVIOUS
<1>1. CASE Pack
  <2>0. /\ text' = text /\ b' = b + 1 /\ b < Size
        /\ utf16' = Plus(utf16, b, Shifted(Byte(b), b))
    BY <1>1 DEF Pack
  <2>1. Typed'
    BY <2>0, TextIs DEF Typed, Size
  <2>2. ASSUME Len(text) <= 2 PROVE Packed'
    <3>0. Len(text) \in Nat \ {0} /\ b \in 0..(2 * Len(text)) /\ b < 2 * Len(text)
      BY <2>0, TextIs DEF Typed, Size
    <3>1. b \in {0, 1, 2, 3} /\ Len(text) \in {1, 2} /\ (b \in {2, 3} => Len(text) = 2)
      <4> DEFINE n == Len(text)
      <4>1. n \in Nat \ {0} /\ b \in 0..(2 * n) /\ b < 2 * n /\ n <= 2
        BY <2>2, <3>0
      <4> HIDE DEF n
      <4>2. n = 1 \/ n = 2
        BY <4>1
      <4>3. b \in {0, 1, 2, 3} /\ (b \in {2, 3} => n = 2)
        BY <4>1, <4>2
      <4> QED BY <4>2, <4>3 DEF n
    <3>2. text[1] \in Units16 /\ (b \in {2, 3} => text[2] \in Units16)
      BY <3>1, TextIs DEF Typed
    <3>3. CASE b = 0
      <4>1. utf16 = <<0, 0>> /\ Shifted(Byte(b), b) = Low(text[1])
        BY <2>2, <3>3, HalfIs, UpperIs DEF Packed, Shifted, Byte, ByteOf
      <4>2. utf16' = <<Low(text[1]), 0>>
        BY <2>0, <3>2, <3>3, <4>1, LowInLow
      <4> QED BY <2>0, <3>3, <4>2 DEF Packed
    <3>4. CASE b = 1
      <4>1. utf16 = <<Low(text[1]), 0>> /\ Shifted(Byte(b), b) = High(text[1]) * 256
        BY <2>2, <3>4, HalfIs, UpperIs DEF Packed, Shifted, Byte, ByteOf
      <4>2. utf16' = <<text[1], 0>>
        BY <2>0, <3>2, <3>4, <4>1, HighInLow
      <4> QED BY <2>0, <3>4, <4>2 DEF Packed
    <3>5. CASE b = 2
      <4>1. utf16 = <<text[1], 0>> /\ Shifted(Byte(b), b) = Low(text[2])
        BY <2>2, <3>5, HalfIs, UpperIs DEF Packed, Shifted, Byte, ByteOf
      <4>2. utf16' = <<text[1], Low(text[2])>>
        BY <2>0, <3>2, <3>5, <4>1, LowInHigh
      <4> QED BY <2>0, <3>5, <4>2 DEF Packed
    <3>6. CASE b = 3
      <4>1. utf16 = <<text[1], Low(text[2])>> /\ Shifted(Byte(b), b) = High(text[2]) * 256
        BY <2>2, <3>6, HalfIs, UpperIs DEF Packed, Shifted, Byte, ByteOf
      <4>2. utf16' = <<text[1], text[2]>>
        BY <2>0, <3>2, <3>6, <4>1, HighInHigh
      <4> QED BY <2>0, <3>6, <4>2 DEF Packed
    <3> QED BY <3>1, <3>3, <3>4, <3>5, <3>6
  <2>3. ~(Len(text) <= 2) => Packed'
    BY <2>0 DEF Packed
  <2> QED BY <2>1, <2>2, <2>3
<1>2. CASE Type
  <2>1. text' \in Texts /\ b' = 0 /\ utf16' = <<0, 0>>
    BY <1>2 DEF Type
  <2>2. text' \in Seq(Units16)
    BY <2>1, KeyEncodingAssumption
  <2>3. Len(text') \in Nat
    BY <2>2
  <2>4. 0 \in 0..(2 * Len(text'))
    BY <2>3
  <2> QED BY <2>1, <2>4 DEF Typed, Packed, Size
<1>3. CASE UNCHANGED vars
  BY <1>3 DEF vars, Typed, Packed, Size
<1> QED BY <1>1, <1>2, <1>3 DEF Next

(* A character, of one UTF-16 unit or of a surrogate pair, is sent as just *)
(* those units: no two characters share a code.                            *)
THEOREM AlwaysExact == Spec => []CharactersExact
<1>1. Init => Typed /\ Packed
  <2>1. ASSUME Init PROVE Typed
    BY <2>1, TextIs DEF Init, Typed, Size
  <2>2. ASSUME Init PROVE Packed
    BY <2>2 DEF Init, Packed
  <2> QED BY <2>1, <2>2
<1>2. Typed /\ Packed => CharactersExact
  <2> SUFFICES ASSUME Typed, Packed, b = Size, Len(text) <= 2
               PROVE  utf16 = <<Unit(1), Unit(2)>>
    BY DEF CharactersExact
  <2>0. Len(text) \in Nat \ {0}
    BY TextIs DEF Typed
  <2>1. Len(text) \in {1, 2}
    <3> DEFINE n == Len(text)
    <3>1. n \in Nat \ {0} /\ n <= 2
      BY <2>0
    <3> HIDE DEF n
    <3>2. n \in {1, 2}
      BY <3>1
    <3> QED BY <3>2 DEF n
  <2>2. CASE Len(text) = 1
    BY <2>2 DEF Packed, Size, Unit
  <2>3. CASE Len(text) = 2
    BY <2>3 DEF Packed, Size, Unit
  <2> QED BY <2>1, <2>2, <2>3
<1>3. Typed /\ Packed /\ [Next]_vars => (Typed /\ Packed)'
  BY PackStep
<1> QED BY <1>1, <1>2, <1>3, PTL DEF Spec

=============================================================================
