----------------------------- MODULE TextProofs -----------------------------
(***************************************************************************)
(* Theorems of HexText: what its runs check on the texts of a small        *)
(* alphabet, for every text that can be typed.                             *)
(***************************************************************************)
EXTENDS NumeralProofs, HexText

----------------------------------------------------------------------------
(* Sequences as the models cut them.                                       *)

LEMMA PartIs ==
  ASSUME NEW S, NEW t \in Seq(S), NEW a \in Nat, NEW b \in Nat, a <= b, b <= Len(t)
  PROVE  /\ Part(t, a, b) \in Seq(S)
         /\ Len(Part(t, a, b)) = b - a
         /\ DOMAIN Part(t, a, b) = 1..(b - a)
         /\ \A i \in 1..(b - a) : Part(t, a, b)[i] = t[a + i]
<1>1. Len(t) \in Nat /\ \A i \in (a + 1)..b : t[i] \in S
  OBVIOUS
<1>2. /\ SubSeq(t, a + 1, b) \in Seq(S)
      /\ Len(SubSeq(t, a + 1, b)) = IF a + 1 <= b THEN b - (a + 1) + 1 ELSE 0
      /\ \A i \in 1..(b - (a + 1) + 1) : SubSeq(t, a + 1, b)[i] = t[(a + 1) + i - 1]
  BY <1>1, SubSeqProperties
<1>3. Part(t, a, b) = SubSeq(t, a + 1, b)
  BY DEF Part
<1>4. Len(Part(t, a, b)) = b - a
  BY <1>2, <1>3
<1>5. \A i \in 1..(b - a) : Part(t, a, b)[i] = t[a + i]
  <2>1. TAKE i \in 1..(b - a)
  <2>2. i \in 1..(b - (a + 1) + 1) /\ (a + 1) + i - 1 = a + i
    OBVIOUS
  <2>3. QED BY <1>2, <1>3, <2>2
<1>6. QED BY <1>2, <1>3, <1>4, <1>5

LEMMA AfterPrefix ==
  ASSUME NEW S, NEW t \in Seq(S), 2 <= Len(t)
  PROVE  /\ Part(t, 2, Len(t)) \in Seq(S)
         /\ Len(Part(t, 2, Len(t))) = Len(t) - 2
         /\ DOMAIN Part(t, 2, Len(t)) = 1..(Len(t) - 2)
         /\ \A i \in 1..(Len(t) - 2) : Part(t, 2, Len(t))[i] = t[i + 2]
<1> DEFINE P == SubSeq(t, 3, Len(t))
<1>1. 3 \in 1..(Len(t) + 1) /\ Len(t) \in Nat
  OBVIOUS
<1>2. /\ P \in Seq(S)
      /\ Len(P) = Len(t) - 3 + 1
      /\ \A i \in 1..(Len(t) - 3 + 1) : P[i] = t[i + 3 - 1]
  BY <1>1, TailPart
<1>3. Part(t, 2, Len(t)) = P
  BY DEF Part
<1> HIDE DEF P
<1>4. P \in Seq(S) /\ Len(P) = Len(t) - 2
  BY <1>1, <1>2
<1>5. DOMAIN P = 1..(Len(t) - 2)
  BY <1>4, LenProperties
<1>6. \A i \in 1..(Len(t) - 2) : P[i] = t[i + 2]
  <2>1. TAKE i \in 1..(Len(t) - 2)
  <2>2. i \in 1..(Len(t) - 3 + 1) /\ i + 3 - 1 = i + 2
    BY <1>1
  <2>3. QED BY <1>2, <2>2
<1>7. QED BY <1>3, <1>4, <1>5, <1>6

(* IsPrefix with a text of one or two characters. *)
LEMMA Prefix1 ==
  ASSUME NEW S, NEW t \in Seq(S), NEW x
  PROVE  IsPrefix(<<x>>, t) <=> Len(t) >= 1 /\ t[1] = x
<1> DEFINE T == S \cup {x}
           u == SubSeq(<<x>>, 1, 1)
           w == SubSeq(t, 1, 1)
<1>1. Len(<<x>>) = 1 /\ u \in Seq(T) /\ Len(u) = 1 /\ u[1] = x
  <2>1. \A i \in 1..1 : <<x>>[i] \in T
    OBVIOUS
  <2>2. /\ u \in Seq(T) /\ Len(u) = IF 1 <= 1 THEN 1 - 1 + 1 ELSE 0
        /\ \A i \in 1..(1 - 1 + 1) : u[i] = <<x>>[1 + i - 1]
    <3> HIDE DEF T
    <3>1. QED BY <2>1, SubSeqProperties
  <2>3. QED BY <2>2
<1>2. ASSUME Len(t) >= 1
      PROVE  w \in Seq(T) /\ Len(w) = 1 /\ w[1] = t[1]
  <2>1. \A i \in 1..1 : t[i] \in T
    BY <1>2
  <2>2. /\ w \in Seq(T) /\ Len(w) = IF 1 <= 1 THEN 1 - 1 + 1 ELSE 0
        /\ \A i \in 1..(1 - 1 + 1) : w[i] = t[1 + i - 1]
    <3> HIDE DEF T
    <3>1. QED BY <2>1, SubSeqProperties
  <2>3. QED BY <2>2
<1> HIDE DEF T, u, w
<1>3. ASSUME Len(t) >= 1, t[1] = x
      PROVE  u = w
  <2>1. \A i \in 1..Len(u) : u[i] = w[i]
    BY <1>1, <1>2, <1>3
  <2>2. QED BY <1>1, <1>2, <1>3, <2>1, SeqEqual
<1>4. IsPrefix(<<x>>, t) <=> Len(t) >= 1 /\ u = w
  BY <1>1 DEF IsPrefix, u, w
<1>5. QED BY <1>1, <1>2, <1>3, <1>4

LEMMA Prefix2 ==
  ASSUME NEW S, NEW t \in Seq(S), NEW x, NEW y
  PROVE  IsPrefix(<<x, y>>, t) <=> Len(t) >= 2 /\ t[1] = x /\ t[2] = y
<1> DEFINE T == S \cup {x, y}
           u == SubSeq(<<x, y>>, 1, 2)
           w == SubSeq(t, 1, 2)
<1>1. Len(<<x, y>>) = 2 /\ u \in Seq(T) /\ Len(u) = 2 /\ u[1] = x /\ u[2] = y
  <2>1. \A i \in 1..2 : <<x, y>>[i] \in T
    OBVIOUS
  <2>2. /\ u \in Seq(T) /\ Len(u) = IF 1 <= 2 THEN 2 - 1 + 1 ELSE 0
        /\ \A i \in 1..(2 - 1 + 1) : u[i] = <<x, y>>[1 + i - 1]
    <3> HIDE DEF T
    <3>1. QED BY <2>1, SubSeqProperties
  <2>3. QED BY <2>2
<1>2. ASSUME Len(t) >= 2
      PROVE  w \in Seq(T) /\ Len(w) = 2 /\ w[1] = t[1] /\ w[2] = t[2]
  <2>1. \A i \in 1..2 : t[i] \in T
    BY <1>2
  <2>2. /\ w \in Seq(T) /\ Len(w) = IF 1 <= 2 THEN 2 - 1 + 1 ELSE 0
        /\ \A i \in 1..(2 - 1 + 1) : w[i] = t[1 + i - 1]
    <3> HIDE DEF T
    <3>1. QED BY <2>1, SubSeqProperties
  <2>3. QED BY <2>2
<1> HIDE DEF T, u, w
<1>3. ASSUME Len(t) >= 2, t[1] = x, t[2] = y
      PROVE  u = w
  <2>1. \A i \in 1..Len(u) : u[i] = w[i]
    BY <1>1, <1>2, <1>3
  <2>2. QED BY <1>1, <1>2, <1>3, <2>1, SeqEqual
<1>4. IsPrefix(<<x, y>>, t) <=> Len(t) >= 2 /\ u = w
  BY <1>1 DEF IsPrefix, u, w
<1>5. QED BY <1>1, <1>2, <1>3, <1>4

LEMMA Strip ==
  ASSUME NEW S, NEW t \in Seq(S)
  PROVE  LET h == strip_0x(t)
         IN IF Len(t) >= 2 /\ t[1] = "0" /\ t[2] = "x"
            THEN /\ h \in Seq(S) /\ Len(h) = Len(t) - 2
                 /\ \A i \in 1..Len(h) : h[i] = t[i + 2]
            ELSE h = t
<1>1. IsPrefix(ZeroX, t) <=> Len(t) >= 2 /\ t[1] = "0" /\ t[2] = "x"
  BY Prefix2 DEF ZeroX
<1>2. CASE Len(t) >= 2 /\ t[1] = "0" /\ t[2] = "x"
  <2>1. 3 \in 1..(Len(t) + 1)
    BY <1>2
  <2>2. /\ SubSeq(t, 3, Len(t)) \in Seq(S)
        /\ Len(SubSeq(t, 3, Len(t))) = Len(t) - 3 + 1
        /\ \A i \in 1..(Len(t) - 3 + 1) : SubSeq(t, 3, Len(t))[i] = t[i + 3 - 1]
    BY <2>1, TailPart
  <2>3. QED BY <1>1, <1>2, <2>2 DEF strip_0x
<1>3. QED BY <1>1, <1>2 DEF strip_0x

----------------------------------------------------------------------------
(* Characters, codes and slices.                                           *)

LEMMA Chars ==
  /\ LowerHexDigit \subseteq HexDigit
  /\ \A c \in HexDigit : LowerChar(c) \in LowerHexDigit
  /\ \A c \in LowerHexDigit : LowerChar(c) = c
  /\ \A c : LowerChar(c) = "0" <=> c = "0"
  /\ \A c : LowerChar(c) \in HexDigit <=> c \in HexDigit
  /\ {"x", "T", "wide2", "none"} \cap HexDigit = {}
<1>1. DOMAIN Lower = {"A", "B", "C", "D", "E", "F"}
  BY DEF Lower
<1>2. /\ Lower["A"] = "a" /\ Lower["B"] = "b" /\ Lower["C"] = "c"
      /\ Lower["D"] = "d" /\ Lower["E"] = "e" /\ Lower["F"] = "f"
  BY DEF Lower
<1>3. QED BY <1>1, <1>2 DEF LowerHexDigit, HexDigit, LowerChar

LEMMA Lowered ==
  ASSUME NEW S, NEW t \in Seq(S)
  PROVE  /\ DOMAIN to_ascii_lowercase(t) = 1..Len(t)
         /\ Len(to_ascii_lowercase(t)) = Len(t)
         /\ \A i \in 1..Len(t) : to_ascii_lowercase(t)[i] = LowerChar(t[i])
         /\ AllHex(t) => to_ascii_lowercase(t) \in Seq(LowerHexDigit)
         /\ AllHex(to_ascii_lowercase(t)) <=> AllHex(t)
<1>1. DOMAIN t = 1..Len(t) /\ Len(t) \in Nat
  OBVIOUS
<1>2. /\ DOMAIN to_ascii_lowercase(t) = 1..Len(t)
      /\ Len(to_ascii_lowercase(t)) = Len(t)
      /\ \A i \in 1..Len(t) : to_ascii_lowercase(t)[i] = LowerChar(t[i])
  BY <1>1 DEF to_ascii_lowercase
<1>3. ASSUME AllHex(t)
      PROVE  to_ascii_lowercase(t) \in Seq(LowerHexDigit)
  <2>1. \A i \in 1..Len(t) : LowerChar(t[i]) \in LowerHexDigit
    BY <1>1, <1>3, Chars DEF AllHex
  <2>2. QED BY <1>1, <2>1 DEF to_ascii_lowercase
<1>4. AllHex(to_ascii_lowercase(t)) <=> AllHex(t)
  BY <1>1, <1>2, Chars DEF AllHex
<1>5. QED BY <1>2, <1>3, <1>4

LEMMA LowerIsLowered ==
  ASSUME NEW t \in Seq(LowerHexDigit)
  PROVE  to_ascii_lowercase(t) = t /\ AllHex(t)
<1>1. /\ Len(to_ascii_lowercase(t)) = Len(t)
      /\ \A i \in 1..Len(t) : to_ascii_lowercase(t)[i] = LowerChar(t[i])
      /\ \A i \in 1..Len(t) : t[i] \in LowerHexDigit
  BY Lowered
<1>2. AllHex(t)
  BY <1>1, Chars DEF AllHex
<1>3. to_ascii_lowercase(t) \in Seq(LowerHexDigit)
  BY <1>2, Lowered
<1>4. \A i \in 1..Len(to_ascii_lowercase(t)) : to_ascii_lowercase(t)[i] = t[i]
  BY <1>1, Chars
<1>5. QED BY <1>1, <1>2, <1>3, <1>4, SeqEqual

LEMMA Sizes ==
  /\ SelectorLen \in Nat /\ PadLen \in Nat /\ HashLen \in Nat \ {0} /\ AmountLen \in Nat
  /\ CallLen = SelectorLen + PadLen + HashLen + AmountLen
  /\ WordEnd = SelectorLen + PadLen + HashLen
  /\ CallLen % 2 = 0 /\ CallLen \in Nat /\ WordEnd \in Nat
  BY HexTextAssumption DEF SelectorLen, CallLen, WordEnd

LEMMA SliceOfHex ==
  ASSUME NEW S, NEW t \in Seq(S), AllHex(t), NEW a \in Nat, NEW b \in Nat, a <= b, b <= Len(t)
  PROVE  SliceStr(t, a, b) = OK
<1>1. \A i \in 0..Len(t) : Boundary(t, i)
  <2>1. TAKE i \in 0..Len(t)
  <2>2. i < Len(t) => t[i + 1] \in HexDigit
    BY DEF AllHex
  <2>3. QED BY <2>2, Chars DEF Boundary
<1>2. a \in 0..Len(t) /\ b \in 0..Len(t)
  OBVIOUS
<1>3. QED BY <1>1, <1>2 DEF SliceStr, Slice, Require

(* A slice from 2 on is in range when an ASCII character precedes it. *)
LEMMA SliceAfterPrefix ==
  ASSUME NEW t, WellEncoded(t), Len(t) > 2, t[2] # "wide1"
  PROVE  SliceStr(t, 2, Len(t)) = OK
<1>1. t \in Seq(Byte) /\ Len(t) \in Nat /\ DOMAIN t = 1..Len(t)
  BY DEF WellEncoded
<1>2. t[3] # "wide2"
  <2>1. 3 \in DOMAIN t /\ 3 - 1 = 2
    BY <1>1
  <2>2. QED BY <2>1 DEF WellEncoded
<1>3. Boundary(t, 2) /\ Boundary(t, Len(t))
  BY <1>1, <1>2 DEF Boundary
<1>4. QED BY <1>1, <1>3 DEF SliceStr, Slice, Require

----------------------------------------------------------------------------
(* Calldata.                                                               *)

(* What all three checks of a transfer call come to. *)
IsTransferCall(t) ==
  LET hex == strip_0x(t)
  IN /\ is_hex(hex)
     /\ Len(hex) = CallLen
     /\ to_ascii_lowercase(Part(hex, 0, SelectorLen)) = Selector
     /\ IsZeros(Part(hex, SelectorLen, SelectorLen + PadLen))

LEMMA StripTyped ==
  ASSUME NEW S, NEW t \in Seq(S)
  PROVE  strip_0x(t) \in Seq(S) /\ Len(strip_0x(t)) \in Nat
  BY Strip

LEMMA StripEmpty ==
  ASSUME NEW S, NEW t \in Seq(S)
  PROVE  strip_0x(t) = << >> <=> NoCalldata(t)
<1> DEFINE h == strip_0x(t)
<1>1. CASE Len(t) >= 2 /\ t[1] = "0" /\ t[2] = "x"
  <2>1. h \in Seq(S) /\ Len(h) = Len(t) - 2
    BY <1>1, Strip
  <2>2. h = << >> <=> Len(t) = 2
    <3> HIDE DEF h
    <3>1. QED BY SMTT(60), <2>1, EmptySeq
  <2>3. Len(t) = 2 <=> t = ZeroX
    <3>1. ASSUME Len(t) = 2
          PROVE  t = <<t[1], t[2]>>
      BY <3>1
    <3>2. QED BY <1>1, <3>1 DEF ZeroX
  <2>4. t # << >>
    BY <1>1
  <2>5. QED BY <2>2, <2>3, <2>4 DEF NoCalldata
<1>2. CASE ~(Len(t) >= 2 /\ t[1] = "0" /\ t[2] = "x")
  <2>1. h = t
    BY <1>2, Strip
  <2>2. t # ZeroX
    BY <1>2 DEF ZeroX
  <2>3. QED BY <2>1, <2>2 DEF NoCalldata
<1>3. QED BY <1>1, <1>2

(* Every slice of a calldata text is behind the check for hex digits. *)
LEMMA CallSlices ==
  ASSUME NEW S, NEW hex \in Seq(S), AllHex(hex), Len(hex) = CallLen
  PROVE  /\ SliceStr(hex, 0, SelectorLen) = OK
         /\ SliceStr(hex, SelectorLen, WordEnd) = OK
         /\ SliceStr(hex, WordEnd, CallLen) = OK
<1>1. /\ SelectorLen \in Nat /\ WordEnd \in Nat /\ CallLen \in Nat
      /\ SelectorLen <= WordEnd /\ WordEnd <= CallLen
  BY Sizes
<1>2. QED BY <1>1, SliceOfHex

(* The recipient of a transfer call is an EVM address text. *)
LEMMA RecipientIsAddress ==
  ASSUME NEW S, NEW hex \in Seq(S), AllHex(hex), Len(hex) = CallLen
  PROVE  /\ validate_evm_address_text(RecipientText(hex)) = OK
         /\ strip_0x(RecipientText(hex)) = Part(hex, SelectorLen + PadLen, WordEnd)
<1> DEFINE a == SelectorLen + PadLen
           word == Part(hex, a, WordEnd)
           r == ZeroX \o word
           T == S \cup {"0", "x"}
<1>1. /\ a \in Nat /\ WordEnd \in Nat /\ a <= WordEnd /\ WordEnd <= Len(hex)
      /\ WordEnd - a = HashLen /\ HashLen \in Nat \ {0}
  BY Sizes
<1>2. /\ word \in Seq(S) /\ Len(word) = HashLen
      /\ \A i \in 1..HashLen : word[i] = hex[a + i]
  <2> HIDE DEF a
  <2>1. /\ word \in Seq(S) /\ Len(word) = WordEnd - a
        /\ \A i \in 1..(WordEnd - a) : word[i] = hex[a + i]
    <3>1. a \in Nat /\ WordEnd \in Nat /\ a <= WordEnd /\ WordEnd <= Len(hex)
      BY <1>1
    <3>2. QED BY ZenonT(60), <3>1, PartIs
  <2> HIDE DEF word
  <2>2. QED BY <1>1, <2>1
<1>3. \A i \in 1..HashLen : word[i] \in HexDigit
  <2>1. \A i \in 1..HashLen : a + i \in 1..Len(hex)
    BY <1>1
  <2>2. QED BY <1>2, <2>1 DEF AllHex
<1>4. ZeroX \in Seq(T) /\ Len(ZeroX) = 2 /\ ZeroX[1] = "0" /\ ZeroX[2] = "x"
  BY DEF ZeroX
<1>5. word \in Seq(T)
  <2> HIDE DEF word
  <2>1. QED BY <1>2
<1>6. /\ r \in Seq(T) /\ Len(r) = 2 + HashLen
      /\ \A i \in 1..(2 + HashLen) : r[i] = IF i <= 2 THEN ZeroX[i] ELSE word[i - 2]
  <2> HIDE DEF T, word
  <2>1. /\ r \in Seq(T) /\ Len(r) = Len(ZeroX) + Len(word)
        /\ \A i \in 1..(Len(ZeroX) + Len(word)) :
             r[i] = IF i <= Len(ZeroX) THEN ZeroX[i] ELSE word[i - Len(ZeroX)]
    BY <1>4, <1>5, ConcatProperties
  <2> HIDE DEF r
  <2>2. QED BY <1>2, <1>4, <2>1
<1>7. r[1] = "0" /\ r[2] = "x" /\ \A i \in 1..HashLen : r[i + 2] = word[i]
  <2> HIDE DEF r, word
  <2>1. 1 \in 1..(2 + HashLen) /\ 2 \in 1..(2 + HashLen)
    BY <1>1
  <2>2. \A i \in 1..HashLen : i + 2 \in 1..(2 + HashLen) /\ ~(i + 2 <= 2) /\ (i + 2) - 2 = i
    BY <1>1
  <2>3. QED BY <1>4, <1>6, <2>1, <2>2
<1> HIDE DEF r, word, T, a
<1>8. IsPrefix(ZeroX, r)
  BY <1>1, <1>6, <1>7, Prefix2 DEF ZeroX
<1>9. AllHex(Part(r, 2, Len(r)))
  <2>1. 2 <= Len(r) /\ Len(r) - 2 = HashLen
    BY <1>1, <1>6
  <2>2. /\ DOMAIN Part(r, 2, Len(r)) = 1..(Len(r) - 2)
        /\ \A i \in 1..(Len(r) - 2) : Part(r, 2, Len(r))[i] = r[i + 2]
    BY <1>6, <2>1, AfterPrefix
  <2>3. \A i \in 1..HashLen : r[i + 2] \in HexDigit
    BY <1>3, <1>7
  <2>4. QED BY <2>1, <2>2, <2>3 DEF AllHex
<1>10. SliceStr(r, 2, Len(r)) = OK
  <2>1. r[3] # "wide2" /\ 2 < Len(r)
    <3>1. 1 \in 1..HashLen
      BY <1>1
    <3>2. r[3] \in HexDigit
      BY <1>3, <1>7, <3>1
    <3>3. QED BY <1>1, <1>6, <3>2, Chars
  <2>2. QED BY <1>6, <2>1 DEF SliceStr, Slice, Require, Boundary
<1>11. validate_evm_address_text(r) = OK
  BY <1>6, <1>8, <1>9, <1>10 DEF validate_evm_address_text, EVM_ADDRESS_LEN, Require, ??
<1>12. strip_0x(r) = word
  <2> DEFINE h == strip_0x(r)
  <2>1. h \in Seq(T) /\ Len(h) = Len(r) - 2 /\ \A i \in 1..Len(h) : h[i] = r[i + 2]
    BY SMTT(60), <1>1, <1>6, <1>7, Strip
  <2> HIDE DEF h
  <2>2. Len(h) = Len(word) /\ \A i \in 1..Len(h) : h[i] = word[i]
    BY <1>1, <1>2, <1>6, <1>7, <2>1
  <2>3. QED BY <1>5, <2>1, <2>2, SeqEqual DEF h
<1>13. r = RecipientText(hex)
  BY DEF r, word, a, RecipientText
<1>14. QED BY <1>11, <1>12, <1>13 DEF word, a

LEMMA ValidateCall ==
  ASSUME NEW S, NEW t \in Seq(S)
  PROVE  validate_call_text(t) =
           IF NoCalldata(t) THEN "INVALID_PAYLOAD"
           ELSE IF IsTransferCall(t) THEN OK ELSE "INVALID_CALLDATA"
<1> DEFINE hex == strip_0x(t)
<1>1. hex \in Seq(S)
  BY StripTyped
<1>2. ASSUME is_hex(hex), Len(hex) = CallLen
      PROVE  /\ SliceStr(hex, 0, SelectorLen) = OK
             /\ SliceStr(hex, SelectorLen, WordEnd) = OK
             /\ validate_evm_address_text(RecipientText(hex)) = OK
  <2> HIDE DEF hex
  <2>1. AllHex(hex)
    BY <1>2 DEF is_hex
  <2>2. QED BY <1>1, <1>2, <2>1, CallSlices, RecipientIsAddress
<1>3. QED BY <1>2 DEF validate_call_text, IsTransferCall, Require, ??, OK

LEMMA ReviewCall ==
  ASSUME NEW S, NEW t \in Seq(S)
  PROVE  review_call_text(t) = IF IsTransferCall(t) THEN OK ELSE "INVALID_CALLDATA"
<1> DEFINE hex == strip_0x(t)
<1>1. hex \in Seq(S)
  BY StripTyped
<1>2. ASSUME is_hex(hex), Len(hex) = CallLen
      PROVE  /\ SliceStr(hex, 0, SelectorLen) = OK
             /\ SliceStr(hex, SelectorLen, WordEnd) = OK
             /\ SliceStr(hex, WordEnd, CallLen) = OK
  <2> HIDE DEF hex
  <2>1. AllHex(hex)
    BY <1>2 DEF is_hex
  <2>2. QED BY <1>1, <1>2, <2>1, CallSlices
<1>3. QED BY <1>2 DEF review_call_text, IsTransferCall, Require, ??, OK

LEMMA LowerOfPart ==
  ASSUME NEW S, NEW t \in Seq(S), NEW a \in Nat, NEW b \in Nat, a <= b, b <= Len(t)
  PROVE  Part(to_ascii_lowercase(t), a, b) = to_ascii_lowercase(Part(t, a, b))
<1> DEFINE T == {LowerChar(c) : c \in S}
           low == to_ascii_lowercase(t)
           u == Part(low, a, b)
           p == Part(t, a, b)
           w == to_ascii_lowercase(p)
<1>1. /\ Len(low) = Len(t) /\ DOMAIN low = 1..Len(t)
      /\ \A i \in 1..Len(t) : low[i] = LowerChar(t[i])
  BY Lowered
<1>2. low \in Seq(T)
  <2>1. Len(t) \in Nat /\ DOMAIN t = 1..Len(t) /\ \A i \in 1..Len(t) : LowerChar(t[i]) \in T
    OBVIOUS
  <2> HIDE DEF T
  <2>2. QED BY <2>1 DEF to_ascii_lowercase
<1>3. /\ p \in Seq(S) /\ Len(p) = b - a
      /\ \A i \in 1..(b - a) : p[i] = t[a + i]
  BY ZenonT(60), PartIs
<1>4. /\ Len(w) = b - a
      /\ \A i \in 1..(b - a) : w[i] = LowerChar(p[i])
      /\ w \in Seq(T)
  <2> HIDE DEF p
  <2>1. /\ Len(w) = Len(p)
        /\ \A i \in 1..Len(p) : w[i] = LowerChar(p[i])
    BY <1>3, Lowered
  <2>2. \A i \in 1..Len(p) : LowerChar(p[i]) \in T
    BY <1>3
  <2>3. w \in Seq(T)
    <3> HIDE DEF T
    <3>1. Len(p) \in Nat /\ DOMAIN p = 1..Len(p)
      BY <1>3
    <3>2. QED BY <2>2, <3>1 DEF to_ascii_lowercase
  <2> HIDE DEF w, T
  <2>4. QED BY <1>3, <2>1, <2>3
<1> HIDE DEF T, low, p, w
<1>5. /\ u \in Seq(T) /\ Len(u) = b - a
      /\ \A i \in 1..(b - a) : u[i] = low[a + i]
  BY ZenonT(60), <1>1, <1>2, PartIs
<1>6. \A i \in 1..Len(u) : u[i] = w[i]
  <2> HIDE DEF u
  <2>1. \A i \in 1..(b - a) : a + i \in 1..Len(t)
    OBVIOUS
  <2>2. QED BY <1>1, <1>3, <1>4, <1>5, <2>1
<1>7. u = w
  <2> HIDE DEF u
  <2>1. QED BY <1>4, <1>5, <1>6, SeqEqual
<1>8. QED BY <1>7 DEF low, p, w

(* The words of a transfer call in the bytes that a contract is given. *)
LEMMA TransferWords ==
  ASSUME NEW S, NEW t \in Seq(S), IsTransferCall(t)
  PROVE  ExecutedCall(t) =
           [ selector |-> Selector, pad |-> [i \in 1..PadLen |-> "0"],
             to |-> EvmHash(RecipientText(strip_0x(t))),
             amount |-> Nibbles(ReviewAmount(t)) ]
<1> DEFINE hex == strip_0x(t)
           d == Nibbles(hex)
           a == SelectorLen + PadLen
<1>1. /\ hex \in Seq(S) /\ AllHex(hex) /\ Len(hex) = CallLen
      /\ to_ascii_lowercase(Part(hex, 0, SelectorLen)) = Selector
      /\ IsZeros(Part(hex, SelectorLen, a))
  BY StripTyped DEF IsTransferCall, is_hex
<1>2. /\ SelectorLen \in Nat /\ a \in Nat /\ WordEnd \in Nat /\ CallLen \in Nat /\ 0 \in Nat
      /\ 0 <= SelectorLen /\ SelectorLen <= a /\ a <= WordEnd /\ WordEnd <= CallLen
      /\ a - SelectorLen = PadLen /\ a <= CallLen /\ SelectorLen <= CallLen /\ PadLen \in Nat
  BY Sizes
<1> HIDE DEF hex, a
<1>3. Len(d) = CallLen
  BY <1>1, Lowered DEF Nibbles
<1>4. Part(d, 0, SelectorLen) = Selector
  BY <1>1, <1>2, LowerOfPart DEF Nibbles
<1>5. Part(d, SelectorLen, a) = [i \in 1..PadLen |-> "0"]
  <2> DEFINE p == Part(hex, SelectorLen, a)
  <2>1. p \in Seq(S) /\ Len(p) = a - SelectorLen /\ DOMAIN p = 1..(a - SelectorLen)
    BY <1>1, <1>2, PartIs
  <2>2. \A i \in 1..PadLen : p[i] = "0"
    BY <1>1, <1>2, <2>1 DEF IsZeros
  <2>3. Part(d, SelectorLen, a) = to_ascii_lowercase(p)
    BY <1>1, <1>2, LowerOfPart DEF Nibbles
  <2>4. to_ascii_lowercase(p) = [i \in DOMAIN p |-> LowerChar(p[i])]
    BY DEF to_ascii_lowercase
  <2> HIDE DEF p
  <2>5. QED BY <1>2, <2>1, <2>2, <2>3, <2>4, Chars
<1>6. Part(d, a, WordEnd) = EvmHash(RecipientText(hex))
  <2>1. Part(d, a, WordEnd) = to_ascii_lowercase(Part(hex, a, WordEnd))
    BY <1>1, <1>2, LowerOfPart DEF Nibbles
  <2>2. strip_0x(RecipientText(hex)) = Part(hex, a, WordEnd)
    BY <1>1, RecipientIsAddress DEF a
  <2>3. QED BY <2>1, <2>2 DEF EvmHash, Nibbles
<1>7. Part(d, WordEnd, Len(d)) = Nibbles(ReviewAmount(t))
  <2>1. Part(d, WordEnd, CallLen) = to_ascii_lowercase(Part(hex, WordEnd, CallLen))
    BY <1>1, <1>2, LowerOfPart DEF Nibbles
  <2>2. QED BY <1>3, <2>1 DEF ReviewAmount, Nibbles, hex
<1> HIDE DEF d
<1>8. QED BY <1>4, <1>5, <1>6, <1>7 DEF ExecutedCall, d, hex, a

(* validate, review and compile read one transfer in a calldata text, for  *)
(* every text (validate.rs:229-293, review.rs:45-106, evm.rs:121-134).     *)
THEOREM CalldataAgrees == Spec => []CalldataReadAlike
<1>1. TextInv => CalldataReadAlike
  <2>1. SUFFICES ASSUME text \in Seq(Byte)
                 PROVE  CalldataReadAlike
    BY DEF TextInv, WellEncoded
  <2> DEFINE hex == strip_0x(text)
  <2>2. validate_call_text(text) = OK <=> review_call_text(text) = OK
    <3>1. IsTransferCall(text) => ~NoCalldata(text)
      BY <2>1, StripEmpty DEF IsTransferCall, is_hex
    <3>2. QED BY <2>1, <3>1, ValidateCall, ReviewCall DEF OK
  <2>3. ASSUME review_call_text(text) = OK
        PROVE  /\ decode_calldata_text(text) = OK
               /\ ExecutedCall(text) =
                    [ selector |-> Selector, pad |-> [i \in 1..PadLen |-> "0"],
                      to |-> EvmHash(RecipientText(hex)),
                      amount |-> Nibbles(ReviewAmount(text)) ]
    <3>1. IsTransferCall(text)
      BY <2>1, <2>3, ReviewCall DEF OK
    <3>2. AllHex(hex) /\ Len(hex) % 2 = 0
      BY <3>1, Sizes DEF IsTransferCall, is_hex
    <3>3. decode_calldata_text(text) = OK
      BY <3>2 DEF decode_calldata_text, hex_decode, Require
    <3>4. QED BY <2>1, <3>1, <3>3, TransferWords
  <2>4. QED BY <2>2, <2>3 DEF CalldataReadAlike
<1>2. QED BY <1>1, TextsAreUtf8, PTL

LEMMA AbstractLens ==
  ASSUME NEW n \in Nat
  PROVE  /\ AbstractLen(n) \in Nat
         /\ AbstractLen(n) = ERC20_TRANSFER_CALLDATA_HEX_LEN <=> n = CallLen
         /\ AbstractLen(n) % 2 = 0 <=> n % 2 = 0
<1>1. CallLen \in Nat /\ CallLen % 2 = 0
  BY Sizes
<1>2. (n - CallLen) % 2 = n % 2 /\ n % 2 \in {0, 1}
  BY <1>1
<1>3. AbstractLen(n) = IF n = CallLen THEN 136 ELSE (136 + 2) + (n % 2)
  BY <1>2 DEF AbstractLen, ERC20_TRANSFER_CALLDATA_HEX_LEN
<1>4. CASE n = CallLen
  BY <1>1, <1>3, <1>4 DEF ERC20_TRANSFER_CALLDATA_HEX_LEN
<1>5. CASE n # CallLen /\ n % 2 = 0
  BY <1>2, <1>3, <1>5 DEF ERC20_TRANSFER_CALLDATA_HEX_LEN
<1>6. CASE n # CallLen /\ n % 2 = 1
  BY <1>2, <1>3, <1>6 DEF ERC20_TRANSFER_CALLDATA_HEX_LEN
<1>7. QED BY <1>2, <1>4, <1>5, <1>6

(* The features in the record of a calldata text are those that the checks *)
(* find in its bytes.                                                      *)
LEMMA CalldataFeatures ==
  ASSUME NEW S, NEW t \in Seq(S)
  PROVE  LET d == CalldataOf(t)
             hex == strip_0x(t)
         IN /\ Carries(d) <=> ~NoCalldata(t)
            /\ d.hex <=> AllHex(hex)
            /\ d.len \in Nat
            /\ d.len = ERC20_TRANSFER_CALLDATA_HEX_LEN <=> Len(hex) = CallLen
            /\ d.len % 2 = 0 <=> Len(hex) % 2 = 0
            /\ Carries(d) => (d.hex <=> is_hex(hex))
            /\ Len(hex) = CallLen =>
                 /\ d.selector <=> to_ascii_lowercase(Part(hex, 0, SelectorLen)) = Selector
                 /\ d.padded <=> IsZeros(Part(hex, SelectorLen, SelectorLen + PadLen))
<1> DEFINE d == CalldataOf(t)
           hex == strip_0x(t)
           low == Nibbles(hex)
           a == SelectorLen + PadLen
<1>1. /\ d.form = IF t = << >> THEN "empty" ELSE IF t = ZeroX THEN "0x" ELSE "call"
      /\ d.hex = AllHex(hex) /\ d.len = AbstractLen(Len(hex))
      /\ d.selector = (Part(low, 0, SelectorLen) = Selector)
      /\ d.padded = IsZeros(Part(low, SelectorLen, a))
  BY DEF CalldataOf, ExecutedCall
<1> HIDE DEF d
<1>2. hex \in Seq(S) /\ Len(hex) \in Nat
  BY StripTyped
<1>3. Carries(d) <=> ~NoCalldata(t)
  BY <1>1 DEF Carries, NoCalldata
<1>4. Carries(d) => (d.hex <=> is_hex(hex))
  BY <1>1, <1>3, StripEmpty DEF is_hex
<1>5. /\ d.len \in Nat
      /\ d.len = ERC20_TRANSFER_CALLDATA_HEX_LEN <=> Len(hex) = CallLen
      /\ d.len % 2 = 0 <=> Len(hex) % 2 = 0
  <2> HIDE DEF hex
  <2>1. QED BY <1>1, <1>2, AbstractLens
<1>6. ASSUME Len(hex) = CallLen
      PROVE  /\ d.selector <=> to_ascii_lowercase(Part(hex, 0, SelectorLen)) = Selector
             /\ d.padded <=> IsZeros(Part(hex, SelectorLen, a))
  <2>1. /\ 0 \in Nat /\ SelectorLen \in Nat /\ a \in Nat
        /\ 0 <= SelectorLen /\ SelectorLen <= a
        /\ SelectorLen <= Len(hex) /\ a <= Len(hex)
    BY <1>6, Sizes
  <2> HIDE DEF hex, a
  <2>2. /\ Part(low, 0, SelectorLen) = to_ascii_lowercase(Part(hex, 0, SelectorLen))
        /\ Part(low, SelectorLen, a) = to_ascii_lowercase(Part(hex, SelectorLen, a))
    BY <1>2, <2>1, LowerOfPart DEF Nibbles
  <2> DEFINE p == Part(hex, SelectorLen, a)
  <2>3. IsZeros(to_ascii_lowercase(p)) <=> IsZeros(p)
    <3>1. p \in Seq(S)
      BY <1>2, <2>1, PartIs
    <3>2. DOMAIN p = 1..Len(p)
      BY <3>1
    <3> HIDE DEF p
    <3>3. /\ DOMAIN to_ascii_lowercase(p) = 1..Len(p)
          /\ \A i \in 1..Len(p) : to_ascii_lowercase(p)[i] = LowerChar(p[i])
      BY <3>1, Lowered
    <3>4. QED BY <3>2, <3>3, Chars DEF IsZeros
  <2> HIDE DEF low
  <2>4. QED BY <1>1, <2>2, <2>3
<1>7. QED BY <1>1, <1>3, <1>4, <1>5, <1>6 DEF d

(* The record that the other modules have for a calldata text decides      *)
(* every check on it as its bytes do, for every text (validate.rs:235-293, *)
(* review.rs:46, evm.rs:121).                                              *)
THEOREM CalldataFaithful == Spec => []CalldataIsFaithful
<1>1. TextInv => CalldataIsFaithful
  <2>1. SUFFICES ASSUME text \in Seq(Byte)
                 PROVE  CalldataIsFaithful
    BY DEF TextInv, WellEncoded
  <2> DEFINE d == CalldataOf(text)
             hex == strip_0x(text)
             p == [ data |-> d, to |-> [form |-> "0xhex40", acct |-> 0],
                    tokenContract |-> [form |-> "0xhex40", acct |-> 0], valueWei |-> Dec(0) ]
  <2>2. /\ Carries(d) <=> ~NoCalldata(text)
        /\ d.hex <=> AllHex(hex)
        /\ d.len \in Nat
        /\ d.len = ERC20_TRANSFER_CALLDATA_HEX_LEN <=> Len(hex) = CallLen
        /\ d.len % 2 = 0 <=> Len(hex) % 2 = 0
        /\ Carries(d) => (d.hex <=> is_hex(hex))
        /\ Len(hex) = CallLen =>
             /\ d.selector <=> to_ascii_lowercase(Part(hex, 0, SelectorLen)) = Selector
             /\ d.padded <=> IsZeros(Part(hex, SelectorLen, SelectorLen + PadLen))
    BY <2>1, CalldataFeatures
  <2>3. IsTransferCall(text) => Carries(d)
    <3> HIDE DEF d
    <3>1. QED BY <2>1, <2>2, StripEmpty DEF IsTransferCall, is_hex
  <2>4. Carries(d) => (IsTransferCall(text) <=>
          /\ d.hex /\ d.len = ERC20_TRANSFER_CALLDATA_HEX_LEN
          /\ d.selector /\ d.padded)
    <3> HIDE DEF d
    <3>1. QED BY <2>2 DEF IsTransferCall
  <2>5. p.data = d /\ p.to = p.tokenContract /\ p.valueWei = Dec(0)
    OBVIOUS
  <2> HIDE DEF d, p
  <2>6. validate_evm_token_transfer(p) = validate_call_text(text)
    <3>1. validate_call_text(text) =
            IF NoCalldata(text) THEN "INVALID_PAYLOAD"
            ELSE IF IsTransferCall(text) THEN OK ELSE "INVALID_CALLDATA"
      BY SMTT(60), <2>1, ValidateCall
    <3>2. validate_evm_token_transfer(p) =
            IF ~Carries(d) THEN "INVALID_PAYLOAD"
            ELSE IF /\ d.hex /\ d.len = ERC20_TRANSFER_CALLDATA_HEX_LEN
                    /\ d.selector /\ d.padded
            THEN OK ELSE "INVALID_CALLDATA"
      BY <2>2, <2>5 DEF validate_evm_token_transfer, Require, Slice, ??, OK,
                        ERC20_TRANSFER_CALLDATA_HEX_LEN
    <3>3. QED BY <2>2, <2>4, <3>1, <3>2
  <2>7. decode_erc20_transfer_data(d) = review_call_text(text)
    <3>1. review_call_text(text) = IF IsTransferCall(text) THEN OK ELSE "INVALID_CALLDATA"
      BY <2>1, ReviewCall
    <3>2. decode_erc20_transfer_data(d) =
            IF /\ Carries(d) /\ d.hex /\ d.len = ERC20_TRANSFER_CALLDATA_HEX_LEN
               /\ d.selector /\ d.padded
            THEN OK ELSE "INVALID_CALLDATA"
      BY <2>2 DEF decode_erc20_transfer_data, Require, Slice, ??, OK, Carries,
                  ERC20_TRANSFER_CALLDATA_HEX_LEN
    <3>3. QED BY <2>3, <2>4, <3>1, <3>2
  <2>8. decode_calldata(d) = decode_calldata_text(text)
    BY <2>2 DEF decode_calldata, decode_calldata_text, hex_decode, Require
  <2>9. QED BY <2>6, <2>7, <2>8 DEF CalldataIsFaithful, d, p
<1>2. QED BY <1>1, TextsAreUtf8, PTL

----------------------------------------------------------------------------
(* Addresses.                                                              *)

HasPrefix0x(t) == Len(t) >= 2 /\ t[1] = "0" /\ t[2] = "x"
HasPrefix41(t) == Len(t) >= 2 /\ t[1] = "4" /\ t[2] = "1"

LEMMA TextPrefix ==
  ASSUME NEW S, NEW t \in Seq(S)
  PROVE  /\ IsPrefix(ZeroX, t) <=> HasPrefix0x(t)
         /\ IsPrefix(Prefix41, t) <=> HasPrefix41(t)
         /\ IsPrefix(<<"T">>, t) <=> Len(t) >= 1 /\ t[1] = "T"
<1>1. IsPrefix(ZeroX, t) <=> HasPrefix0x(t)
  BY Prefix2 DEF ZeroX, HasPrefix0x
<1>2. IsPrefix(Prefix41, t) <=> HasPrefix41(t)
  BY Prefix2 DEF Prefix41, HasPrefix41
<1>3. IsPrefix(<<"T">>, t) <=> Len(t) >= 1 /\ t[1] = "T"
  BY Prefix1
<1>4. QED BY <1>1, <1>2, <1>3

LEMMA StripEncoded ==
  ASSUME NEW t, WellEncoded(t)
  PROVE  WellEncoded(strip_0x(t))
<1> DEFINE h == strip_0x(t)
<1>1. t \in Seq(Byte) /\ DOMAIN t = 1..Len(t) /\ Len(t) \in Nat
  BY DEF WellEncoded
<1>2. CASE HasPrefix0x(t)
  <2>1. h \in Seq(Byte) /\ Len(h) = Len(t) - 2 /\ \A i \in 1..Len(h) : h[i] = t[i + 2]
    BY <1>1, <1>2, Strip DEF HasPrefix0x
  <2> HIDE DEF h
  <2>2. DOMAIN h = 1..Len(h)
    BY <2>1
  <2>3. ASSUME NEW i \in 1..Len(h), h[i] = "wide2"
        PROVE  i > 1 /\ h[i - 1] = "wide1"
    <3>1. i + 2 \in DOMAIN t /\ t[i + 2] = "wide2" /\ (i + 2) - 1 = i + 1
      BY <1>1, <2>1, <2>3
    <3>2. t[i + 1] = "wide1"
      BY <3>1 DEF WellEncoded
    <3>3. i > 1
      BY <1>2, <3>2 DEF HasPrefix0x
    <3>4. i - 1 \in 1..Len(h) /\ (i - 1) + 2 = i + 1
      BY <3>3
    <3>5. QED BY <2>1, <3>2, <3>3, <3>4
  <2>4. QED BY SMTT(60), <2>1, <2>2, <2>3 DEF WellEncoded, h
<1>3. CASE ~HasPrefix0x(t)
  <2>1. h = t
    BY <1>1, <1>3, Strip DEF HasPrefix0x
  <2>2. QED BY <2>1
<1>4. QED BY <1>2, <1>3

LEMMA EvmAddressText ==
  ASSUME NEW t, WellEncoded(t)
  PROVE  validate_evm_address_text(t) =
           Require(HasPrefix0x(t) /\ Len(strip_0x(t)) = HashLen /\ AllHex(strip_0x(t)),
                   "INVALID_ADDRESS")
<1>1. t \in Seq(Byte) /\ Len(t) \in Nat /\ HashLen \in Nat \ {0}
  BY Sizes DEF WellEncoded
<1>2. CASE Len(t) = EVM_ADDRESS_LEN /\ IsPrefix(ZeroX, t)
  <2>1. HasPrefix0x(t) /\ Len(t) > 2 /\ t[2] # "wide1"
    BY <1>1, <1>2, TextPrefix DEF HasPrefix0x, EVM_ADDRESS_LEN
  <2>2. SliceStr(t, 2, Len(t)) = OK
    BY <2>1, SliceAfterPrefix
  <2>3. strip_0x(t) = Part(t, 2, Len(t))
    BY <1>2 DEF strip_0x, Part
  <2>4. Len(strip_0x(t)) = HashLen
    BY <1>1, <1>2, <2>1, Strip DEF EVM_ADDRESS_LEN, HasPrefix0x
  <2>5. QED BY <1>2, <2>1, <2>2, <2>3, <2>4 DEF validate_evm_address_text, Require, ??, OK
<1>3. CASE ~(Len(t) = EVM_ADDRESS_LEN /\ IsPrefix(ZeroX, t))
  <2>1. ~(HasPrefix0x(t) /\ Len(strip_0x(t)) = HashLen)
    BY <1>1, <1>3, TextPrefix, Strip DEF HasPrefix0x, EVM_ADDRESS_LEN
  <2>2. QED BY <1>3, <2>1 DEF validate_evm_address_text, Require, ??, OK
<1>4. QED BY <1>2, <1>3

(* the hex payload of a Tron address *)
IsTronHex(u) == Len(u) = TronHexLen /\ HasPrefix41(u) /\ AllHex(u)

LEMMA HexPayload ==
  ASSUME NEW t, WellEncoded(t)
  PROVE  /\ strip_hex_prefix_text(t) = IF IsTronHex(strip_0x(t)) THEN strip_0x(t) ELSE << >>
         /\ strip_hex_prefix_slices(t) = OK
<1> DEFINE u == strip_0x(t)
<1>1. WellEncoded(u)
  BY StripEncoded
<1> HIDE DEF u
<1>2. u \in Seq(Byte) /\ Len(u) \in Nat /\ HashLen \in Nat \ {0} /\ DOMAIN u = 1..Len(u)
  BY <1>1, Sizes DEF WellEncoded
<1>3. CASE Len(u) = TronHexLen /\ IsPrefix(Prefix41, u)
  <2>1. HasPrefix41(u) /\ Len(u) > 2
    BY <1>2, <1>3, TextPrefix DEF TronHexLen
  <2>2. SliceStr(u, 2, Len(u)) = OK
    <3>1. u[2] # "wide1"
      BY <2>1 DEF HasPrefix41
    <3>2. QED BY <1>1, <2>1, <3>1, SliceAfterPrefix
  <2>3. AllHex(Part(u, 2, Len(u))) <=> AllHex(u)
    <3> DEFINE p == Part(u, 2, Len(u))
    <3>1. DOMAIN p = 1..(Len(u) - 2) /\ \A i \in 1..(Len(u) - 2) : p[i] = u[i + 2]
      BY <1>2, <2>1, AfterPrefix
    <3> HIDE DEF p
    <3>2. ASSUME AllHex(u)
          PROVE  AllHex(p)
      <4>1. \A i \in 1..(Len(u) - 2) : i + 2 \in 1..Len(u)
        BY <1>2
      <4>2. QED BY <1>2, <3>1, <3>2, <4>1 DEF AllHex
    <3>3. ASSUME AllHex(p)
          PROVE  AllHex(u)
      <4>1. SUFFICES ASSUME NEW i \in 1..Len(u)
                     PROVE  u[i] \in HexDigit
        BY <1>2 DEF AllHex
      <4>2. CASE i > 2
        <5>1. i - 2 \in 1..(Len(u) - 2) /\ (i - 2) + 2 = i
          BY <1>2, <4>2
        <5>2. QED BY <3>1, <3>3, <5>1 DEF AllHex
      <4>3. CASE ~(i > 2)
        BY <2>1, <4>3 DEF HasPrefix41, HexDigit, LowerHexDigit
      <4>4. QED BY <4>2, <4>3
    <3>4. QED BY <3>2, <3>3 DEF p
  <2>4. QED BY <1>3, <2>1, <2>2, <2>3
            DEF strip_hex_prefix_text, strip_hex_prefix_slices, IsTronHex, u
<1>4. CASE ~(Len(u) = TronHexLen /\ IsPrefix(Prefix41, u))
  <2>1. ~IsTronHex(u)
    BY <1>2, <1>4, TextPrefix DEF IsTronHex
  <2>2. QED BY <1>4, <2>1 DEF strip_hex_prefix_text, strip_hex_prefix_slices, u
<1>5. QED BY <1>3, <1>4

(* What the two decoders of Tron addresses give. *)
LEMMA TronBytesTyped ==
  ASSUME NEW t, WellEncoded(t)
  PROVE  /\ IsTronHex(strip_0x(t)) => TronTextBytes(t) = Nibbles(strip_0x(t))
         /\ ~IsTronHex(strip_0x(t)) =>
              TronTextBytes(t) =
                IF Len(t) >= 1 /\ t[1] = "T" /\ Len(t) = Base58Len
                THEN Bs58(t) ELSE Undecodable
         /\ TronTextBytes(t) \in {Undecodable} \cup Seq(LowerHexDigit)
<1> DEFINE u == strip_0x(t)
<1>1. t \in Seq(Byte) /\ u \in Seq(Byte)
  BY StripTyped DEF WellEncoded
<1> HIDE DEF u
<1>2. ASSUME IsTronHex(u)
      PROVE  TronTextBytes(t) = Nibbles(u) /\ Nibbles(u) \in Seq(LowerHexDigit)
  <2>1. u # << >>
    BY <1>2 DEF IsTronHex, HasPrefix41
  <2>2. QED BY <1>1, <1>2, <2>1, HexPayload, Lowered DEF TronTextBytes, IsTronHex, Nibbles, u
<1>3. ASSUME ~IsTronHex(u)
      PROVE  TronTextBytes(t) =
               IF Len(t) >= 1 /\ t[1] = "T" /\ Len(t) = Base58Len THEN Bs58(t) ELSE Undecodable
  BY <1>1, <1>3, HexPayload, TextPrefix DEF TronTextBytes, u
<1>4. Len(t) = Base58Len => Bs58(t) \in {Undecodable} \cup Seq(LowerHexDigit)
  <2>1. Len(t) = Base58Len => t \in [1..Base58Len -> Byte]
    BY <1>1
  <2>2. QED BY <2>1, HexTextAssumption
<1>5. QED BY <1>2, <1>3, <1>4 DEF u

LEMMA TronText ==
  ASSUME NEW t, WellEncoded(t)
  PROVE  tron_address_to_bytes_text(t) =
           IF IsTronHex(TronTextBytes(t)) THEN OK ELSE "INVALID_ADDRESS"
<1> DEFINE b == TronTextBytes(t)
<1>1. b \in {Undecodable} \cup Seq(LowerHexDigit)
  BY TronBytesTyped
<1>2. strip_hex_prefix_slices(t) = OK
  BY HexPayload
<1> HIDE DEF b
<1>3. CASE b = Undecodable
  <2>1. Len(b) = 1 /\ TronHexLen # 1
    BY <1>3, Sizes DEF Undecodable, TronHexLen
  <2>2. QED BY <1>2, <1>3, <2>1
            DEF tron_address_to_bytes_text, IsTronHex, Require, ??, OK, b
<1>4. CASE b # Undecodable
  <2>1. b \in Seq(LowerHexDigit) /\ AllHex(b)
    BY <1>1, <1>4, LowerIsLowered
  <2>2. IsPrefix(Prefix41, b) <=> HasPrefix41(b)
    BY <2>1, TextPrefix
  <2>3. QED BY <1>2, <1>4, <2>1, <2>2
            DEF tron_address_to_bytes_text, enforce_shape_text, IsTronHex, Require, ??, OK, b
<1>5. QED BY <1>3, <1>4

(* No slice of a text leaves it or cuts a character, on any UTF-8 text     *)
(* (validate.rs:203,268,285, review.rs:69,88,98, tron_address.rs:70).      *)
THEOREM SlicesStayInRange == Spec => []SlicesInRange
<1>1. TextInv => SlicesInRange
  <2>1. SUFFICES ASSUME WellEncoded(text)
                 PROVE  SlicesInRange
    BY DEF TextInv
  <2>2. text \in Seq(Byte)
    BY <2>1 DEF WellEncoded
  <2>3. /\ validate_call_text(text) # PANIC
        /\ review_call_text(text) # PANIC
    BY <2>2, ValidateCall, ReviewCall DEF OK, PANIC
  <2>4. validate_evm_address_text(text) # PANIC
    BY <2>1, EvmAddressText DEF Require, OK, PANIC
  <2>5. tron_address_to_bytes_text(text) # PANIC
    BY <2>1, TronText DEF OK, PANIC
  <2>6. QED BY <2>3, <2>4, <2>5 DEF SlicesInRange
<1>2. QED BY <1>1, TextsAreUtf8, PTL

LEMMA ParseAddressText ==
  ASSUME NEW S, NEW t \in Seq(S)
  PROVE  parse_address_text(t) =
           Require(Len(strip_0x(t)) = HashLen /\ AllHex(strip_0x(t)), "INVALID_ADDRESS")
  BY DEF parse_address_text

(* Two 0x texts of one length differ in case only when what follows does. *)
LEMMA SameUnderCase ==
  ASSUME NEW S, NEW t \in Seq(S), NEW w \in Seq(S),
         HasPrefix0x(t), HasPrefix0x(w), Len(t) = Len(w)
  PROVE  eq_ignore_ascii_case(t, w) <=> EvmHash(t) = EvmHash(w)
<1> DEFINE h == strip_0x(t)
           g == strip_0x(w)
<1>1. /\ h \in Seq(S) /\ Len(h) = Len(t) - 2 /\ \A i \in 1..Len(h) : h[i] = t[i + 2]
      /\ g \in Seq(S) /\ Len(g) = Len(w) - 2 /\ \A i \in 1..Len(g) : g[i] = w[i + 2]
  BY Strip DEF HasPrefix0x
<1> HIDE DEF h, g
<1>2. \A u, v \in Seq(S) : Len(u) = Len(v) =>
        (to_ascii_lowercase(u) = to_ascii_lowercase(v) <=>
           \A i \in 1..Len(u) : LowerChar(u[i]) = LowerChar(v[i]))
  <2>1. TAKE u, v \in Seq(S)
  <2>2. DOMAIN u = 1..Len(u) /\ DOMAIN v = 1..Len(v)
    OBVIOUS
  <2>3. QED BY <2>2 DEF to_ascii_lowercase
<1>3. (\A i \in 1..Len(t) : LowerChar(t[i]) = LowerChar(w[i])) <=>
        \A i \in 1..Len(h) : LowerChar(h[i]) = LowerChar(g[i])
  <2>1. ASSUME \A i \in 1..Len(h) : LowerChar(h[i]) = LowerChar(g[i]), NEW i \in 1..Len(t)
        PROVE  LowerChar(t[i]) = LowerChar(w[i])
    <3>1. CASE i > 2
      <4>1. i - 2 \in 1..Len(h) /\ (i - 2) + 2 = i
        BY <1>1, <3>1
      <4>2. QED BY <1>1, <2>1, <4>1
    <3>2. CASE ~(i > 2)
      BY <3>2 DEF HasPrefix0x
    <3>3. QED BY <3>1, <3>2
  <2>2. ASSUME \A i \in 1..Len(t) : LowerChar(t[i]) = LowerChar(w[i]), NEW i \in 1..Len(h)
        PROVE  LowerChar(h[i]) = LowerChar(g[i])
    <3>1. i + 2 \in 1..Len(t)
      BY <1>1
    <3>2. QED BY <1>1, <2>2, <3>1
  <2>3. QED BY <2>1, <2>2
<1>4. eq_ignore_ascii_case(t, w) <=> \A i \in 1..Len(t) : LowerChar(t[i]) = LowerChar(w[i])
  BY <1>2 DEF eq_ignore_ascii_case
<1>5. EvmHash(t) = EvmHash(w) <=> \A i \in 1..Len(h) : LowerChar(h[i]) = LowerChar(g[i])
  BY SMTT(60), <1>1, <1>2 DEF EvmHash, Nibbles, h, g
<1>6. QED BY <1>3, <1>4, <1>5

(* a text after 0x *)
LEMMA AfterZeroX ==
  ASSUME NEW S, NEW u \in Seq(S)
  PROVE  LET w == ZeroX \o u
         IN /\ w \in Seq(S \cup {"0", "x"})
            /\ HasPrefix0x(w) /\ Len(w) = Len(u) + 2
            /\ strip_0x(w) = u
<1> DEFINE w == ZeroX \o u
           T == S \cup {"0", "x"}
<1>1. ZeroX \in Seq(T) /\ Len(ZeroX) = 2 /\ ZeroX[1] = "0" /\ ZeroX[2] = "x"
  BY DEF ZeroX
<1>2. u \in Seq(T) /\ Len(u) \in Nat
  OBVIOUS
<1>3. /\ w \in Seq(T) /\ Len(w) = Len(ZeroX) + Len(u)
      /\ \A i \in 1..(Len(ZeroX) + Len(u)) :
           w[i] = IF i <= Len(ZeroX) THEN ZeroX[i] ELSE u[i - Len(ZeroX)]
  <2> HIDE DEF T
  <2>1. QED BY <1>1, <1>2, ConcatProperties
<1> HIDE DEF w, T
<1>4. Len(w) = Len(u) + 2 /\ HasPrefix0x(w)
  BY <1>1, <1>2, <1>3 DEF HasPrefix0x
<1>5. \A i \in 1..Len(u) : w[i + 2] = u[i]
  <2>1. TAKE i \in 1..Len(u)
  <2>2. i + 2 \in 1..(Len(ZeroX) + Len(u)) /\ ~(i + 2 <= Len(ZeroX)) /\ (i + 2) - Len(ZeroX) = i
    BY <1>1, <1>2
  <2>3. QED BY <1>3, <2>2
<1> DEFINE h == strip_0x(w)
<1>6. h \in Seq(T) /\ Len(h) = Len(w) - 2 /\ \A i \in 1..Len(h) : h[i] = w[i + 2]
  BY <1>3, <1>4, Strip DEF HasPrefix0x
<1> HIDE DEF h
<1>7. Len(h) = Len(u) /\ \A i \in 1..Len(h) : h[i] = u[i]
  BY <1>2, <1>4, <1>5, <1>6
<1>8. h = u
  BY <1>2, <1>6, <1>7, SeqEqual
<1>9. QED BY <1>3, <1>4, <1>8 DEF w, T, h

(* The 21 bytes of an address, in hex, with 0x or without, decode to       *)
(* themselves.                                                             *)
LEMMA HexSpelling ==
  ASSUME NEW u \in Seq(LowerHexDigit), IsTronHex(u), NEW w \in {u, ZeroX \o u}
  PROVE  tron_address_to_bytes_text(w) = OK /\ TronTextBytes(w) = u
<1>1. strip_0x(w) = u
  <2>1. CASE w = u
    <3>1. ~(Len(u) >= 2 /\ u[1] = "0" /\ u[2] = "x")
      BY DEF IsTronHex, HasPrefix41
    <3>2. strip_0x(u) = u
      BY <3>1, Strip
    <3>3. QED BY <2>1, <3>2
  <2>2. CASE w = ZeroX \o u
    BY <2>2, AfterZeroX
  <2>3. QED BY <2>1, <2>2
<1>2. Len(u) = TronHexLen /\ IsPrefix(Prefix41, u) /\ AllHex(u) /\ Len(u) >= 2
  BY TextPrefix DEF IsTronHex, HasPrefix41
<1>3. AllHex(Part(u, 2, Len(u)))
  <2> DEFINE p == Part(u, 2, Len(u))
  <2>1. DOMAIN p = 1..(Len(u) - 2) /\ \A i \in 1..(Len(u) - 2) : p[i] = u[i + 2]
    BY <1>2, AfterPrefix
  <2> HIDE DEF p
  <2>2. DOMAIN u = 1..Len(u) /\ \A i \in 1..(Len(u) - 2) : i + 2 \in 1..Len(u)
    BY <1>2
  <2>3. QED BY <1>2, <2>1, <2>2 DEF AllHex, p
<1>4. SliceStr(u, 2, Len(u)) = OK
  BY <1>2, SliceOfHex
<1>5. strip_hex_prefix_text(w) = u /\ strip_hex_prefix_slices(w) = OK
  BY <1>1, <1>2, <1>3, <1>4 DEF strip_hex_prefix_text, strip_hex_prefix_slices
<1>6. u # << >> /\ Nibbles(u) = u /\ u # Undecodable
  <2>1. u # << >> /\ u # Undecodable
    <3>1. u[1] = "4"
      BY DEF IsTronHex, HasPrefix41
    <3>2. QED BY <1>2, <3>1 DEF Undecodable
  <2>2. QED BY <2>1, LowerIsLowered DEF Nibbles
<1>7. TronTextBytes(w) = u
  BY <1>5, <1>6 DEF TronTextBytes
<1>8. QED BY <1>2, <1>5, <1>6, <1>7
          DEF tron_address_to_bytes_text, enforce_shape_text, Require, ??, OK

(* An address text names one account on one chain, for every text          *)
(* (validate.rs:196-213,295, tron_address.rs:26-75).                       *)
THEOREM AddressesAgree == Spec => []AddressesReadAlike
<1>1. TextInv => AddressesReadAlike
  <2>1. SUFFICES ASSUME WellEncoded(text)
                 PROVE  AddressesReadAlike
    BY DEF TextInv
  <2> DEFINE h == strip_0x(text)
  <2>2. text \in Seq(Byte) /\ h \in Seq(Byte) /\ Len(text) \in Nat /\ DOMAIN text = 1..Len(text)
    BY <2>1, StripTyped DEF WellEncoded
  <2>3. ASSUME parse_address_text(text) = OK
        PROVE  tron_address_to_bytes_text(text) # OK
    <3>1. Len(h) = HashLen /\ AllHex(h)
      BY <2>3 DEF parse_address_text, Require, OK
    <3>2. ~IsTronHex(h)
      BY <3>1, Sizes DEF IsTronHex, TronHexLen
    <3>3. ~(Len(text) >= 1 /\ text[1] = "T")
      <4>1. SUFFICES ASSUME Len(text) >= 1, text[1] = "T"
                     PROVE  FALSE
        OBVIOUS
      <4>2. h = text
        BY <2>2, <4>1, Strip
      <4>3. text[1] \in HexDigit
        BY <2>2, <3>1, <4>1, <4>2 DEF AllHex
      <4>4. QED BY <4>1, <4>3, Chars
    <3>4. TronTextBytes(text) = Undecodable
      BY <2>1, <3>2, <3>3, TronBytesTyped
    <3>5. ~IsTronHex(TronTextBytes(text))
      BY <3>4 DEF IsTronHex, HasPrefix41, Undecodable
    <3>6. QED BY <2>1, <3>5, TronText DEF OK
  <2>4. ASSUME validate_evm_address_text(text) = OK
        PROVE  /\ parse_address_text(text) = OK
               /\ \A w \in EvmTexts :
                    eq_ignore_ascii_case(text, w) <=> EvmHash(text) = EvmHash(w)
    <3>1. HasPrefix0x(text) /\ Len(h) = HashLen /\ AllHex(h)
      BY <2>1, <2>4, EvmAddressText DEF Require, OK
    <3>2. parse_address_text(text) = OK
      BY <3>1 DEF parse_address_text, Require
    <3>3. Len(text) = HashLen + 2
      <4>1. Len(h) = Len(text) - 2
        BY <2>2, <3>1, Strip DEF HasPrefix0x
      <4>2. QED BY <2>2, <3>1, <4>1, Sizes
    <3>4. ASSUME NEW w \in EvmTexts
          PROVE  eq_ignore_ascii_case(text, w) <=> EvmHash(text) = EvmHash(w)
      <4>1. PICK u \in [1..HashLen -> Alphabet \cap HexDigit] : w = ZeroX \o u
        BY DEF EvmTexts
      <4>2. u \in Seq(HexDigit) /\ Len(u) = HashLen
        BY <4>1, Sizes
      <4> DEFINE T == Byte \cup (HexDigit \cup {"0", "x"})
      <4>3. w \in Seq(HexDigit \cup {"0", "x"}) /\ HasPrefix0x(w) /\ Len(w) = HashLen + 2
        BY <4>1, <4>2, AfterZeroX
      <4>4. text \in Seq(T) /\ w \in Seq(T)
        BY <2>2, <4>3
      <4> HIDE DEF T
      <4>5. QED BY <3>1, <3>3, <4>3, <4>4, SameUnderCase
    <3>5. QED BY <3>2, <3>4
  <2>5. ASSUME tron_address_to_bytes_text(text) = OK
        PROVE  \A w \in {TronTextBytes(text), ZeroX \o TronTextBytes(text)} :
                 tron_address_to_bytes_text(w) = OK /\ TronTextBytes(w) = TronTextBytes(text)
    <3>1. IsTronHex(TronTextBytes(text))
      BY <2>1, <2>5, TronText DEF OK
    <3>2. TronTextBytes(text) \in Seq(LowerHexDigit)
      <4>1. TronTextBytes(text) # Undecodable
        BY <3>1 DEF IsTronHex, HasPrefix41, Undecodable
      <4>2. QED BY <2>1, <4>1, TronBytesTyped
    <3>3. QED BY <3>1, <3>2, HexSpelling
  <2>6. QED BY <2>3, <2>4, <2>5 DEF AddressesReadAlike
<1>2. QED BY <1>1, TextsAreUtf8, PTL

(* The forms that the parsers accept, by the bytes of the text. *)
LEMMA FormIs ==
  ASSUME NEW t, WellEncoded(t)
  PROVE  LET f == AddressOf(t).form
             h == strip_0x(t)
         IN /\ f \in {"0xhex40", "0xHEX40"} <=>
                 HasPrefix0x(t) /\ Len(h) = HashLen /\ AllHex(h)
            /\ f \in {"0xhex40", "0xHEX40", "hex40"} <=> Len(h) = HashLen /\ AllHex(h)
            /\ f \in {"41hex40", "0x41hex40"} <=> IsTronHex(h)
            /\ f = "base58" <=> ~IsTronHex(h) /\ IsTronHex(TronTextBytes(t))
<1> DEFINE f == AddressOf(t).form
           h == strip_0x(t)
           b == Bs58(t)
           evm == Len(h) = HashLen /\ AllHex(h)
           tron == Len(h) = TronHexLen /\ AllHex(h) /\ IsPrefix(Prefix41, h)
           base58 == Head(t) = "T" /\ Len(t) = Base58Len
           good == Len(b) = TronHexLen /\ AllHex(b) /\ IsPrefix(Prefix41, b)
<1>1. /\ t \in Seq(Byte) /\ h \in Seq(Byte) /\ Len(t) \in Nat /\ Len(h) \in Nat
      /\ DOMAIN t = 1..Len(t) /\ HashLen \in Nat \ {0} /\ TronHexLen = HashLen + 2
  BY StripTyped, Sizes DEF WellEncoded, TronHexLen
<1>2. f = IF t = << >> THEN "empty"
          ELSE IF evm
          THEN IF h = t THEN "hex40" ELSE IF h = Nibbles(h) THEN "0xhex40" ELSE "0xHEX40"
          ELSE IF tron
          THEN IF h = t THEN "41hex40" ELSE "0x41hex40"
          ELSE IF base58
          THEN IF b = Undecodable THEN "base58BadSum"
               ELSE IF good THEN "base58" ELSE "base58Foreign"
          ELSE "junk"
  BY DEF AddressOf, HexOf
<1>3. h = t <=> ~HasPrefix0x(t)
  <2>1. ASSUME HasPrefix0x(t)
        PROVE  h # t
    <3>1. Len(h) = Len(t) - 2
      BY <1>1, <2>1, Strip DEF HasPrefix0x
    <3> HIDE DEF h
    <3>2. QED BY SMTT(60), <1>1, <3>1
  <2>2. ASSUME ~HasPrefix0x(t)
        PROVE  h = t
    BY <1>1, <2>2, Strip DEF HasPrefix0x
  <2>3. QED BY <2>1, <2>2
<1>4. tron <=> IsTronHex(h)
  <2> HIDE DEF h
  <2>1. QED BY <1>1, TextPrefix DEF IsTronHex
<1>5. t = << >> => ~evm /\ ~tron
  <2>1. ASSUME t = << >>
        PROVE  Len(h) = 0
    <3>1. ~HasPrefix0x(t)
      BY <2>1 DEF HasPrefix0x
    <3>2. h = t
      BY <1>3, <3>1
    <3> HIDE DEF h
    <3>3. QED BY <2>1, <3>2
  <2> HIDE DEF h
  <2>2. QED BY <1>1, <2>1
<1>6. ASSUME Len(t) >= 1, t[1] = "T"
      PROVE  ~evm /\ ~tron
  <2>1. h = t
    BY <1>3, <1>6 DEF HasPrefix0x
  <2> HIDE DEF h
  <2>2. "T" \notin HexDigit
    BY Chars
  <2>3. ~AllHex(h)
    BY <1>1, <1>6, <2>1, <2>2 DEF AllHex
  <2>4. QED BY <2>3
<1>7. t # << >> => (Head(t) = "T" <=> Len(t) >= 1 /\ t[1] = "T")
  BY <1>1
<1> HIDE DEF evm, h
<1>8. ASSUME ~IsTronHex(h)
      PROVE  IsTronHex(TronTextBytes(t)) <=>
               t # << >> /\ base58 /\ b # Undecodable /\ good
  <2>1. TronTextBytes(t) = IF Len(t) >= 1 /\ t[1] = "T" /\ Len(t) = Base58Len
                           THEN b ELSE Undecodable
    BY <1>8, TronBytesTyped DEF h
  <2>2. ~IsTronHex(Undecodable)
    BY DEF IsTronHex, HasPrefix41, Undecodable
  <2>3. t # << >> /\ base58 <=> Len(t) >= 1 /\ t[1] = "T" /\ Len(t) = Base58Len
    <3>1. t = << >> => ~(Len(t) >= 1)
      OBVIOUS
    <3>2. QED BY <1>7, <3>1
  <2>4. ASSUME t # << >>, base58, b # Undecodable
        PROVE  IsTronHex(b) <=> good
    <3>1. b \in Seq(LowerHexDigit)
      <4>1. t \in [1..Base58Len -> Byte]
        BY <1>1, <2>4
      <4>2. QED BY <2>4, <4>1, HexTextAssumption
    <3> HIDE DEF b
    <3>2. QED BY <3>1, TextPrefix DEF IsTronHex, b
  <2> HIDE DEF b, base58
  <2>5. QED BY <2>1, <2>2, <2>3, <2>4
<1> HIDE DEF f, tron, base58, b, good
<1>9. f \in {"0xhex40", "0xHEX40"} <=> HasPrefix0x(t) /\ evm
  BY <1>2, <1>3, <1>5
<1>10. f \in {"0xhex40", "0xHEX40", "hex40"} <=> evm
  BY <1>2, <1>5
<1>11. evm => ~tron
  BY <1>1 DEF evm, tron
<1>12. f \in {"41hex40", "0x41hex40"} <=> IsTronHex(h)
  BY <1>2, <1>4, <1>5, <1>11
<1>13. f = "base58" <=> ~IsTronHex(h) /\ IsTronHex(TronTextBytes(t))
  <2>1. t # << >> /\ base58 => ~evm /\ ~tron
    <3>1. t # << >> => Len(t) >= 1
      BY <1>1
    <3>2. QED BY <1>6, <1>7, <3>1 DEF base58
  <2>2. QED BY <1>2, <1>4, <1>5, <1>8, <2>1
<1>14. QED BY <1>9, <1>10, <1>12, <1>13 DEF f, evm, h

(* The forms of TxTypes decide on an address text what the code decides on *)
(* its bytes, for every text (validate.rs:196, tron_address.rs:26,         *)
(* evm.rs:205).                                                            *)
THEOREM AddressFormsFaithful == Spec => []AddressFormsAreFaithful
<1>1. TextInv => AddressFormsAreFaithful
  <2>1. SUFFICES ASSUME WellEncoded(text)
                 PROVE  AddressFormsAreFaithful
    BY DEF TextInv
  <2> DEFINE a == AddressOf(text)
             h == strip_0x(text)
  <2>2. /\ a.form \in {"0xhex40", "0xHEX40"} <=>
             HasPrefix0x(text) /\ Len(h) = HashLen /\ AllHex(h)
        /\ a.form \in {"0xhex40", "0xHEX40", "hex40"} <=> Len(h) = HashLen /\ AllHex(h)
        /\ a.form \in {"41hex40", "0x41hex40"} <=> IsTronHex(h)
        /\ a.form = "base58" <=> ~IsTronHex(h) /\ IsTronHex(TronTextBytes(text))
    BY <2>1, FormIs
  <2>3. IsTronHex(h) => IsTronHex(TronTextBytes(text))
    <3>1. SUFFICES ASSUME IsTronHex(h)
                   PROVE  IsTronHex(TronTextBytes(text))
      OBVIOUS
    <3>2. h \in Seq(Byte) /\ TronTextBytes(text) = to_ascii_lowercase(h)
      BY <2>1, <3>1, StripTyped, TronBytesTyped DEF WellEncoded, Nibbles
    <3> HIDE DEF h
    <3> DEFINE low == to_ascii_lowercase(h)
    <3>3. /\ Len(low) = Len(h) /\ AllHex(low)
          /\ \A i \in 1..Len(h) : low[i] = LowerChar(h[i])
      BY <3>1, <3>2, Lowered DEF IsTronHex
    <3>4. 1 \in 1..Len(h) /\ 2 \in 1..Len(h) /\ h[1] = "4" /\ h[2] = "1"
      BY <3>1, <3>2 DEF IsTronHex, HasPrefix41
    <3>5. LowerChar("4") = "4" /\ LowerChar("1") = "1"
      BY Chars DEF LowerHexDigit
    <3> HIDE DEF low
    <3>6. HasPrefix41(low) /\ Len(low) = TronHexLen
      BY <3>1, <3>3, <3>4, <3>5 DEF HasPrefix41, IsTronHex
    <3>7. QED BY <3>2, <3>3, <3>6 DEF IsTronHex, low
  <2> HIDE DEF a, h
  <2>4. validate_evm_address(a) = validate_evm_address_text(text)
    BY <2>1, <2>2, EvmAddressText DEF validate_evm_address, h
  <2>5. parse_address(a) = parse_address_text(text)
    BY <2>2 DEF parse_address, parse_address_text, h
  <2>6. tron_address_to_bytes(a) = tron_address_to_bytes_text(text)
    <3>1. tron_address_to_bytes(a) =
            IF a.form \in {"41hex40", "0x41hex40", "base58"} THEN OK ELSE "INVALID_ADDRESS"
      BY DEF tron_address_to_bytes, strip_hex_prefix, Base58Decodes, enforce_shape, TronBytes,
             Require, ??, OK
    <3>2. QED BY <2>1, <2>2, <2>3, <3>1, TronText
  <2>7. QED BY <2>4, <2>5, <2>6 DEF AddressFormsAreFaithful, a
<1>2. QED BY <1>1, TextsAreUtf8, PTL
============================================================================
