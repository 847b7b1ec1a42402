---------------------------- MODULE NumeralProofs ----------------------------
(***************************************************************************)
(* Theorems of Texts and NumeralText: what the numerals run checks on the  *)
(* texts of a small alphabet, for every text that can be typed and every   *)
(* width of number.                                                        *)
(***************************************************************************)
EXTENDS NumeralText, DataInduction, SequenceTheorems

----------------------------------------------------------------------------
(* Texts are well-formed UTF-8.                                            *)

LEMMA Bytes ==
  ASSUME NEW c \in Alphabet
  PROVE  /\ Utf8(c) \in Seq(Byte)
         /\ c = "wide" => Len(Utf8(c)) = 2 /\ Utf8(c)[1] = "wide1" /\ Utf8(c)[2] = "wide2"
         /\ c # "wide" => Len(Utf8(c)) = 1 /\ Utf8(c)[1] # "wide2"
<1>1. CASE c = "wide"
  <2>1. "wide1" \in Byte /\ "wide2" \in Byte
    BY DEF Byte
  <2>2. QED BY <1>1, <2>1 DEF Utf8
<1>2. CASE c # "wide"
  <2>1. c \in Byte /\ c # "wide2"
    BY <1>2, AlphabetAssumption DEF Byte
  <2>2. QED BY <1>2, <2>1 DEF Utf8
<1>3. QED BY <1>1, <1>2

(* Whatever is typed is UTF-8: the second half of a character stands after *)
(* its first.  It says of the texts that Type makes what a Rust str is by  *)
(* its type, and nothing of the code; the theorems on texts rest on it.    *)
LEMMA TextsAreUtf8 == Spec => []TextInv
<1>1. Init => TextInv
  <2>1. << >> \in Seq(Byte) /\ DOMAIN << >> = {}
    OBVIOUS
  <2>2. QED BY <2>1 DEF Init, TextInv, WellEncoded
<1>2. TextInv /\ [Next]_text => TextInv'
  <2>1. SUFFICES ASSUME TextInv, NEW c \in Alphabet, text' = text \o Utf8(c)
                 PROVE  TextInv'
    BY DEF Next, Type, TextInv, WellEncoded
  <2>2. text \in Seq(Byte) /\ \A i \in 1..Len(text) :
          text[i] = "wide2" => i > 1 /\ text[i - 1] = "wide1"
    <3>1. text \in Seq(Byte)
      BY <2>1 DEF TextInv, WellEncoded
    <3>2. DOMAIN text = 1..Len(text)
      BY <3>1
    <3>3. QED BY <2>1, <3>1, <3>2 DEF TextInv, WellEncoded
  <2> DEFINE u == Utf8(c)
  <2>3. u \in Seq(Byte)
    BY Bytes
  <2>4. /\ text' \in Seq(Byte)
        /\ Len(text') = Len(text) + Len(u)
        /\ \A i \in 1..(Len(text) + Len(u)) :
             text'[i] = IF i <= Len(text) THEN text[i] ELSE u[i - Len(text)]
    <3> HIDE DEF u
    <3>1. QED BY <2>1, <2>2, <2>3, ConcatProperties DEF u
  <2>5. ASSUME NEW i \in 1..Len(text'), text'[i] = "wide2"
        PROVE  i > 1 /\ text'[i - 1] = "wide1"
    <3>1. CASE i <= Len(text)
      <4>1. i > 1 /\ text[i - 1] = "wide1" /\ i - 1 \in 1..(Len(text) + Len(u))
        BY <2>2, <2>4, <2>5, <3>1
      <4> HIDE DEF u
      <4>2. QED BY <2>4, <3>1, <4>1
    <3>2. CASE i > Len(text)
      <4>1. u[i - Len(text)] = "wide2" /\ i - Len(text) \in 1..Len(u)
        <5> HIDE DEF u
        <5>1. QED BY <2>2, <2>3, <2>4, <2>5, <3>2
      <4>2. Len(u) = 2 /\ u[1] = "wide1" /\ i - Len(text) = 2
        BY <4>1, Bytes
      <4>3. i - 1 \in 1..(Len(text) + Len(u)) /\ i - 1 > Len(text) /\ (i - 1) - Len(text) = 1
        <5> HIDE DEF u
        <5>1. QED BY <2>2, <4>2
      <4> HIDE DEF u
      <4>4. QED BY <2>2, <2>4, <4>2, <4>3
    <3>3. QED BY <2>2, <3>1, <3>2
  <2>6. DOMAIN text' = 1..Len(text')
    BY <2>4
  <2>7. QED BY <2>4, <2>5, <2>6 DEF TextInv, WellEncoded
<1>3. QED BY <1>1, <1>2, PTL DEF Spec

----------------------------------------------------------------------------
(* Sequences.                                                              *)

LEMMA TailPart ==
  ASSUME NEW S, NEW t \in Seq(S), NEW k \in 1..(Len(t) + 1)
  PROVE  /\ SubSeq(t, k, Len(t)) \in Seq(S)
         /\ Len(SubSeq(t, k, Len(t))) = Len(t) - k + 1
         /\ \A i \in 1..(Len(t) - k + 1) : SubSeq(t, k, Len(t))[i] = t[i + k - 1]
<1>1. Len(t) \in Nat /\ k \in Int /\ \A i \in k..Len(t) : t[i] \in S
  OBVIOUS
<1>2. /\ SubSeq(t, k, Len(t)) \in Seq(S)
      /\ Len(SubSeq(t, k, Len(t))) = IF k <= Len(t) THEN Len(t) - k + 1 ELSE 0
      /\ \A i \in 1..(Len(t) - k + 1) : SubSeq(t, k, Len(t))[i] = t[k + i - 1]
  BY <1>1, SubSeqProperties
<1>3. QED BY <1>1, <1>2

----------------------------------------------------------------------------
(* The recursive functions of NumeralText, unfolded.                       *)

LEMMA DigitVals ==
  /\ \A c \in Digit : DigitVal(c) \in 0..9 /\ Digits[DigitVal(c) + 1] = c
  /\ \A n \in 0..9 : Digits[n + 1] \in Digit /\ DigitVal(Digits[n + 1]) = n
  /\ \A c \in Digit : DigitVal(c) = 0 => c = "0"
  /\ "0" \in Digit /\ DigitVal("0") = 0
  /\ "+" \notin Digit /\ "_" \notin Digit
<1>1. DOMAIN Digits = 1..10 /\ \A i, j \in 1..10 : Digits[i] = Digits[j] => i = j
  BY DEF Digits
<1>2. \A i \in 1..10 : DigitVal(Digits[i]) = i - 1
  <2>1. TAKE i \in 1..10
  <2>2. \E j \in DOMAIN Digits : Digits[j] = Digits[i]
    BY <1>1
  <2>3. (CHOOSE j \in DOMAIN Digits : Digits[j] = Digits[i]) = i
    BY <1>1, <2>2
  <2>4. QED BY <2>3 DEF DigitVal
<1>3. \A c \in Digit : \E i \in 1..10 : c = Digits[i]
  BY <1>1 DEF Digit
<1>4. \A n \in 0..9 : n + 1 \in 1..10 /\ (n + 1) - 1 = n
  OBVIOUS
<1>5. \A n \in 0..9 : Digits[n + 1] \in Digit /\ DigitVal(Digits[n + 1]) = n
  BY <1>1, <1>2, <1>4 DEF Digit
<1>6. Digits[1] = "0" /\ "+" \notin Digit /\ "_" \notin Digit
  <2>1. Digits[1] = "0" /\ \A i \in 1..10 : Digits[i] # "+" /\ Digits[i] # "_"
    BY DEF Digits
  <2>2. QED BY <1>3, <2>1
<1>7. \A c \in Digit : DigitVal(c) \in 0..9 /\ Digits[DigitVal(c) + 1] = c
  <2>1. TAKE c \in Digit
  <2>2. PICK i \in 1..10 : c = Digits[i]
    BY <1>3
  <2>3. DigitVal(c) = i - 1
    BY <1>2, <2>2
  <2>4. QED BY <2>2, <2>3
<1>8. \A c \in Digit : DigitVal(c) = 0 => c = "0"
  <2>1. \A c \in Digit : DigitVal(c) = 0 => c = Digits[0 + 1]
    BY <1>7
  <2>2. 0 + 1 = 1
    OBVIOUS
  <2>3. QED BY <1>6, <2>1, <2>2
<1>9. "0" \in Digit /\ DigitVal("0") = 0
  <2>1. 0 \in 0..9 /\ Digits[0 + 1] = Digits[1]
    OBVIOUS
  <2>2. QED BY <1>5, <1>6, <2>1
<1>10. QED BY <1>5, <1>6, <1>7, <1>8, <1>9

(* the numbers that the prefixes of t spell *)
Upto(t, g) == g = [k \in 0..Len(t) |-> IF k = 0 THEN 0 ELSE g[k - 1] * 10 + DigitVal(t[k])]

LEMMA ValueUnfolds ==
  ASSUME NEW t \in Seq(Digit)
  PROVE  \E g \in [0..Len(t) -> Nat] :
           /\ g[0] = 0
           /\ \A k \in 1..Len(t) : g[k] = g[k - 1] * 10 + DigitVal(t[k])
           /\ Value(t) = g[Len(t)]
<1> DEFINE n == Len(t)
           d == [q \in (1..n) \X Nat |-> q[2] * 10 + DigitVal(t[q[1]])]
<1>0. n \in Nat /\ \A k \in 1..n : t[k] \in Digit /\ DigitVal(t[k]) \in Nat
  <2>1. n \in Nat /\ \A k \in 1..n : t[k] \in Digit
    OBVIOUS
  <2>2. \A c \in Digit : DigitVal(c) \in Nat
    <3>1. \A c \in Digit : DigitVal(c) \in 0..9
      BY DigitVals
    <3>2. \A m \in 0..9 : m \in Nat
      OBVIOUS
    <3>3. QED BY <3>1, <3>2
  <2> HIDE DEF n
  <2>3. QED BY <2>1, <2>2
<1>1. PrefixRecursion(n, Nat, 0, d)
  <2>1. d \in [(1..n) \X Nat -> Nat]
    BY <1>0
  <2> HIDE DEF d, n
  <2>2. QED BY <1>0, <2>1 DEF PrefixRecursion
<1>2. PICK h : PrefixObeys(h, n, Nat, 0, d)
  <2> HIDE DEF d, n
  <2>1. QED BY <1>1, PrefixRecursionExists
<1>3. h \in [0..n -> Nat] /\ h[0] = 0 /\ \A k \in 1..n : h[k] = d[<<k, h[k - 1]>>]
  <2> HIDE DEF d, n
  <2>1. QED BY <1>2 DEF PrefixObeys
<1>4. \A k \in 1..n : h[k] = h[k - 1] * 10 + DigitVal(t[k])
  <2>1. TAKE k \in 1..n
  <2>2. k - 1 \in 0..n
    BY <1>0
  <2> HIDE DEF n
  <2>3. <<k, h[k - 1]>> \in (1..n) \X Nat
    BY <1>3, <2>2
  <2>4. QED BY <1>3, <2>3
<1> HIDE DEF d
<1>5. Upto(t, h)
  <2>1. \A k \in 0..n : h[k] = IF k = 0 THEN 0 ELSE h[k - 1] * 10 + DigitVal(t[k])
    BY <1>0, <1>3, <1>4
  <2>2. QED BY <1>3, <2>1 DEF Upto
<1> DEFINE g == CHOOSE f : Upto(t, f)
<1>6. Upto(t, g)
  BY <1>5
<1>7. Value(t) = g[n]
  BY Zenon DEF Value, Upto
<1> HIDE DEF g
<1>8. g[0] = 0 /\ \A k \in 1..n : g[k] = g[k - 1] * 10 + DigitVal(t[k])
  BY <1>0, <1>6 DEF Upto
<1>9. \A k \in 0..n : g[k] \in Nat
  <2> DEFINE S == {k \in 0..n : g[k] \in Nat}
  <2>1. 0 \in S /\ \A k \in 1..n : k - 1 \in S => k \in S
    BY <1>0, <1>8
  <2>2. \A k \in 0..n : k \in S
    <3> HIDE DEF S, n
    <3>1. QED BY <1>0, <2>1, PrefixInduction
  <2>3. QED BY <2>2
<1>10. g \in [0..n -> Nat]
  BY <1>6, <1>9 DEF Upto
<1>11. QED BY <1>7, <1>8, <1>10

(* what is kept of the prefixes of t when the "_" are skipped *)
Keep(s, c) == IF c = "_" THEN s ELSE Append(s, c)
Kept(t, g) == g = [k \in 0..Len(t) |-> IF k = 0 THEN << >> ELSE Keep(g[k - 1], t[k])]

LEMMA UngroupedUnfolds ==
  ASSUME NEW S, NEW t \in Seq(S)
  PROVE  \E g \in [0..Len(t) -> Seq(S)] :
           /\ g[0] = << >>
           /\ \A k \in 1..Len(t) : g[k] = Keep(g[k - 1], t[k])
           /\ Ungrouped(t) = g[Len(t)]
<1> DEFINE n == Len(t)
           V == Seq(S)
           d == [q \in (1..n) \X V |-> Keep(q[2], t[q[1]])]
<1>0. n \in Nat /\ \A k \in 1..n : t[k] \in S
  OBVIOUS
<1>k. << >> \in V /\ \A s \in V, c \in S : Keep(s, c) \in V
  <2>1. << >> \in V /\ \A s \in V, c \in S : Append(s, c) \in V
    OBVIOUS
  <2> HIDE DEF V
  <2>2. QED BY <2>1 DEF Keep
<1>1. PrefixRecursion(n, V, << >>, d)
  <2>1. \A q \in (1..n) \X V : q[2] \in V /\ Keep(q[2], t[q[1]]) \in V
    <3> HIDE DEF n, V
    <3>1. QED BY <1>0, <1>k
  <2>2. d \in [(1..n) \X V -> V]
    <3> HIDE DEF n, V
    <3>1. QED BY <2>1
  <2> HIDE DEF d, n, V
  <2>3. QED BY <1>0, <1>k, <2>2 DEF PrefixRecursion
<1>2. PICK h : PrefixObeys(h, n, V, << >>, d)
  <2> HIDE DEF d, n, V
  <2>1. QED BY <1>1, PrefixRecursionExists
<1>3. h \in [0..n -> V] /\ h[0] = << >> /\ \A k \in 1..n : h[k] = d[<<k, h[k - 1]>>]
  <2> HIDE DEF d, n, V
  <2>1. QED BY <1>2 DEF PrefixObeys
<1>4. \A k \in 1..n : h[k] = Keep(h[k - 1], t[k])
  <2>1. TAKE k \in 1..n
  <2>2. k - 1 \in 0..n
    BY <1>0
  <2> HIDE DEF n, V
  <2>3. <<k, h[k - 1]>> \in (1..n) \X V
    BY <1>3, <2>2
  <2>4. QED BY <1>3, <2>3
<1> HIDE DEF d
<1>5. Kept(t, h)
  <2>1. \A k \in 0..n : h[k] = IF k = 0 THEN << >> ELSE Keep(h[k - 1], t[k])
    <3> HIDE DEF n, V
    <3>1. QED BY <1>0, <1>3, <1>4
  <2>2. QED BY <1>3, <2>1 DEF Kept
<1> DEFINE g == CHOOSE f : Kept(t, f)
<1>6. Kept(t, g)
  BY <1>5
<1>7. Ungrouped(t) = g[n]
  BY Zenon DEF Ungrouped, Kept, Keep
<1> HIDE DEF g
<1>8. g[0] = << >> /\ \A k \in 1..n : g[k] = Keep(g[k - 1], t[k])
  <2>1. g = [k \in 0..n |-> IF k = 0 THEN << >> ELSE Keep(g[k - 1], t[k])]
    BY <1>6 DEF Kept
  <2> HIDE DEF n
  <2>2. QED BY <1>0, <2>1
<1>9. \A k \in 0..n : g[k] \in V
  <2> DEFINE W == {k \in 0..n : g[k] \in V}
  <2>1. 0 \in W /\ \A k \in 1..n : k - 1 \in W => k \in W
    <3> HIDE DEF n, V
    <3>1. QED BY <1>0, <1>8, <1>k
  <2>2. \A k \in 0..n : k \in W
    <3> HIDE DEF W, n
    <3>1. QED BY <1>0, <2>1, PrefixInduction
  <2>3. QED BY <2>2
<1>10. g \in [0..n -> V]
  BY <1>6, <1>9 DEF Kept
<1>11. QED BY <1>7, <1>8, <1>10

(* to_string writes the last digit after the text of the rest. *)
Written(f) ==
  f = [m \in Nat |->
         IF m < 10 THEN <<Digits[m + 1]>> ELSE Append(f[m \div 10], Digits[(m % 10) + 1])]

LEMMA TextUnfolds ==
  /\ \A m \in 0..9 : to_string(m) = <<Digits[m + 1]>>
  /\ \A m \in Nat \ {0}, n \in 0..9 :
       to_string(m * 10 + n) = Append(to_string(m), Digits[n + 1])
<1> DEFINE V == Seq(Digit)
           rank == [m \in Nat |-> m]
           B == 0..9
           c == [m \in Nat |-> IF m < 10 THEN <<Digits[m + 1]>> ELSE << >>]
           p == [m \in Nat |-> m \div 10]
           d == [q \in Nat \X V |-> Append(q[2], Digits[(q[1] % 10) + 1])]
<1>1. Recursion(Nat, V, rank, B, c, p, d)
  <2>1. rank \in [Nat -> Nat] /\ B \in SUBSET Nat
    OBVIOUS
  <2>2. c \in [Nat -> V]
    <3>1. \A m \in Nat : m < 10 => m \in 0..9
      OBVIOUS
    <3>2. \A m \in Nat : m < 10 => Digits[m + 1] \in Digit
      BY <3>1, DigitVals
    <3>3. << >> \in V /\ \A e \in Digit : <<e>> \in V
      OBVIOUS
    <3> HIDE DEF V
    <3>4. QED BY <3>2, <3>3
  <2>3. \A m \in Nat : m \div 10 \in Nat /\ (m % 10) \in 0..9 /\ (m >= 10 => m \div 10 < m)
    OBVIOUS
  <2>4. p \in [Nat -> Nat]
    BY <2>3
  <2>5. d \in [Nat \X V -> V]
    <3>1. \A m \in Nat : Digits[(m % 10) + 1] \in Digit
      BY <2>3, DigitVals
    <3>2. \A s \in V, e \in Digit : Append(s, e) \in V
      OBVIOUS
    <3> HIDE DEF V
    <3>3. QED BY <3>1, <3>2
  <2>6. \A m \in Nat \ B : rank[p[m]] < rank[m]
    BY <2>3
  <2> HIDE DEF V, rank, B, c, p, d
  <2>7. QED BY <2>1, <2>2, <2>4, <2>5, <2>6 DEF Recursion
<1>2. PICK h : Obeys(h, Nat, V, B, c, p, d)
  <2> HIDE DEF V, rank, B, c, p, d
  <2>1. QED BY <1>1, RecursionExists
<1>3. h \in [Nat -> V] /\ \A m \in Nat : h[m] = IF m \in B THEN c[m] ELSE d[<<m, h[p[m]]>>]
  <2> HIDE DEF V, rank, B, c, p, d
  <2>1. QED BY <1>2 DEF Obeys
<1>4. \A m \in Nat :
        h[m] = IF m < 10 THEN <<Digits[m + 1]>> ELSE Append(h[m \div 10], Digits[(m % 10) + 1])
  <2>1. TAKE m \in Nat
  <2>2. m \div 10 \in Nat /\ (m \in B <=> m < 10)
    OBVIOUS
  <2> HIDE DEF B, V
  <2>3. <<m, h[m \div 10]>> \in Nat \X V
    BY <1>3, <2>2
  <2>4. d[<<m, h[m \div 10]>>] = Append(h[m \div 10], Digits[(m % 10) + 1])
    BY <2>3
  <2>5. m < 10 => c[m] = <<Digits[m + 1]>>
    OBVIOUS
  <2>6. p[m] = m \div 10
    OBVIOUS
  <2> HIDE DEF c, p, d
  <2>7. QED BY <1>3, <2>2, <2>4, <2>5, <2>6
<1> HIDE DEF c, p, d, B, V
<1>5. Written(h)
  BY <1>3, <1>4 DEF Written
<1> DEFINE g == CHOOSE f : Written(f)
<1>6. Written(g)
  BY <1>5
<1>7. \A m : to_string(m) = g[m]
  BY Zenon DEF to_string, Written
<1> HIDE DEF g
<1>8. \A m \in Nat :
        g[m] = IF m < 10 THEN <<Digits[m + 1]>> ELSE Append(g[m \div 10], Digits[(m % 10) + 1])
  BY <1>6 DEF Written
<1>9. \A m \in 0..9 : g[m] = <<Digits[m + 1]>>
  <2>1. \A m \in 0..9 : m \in Nat /\ m < 10
    OBVIOUS
  <2>2. QED BY <1>8, <2>1
<1>10. \A m \in Nat \ {0}, n \in 0..9 : g[m * 10 + n] = Append(g[m], Digits[n + 1])
  <2>1. TAKE m \in Nat \ {0}, n \in 0..9
  <2>2. m * 10 + n \in Nat /\ ~(m * 10 + n < 10)
    OBVIOUS
  <2>3. (m * 10 + n) \div 10 = m /\ ((m * 10 + n) % 10) = n
    OBVIOUS
  <2>4. QED BY <1>8, <2>2, <2>3
<1>11. QED BY <1>7, <1>9, <1>10

LEMMA Powers ==
  /\ Pow10[0] = 1
  /\ \A n \in Nat : Pow10[n] \in Nat \ {0} /\ Pow10[n + 1] = 10 * Pow10[n]
<1> DEFINE V == Nat \ {0}
           rank == [n \in Nat |-> n]
           B == {0}
           c == [n \in Nat |-> 1]
           p == [n \in Nat |-> IF n = 0 THEN 0 ELSE n - 1]
           d == [q \in Nat \X V |-> 10 * q[2]]
           Obeyed(f) == f = [n \in Nat |-> IF n = 0 THEN 1 ELSE 10 * f[n - 1]]
<1>1. Recursion(Nat, V, rank, B, c, p, d)
  <2>1. rank \in [Nat -> Nat] /\ B \in SUBSET Nat /\ c \in [Nat -> V] /\ p \in [Nat -> Nat]
    OBVIOUS
  <2>2. d \in [Nat \X V -> V]
    OBVIOUS
  <2>3. \A n \in Nat \ B : rank[p[n]] < rank[n]
    OBVIOUS
  <2> HIDE DEF V, rank, B, c, p, d
  <2>4. QED BY <2>1, <2>2, <2>3 DEF Recursion
<1>2. PICK h : Obeys(h, Nat, V, B, c, p, d)
  <2> HIDE DEF V, rank, B, c, p, d
  <2>1. QED BY <1>1, RecursionExists
<1>3. h \in [Nat -> V] /\ \A n \in Nat : h[n] = IF n \in B THEN c[n] ELSE d[<<n, h[p[n]]>>]
  <2> HIDE DEF V, rank, B, c, p, d
  <2>1. QED BY <1>2 DEF Obeys
<1>4. \A n \in Nat : h[n] = IF n = 0 THEN 1 ELSE 10 * h[n - 1]
  <2>1. TAKE n \in Nat
  <2>2. n # 0 => p[n] = n - 1 /\ n - 1 \in Nat
    OBVIOUS
  <2>3. n # 0 => d[<<n, h[n - 1]>>] = 10 * h[n - 1]
    BY <1>3
  <2> HIDE DEF p, d, V
  <2>4. QED BY <1>3, <2>2, <2>3
<1> HIDE DEF p, d, B, c, V
<1>5. Obeyed(h)
  BY <1>3, <1>4
<1> DEFINE g == CHOOSE f : Obeyed(f)
<1>6. Obeyed(g)
  <2> HIDE DEF Obeyed
  <2>1. QED BY <1>5
<1>7. Pow10 = g
  BY Zenon DEF Pow10
<1> HIDE DEF g
<1>8. g[0] = 1 /\ \A n \in Nat : g[n + 1] = 10 * g[n]
  <2>1. \A n \in Nat : n + 1 \in Nat /\ n + 1 # 0 /\ (n + 1) - 1 = n
    OBVIOUS
  <2>2. QED BY <1>6, <2>1
<1>9. \A n \in Nat : g[n] \in Nat \ {0}
  <2> DEFINE S == {n \in Nat : g[n] \in Nat \ {0}}
  <2>1. 0 \in S /\ \A n \in Nat : n \in S => n + 1 \in S
    BY <1>8
  <2> HIDE DEF S
  <2>2. \A n \in Nat : n \in S
    BY <2>1, SetInduction
  <2>3. QED BY <2>2 DEF S
<1>10. QED BY <1>7, <1>8, <1>9

LEMMA PowersGrow == \A n, m \in Nat : n <= m => Pow10[n] <= Pow10[m]
<1>1. TAKE n \in Nat
<1> DEFINE S == {k \in Nat : Pow10[n] <= Pow10[n + k]}
<1>2. 0 \in S
  BY Powers
<1>3. \A k \in Nat : k \in S => k + 1 \in S
  <2>1. SUFFICES ASSUME NEW k \in Nat, Pow10[n] <= Pow10[n + k]
                 PROVE  Pow10[n] <= Pow10[n + (k + 1)]
    OBVIOUS
  <2>2. Pow10[n] \in Nat /\ Pow10[n + k] \in Nat /\ Pow10[(n + k) + 1] = 10 * Pow10[n + k]
    BY Powers
  <2>3. n + (k + 1) = (n + k) + 1
    OBVIOUS
  <2>4. QED BY <2>1, <2>2, <2>3
<1> HIDE DEF S
<1>4. \A k \in Nat : k \in S
  BY <1>2, <1>3, SetInduction
<1>5. ASSUME NEW m \in Nat, n <= m
      PROVE  Pow10[n] <= Pow10[m]
  <2>1. m - n \in Nat /\ n + (m - n) = m
    BY <1>5
  <2>2. m - n \in S
    BY <1>4, <2>1
  <2>3. Pow10[n] <= Pow10[n + (m - n)]
    BY <2>2 DEF S
  <2>4. QED BY <2>1, <2>3
<1>6. QED BY <1>5

----------------------------------------------------------------------------
(* What the digits of a text say.                                          *)

LEMMA OneMore ==
  ASSUME NEW S, NEW t \in Seq(S), NEW k \in 1..Len(t)
  PROVE  SubSeq(t, 1, k) = Append(SubSeq(t, 1, k - 1), t[k])
<1>1. /\ SubSeq(t, 1, k) \in Seq(S) /\ Len(SubSeq(t, 1, k)) = k
      /\ \A i \in 1..k : SubSeq(t, 1, k)[i] = t[i]
  OBVIOUS
<1>2. /\ SubSeq(t, 1, k - 1) \in Seq(S) /\ Len(SubSeq(t, 1, k - 1)) = k - 1
      /\ \A i \in 1..(k - 1) : SubSeq(t, 1, k - 1)[i] = t[i]
  OBVIOUS
<1> DEFINE u == SubSeq(t, 1, k)
           w == SubSeq(t, 1, k - 1)
<1>3. t[k] \in S
  OBVIOUS
<1> HIDE DEF u, w
<1>4. /\ Append(w, t[k]) \in Seq(S) /\ Len(Append(w, t[k])) = k
      /\ \A i \in 1..k : Append(w, t[k])[i] = t[i]
  BY <1>2, <1>3, AppendProperties DEF w
<1>5. u = Append(w, t[k])
  BY <1>1, <1>4, SeqEqual DEF u
<1>6. QED BY <1>5 DEF u, w

(* A text of digits spells less than ten to its length, and, unless it     *)
(* starts with a 0, no less than ten to one less; and a number has one     *)
(* text that does not.                                                     *)
LEMMA Spells ==
  ASSUME NEW t \in Seq(Digit), t # << >>
  PROVE  /\ Value(t) \in Nat
         /\ Value(t) < Pow10[Len(t)]
         /\ t[1] # "0" => Pow10[Len(t) - 1] <= Value(t)
         /\ t[1] # "0" \/ Len(t) = 1 => to_string(Value(t)) = t
<1>1. PICK g \in [0..Len(t) -> Nat] :
        /\ g[0] = 0
        /\ \A k \in 1..Len(t) : g[k] = g[k - 1] * 10 + DigitVal(t[k])
        /\ Value(t) = g[Len(t)]
  BY ValueUnfolds
<1>2. Len(t) \in Nat /\ Len(t) >= 1 /\ \A k \in 1..Len(t) : t[k] \in Digit
  OBVIOUS
<1>3. \A k \in 1..Len(t) : DigitVal(t[k]) \in 0..9 /\ Digits[DigitVal(t[k]) + 1] = t[k]
  BY <1>2, DigitVals
<1>4. \A k \in 0..Len(t) : g[k] \in Nat
  OBVIOUS
<1>5. \A k \in 0..Len(t) : g[k] < Pow10[k]
  <2> DEFINE S == {k \in 0..Len(t) : g[k] < Pow10[k]}
  <2>1. 0 \in S
    <3>1. Pow10[0] = 1
      BY Powers
    <3>2. 0 \in 0..Len(t) /\ g[0] = 0
      BY <1>1, <1>2
    <3>3. g[0] < Pow10[0]
      BY <3>1, <3>2
    <3>4. QED BY <3>2, <3>3
  <2>2. \A k \in 1..Len(t) : k - 1 \in S => k \in S
    <3>1. SUFFICES ASSUME NEW k \in 1..Len(t), g[k - 1] < Pow10[k - 1]
                   PROVE  g[k] < Pow10[k]
      OBVIOUS
    <3>2. k - 1 \in Nat /\ (k - 1) + 1 = k
      OBVIOUS
    <3>3. Pow10[k - 1] \in Nat /\ Pow10[k] = 10 * Pow10[k - 1]
      BY <3>2, Powers
    <3>4. g[k - 1] \in Nat
      OBVIOUS
    <3>5. g[k] = g[k - 1] * 10 + DigitVal(t[k]) /\ DigitVal(t[k]) \in 0..9
      BY <1>1, <1>3
    <3>6. DigitVal(t[k]) \in Nat /\ DigitVal(t[k]) <= 9
      BY <3>5
    <3>7. \A p, q, c \in Nat : p < q /\ c <= 9 => p * 10 + c < 10 * q
      OBVIOUS
    <3>8. g[k - 1] * 10 + DigitVal(t[k]) < 10 * Pow10[k - 1]
      BY <3>1, <3>3, <3>4, <3>6, <3>7
    <3>9. QED BY <3>3, <3>5, <3>8
  <2> HIDE DEF S
  <2>3. \A k \in 0..Len(t) : k \in S
    BY <1>2, <2>1, <2>2, PrefixInduction
  <2>4. QED BY <2>3 DEF S
<1>6. ASSUME t[1] # "0"
      PROVE  \A k \in 1..Len(t) : Pow10[k - 1] <= g[k]
  <2> DEFINE S == {k \in 0..Len(t) : k > 0 => Pow10[k - 1] <= g[k]}
  <2>1. 0 \in S
    OBVIOUS
  <2>2. \A k \in 1..Len(t) : k - 1 \in S => k \in S
    <3>1. SUFFICES ASSUME NEW k \in 1..Len(t), k - 1 > 0 => Pow10[(k - 1) - 1] <= g[k - 1]
                   PROVE  Pow10[k - 1] <= g[k]
      OBVIOUS
    <3>2. CASE k = 1
      <4>1. t[1] \in Digit /\ 1 \in 1..Len(t) /\ DigitVal(t[1]) \in 0..9
        BY <1>2, <1>3
      <4>2. DigitVal(t[1]) # 0
        BY <1>6, <4>1, DigitVals
      <4>3. g[1] = g[1 - 1] * 10 + DigitVal(t[1]) /\ g[1 - 1] = 0
        BY <1>1, <4>1
      <4>4. Pow10[k - 1] = 1
        BY <3>2, Powers
      <4>5. g[1] = DigitVal(t[1]) /\ DigitVal(t[1]) >= 1
        BY <4>1, <4>2, <4>3
      <4>6. QED BY <3>2, <4>4, <4>5
    <3>3. CASE k > 1
      <4>1. (k - 1) - 1 \in Nat /\ ((k - 1) - 1) + 1 = k - 1
        BY <3>3
      <4>2. Pow10[(k - 1) - 1] \in Nat /\ Pow10[k - 1] = 10 * Pow10[(k - 1) - 1]
        BY <4>1, Powers
      <4>3. g[k] = g[k - 1] * 10 + DigitVal(t[k]) /\ DigitVal(t[k]) \in 0..9
        BY <1>1, <1>3
      <4>4. g[k - 1] \in Nat
        BY <1>4, <3>3
      <4>5. Pow10[(k - 1) - 1] <= g[k - 1]
        BY <1>2, <3>1, <3>3
      <4>6. \A p, q, c \in Nat : p <= q => 10 * p <= q * 10 + c
        OBVIOUS
      <4>7. DigitVal(t[k]) \in Nat
        BY <4>3
      <4>8. 10 * Pow10[(k - 1) - 1] <= g[k - 1] * 10 + DigitVal(t[k])
        BY <4>2, <4>4, <4>5, <4>6, <4>7
      <4>9. QED BY <4>2, <4>3, <4>8
    <3>4. QED BY <3>2, <3>3
  <2> HIDE DEF S
  <2>3. \A k \in 0..Len(t) : k \in S
    BY <1>2, <2>1, <2>2, PrefixInduction
  <2>4. QED BY <2>3 DEF S
<1>7. ASSUME t[1] # "0" \/ Len(t) = 1
      PROVE  \A k \in 1..Len(t) : to_string(g[k]) = SubSeq(t, 1, k)
  <2> DEFINE Told(k) == to_string(g[k]) = SubSeq(t, 1, k)
             S == {k \in 0..Len(t) : k > 0 => Told(k)}
  <2>1. 0 \in S
    OBVIOUS
  <2>2. \A k \in 1..Len(t) : k - 1 \in S => k \in S
    <3>1. SUFFICES ASSUME NEW k \in 1..Len(t),
                          k - 1 > 0 => Told(k - 1)
                   PROVE  Told(k)
      <4> HIDE DEF Told
      <4>1. QED OBVIOUS
    <3> DEFINE n == DigitVal(t[k])
    <3>2. n \in 0..9 /\ Digits[n + 1] = t[k]
      BY <1>3
    <3>3. SubSeq(t, 1, k) = Append(SubSeq(t, 1, k - 1), t[k])
      BY OneMore
    <3>4. CASE k = 1
      <4>1. g[k] = n
        BY <1>1, <3>2, <3>4
      <4>2. SubSeq(t, 1, k - 1) = << >>
        BY <3>4
      <4>3. Append(<< >>, t[k]) = <<t[k]>>
        OBVIOUS
      <4> HIDE DEF n
      <4>4. QED BY <3>2, <3>3, <4>1, <4>2, <4>3, TextUnfolds
    <3>5. CASE k > 1
      <4>1. t[1] # "0" /\ k - 1 \in 1..Len(t)
        BY <1>7, <3>5
      <4>2. Pow10[(k - 1) - 1] <= g[k - 1] /\ Pow10[(k - 1) - 1] \in Nat \ {0}
        <5>1. (k - 1) - 1 \in Nat
          BY <3>5
        <5>2. QED BY <1>6, <4>1, <5>1, Powers
      <4>3. g[k - 1] \in Nat \ {0}
        BY <1>4, <4>1, <4>2
      <4>4. g[k] = g[k - 1] * 10 + n
        BY <1>1
      <4> HIDE DEF n
      <4>5. to_string(g[k]) = Append(to_string(g[k - 1]), Digits[n + 1])
        BY <3>2, <4>3, <4>4, TextUnfolds
      <4>6. QED BY <3>1, <3>2, <3>3, <3>5, <4>5
    <3>6. QED BY <3>4, <3>5
  <2> HIDE DEF S
  <2>3. \A k \in 0..Len(t) : k \in S
    BY <1>2, <2>1, <2>2, PrefixInduction
  <2>4. QED BY <2>3 DEF S
<1>8. SubSeq(t, 1, Len(t)) = t
  OBVIOUS
<1>9. Len(t) \in 0..Len(t) /\ Len(t) \in 1..Len(t)
  BY <1>2
<1>10. QED BY <1>1, <1>4, <1>5, <1>6, <1>7, <1>8, <1>9

(* Skipping the "_" leaves a text of digits alone, and leaves digits only  *)
(* of a text of digits and "_" only.                                       *)
LEMMA Skipped ==
  ASSUME NEW S, NEW t \in Seq(S)
  PROVE  /\ Ungrouped(t) \in Seq(S)
         /\ AllDigits(t) => Ungrouped(t) = t
         /\ AllDigits(Ungrouped(t)) <=> \A i \in DOMAIN t : t[i] \in Digit \cup {"_"}
<1>1. PICK g \in [0..Len(t) -> Seq(S)] :
        /\ g[0] = << >>
        /\ \A k \in 1..Len(t) : g[k] = Keep(g[k - 1], t[k])
        /\ Ungrouped(t) = g[Len(t)]
  BY UngroupedUnfolds
<1>2. Len(t) \in Nat /\ DOMAIN t = 1..Len(t) /\ \A k \in 1..Len(t) : t[k] \in S
  OBVIOUS
<1>3. ASSUME AllDigits(t)
      PROVE  \A k \in 0..Len(t) : g[k] = SubSeq(t, 1, k)
  <2> DEFINE W == {k \in 0..Len(t) : g[k] = SubSeq(t, 1, k)}
  <2>1. 0 \in W
    BY <1>1
  <2>2. \A k \in 1..Len(t) : k - 1 \in W => k \in W
    <3>1. SUFFICES ASSUME NEW k \in 1..Len(t), g[k - 1] = SubSeq(t, 1, k - 1)
                   PROVE  g[k] = SubSeq(t, 1, k)
      OBVIOUS
    <3>2. t[k] # "_"
      BY ZenonT(60), <1>2, <1>3, DigitVals DEF AllDigits
    <3>3. SubSeq(t, 1, k) = Append(SubSeq(t, 1, k - 1), t[k])
      BY OneMore
    <3>4. QED BY <1>1, <3>1, <3>2, <3>3 DEF Keep
  <2> HIDE DEF W
  <2>3. \A k \in 0..Len(t) : k \in W
    BY <1>2, <2>1, <2>2, PrefixInduction
  <2>4. QED BY <2>3 DEF W
<1>4. AllDigits(t) => Ungrouped(t) = t
  <2>1. SubSeq(t, 1, Len(t)) = t /\ Len(t) \in 0..Len(t)
    BY <1>2
  <2>2. QED BY <1>1, <1>3, <2>1
<1>5. \A k \in 0..Len(t) : AllDigits(g[k]) <=> \A i \in 1..k : t[i] \in Digit \cup {"_"}
  <2> DEFINE Grouped(k) == \A i \in 1..k : t[i] \in Digit \cup {"_"}
             W == {k \in 0..Len(t) : AllDigits(g[k]) <=> Grouped(k)}
  <2>1. 0 \in W
    <3>1. DOMAIN << >> = {} /\ 1..0 = {}
      OBVIOUS
    <3>2. AllDigits(g[0])
      BY <1>1, <3>1 DEF AllDigits
    <3>3. 0 \in 0..Len(t) /\ Grouped(0)
      BY <1>2, <3>1
    <3> HIDE DEF Grouped
    <3>4. QED BY <3>2, <3>3
  <2>2. \A k \in 1..Len(t) : k - 1 \in W => k \in W
    <3>1. SUFFICES ASSUME NEW k \in 1..Len(t),
                          AllDigits(g[k - 1]) <=> Grouped(k - 1)
                   PROVE  AllDigits(g[k]) <=> Grouped(k)
      <4> HIDE DEF Grouped
      <4>1. QED OBVIOUS
    <3>2. Grouped(k) <=> Grouped(k - 1) /\ t[k] \in Digit \cup {"_"}
      <4>1. 1..k = (1..(k - 1)) \cup {k}
        OBVIOUS
      <4>2. QED BY <4>1
    <3>3. g[k - 1] \in Seq(S) /\ t[k] \in S
      BY <1>2
    <3>4. AllDigits(Append(g[k - 1], t[k])) <=> AllDigits(g[k - 1]) /\ t[k] \in Digit
      <4> DEFINE u == g[k - 1]
                 n == Len(u)
      <4>1. /\ DOMAIN Append(u, t[k]) = 1..(n + 1)
            /\ \A i \in 1..n : Append(u, t[k])[i] = u[i]
            /\ Append(u, t[k])[n + 1] = t[k]
            /\ n \in Nat /\ DOMAIN u = 1..n
        <5> HIDE DEF u
        <5>1. QED BY <3>3, AppendProperties DEF u
      <4>2. 1..(n + 1) = (1..n) \cup {n + 1}
        <5> HIDE DEF n
        <5>1. QED BY <4>1
      <4> HIDE DEF u, n
      <4>3. AllDigits(Append(u, t[k])) <=> AllDigits(u) /\ t[k] \in Digit
        BY <4>1, <4>2 DEF AllDigits
      <4>4. QED BY <4>3 DEF u
    <3> HIDE DEF Grouped
    <3>5. CASE t[k] = "_"
      BY <1>1, <3>1, <3>2, <3>5 DEF Keep
    <3>6. CASE t[k] # "_"
      BY <1>1, <3>1, <3>2, <3>4, <3>6 DEF Keep
    <3>7. QED BY <3>5, <3>6
  <2> HIDE DEF W
  <2>3. \A k \in 0..Len(t) : k \in W
    BY <1>2, <2>1, <2>2, PrefixInduction
  <2>4. QED BY <2>3 DEF W
<1>6. Len(t) \in 0..Len(t)
  BY <1>2
<1>7. QED BY <1>1, <1>2, <1>4, <1>5, <1>6

----------------------------------------------------------------------------
(* The parsers, on a text of bytes.                                        *)

LEMMA Shape ==
  ASSUME NEW S, NEW t \in Seq(S), t # << >>
  PROVE  /\ Len(t) \in Nat /\ Len(t) >= 1 /\ Head(t) = t[1]
         /\ Tail(t) \in Seq(S) /\ Len(Tail(t)) = Len(t) - 1
         /\ AllDigits(t) <=> Head(t) \in Digit /\ AllDigits(Tail(t))
         /\ AllDigits(t) => t \in Seq(Digit)
         /\ Tail(t) = << >> <=> Len(t) = 1
<1>1. /\ Len(t) \in Nat /\ Len(t) >= 1 /\ Head(t) = t[1] /\ DOMAIN t = 1..Len(t)
      /\ Tail(t) \in Seq(S) /\ Len(Tail(t)) = Len(t) - 1
      /\ \A i \in 1..(Len(t) - 1) : Tail(t)[i] = t[i + 1]
  BY HeadTailProperties
<1> DEFINE u == Tail(t)
<1>2. DOMAIN u = 1..(Len(t) - 1)
  <2>1. u \in Seq(S) /\ Len(u) = Len(t) - 1
    BY <1>1
  <2> HIDE DEF u
  <2>2. QED BY <2>1
<1>3. u = << >> <=> Len(t) = 1
  <2>1. u \in Seq(S) /\ Len(u) = Len(t) - 1
    BY <1>1
  <2> HIDE DEF u
  <2>2. QED BY <1>1, <2>1
<1> HIDE DEF u
<1>4. AllDigits(t) => t[1] \in Digit /\ AllDigits(u)
  <2>1. SUFFICES ASSUME AllDigits(t)
                 PROVE  t[1] \in Digit /\ AllDigits(u)
    OBVIOUS
  <2>2. \A i \in 1..Len(t) : t[i] \in Digit
    BY <1>1, <2>1 DEF AllDigits
  <2>3. t[1] \in Digit
    BY <1>1, <2>2
  <2>4. \A i \in 1..(Len(t) - 1) : u[i] \in Digit
    <3>1. TAKE i \in 1..(Len(t) - 1)
    <3>2. i + 1 \in 1..Len(t)
      BY <1>1
    <3>3. QED BY <1>1, <2>2, <3>2 DEF u
  <2>5. QED BY <1>2, <2>3, <2>4 DEF AllDigits
<1>5. t[1] \in Digit /\ AllDigits(u) => AllDigits(t)
  <2>1. SUFFICES ASSUME t[1] \in Digit, AllDigits(u), NEW i \in 1..Len(t)
                 PROVE  t[i] \in Digit
    BY <1>1 DEF AllDigits
  <2>2. CASE i = 1
    BY <2>1, <2>2
  <2>3. CASE i # 1
    <3>1. i - 1 \in 1..(Len(t) - 1) /\ (i - 1) + 1 = i
      BY <1>1, <2>3
    <3>2. u[i - 1] \in Digit
      BY <1>2, <2>1, <3>1 DEF AllDigits
    <3>3. u[i - 1] = t[(i - 1) + 1]
      BY <1>1, <3>1 DEF u
    <3>4. QED BY <3>1, <3>2, <3>3
  <2>4. QED BY <2>2, <2>3
<1>6. AllDigits(t) => t \in Seq(Digit)
  <2>1. SUFFICES ASSUME AllDigits(t)
                 PROVE  t \in Seq(Digit)
    OBVIOUS
  <2>2. t = [i \in 1..Len(t) |-> t[i]] /\ \A i \in 1..Len(t) : t[i] \in Digit
    BY <1>1, <2>1 DEF AllDigits
  <2>3. QED BY <1>1, <2>2
<1>7. QED BY <1>1, <1>3, <1>4, <1>5, <1>6 DEF u

LEMMA Accepted ==
  ASSUME NEW S, NEW t \in Seq(S)
  PROVE  is_non_neg_int_text(t) <=>
           /\ t # << >> /\ Len(t) <= MAX_DECIMAL_LEN /\ AllDigits(t)
           /\ Len(t) = 1 \/ Head(t) # "0"
<1>1. CASE t = << >>
  BY <1>1 DEF is_non_neg_int_text
<1>2. CASE t # << >>
  <2>1. /\ Len(t) \in Nat /\ Len(t) >= 1 /\ Head(t) = t[1]
        /\ AllDigits(t) <=> Head(t) \in Digit /\ AllDigits(Tail(t))
        /\ Tail(t) = << >> <=> Len(t) = 1
    BY <1>2, Shape
  <2>2. t = <<"0">> <=> Len(t) = 1 /\ t[1] = "0"
    <3>1. Len(<<"0">>) = 1 /\ <<"0">>[1] = "0"
      OBVIOUS
    <3>2. Len(t) = 1 /\ t[1] = "0" => t = <<"0">>
      <4>1. t = [i \in 1..Len(t) |-> t[i]]
        OBVIOUS
      <4>2. QED BY <4>1
    <3>3. QED BY <3>1, <3>2
  <2>3. AllDigits(<< >>) /\ "0" \in Digit
    <3>1. DOMAIN << >> = {}
      OBVIOUS
    <3>2. QED BY <3>1, DigitVals DEF AllDigits
  <2>4. QED BY <1>2, <2>1, <2>2, <2>3 DEF is_non_neg_int_text
<1>3. QED BY <1>1, <1>2

(* What an accepted text spells. *)
LEMMA AcceptedSpells ==
  ASSUME NEW S, NEW t \in Seq(S), t # << >>, AllDigits(t)
  PROVE  /\ Value(t) \in Nat
         /\ is_non_neg_int_text(t)
              => to_string(Value(t)) = t /\ Value(t) < DecimalCap
         /\ Len(t) = 1 \/ Head(t) # "0"
              => (is_non_neg_int_text(t) <=> Value(t) < DecimalCap)
         /\ parse_text(t, U64Max) = IF Value(t) <= U64Max THEN Value(t) ELSE Refused
         /\ parse_text(t, U128Max) = IF Value(t) <= U128Max THEN Value(t) ELSE Refused
         /\ from_str_radix_text(t) = IF Value(t) <= U256Max THEN Value(t) ELSE Refused
<1>1. /\ Len(t) \in Nat /\ Len(t) >= 1 /\ Head(t) = t[1]
      /\ t \in Seq(Digit) /\ Head(t) \in Digit
  BY Shape
<1>2. /\ Value(t) \in Nat
      /\ Value(t) < Pow10[Len(t)]
      /\ t[1] # "0" => Pow10[Len(t) - 1] <= Value(t)
      /\ t[1] # "0" \/ Len(t) = 1 => to_string(Value(t)) = t
  BY <1>1, Spells
<1>3. MAX_DECIMAL_LEN \in Nat \ {0} /\ DecimalCap = Pow10[MAX_DECIMAL_LEN]
  BY NumeralTextAssumption
<1>4. Pow10[MAX_DECIMAL_LEN] \in Nat /\ Pow10[Len(t)] \in Nat
  BY <1>1, <1>3, Powers
<1>5. Len(t) <= MAX_DECIMAL_LEN => Value(t) < DecimalCap
  <2>1. Len(t) <= MAX_DECIMAL_LEN => Pow10[Len(t)] <= Pow10[MAX_DECIMAL_LEN]
    BY <1>1, <1>3, PowersGrow
  <2>2. QED BY <1>2, <1>3, <1>4, <2>1
<1>6. ASSUME Len(t) = 1 \/ t[1] # "0", Value(t) < DecimalCap
      PROVE  Len(t) <= MAX_DECIMAL_LEN
  <2>1. CASE Len(t) = 1
    BY <1>3, <2>1
  <2>2. CASE Len(t) # 1
    <3>1. Len(t) - 1 \in Nat /\ Pow10[Len(t) - 1] <= Value(t)
      BY <1>1, <1>2, <1>6, <2>2
    <3>2. Pow10[Len(t) - 1] \in Nat
      BY <3>1, Powers
    <3>3. MAX_DECIMAL_LEN <= Len(t) - 1 => Pow10[MAX_DECIMAL_LEN] <= Pow10[Len(t) - 1]
      BY <1>3, <3>1, PowersGrow
    <3>4. ~(MAX_DECIMAL_LEN <= Len(t) - 1)
      BY <1>2, <1>3, <1>4, <1>6, <3>1, <3>2, <3>3
    <3>5. QED BY <1>1, <1>3, <3>4
  <2>3. QED BY <2>1, <2>2
<1>7. Head(t) # "+"
  BY <1>1, DigitVals
<1>8. Ungrouped(t) = t
  BY Skipped
<1>9. is_non_neg_int_text(t) <=> Len(t) <= MAX_DECIMAL_LEN /\ (Len(t) = 1 \/ Head(t) # "0")
  BY Accepted
<1>10. /\ parse_text(t, U64Max) = IF Value(t) <= U64Max THEN Value(t) ELSE Refused
       /\ parse_text(t, U128Max) = IF Value(t) <= U128Max THEN Value(t) ELSE Refused
  BY <1>7 DEF parse_text
<1>11. from_str_radix_text(t) = IF Value(t) <= U256Max THEN Value(t) ELSE Refused
  BY <1>8 DEF from_str_radix_text
<1>12. QED BY <1>1, <1>2, <1>5, <1>6, <1>9, <1>10, <1>11

(* On every text that can be typed, and for every width of number: a text  *)
(* that validate accepts is the one way to write its number, and what the  *)
(* parsers of compile and review read of it is that number or a refusal    *)
(* for its width (validate.rs:641-654, evm.rs:215-243, review.rs:158-167). *)
THEOREM AcceptedTextsAgree == Spec => []AcceptedReadAlike
<1>1. TextInv => AcceptedReadAlike
  <2>1. SUFFICES ASSUME TextInv, is_non_neg_int_text(text)
                 PROVE  LET n == from_str_radix_text(text)
                        IN /\ n = IF Value(text) <= U256Max THEN Value(text) ELSE Refused
                           /\ \A max \in Widths :
                                parse_text(text, max) = IF Value(text) <= max THEN n ELSE Refused
                           /\ n # Refused => to_string(n) = text
                           /\ Value(text) < DecimalCap
    BY DEF AcceptedReadAlike
  <2>2. text \in Seq(Byte)
    BY <2>1 DEF TextInv, WellEncoded
  <2>3. text # << >> /\ AllDigits(text)
    BY <2>1, <2>2, Accepted
  <2>4. /\ Value(text) \in Nat
        /\ to_string(Value(text)) = text /\ Value(text) < DecimalCap
        /\ parse_text(text, U64Max) = IF Value(text) <= U64Max THEN Value(text) ELSE Refused
        /\ parse_text(text, U128Max) = IF Value(text) <= U128Max THEN Value(text) ELSE Refused
        /\ from_str_radix_text(text) = IF Value(text) <= U256Max THEN Value(text) ELSE Refused
    BY <2>1, <2>2, <2>3, AcceptedSpells
  <2>5. /\ U64Max \in Nat /\ U128Max \in Nat /\ U256Max \in Nat
        /\ U64Max <= U256Max /\ U128Max <= U256Max
    BY WidthAssumption
  <2>6. /\ Value(text) <= U64Max => Value(text) <= U256Max
        /\ Value(text) <= U128Max => Value(text) <= U256Max
    BY <2>4, <2>5
  <2>7. QED BY <2>4, <2>6 DEF Widths
<1>2. QED BY <1>1, TextsAreUtf8, PTL

(* Whatever is typed, the form of its numeral decides what its characters  *)
(* decide, in validate's check and in the three parsers, and carries the   *)
(* number they read: what the other modules know of a numeral is all that  *)
(* the code can tell of its text (validate.rs:641, evm.rs:215-243).        *)
THEOREM NumeralsFaithful == Spec => []NumeralsAreFaithful
<1>1. TextInv => NumeralsAreFaithful
  <2> DEFINE s == NumeralOf(text)
             Faithful ==
               /\ is_non_neg_int(s) <=> is_non_neg_int_text(text)
               /\ parse_text(text, U64Max) = IF FitsUint(s, U64Max) THEN s.val ELSE Refused
               /\ parse_text(text, U128Max) = IF FitsUint(s, U128Max) THEN s.val ELSE Refused
               /\ from_str_radix_text(text) = IF FitsU256(s) THEN s.val ELSE Refused
  <2>1. SUFFICES ASSUME TextInv
                 PROVE  Faithful
    BY DEF NumeralsAreFaithful, Widths
  <2>2. text \in Seq(Byte)
    BY <2>1 DEF TextInv, WellEncoded
  <2>3. CASE text # << >> /\ AllDigits(text)
    <3>1. s = [form |-> IF text = <<"0">> \/ Head(text) # "0" THEN "canon" ELSE "padded",
               val |-> Value(text)]
      BY <2>3 DEF NumeralOf
    <3>2. /\ Value(text) \in Nat
          /\ Len(text) = 1 \/ Head(text) # "0"
               => (is_non_neg_int_text(text) <=> Value(text) < DecimalCap)
          /\ parse_text(text, U64Max) = IF Value(text) <= U64Max THEN Value(text) ELSE Refused
          /\ parse_text(text, U128Max) = IF Value(text) <= U128Max THEN Value(text) ELSE Refused
          /\ from_str_radix_text(text) = IF Value(text) <= U256Max THEN Value(text) ELSE Refused
      BY <2>2, <2>3, AcceptedSpells
    <3>3. is_non_neg_int_text(text) => Len(text) = 1 \/ Head(text) # "0"
      BY <2>2, Accepted
    <3>4. text = <<"0">> \/ Head(text) # "0" <=> Len(text) = 1 \/ Head(text) # "0"
      <4>1. Head(text) = text[1]
        BY <2>2, <2>3, Shape
      <4>2. Len(text) = 1 /\ text[1] = "0" => text = <<"0">>
        <5>1. text = [i \in 1..Len(text) |-> text[i]]
          BY <2>2
        <5>2. QED BY <5>1
      <4>3. Len(<<"0">>) = 1
        OBVIOUS
      <4>4. QED BY <4>1, <4>2, <4>3
    <3>5. QED BY <3>1, <3>2, <3>3, <3>4 DEF is_non_neg_int, FitsUint, FitsU256
  <2>4. CASE ~(text # << >> /\ AllDigits(text))
    <3>1. ~is_non_neg_int_text(text)
      BY <2>2, <2>4, Accepted
    <3>2. /\ Ungrouped(text) \in Seq(Byte)
          /\ AllDigits(Ungrouped(text))
               <=> \A i \in DOMAIN text : text[i] \in Digit \cup {"_"}
      BY <2>2, Skipped
    <3>3. AllDigits(Ungrouped(text)) => Value(Ungrouped(text)) \in Nat
      <4>1. ASSUME AllDigits(Ungrouped(text))
            PROVE  Ungrouped(text) \in Seq(Digit)
        <5> DEFINE u == Ungrouped(text)
        <5>1. u \in Seq(Byte) /\ AllDigits(u)
          BY <3>2, <4>1
        <5> HIDE DEF u
        <5>2. u # << >> => u \in Seq(Digit)
          BY <5>1, Shape
        <5>3. u = << >> => u \in Seq(Digit)
          OBVIOUS
        <5>4. u \in Seq(Digit)
          BY <5>2, <5>3
        <5>5. QED BY <5>4 DEF u
      <4>2. QED BY <4>1, ValueUnfolds
    <3>4. CASE Len(text) > 1 /\ Head(text) = "+" /\ AllDigits(Tail(text))
      <4>1. text # << >> /\ Head(text) = text[1] /\ Tail(text) # << >> /\ 1 \in DOMAIN text
        <5>1. text # << >>
          <6>1. Len(<< >>) = 0
            OBVIOUS
          <6>2. QED BY <3>4, <6>1
        <5>2. /\ Len(text) \in Nat /\ Head(text) = text[1]
              /\ Tail(text) = << >> <=> Len(text) = 1
          BY <2>2, <5>1, Shape
        <5>3. 1 \in DOMAIN text
          BY <2>2, <3>4, <5>2
        <5>4. Len(text) # 1
          <6> DEFINE n == Len(text)
          <6>1. n > 1 /\ n \in Nat
            BY <3>4, <5>2, Zenon
          <6> HIDE DEF n
          <6>2. n # 1
            BY <6>1
          <6>3. QED BY <6>2 DEF n
        <5>5. QED BY <5>1, <5>2, <5>3, <5>4
      <4>2. s = [form |-> "signed", val |-> Value(Tail(text))]
        BY <2>4, <3>4 DEF NumeralOf
      <4>3. ~AllDigits(Ungrouped(text))
        <5>1. "+" \notin Digit \cup {"_"}
          BY DigitVals
        <5>2. QED BY <3>2, <3>4, <4>1, <5>1
      <4>4. QED BY <3>1, <3>4, <4>1, <4>2, <4>3
              DEF is_non_neg_int, FitsUint, FitsU256, parse_text, from_str_radix_text
    <3>5. CASE ~(Len(text) > 1 /\ Head(text) = "+" /\ AllDigits(Tail(text)))
      <4>1. parse_text(text, U64Max) = Refused /\ parse_text(text, U128Max) = Refused
        <5>1. text # << >> /\ Head(text) = "+" /\ Tail(text) # << >> => Len(text) > 1
          BY <2>2, Shape
        <5>2. QED BY <2>4, <3>5, <5>1 DEF parse_text
      <4>2. CASE AllDigits(Ungrouped(text))
        <5>1. s = [form |-> "grouped", val |-> Value(Ungrouped(text))]
          BY <2>4, <3>2, <3>5, <4>2 DEF NumeralOf
        <5>2. QED BY <3>1, <4>1, <4>2, <5>1
                DEF is_non_neg_int, FitsUint, FitsU256, from_str_radix_text
      <4>3. CASE ~AllDigits(Ungrouped(text))
        <5>1. s = [form |-> "junk", val |-> 0]
          BY <2>4, <3>2, <3>5, <4>3 DEF NumeralOf
        <5>2. QED BY <3>1, <4>1, <4>3, <5>1
                DEF is_non_neg_int, FitsUint, FitsU256, from_str_radix_text
      <4>4. QED BY <4>2, <4>3
    <3>6. QED BY <3>4, <3>5
  <2>5. QED BY <2>3, <2>4
<1>2. QED BY <1>1, TextsAreUtf8, PTL
============================================================================
