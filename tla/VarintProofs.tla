---------------------------- MODULE VarintProofs ----------------------------
(***************************************************************************)
(* The varint loop for every Base and Top, so for 2^7 and 2^64 too, every  *)
(* set of inputs and buffers of any length: the reader gives back what was *)
(* written, and every encoding is minimal.                                 *)
(***************************************************************************)
EXTENDS Varint, TLAPS

----------------------------------------------------------------------------
(* Arithmetic.                                                             *)

(* A number is its last digit and Base times the others. *)
LEMMA DigitAndRest ==
  ASSUME NEW v \in Nat
  PROVE  /\ v % Base \in 0..(Base - 1)
         /\ v \div Base \in Nat
         /\ v = Base * (v \div Base) + (v % Base)
         /\ v >= Base => v \div Base > 0
         /\ v \div Base <= v
  <1>1. Base \in Nat /\ Base > 1
    BY VarintAssumption
  <1> DEFINE q == v \div Base
             r == v % Base
  <1>2. q \in Int /\ r \in 0..(Base - 1) /\ v = Base * q + r
    BY <1>1
  <1> HIDE DEF q, r
  <1>3. q >= 0
    <2>1. CASE q <= -1
      <3>1. Base * q <= -Base
        BY <1>1, <1>2, <2>1
      <3> QED
        BY <3>1, <1>1, <1>2
    <2> QED
      BY <2>1, <1>2
  <1>4. v >= Base => q > 0
    BY <1>1, <1>2, <1>3
  <1>5. q <= v
    <2>1. Base * q >= q
      BY <1>1, <1>2, <1>3
    <2> QED
      BY <2>1, <1>1, <1>2
  <1> QED
    BY <1>2, <1>3, <1>4, <1>5 DEF q, r

(* The continuation bit does not change the digit. *)
LEMMA MarkedDigit ==
  ASSUME NEW d \in 0..(Base - 1)
  PROVE  (d + Base) % Base = d /\ d + Base # 0
  <1>1. Base \in Nat /\ Base > 1 /\ d \in Int /\ 0 <= d /\ d < Base
    BY VarintAssumption
  <1> QED
    BY <1>1

(* A digit that is left of a number below Top is shifted without loss. *)
LEMMA ChunkExact ==
  ASSUME NEW v \in Nat, NEW a \in Nat, NEW s \in Nat \ {0}, a + s * v < Top
  PROVE  /\ (v % Base) * s \in Nat
         /\ ((v % Base) * s) % Top = (v % Base) * s
  <1>1. v % Base \in Nat /\ v % Base <= v
    <2>1. Base * (v \div Base) \in Nat
      BY DigitAndRest, VarintAssumption
    <2> QED
      BY <2>1, DigitAndRest, VarintAssumption
  <1> DEFINE d == v % Base
  <1>2. d \in Nat /\ d <= v
    BY <1>1
  <1> HIDE DEF d
  <1>3. d * s \in Nat /\ d * s <= s * v
    BY <1>2
  <1>4. s * v \in Nat
    OBVIOUS
  <1>5. d * s < Top
    BY <1>3, <1>4, VarintAssumption
  <1>6. (d * s) % Top = d * s
    <2> DEFINE x == d * s
    <2>1. x \in Nat /\ x < Top
      BY <1>3, <1>5
    <2> HIDE DEF x
    <2>2. x % Top = x
      BY <2>1, VarintAssumption
    <2> QED
      BY <2>2 DEF x
  <1> QED
    BY <1>3, <1>6 DEF d

(* Reading a digit moves it from what is left to what is read. *)
LEMMA DigitMoves ==
  ASSUME NEW v \in Nat, NEW a \in Nat, NEW s \in Nat \ {0}, a < s
  PROVE  /\ a + s * v = (a + (v % Base) * s) + (s * Base) * (v \div Base)
         /\ a + (v % Base) * s < s * Base
         /\ s * Base \in Nat /\ s * Base > 1
  <1> DEFINE d == v % Base
             q == v \div Base
  <1>1. d \in 0..(Base - 1) /\ q \in Nat /\ v = Base * q + d /\ Base \in Nat /\ Base > 1
    BY DigitAndRest, VarintAssumption
  <1> HIDE DEF d, q
  <1>2. s * v = s * (Base * q) + s * d
    BY <1>1
  <1>3. s * (Base * q) = (s * Base) * q /\ s * d = d * s
    BY <1>1
  <1>4. a + s * v = (a + d * s) + (s * Base) * q
    BY <1>1, <1>2, <1>3
  <1>5. d * s <= (Base - 1) * s
    BY <1>1
  <1>6. (Base - 1) * s = s * Base - s
    BY <1>1
  <1>7. a + d * s < s * Base
    BY <1>1, <1>5, <1>6
  <1>8. s * Base \in Nat /\ s * Base >= Base
    BY <1>1
  <1> QED
    BY <1>1, <1>4, <1>7, <1>8 DEF d, q

(* The elements of a sequence are in its set. *)
LEMMA Elements ==
  ASSUME NEW S, NEW s \in Seq(S)
  PROVE  Len(s) \in Nat /\ \A i \in 1..Len(s) : s[i] \in S
  OBVIOUS

(* Appending keeps the elements and adds one. *)
LEMMA Appended ==
  ASSUME NEW S, NEW s \in Seq(S), NEW e \in S
  PROVE  /\ Append(s, e) \in Seq(S)
         /\ Len(s) \in Nat /\ Len(Append(s, e)) = Len(s) + 1
         /\ \A i \in 1..Len(s) : Append(s, e)[i] = s[i] /\ s[i] \in S
         /\ Append(s, e)[Len(s) + 1] = e
  OBVIOUS

----------------------------------------------------------------------------
(* The writer.                                                             *)

LEMMA InitInv == Init => VarintInv
  <1>1. SUFFICES ASSUME Init PROVE VarintInv
    OBVIOUS
  <1>2. /\ pc = "idle" /\ value = 0 /\ next = 1 /\ acc = 0 /\ scale = 1
        /\ Len(out) = 0 /\ Len(sent) = 0 /\ Len(got) = 0 /\ Len(pushed) = 0
    BY <1>1 DEF Init
  <1>3. TypeOK
    BY <1>1, VarintAssumption DEF Init, TypeOK, U64
  <1>4. BytesAreDigits /\ Chained
    BY <1>2 DEF BytesAreDigits, Chained
  <1>5. WriterAt /\ ReaderAt /\ ReadsWhatWasSent
    BY <1>2 DEF WriterAt, ReaderAt, ReadsWhatWasSent
  <1> QED
    BY <1>3, <1>4, <1>5 DEF VarintInv

(* A call puts its value in the register. *)
LEMMA CallInv ==
  ASSUME VarintInv, NEW v \in Inputs, Call(v)
  PROVE  VarintInv'
  <1>1. v \in U64
    BY VarintAssumption DEF U64
  <1>2. /\ sent' = Append(sent, v) /\ sent \in Seq(U64)
        /\ pc = "idle" /\ pc' = "loop" /\ value' = v
        /\ UNCHANGED <<out, pushed, next, acc, scale, got>>
    BY DEF Call, reader, VarintInv, TypeOK
  <1>3. /\ sent' \in Seq(U64) /\ Len(sent) \in Nat /\ Len(sent') = Len(sent) + 1
        /\ \A k \in 1..Len(sent) : sent'[k] = sent[k]
        /\ sent'[Len(sent) + 1] = v
    BY <1>1, <1>2, Appended
  <1>4. TypeOK'
    BY <1>1, <1>2, <1>3 DEF VarintInv, TypeOK
  <1>5. BytesAreDigits'
    BY <1>2 DEF VarintInv, BytesAreDigits, Ends
  <1>6. Chained'
    <2>1. Len(pushed) > 0 => pushed'[1] = [call |-> 1, left |-> sent'[1]]
      BY <1>2, <1>3 DEF VarintInv, Chained, TypeOK
    <2>2. \A i \in 1..Len(pushed) :
            /\ pushed[i].call \in 1..Len(sent')
            /\ pushed[i].left = 0 => i = 1 \/ Ends(i - 1)
      BY <1>2, <1>3 DEF VarintInv, Chained
    <2>3. ASSUME NEW i \in 1..(Len(pushed) - 1)
          PROVE  pushed[i + 1] =
            IF Ends(i) THEN [call |-> pushed[i].call + 1, left |-> sent'[pushed[i].call + 1]]
            ELSE [call |-> pushed[i].call, left |-> pushed[i].left \div Base]
      <3>1. i + 1 \in 1..Len(pushed) /\ i \in 1..Len(pushed)
        BY DEF VarintInv, TypeOK
      <3>2. pushed[i + 1].call \in 1..Len(sent)
        BY <3>1 DEF VarintInv, Chained
      <3>3. CASE Ends(i)
        <4>1. pushed[i + 1] = [call |-> pushed[i].call + 1, left |-> sent[pushed[i].call + 1]]
          BY <3>3 DEF VarintInv, Chained
        <4> QED
          BY <4>1, <3>2, <3>3, <1>3
      <3> QED
        BY <3>3 DEF VarintInv, Chained
    <2> QED
      BY <1>2, <2>1, <2>2, <2>3 DEF Chained, Ends
  <1>7. WriterAt'
    BY <1>2, <1>3 DEF VarintInv, WriterAt, Ends, Chained, TypeOK
  <1>8. ReaderAt'
    BY <1>2, <1>3 DEF VarintInv, ReaderAt, Chained, BytesAreDigits, TypeOK
  <1>9. ReadsWhatWasSent'
    BY <1>2, <1>3 DEF VarintInv, ReadsWhatWasSent, TypeOK
  <1> QED
    BY <1>4, <1>5, <1>6, <1>7, <1>8, <1>9 DEF VarintInv

(* What a push appends to the buffer and to its history. *)
LEMMA Pushed ==
  ASSUME VarintInv, NEW byte \in Byte, Push(byte), UNCHANGED <<sent, reader>>
  PROVE  /\ out' \in Seq(Byte) /\ pushed' \in Seq([call : Nat, left : U64])
         /\ Len(out) \in Nat /\ Len(pushed) = Len(out)
         /\ Len(out') = Len(out) + 1 /\ Len(pushed') = Len(out) + 1
         /\ \A i \in 1..Len(out) :
              /\ out'[i] = out[i] /\ pushed'[i] = pushed[i]
              /\ pushed[i] \in [call : Nat, left : U64]
         /\ out'[Len(out) + 1] = byte
         /\ pushed'[Len(out) + 1] = [call |-> Len(sent), left |-> value]
         /\ sent' = sent /\ next' = next /\ acc' = acc /\ scale' = scale /\ got' = got
  <1> DEFINE p == [call |-> Len(sent), left |-> value]
             P == [call : Nat, left : U64]
  <1>1. p \in P /\ pushed \in Seq(P) /\ out \in Seq(Byte) /\ Len(out) = Len(pushed)
    BY DEF VarintInv, TypeOK, BytesAreDigits
  <1>2. out' = Append(out, byte) /\ pushed' = Append(pushed, p)
    BY DEF Push
  <1> HIDE DEF p, P
  <1>3. /\ pushed' \in Seq(P) /\ Len(pushed') = Len(pushed) + 1
        /\ \A i \in 1..Len(pushed) : pushed'[i] = pushed[i] /\ pushed[i] \in P
        /\ pushed'[Len(pushed) + 1] = p
    BY <1>1, <1>2, Appended
  <1>4. /\ out' \in Seq(Byte) /\ Len(out) \in Nat /\ Len(out') = Len(out) + 1
        /\ \A i \in 1..Len(out) : out'[i] = out[i]
        /\ out'[Len(out) + 1] = byte
    BY <1>1, <1>2, Appended
  <1> QED
    BY <1>1, <1>3, <1>4 DEF p, P, reader

(* The history stays a chain when the register is pushed. *)
LEMMA PushedChained ==
  ASSUME VarintInv, pc = "loop", NEW byte \in Byte, Push(byte), UNCHANGED <<sent, reader>>
  PROVE  Chained'
  <1> DEFINE n == Len(out)
  <1>1. /\ n \in Nat /\ Len(pushed) = n /\ Len(pushed') = n + 1
        /\ \A i \in 1..n : pushed'[i] = pushed[i]
        /\ pushed'[n + 1] = [call |-> Len(sent), left |-> value]
        /\ sent' = sent
    BY Pushed
  <1> HIDE DEF n
  <1>2. Len(sent) \in Nat /\ Len(sent) > 0 /\ value \in Nat
    BY VarintAssumption DEF VarintInv, WriterAt, TypeOK, U64
  <1>3. pushed'[1] = [call |-> 1, left |-> sent[1]]
    <2>1. CASE n = 0
      BY <1>1, <2>1 DEF VarintInv, WriterAt
    <2>2. CASE n > 0
      BY <1>1, <2>2 DEF VarintInv, Chained
    <2> QED
      BY <1>1, <2>1, <2>2
  <1>4. ASSUME NEW i \in 1..(n + 1)
        PROVE  /\ pushed'[i].call \in 1..Len(sent)
               /\ pushed'[i].left = 0 => i = 1 \/ pushed'[i - 1].left < Base
    <2>1. CASE i \in 1..n
      BY <1>1, <2>1 DEF VarintInv, Chained, Ends
    <2>2. CASE i = n + 1
      <3>1. pushed'[i] = [call |-> Len(sent), left |-> value]
        BY <1>1, <2>2
      <3>2. n > 0 => (value > 0 \/ pushed[n].left < Base)
        BY <1>1 DEF VarintInv, WriterAt, Ends
      <3>3. n > 0 => pushed'[i - 1] = pushed[n]
        BY <1>1, <2>2
      <3> QED
        BY <3>1, <3>2, <3>3, <1>1, <1>2, <2>2
    <2> QED
      BY <1>1, <2>1, <2>2
  <1>5. ASSUME NEW i \in 1..n
        PROVE  pushed'[i + 1] =
          IF pushed'[i].left < Base
          THEN [call |-> pushed'[i].call + 1, left |-> sent[pushed'[i].call + 1]]
          ELSE [call |-> pushed'[i].call, left |-> pushed'[i].left \div Base]
    <2>1. CASE i \in 1..(n - 1)
      <3>1. pushed'[i + 1] = pushed[i + 1] /\ pushed'[i] = pushed[i]
        BY <1>1, <2>1
      <3> QED
        BY <3>1, <1>1, <2>1 DEF VarintInv, Chained, Ends
    <2>2. CASE i = n
      <3>1. pushed'[i + 1] = [call |-> Len(sent), left |-> value] /\ pushed'[i] = pushed[n]
        BY <1>1, <2>2
      <3>2. IF pushed[n].left < Base
            THEN pushed[n].call = Len(sent) - 1 /\ value = sent[Len(sent)]
            ELSE pushed[n].call = Len(sent) /\ value = pushed[n].left \div Base
        BY <1>1, <2>2 DEF VarintInv, WriterAt, Ends
      <3> QED
        BY <3>1, <3>2, <1>2
    <2> QED
      BY <1>1, <2>1, <2>2
  <1>6. 1..Len(pushed') = 1..(n + 1) /\ 1..(Len(pushed') - 1) = 1..n
    BY <1>1
  <1>7. (Len(pushed) > 0 => pushed[1] = [call |-> 1, left |-> sent[1]])'
    BY <1>1, <1>3
  <1>8. ( \A i \in 1..Len(pushed) :
            /\ pushed[i].call \in 1..Len(sent)
            /\ pushed[i].left = 0 => i = 1 \/ Ends(i - 1) )'
    BY <1>1, <1>4, <1>6 DEF Ends
  <1>9. ( \A i \in 1..(Len(pushed) - 1) :
            pushed[i + 1] =
              IF Ends(i) THEN [call |-> pushed[i].call + 1, left |-> sent[pushed[i].call + 1]]
              ELSE [call |-> pushed[i].call, left |-> pushed[i].left \div Base] )'
    BY <1>1, <1>5, <1>6 DEF Ends
  <1> QED
    BY <1>7, <1>8, <1>9 DEF Chained

(* The writer does not disturb a reader that has not begun. *)
LEMMA PushedReader ==
  ASSUME VarintInv, pc = "loop", pc' \in {"loop", "idle"},
         NEW byte \in Byte, Push(byte), UNCHANGED <<sent, reader>>
  PROVE  ReaderAt' /\ ReadsWhatWasSent'
  <1>1. next = 1 /\ Len(got) = 0 /\ acc = 0 /\ scale = 1
    BY DEF VarintInv, ReaderAt
  <1>2. /\ pushed'[1] = [call |-> 1, left |-> sent[1]]
        /\ sent[1] \in Nat
    <2>1. Chained' /\ Len(pushed') > 0 /\ sent' = sent
      BY PushedChained, Pushed
    <2>2. Len(sent) > 0 /\ sent \in Seq(U64)
      BY DEF VarintInv, WriterAt, TypeOK
    <2>3. pushed'[1] = [call |-> 1, left |-> sent[1]]
      BY <2>1 DEF Chained
    <2>4. sent[1] \in U64
      BY <2>2, Elements
    <2> QED
      BY <2>3, <2>4, VarintAssumption DEF U64
  <1>3. Len(out') > 1 - 1 /\ Len(out') \in Nat
    BY Pushed
  <1>4. next' = 1 /\ acc' = 0 /\ scale' = 1 /\ got' = got /\ sent' = sent
    BY <1>1 DEF reader
  <1>5. ReaderAt'
    BY <1>1, <1>2, <1>3, <1>4 DEF ReaderAt
  <1>6. ReadsWhatWasSent'
    BY <1>4 DEF VarintInv, ReadsWhatWasSent
  <1> QED
    BY <1>5, <1>6

LEMMA PushDigitInv == ASSUME VarintInv, PushDigit PROVE VarintInv'
  <1>1. /\ pc = "loop" /\ pc' = pc /\ value >= Base /\ UNCHANGED <<sent, reader>>
        /\ Push((value % Base) + Base) /\ value' = value \div Base
    BY DEF PushDigit, More, Digit, Rest
  <1>2. value \in U64 /\ value \in Nat /\ Base \in Nat /\ Top \in Nat
    BY VarintAssumption DEF VarintInv, TypeOK, U64
  <1>3. /\ value % Base \in 0..(Base - 1) /\ value' \in Nat /\ value' > 0 /\ value' <= value
    BY <1>1, <1>2, DigitAndRest
  <1>4. (value % Base) + Base \in Byte /\ value' \in U64
    BY <1>2, <1>3 DEF Byte, U64
  <1>5. /\ out' \in Seq(Byte) /\ pushed' \in Seq([call : Nat, left : U64])
        /\ Len(out) \in Nat /\ Len(pushed) = Len(out)
        /\ Len(out') = Len(out) + 1 /\ Len(pushed') = Len(out) + 1
        /\ \A i \in 1..Len(out) : out'[i] = out[i] /\ pushed'[i] = pushed[i]
        /\ out'[Len(out) + 1] = (value % Base) + Base
        /\ pushed'[Len(out) + 1] = [call |-> Len(sent), left |-> value]
        /\ sent' = sent /\ next' = next /\ acc' = acc /\ scale' = scale /\ got' = got
    BY <1>1, <1>4, Pushed
  <1>6. TypeOK'
    BY <1>1, <1>4, <1>5 DEF VarintInv, TypeOK
  <1>7. BytesAreDigits'
    BY <1>1, <1>2, <1>5 DEF VarintInv, BytesAreDigits, Ends
  <1>8. Chained'
    BY <1>1, <1>4, PushedChained
  <1>9. WriterAt'
    <2>1. Len(sent) > 0
      BY <1>1 DEF VarintInv, WriterAt
    <2> QED
      BY <2>1, <1>1, <1>2, <1>3, <1>5 DEF WriterAt, Ends
  <1>10. ReaderAt' /\ ReadsWhatWasSent'
    BY <1>1, <1>4, PushedReader
  <1> QED
    BY <1>6, <1>7, <1>8, <1>9, <1>10 DEF VarintInv

LEMMA PushLastInv == ASSUME VarintInv, PushLast PROVE VarintInv'
  <1>1. /\ pc = "loop" /\ pc' = "idle" /\ ~(value >= Base) /\ UNCHANGED <<value, sent, reader>>
        /\ Push(value)
    BY DEF PushLast, More
  <1>2. value \in U64 /\ value \in Nat /\ Base \in Nat /\ Top \in Nat
    BY VarintAssumption DEF VarintInv, TypeOK, U64
  <1>3. value \in Byte /\ value < Base
    BY <1>1, <1>2 DEF Byte, U64
  <1>4. /\ out' \in Seq(Byte) /\ pushed' \in Seq([call : Nat, left : U64])
        /\ Len(out) \in Nat /\ Len(pushed) = Len(out)
        /\ Len(out') = Len(out) + 1 /\ Len(pushed') = Len(out) + 1
        /\ \A i \in 1..Len(out) : out'[i] = out[i] /\ pushed'[i] = pushed[i]
        /\ out'[Len(out) + 1] = value
        /\ pushed'[Len(out) + 1] = [call |-> Len(sent), left |-> value]
        /\ sent' = sent /\ next' = next /\ acc' = acc /\ scale' = scale /\ got' = got
    BY <1>1, <1>3, Pushed
  <1>5. TypeOK'
    BY <1>1, <1>4 DEF VarintInv, TypeOK
  <1>6. BytesAreDigits'
    BY <1>3, <1>4 DEF VarintInv, BytesAreDigits, Ends
  <1>7. Chained'
    BY <1>1, <1>3, PushedChained
  <1>8. WriterAt'
    BY <1>1, <1>3, <1>4 DEF WriterAt, Ends
  <1>9. ReaderAt' /\ ReadsWhatWasSent'
    BY <1>1, <1>3, PushedReader
  <1> QED
    BY <1>5, <1>6, <1>7, <1>8, <1>9 DEF VarintInv

----------------------------------------------------------------------------
(* The reader.                                                             *)

LEMMA StartReadingInv == ASSUME VarintInv, StartReading PROVE VarintInv'
  <1>1. pc = "idle" /\ pc' = "read" /\ UNCHANGED <<value, out, sent, pushed, next, acc, scale, got>>
    BY DEF StartReading, writer, reader
  <1>2. TypeOK' /\ BytesAreDigits' /\ Chained'
    BY <1>1 DEF VarintInv, TypeOK, BytesAreDigits, Chained, Ends
  <1>3. WriterAt' /\ ReaderAt' /\ ReadsWhatWasSent'
    BY <1>1 DEF VarintInv, WriterAt, ReaderAt, ReadsWhatWasSent, Ends
  <1> QED
    BY <1>2, <1>3 DEF VarintInv

(* Where the reader stands in the middle of the buffer. *)
LEMMA ReaderPosition ==
  ASSUME VarintInv, pc = "read", next <= Len(out)
  PROVE  LET p == pushed[next]
         IN /\ next \in 1..Len(out) /\ Len(out) \in Nat /\ Len(pushed) = Len(out)
            /\ p.call \in 1..Len(sent) /\ Len(sent) \in Nat /\ Len(got) = p.call - 1
            /\ p.left \in Nat /\ acc \in Nat /\ scale \in Nat \ {0} /\ acc < scale
            /\ sent[p.call] = acc + scale * p.left
            /\ sent[p.call] \in U64
            /\ out[next] = IF p.left < Base THEN p.left ELSE (p.left % Base) + Base
            /\ scale > 1 => p.left > 0
            /\ scale < Top
  <1> DEFINE p == pushed[next]
  <1>1. next \in 1..Len(out) /\ Len(out) \in Nat /\ Len(pushed) = Len(out)
    BY DEF VarintInv, TypeOK, BytesAreDigits
  <1>2. p.left \in Nat /\ sent \in Seq(U64) /\ acc \in Nat /\ scale \in Nat \ {0}
    <2>1. pushed \in Seq([call : Nat, left : U64])
      BY DEF VarintInv, TypeOK
    <2>2. p \in [call : Nat, left : U64]
      BY <2>1, <1>1, Elements
    <2> QED
      BY <2>2, VarintAssumption DEF VarintInv, TypeOK, U64
  <1>3. p.call \in 1..Len(sent) /\ Len(sent) \in Nat
    BY <1>1, <1>2, Elements DEF VarintInv, Chained
  <1>4. /\ Len(got) = p.call - 1 /\ acc < scale
        /\ scale > 1 => p.left > 0
        /\ sent[Len(got) + 1] = acc + scale * p.left
    BY DEF VarintInv, ReaderAt
  <1>5. sent[p.call] = acc + scale * p.left
    BY <1>3, <1>4
  <1>6. sent[p.call] \in U64
    BY <1>2, <1>3, Elements
  <1>7. out[next] = IF p.left < Base THEN p.left ELSE (p.left % Base) + Base
    BY <1>1 DEF VarintInv, BytesAreDigits, Ends
  <1>8. scale < Top
    <2>1. CASE scale = 1
      BY <2>1, VarintAssumption
    <2>2. CASE scale > 1
      <3> DEFINE v == p.left
      <3>1. v \in Nat /\ v > 0
        BY <2>2, <1>2, <1>4
      <3> HIDE DEF v
      <3>2. scale <= scale * v /\ scale * v \in Nat
        BY <3>1, <1>2
      <3> QED
        BY SMTT(60), <3>2, <1>2, <1>5, <1>6, VarintAssumption DEF v, U64
    <2> QED
      BY <2>1, <2>2, <1>2
  <1> QED
    BY <1>1, <1>2, <1>3, <1>4, <1>5, <1>6, <1>7, <1>8

LEMMA ReadDigitInv == ASSUME VarintInv, ReadDigit PROVE VarintInv'
  <1> DEFINE v == pushed[next].left
             k == pushed[next].call
  <1>1. pc = "read" /\ next <= Len(out) /\ out[next] >= Base /\ UNCHANGED <<value, out, sent, pushed>>
    BY DEF ReadDigit, writer
  <1>2. /\ next \in 1..Len(out) /\ Len(out) \in Nat /\ Len(pushed) = Len(out)
        /\ k \in 1..Len(sent) /\ Len(sent) \in Nat /\ Len(got) = k - 1
        /\ v \in Nat /\ acc \in Nat /\ scale \in Nat \ {0} /\ acc < scale
        /\ sent[k] = acc + scale * v
        /\ sent[k] \in 0..(Top - 1)
        /\ out[next] = IF v < Base THEN v ELSE (v % Base) + Base
        /\ scale < Top
    BY <1>1, ReaderPosition DEF U64
  <1>3. Base \in Nat /\ Base > 1 /\ Top \in Nat
    BY VarintAssumption
  <1> HIDE DEF v, k
  <1>4. v >= Base /\ out[next] = (v % Base) + Base
    BY <1>1, <1>2, <1>3
  <1>5. out[next] % Base = v % Base
    <2>1. v % Base \in 0..(Base - 1)
      BY <1>2, DigitAndRest
    <2> QED
      BY <2>1, <1>4, MarkedDigit
  <1>6. Chunk(out[next]) = (v % Base) * scale /\ (v % Base) * scale \in Nat
    <2>1. acc + scale * v < Top
      BY <1>2, <1>3
    <2>2. (v % Base) * scale \in Nat /\ ((v % Base) * scale) % Top = (v % Base) * scale
      BY <2>1, <1>2, ChunkExact
    <2> QED
      BY <2>2, <1>5 DEF Chunk
  <1>7. /\ pc' = "read" /\ acc' = acc + (v % Base) * scale /\ scale' = scale * Base
        /\ next' = next + 1 /\ got' = got
    BY <1>1, <1>2, <1>3, <1>6 DEF ReadDigit
  <1>8. /\ acc + scale * v = acc' + scale' * (v \div Base)
        /\ acc' < scale' /\ scale' \in Nat /\ scale' > 1 /\ acc' \in Nat
    <2>1. /\ acc + scale * v = (acc + (v % Base) * scale) + (scale * Base) * (v \div Base)
          /\ acc + (v % Base) * scale < scale * Base
          /\ scale * Base \in Nat /\ scale * Base > 1
      BY <1>2, DigitMoves
    <2>2. acc + (v % Base) * scale \in Nat
      BY <1>2, <1>6
    <2> QED
      BY <2>1, <2>2, <1>7
  <1>9. next < Len(out)
    BY <1>1, <1>2, <1>3, <1>4 DEF VarintInv, WriterAt, Ends, v
  <1>10. pushed[next + 1] = [call |-> k, left |-> v \div Base] /\ v \div Base > 0
    <2>1. next \in 1..(Len(pushed) - 1) /\ ~Ends(next)
      BY SMTT(60), <1>2, <1>3, <1>4, <1>9 DEF Ends, v
    <2> QED
      BY <2>1, <1>2, <1>4, DigitAndRest DEF VarintInv, Chained, v, k
  <1>11. TypeOK'
    BY <1>1, <1>2, <1>7, <1>8, <1>9 DEF VarintInv, TypeOK
  <1>12. BytesAreDigits' /\ Chained' /\ WriterAt'
    BY <1>1, <1>7 DEF VarintInv, BytesAreDigits, Chained, WriterAt, Ends
  <1>13. ReaderAt'
    BY SMTT(60), <1>1, <1>2, <1>7, <1>8, <1>9, <1>10 DEF ReaderAt
  <1>14. ReadsWhatWasSent'
    BY <1>1, <1>7 DEF VarintInv, ReadsWhatWasSent
  <1> QED
    BY <1>11, <1>12, <1>13, <1>14 DEF VarintInv

LEMMA ReadLastInv == ASSUME VarintInv, ReadLast PROVE VarintInv'
  <1> DEFINE v == pushed[next].left
             k == pushed[next].call
  <1>1. pc = "read" /\ next <= Len(out) /\ out[next] < Base /\ UNCHANGED <<value, out, sent, pushed>>
    BY DEF ReadLast, writer
  <1>2. /\ next \in 1..Len(out) /\ Len(out) \in Nat /\ Len(pushed) = Len(out)
        /\ k \in 1..Len(sent) /\ Len(sent) \in Nat /\ Len(got) = k - 1
        /\ v \in Nat /\ acc \in Nat /\ scale \in Nat \ {0} /\ acc < scale
        /\ sent[k] = acc + scale * v
        /\ sent[k] \in 0..(Top - 1)
        /\ out[next] = IF v < Base THEN v ELSE (v % Base) + Base
        /\ scale < Top
    BY <1>1, ReaderPosition DEF U64
  <1>3. Base \in Nat /\ Base > 1 /\ Top \in Nat
    BY VarintAssumption
  <1> HIDE DEF v, k
  <1>4. v < Base /\ out[next] = v
    BY <1>1, <1>2, <1>3, DigitAndRest
  <1>5. v % Base = v
    BY <1>2, <1>3, <1>4
  <1>6. Chunk(out[next]) = v * scale
    BY SMTT(60), <1>2, <1>3, <1>4, <1>5, ChunkExact DEF Chunk
  <1>7. acc + v * scale = sent[k]
    BY <1>2
  <1>8. /\ pc' = "read" /\ got' = Append(got, sent[k]) /\ acc' = 0 /\ scale' = 1
        /\ next' = next + 1
    BY <1>1, <1>2, <1>3, <1>6, <1>7 DEF ReadLast
  <1>9. /\ got' \in Seq(U64) /\ Len(got') = k
        /\ \A i \in 1..(k - 1) : got'[i] = got[i]
        /\ got'[k] = sent[k]
    <2>1. got \in Seq(U64)
      BY DEF VarintInv, TypeOK
    <2>2. sent[k] \in U64
      BY <1>2 DEF U64
    <2> QED
      BY <2>1, <2>2, <1>2, <1>8, Appended
  <1>10. /\ next < Len(out) => pushed[next + 1] = [call |-> k + 1, left |-> sent[k + 1]]
         /\ next < Len(out) => k + 1 \in 1..Len(sent)
         /\ next = Len(out) => k = Len(sent)
    <2>1. Ends(next)
      BY <1>4 DEF Ends, v
    <2>2. CASE next < Len(out)
      <3>1. next \in 1..(Len(pushed) - 1) /\ next + 1 \in 1..Len(pushed)
        BY <2>2, <1>2
      <3>2. pushed[next + 1] = [call |-> k + 1, left |-> sent[k + 1]]
        BY <3>1, <2>1 DEF VarintInv, Chained, k
      <3>3. pushed[next + 1].call \in 1..Len(sent)
        BY <3>1 DEF VarintInv, Chained
      <3> QED
        BY <3>2, <3>3, <2>2, <1>2
    <2>3. CASE next = Len(out)
      <3>1. pushed[Len(pushed)].call = Len(sent)
        BY <2>3, <1>1, <1>2 DEF VarintInv, WriterAt
      <3> QED
        BY <3>1, <2>3, <1>2 DEF k
    <2> QED
      BY <2>2, <2>3, <1>2
  <1>11. TypeOK'
    BY <1>1, <1>2, <1>8, <1>9 DEF VarintInv, TypeOK
  <1>12. BytesAreDigits' /\ Chained' /\ WriterAt'
    BY <1>1, <1>8 DEF VarintInv, BytesAreDigits, Chained, WriterAt, Ends
  <1>13. ReaderAt'
    <2>1. next < Len(out) => sent[k + 1] \in Nat
      <3>1. sent \in Seq(U64)
        BY DEF VarintInv, TypeOK
      <3> QED
        BY <3>1, <1>10, Elements, VarintAssumption DEF U64
    <2> QED
      BY SMTT(60), <2>1, <1>1, <1>2, <1>8, <1>9, <1>10 DEF ReaderAt
  <1>14. ReadsWhatWasSent'
    <2>1. \A i \in 1..Len(got) : got[i] = sent[i]
      BY DEF VarintInv, ReadsWhatWasSent
    <2> QED
      BY <2>1, <1>1, <1>2, <1>8, <1>9 DEF ReadsWhatWasSent
  <1> QED
    BY <1>11, <1>12, <1>13, <1>14 DEF VarintInv

LEMMA EndOfBufferInv == ASSUME VarintInv, EndOfBuffer PROVE VarintInv'
  <1>1. /\ pc = "read" /\ next > Len(out)
        /\ UNCHANGED <<value, out, sent, pushed, next, acc, scale, got>>
    BY DEF EndOfBuffer, writer, reader
  <1>2. scale = 1 /\ pc' = "done"
    BY <1>1 DEF VarintInv, ReaderAt, EndOfBuffer
  <1>3. Len(got) = Len(sent)
    BY <1>1 DEF VarintInv, ReaderAt, WriterAt, BytesAreDigits, ReadsWhatWasSent, TypeOK
  <1>4. TypeOK' /\ BytesAreDigits' /\ Chained'
    BY <1>1, <1>2 DEF VarintInv, TypeOK, BytesAreDigits, Chained, Ends
  <1>5. WriterAt' /\ ReaderAt' /\ ReadsWhatWasSent'
    BY <1>1, <1>2, <1>3 DEF VarintInv, WriterAt, ReaderAt, ReadsWhatWasSent, Ends
  <1> QED
    BY <1>4, <1>5 DEF VarintInv

----------------------------------------------------------------------------
(* The theorems.                                                           *)

(* The invariant is inductive: one case per step of the two loops. *)
LEMMA VarintStep == VarintInv /\ [Next]_vars => VarintInv'
  <1>1. SUFFICES ASSUME VarintInv, [Next]_vars PROVE VarintInv'
    OBVIOUS
  <1>2. CASE \E v \in Inputs : Call(v)
    BY <1>1, <1>2, CallInv
  <1>3. CASE PushDigit
    BY <1>1, <1>3, PushDigitInv
  <1>4. CASE PushLast
    BY <1>1, <1>4, PushLastInv
  <1>5. CASE StartReading
    BY <1>1, <1>5, StartReadingInv
  <1>6. CASE ReadDigit
    BY <1>1, <1>6, ReadDigitInv
  <1>7. CASE ReadLast
    BY <1>1, <1>7, ReadLastInv
  <1>8. CASE EndOfBuffer
    BY <1>1, <1>8, EndOfBufferInv
  <1>9. CASE UNCHANGED vars
    BY <1>1, <1>9
    DEF vars, VarintInv, TypeOK, BytesAreDigits, Chained, WriterAt, ReaderAt,
        ReadsWhatWasSent, Ends
  <1> QED
    BY <1>1, <1>2, <1>3, <1>4, <1>5, <1>6, <1>7, <1>8, <1>9 DEF Next

(* No encoding ends in a byte it does not need. *)
LEMMA InvMinimal == VarintInv => Minimal
  <1>1. SUFFICES ASSUME VarintInv, NEW i \in 2..Len(out), out[i] = 0
                 PROVE  out[i - 1] < Base
    BY DEF Minimal
  <1>2. i \in 1..Len(pushed) /\ i - 1 \in 1..Len(pushed) /\ i # 1 /\ Len(out) = Len(pushed)
    BY <1>1 DEF VarintInv, TypeOK, BytesAreDigits
  <1>3. /\ pushed[i].left \in Nat
        /\ (pushed[i].left % Base) + Base # 0
    <2>1. pushed \in Seq([call : Nat, left : U64])
      BY <1>1 DEF VarintInv, TypeOK
    <2>2. pushed[i] \in [call : Nat, left : U64]
      BY <2>1, <1>2, Elements
    <2>3. pushed[i].left \in Nat
      BY <2>2, VarintAssumption DEF U64
    <2>4. pushed[i].left % Base \in 0..(Base - 1)
      BY <2>3, DigitAndRest
    <2> QED
      BY <2>3, <2>4, MarkedDigit
  <1>4. pushed[i].left = 0
    BY <1>1, <1>2, <1>3 DEF VarintInv, BytesAreDigits
  <1>5. Ends(i - 1)
    BY <1>1, <1>2, <1>4 DEF VarintInv, Chained
  <1> QED
    BY <1>1, <1>2, <1>5 DEF VarintInv, BytesAreDigits, Ends

(* The inductive invariant of the two loops holds in every state. *)
THEOREM VarintInvariance == Spec => []VarintInv
  BY InitInv, VarintStep, PTL DEF Spec

(* The reader gives back the values written, in order, each from its own   *)
(* bytes, for u64 as for any width.                                        *)
THEOREM VarintRoundTrip == Spec => []ReadsWhatWasSent
  <1>1. VarintInv => ReadsWhatWasSent
    BY DEF VarintInv
  <1> QED
    BY <1>1, VarintInvariance, PTL

(* Every varint that write_varint emits is as short as it can be. *)
THEOREM VarintMinimal == Spec => []Minimal
  BY InvMinimal, VarintInvariance, PTL
=============================================================================
