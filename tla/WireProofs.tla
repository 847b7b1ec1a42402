----------------------------- MODULE WireProofs -----------------------------
(***************************************************************************)
(* The bytes of a Tron transaction, for every account, amount, limit and   *)
(* time: a node that reads them by the rules of protobuf finds what was    *)
(* reviewed, and serialises what it has read to the same bytes.            *)
(***************************************************************************)
EXTENDS TxSessionProofs, TronNode, DataInduction, SequenceTheorems

----------------------------------------------------------------------------
(* The varint writer, unfolded.                                            *)

OneByte(v) == <<v>>
Mark(v) == <<(v % 128) + 128>>
MarkedByte(v, rest) == Mark(v) \o rest
Writes(f) == f = [v \in Nat |-> IF v >= 128 THEN MarkedByte(v, f[v \div 128]) ELSE OneByte(v)]

(* One byte for a number below 128; else the low seven bits, marked, and   *)
(* the bytes of the others.                                                *)
LEMMA VarintUnfolds ==
  \A v \in Nat :
    /\ varint(v) \in Seq(Nat)
    /\ v < 128 => varint(v) = OneByte(v)
    /\ v >= 128 => /\ v \div 128 \in Nat \ {0} /\ v \div 128 < v
                   /\ varint(v) = Mark(v) \o varint(v \div 128)
<1> DEFINE V == Seq(Nat)
           rank == [v \in Nat |-> v]
           B == 0..127
           c == [v \in Nat |-> OneByte(v)]
           p == [v \in Nat |-> v \div 128]
           d == [q \in Nat \X V |-> MarkedByte(q[1], q[2])]
<1>1. \A v \in Nat : v \div 128 \in Nat /\ ((v % 128) + 128) \in Nat
                     /\ (v >= 128 => v \div 128 # 0 /\ v \div 128 < v)
  OBVIOUS
<1>2. \A v \in Nat, s \in V : OneByte(v) \in V /\ MarkedByte(v, s) \in V
  <2>1. \A n \in Nat, s \in V : <<n>> \in V /\ <<n>> \o s \in V
    OBVIOUS
  <2> HIDE DEF V
  <2>2. QED BY ZenonT(60), <1>1, <2>1 DEF OneByte, Mark, MarkedByte
<1>3. Recursion(Nat, V, rank, B, c, p, d)
  <2>1. rank \in [Nat -> Nat] /\ B \in SUBSET Nat
    OBVIOUS
  <2> HIDE DEF V
  <2>2. c \in [Nat -> V] /\ p \in [Nat -> Nat]
    <3>1. << >> \in V
      BY DEF V
    <3>2. QED BY <1>1, <1>2, <3>1
  <2>3. d \in [Nat \X V -> V]
    BY <1>2
  <2>4. \A v \in Nat \ B : rank[p[v]] < rank[v]
    BY <1>1
  <2> HIDE DEF rank, B, c, p, d
  <2>5. QED BY <2>1, <2>2, <2>3, <2>4 DEF Recursion
<1>4. PICK h : Obeys(h, Nat, V, B, c, p, d)
  <2> HIDE DEF V, rank, B, c, p, d
  <2>1. QED BY <1>3, RecursionExists
<1>5. h \in [Nat -> V] /\ \A v \in Nat : h[v] = IF v \in B THEN c[v] ELSE d[<<v, h[p[v]]>>]
  <2> HIDE DEF V, rank, B, c, p, d
  <2>1. QED BY <1>4 DEF Obeys
<1>6. \A v \in Nat : h[v] = IF v >= 128 THEN MarkedByte(v, h[v \div 128]) ELSE OneByte(v)
  <2>1. TAKE v \in Nat
  <2>2. v \div 128 \in Nat /\ (v \in B <=> ~(v >= 128)) /\ c[v] = OneByte(v) /\ p[v] = v \div 128
    OBVIOUS
  <2> HIDE DEF V, B, c, p
  <2>3. <<v, h[v \div 128]>> \in Nat \X V
    BY <1>5, <2>2
  <2>4. d[<<v, h[v \div 128]>>] = MarkedByte(v, h[v \div 128])
    BY <2>3
  <2> HIDE DEF d
  <2>5. QED BY <1>5, <2>2, <2>4
<1> HIDE DEF c, p, d, B, V
<1>7. Writes(h)
  BY <1>5, <1>6 DEF Writes
<1> DEFINE g == CHOOSE f : Writes(f)
<1>8. Writes(g)
  BY <1>7
<1>9. \A v : varint(v) = g[v]
  BY Zenon DEF varint, Writes, OneByte, Mark, MarkedByte
<1> HIDE DEF g
<1>10. \A v \in Nat : g[v] = IF v >= 128 THEN MarkedByte(v, g[v \div 128]) ELSE OneByte(v)
  BY <1>8 DEF Writes
<1>11. \A v \in Nat : g[v] \in V
  <2> DEFINE S == {v \in Nat : g[v] \in V}
  <2>1. \A v \in Nat : (\A w \in Nat : rank[w] < rank[v] => w \in S) => v \in S
    <3>1. SUFFICES ASSUME NEW v \in Nat, \A w \in Nat : w < v => g[w] \in V
                   PROVE  g[v] \in V
      OBVIOUS
    <3>2. CASE v >= 128
      BY <1>1, <1>2, <1>10, <3>1, <3>2
    <3>3. CASE ~(v >= 128)
      <4>1. << >> \in V
        BY DEF V
      <4>2. QED BY <1>2, <1>10, <3>3, <4>1
    <3>4. QED BY <3>2, <3>3
  <2>2. rank \in [Nat -> Nat]
    OBVIOUS
  <2> HIDE DEF S, rank
  <2>3. \A v \in Nat : v \in S
    BY <2>1, <2>2, RankInduction
  <2>4. QED BY <2>3 DEF S
<1>12. \A v \in Nat : varint(v) \in Seq(Nat)
  BY <1>9, <1>11 DEF V
<1>13. \A v \in Nat : varint(v) = IF v >= 128 THEN MarkedByte(v, varint(v \div 128)) ELSE OneByte(v)
  BY <1>9, <1>10
<1>14. \A v \in Nat : /\ v < 128 => varint(v) = OneByte(v)
                      /\ v >= 128 => varint(v) = MarkedByte(v, varint(v \div 128))
  <2>1. \A v \in Nat : v < 128 <=> ~(v >= 128)
    OBVIOUS
  <2>2. QED BY <1>13, <2>1
<1>15. QED BY ZenonT(60), <1>1, <1>12, <1>14 DEF MarkedByte

----------------------------------------------------------------------------
(* The varint reader, unfolded.                                            *)

VarintRead == [ok : BOOLEAN, val : Nat, end : Nat, short : BOOLEAN]
NoVarint(i) == [ok |-> FALSE, val |-> 0, end |-> i, short |-> TRUE]
LastByte(s, start, i) ==
  [ok |-> TRUE, val |-> s[i], end |-> i + 1, short |-> i = start \/ s[i] # 0]
Added(r, b) == [r EXCEPT !.val = @ * 128 + b]
More(s, i, r) == Added(r, s[i] - 128)
Reads(s, start, f) ==
  f = [i \in Positions(s) |->
         IF i > Len(s) THEN NoVarint(i)
         ELSE IF s[i] < 128 THEN LastByte(s, start, i) ELSE More(s, i, f[i + 1])]

LEMMA AddedIs ==
  ASSUME NEW r \in VarintRead, NEW b \in Nat
  PROVE  /\ Added(r, b) \in VarintRead
         /\ Added(r, b) = [ok |-> r.ok, val |-> r.val * 128 + b, end |-> r.end, short |-> r.short]
<1>1. /\ r.val \in Nat /\ r.end \in Nat /\ r.ok \in BOOLEAN /\ r.short \in BOOLEAN
      /\ r = [ok |-> r.ok, val |-> r.val, end |-> r.end, short |-> r.short]
  BY DEF VarintRead
<1>2. r.val * 128 + b \in Nat
  BY <1>1
<1>3. Added(r, b) = [ok |-> r.ok, val |-> r.val * 128 + b, end |-> r.end, short |-> r.short]
  BY <1>1 DEF Added
<1>4. QED BY <1>1, <1>2, <1>3 DEF VarintRead

LEMMA ReadUnfolds ==
  ASSUME NEW s \in Seq(Nat), NEW start \in Positions(s)
  PROVE  \E g \in [Positions(s) -> VarintRead] :
           /\ ReadVarint(s, start) = g[start]
           /\ \A i \in Positions(s) :
                /\ i > Len(s) => g[i] = NoVarint(i)
                /\ i <= Len(s) /\ s[i] < 128 => g[i] = LastByte(s, start, i)
                /\ i <= Len(s) /\ s[i] >= 128 => g[i] = More(s, i, g[i + 1])
<1> DEFINE D == Positions(s)
           V == VarintRead
           rank == [i \in D |-> Len(s) + 1 - i]
           B == {i \in D : i > Len(s) \/ s[i] < 128}
           c == [i \in D |-> IF i > Len(s) \/ ~(s[i] < 128) THEN NoVarint(i)
                             ELSE LastByte(s, start, i)]
           p == [i \in D |-> IF i > Len(s) THEN i ELSE i + 1]
           d == [q \in D \X V |-> IF q[1] > Len(s) \/ s[q[1]] < 128 THEN q[2]
                                  ELSE More(s, q[1], q[2])]
<1>1. /\ Len(s) \in Nat /\ D \subseteq Nat
      /\ \A i \in D : i <= Len(s) => s[i] \in Nat /\ i + 1 \in D
  BY DEF Positions
<1>2. \A i \in D : NoVarint(i) \in V /\ (i <= Len(s) => LastByte(s, start, i) \in V)
  <2>1. TAKE i \in D
  <2>2. i \in Nat /\ i + 1 \in Nat
    BY <1>1
  <2>3. NoVarint(i) \in V
    BY <2>2 DEF NoVarint, VarintRead
  <2>4. i <= Len(s) => LastByte(s, start, i) \in V
    BY <1>1, <2>2 DEF LastByte, VarintRead
  <2>5. QED BY <2>3, <2>4
<1>3. \A i \in D, r \in V : i <= Len(s) /\ s[i] >= 128 => More(s, i, r) \in V
  <2>1. \A i \in D : i <= Len(s) /\ s[i] >= 128 => s[i] - 128 \in Nat
    BY <1>1
  <2> HIDE DEF D
  <2>2. QED BY <2>1, AddedIs DEF More
<1>4. Recursion(D, V, rank, B, c, p, d)
  <2>1. rank \in [D -> Nat] /\ B \in SUBSET D /\ p \in [D -> D]
    BY <1>1 DEF Positions
  <2>2. c \in [D -> V]
    <3> HIDE DEF V, D
    <3>1. QED BY <1>1, <1>2
  <2>3. d \in [D \X V -> V]
    <3> HIDE DEF V, D
    <3>1. \A i \in D, r \in V : (IF i > Len(s) \/ s[i] < 128 THEN r ELSE More(s, i, r)) \in V
      BY <1>1, <1>3
    <3>2. QED BY <3>1
  <2>4. \A i \in D \ B : rank[p[i]] < rank[i]
    BY <1>1 DEF Positions
  <2> HIDE DEF D, V, rank, B, c, p, d
  <2>5. QED BY <2>1, <2>2, <2>3, <2>4 DEF Recursion
<1>5. PICK h : Obeys(h, D, V, B, c, p, d)
  <2> HIDE DEF D, V, rank, B, c, p, d
  <2>1. QED BY <1>4, RecursionExists
<1>6. h \in [D -> V] /\ \A i \in D : h[i] = IF i \in B THEN c[i] ELSE d[<<i, h[p[i]]>>]
  <2> HIDE DEF D, V, rank, B, c, p, d
  <2>1. QED BY <1>5 DEF Obeys
<1>7. \A i \in D : h[i] = IF i > Len(s) THEN NoVarint(i)
                          ELSE IF s[i] < 128 THEN LastByte(s, start, i) ELSE More(s, i, h[i + 1])
  <2>1. TAKE i \in D
  <2>2. CASE i \in B
    <3>1. i > Len(s) \/ s[i] < 128
      BY <2>2
    <3>2. h[i] = c[i]
      BY <1>6, <2>2
    <3> HIDE DEF D, B
    <3>3. c[i] = IF i > Len(s) \/ ~(s[i] < 128) THEN NoVarint(i) ELSE LastByte(s, start, i)
      OBVIOUS
    <3>4. QED BY <1>1, <3>1, <3>2, <3>3
  <2>3. CASE i \notin B
    <3>1. i <= Len(s) /\ ~(i > Len(s)) /\ ~(s[i] < 128)
      BY <1>1, <2>3
    <3>2. p[i] = i + 1 /\ i + 1 \in D
      BY <1>1, <3>1
    <3> HIDE DEF D, V
    <3>3. <<i, h[i + 1]>> \in D \X V
      BY <1>6, <3>2
    <3>4. d[<<i, h[i + 1]>>] = More(s, i, h[i + 1])
      BY <3>1, <3>3
    <3> HIDE DEF B, c, p, d
    <3>5. QED BY <1>6, <2>3, <3>1, <3>2, <3>4
  <2>4. QED BY <2>2, <2>3
<1>8. Reads(s, start, h)
  <2> HIDE DEF V, B, c, p, d
  <2>1. QED BY <1>6, <1>7 DEF Reads
<1> HIDE DEF c, p, d, B
<1> DEFINE g == CHOOSE f : Reads(s, start, f)
<1>9. Reads(s, start, g)
  BY <1>8
<1>10. ReadVarint(s, start) = g[start]
  BY Zenon DEF ReadVarint, Reads, NoVarint, LastByte, More, Added
<1> HIDE DEF g
<1>11. \A i \in D : g[i] = IF i > Len(s) THEN NoVarint(i)
                          ELSE IF s[i] < 128 THEN LastByte(s, start, i) ELSE More(s, i, g[i + 1])
  <2> HIDE DEF V
  <2>1. QED BY <1>9 DEF Reads
<1>12. \A i \in D : g[i] \in V
  <2> DEFINE S == {i \in D : g[i] \in V}
  <2>1. \A i \in D : (\A j \in D : rank[j] < rank[i] => j \in S) => i \in S
    <3>1. SUFFICES ASSUME NEW i \in D, \A j \in D : rank[j] < rank[i] => g[j] \in V
                   PROVE  g[i] \in V
      <4> HIDE DEF D, V, rank
      <4>1. QED OBVIOUS
    <3>2. CASE i > Len(s) \/ s[i] < 128
      <4> HIDE DEF V, D
      <4>1. QED BY <1>1, <1>2, <1>11, <3>2
    <3>3. CASE ~(i > Len(s) \/ s[i] < 128)
      <4>1. i <= Len(s) /\ i + 1 \in D /\ s[i] >= 128
        BY <1>1, <3>3
      <4>2. rank[i + 1] < rank[i]
        BY <1>1, <4>1
      <4>3. g[i + 1] \in V
        BY <3>1, <4>1, <4>2
      <4> HIDE DEF V, D
      <4>4. QED BY <1>3, <1>11, <3>3, <4>1, <4>3
    <3>4. QED BY <3>2, <3>3
  <2>2. rank \in [D -> Nat]
    BY <1>1 DEF Positions
  <2> HIDE DEF S, rank, D
  <2>3. \A i \in D : i \in S
    BY <2>1, <2>2, RankInduction
  <2>4. QED BY <2>3 DEF S
<1>13. g \in [D -> V]
  <2>1. g = [i \in D |-> g[i]]
    BY <1>9 DEF Reads
  <2> HIDE DEF V, D
  <2>2. QED BY <1>12, <2>1
<1>14. \A i \in D :
         /\ i > Len(s) => g[i] = NoVarint(i)
         /\ i <= Len(s) /\ s[i] < 128 => g[i] = LastByte(s, start, i)
         /\ i <= Len(s) /\ s[i] >= 128 => g[i] = More(s, i, g[i + 1])
  <2> HIDE DEF V
  <2>1. \A i \in D : i <= Len(s) => ~(i > Len(s)) /\ (s[i] >= 128 => ~(s[i] < 128))
    BY <1>1
  <2> HIDE DEF D
  <2>2. QED BY <1>11, <2>1
<1>15. QED BY <1>10, <1>13, <1>14

(* A read ends in the message, or just after it, and past its start when   *)
(* it finds a number.                                                      *)
LEMMA ReadEnds ==
  ASSUME NEW s \in Seq(Nat), NEW start \in Positions(s)
  PROVE  LET r == ReadVarint(s, start)
         IN r \in VarintRead /\ r.end \in Positions(s) /\ (r.ok => r.end > start)
<1> DEFINE D == Positions(s)
           rank == [i \in D |-> Len(s) + 1 - i]
           Ends(i, r) == r.end \in D /\ r.end >= i /\ (r.ok => r.end > i)
<1>1. Len(s) \in Nat /\ \A i \in D : i \in Nat /\ (i <= Len(s) => s[i] \in Nat /\ i + 1 \in D)
  BY DEF Positions
<1>2. PICK g \in [D -> VarintRead] :
        /\ ReadVarint(s, start) = g[start]
        /\ \A i \in D :
             /\ i > Len(s) => g[i] = NoVarint(i)
             /\ i <= Len(s) /\ s[i] < 128 => g[i] = LastByte(s, start, i)
             /\ i <= Len(s) /\ s[i] >= 128 => g[i] = More(s, i, g[i + 1])
  BY ReadUnfolds
<1> DEFINE S == {i \in D : Ends(i, g[i])}
<1>3. \A i \in D : (\A j \in D : rank[j] < rank[i] => j \in S) => i \in S
  <2>1. SUFFICES ASSUME NEW i \in D, \A j \in D : rank[j] < rank[i] => Ends(j, g[j])
                 PROVE  Ends(i, g[i])
    <3> HIDE DEF D, rank, Ends
    <3>1. QED OBVIOUS
  <2>2. CASE i > Len(s)
    <3>1. g[i] = NoVarint(i)
      BY <1>2, <2>2
    <3>2. g[i].end = i /\ g[i].ok = FALSE
      BY <3>1 DEF NoVarint
    <3>3. i \in Nat /\ i >= i
      BY <1>1
    <3> HIDE DEF D
    <3>4. QED BY <3>2, <3>3
  <2>3. CASE i <= Len(s) /\ s[i] < 128
    <3>1. g[i] = LastByte(s, start, i)
      BY <1>2, <2>3
    <3>2. g[i].end = i + 1
      BY <3>1 DEF LastByte
    <3>3. QED BY <1>1, <2>3, <3>2
  <2>4. CASE i <= Len(s) /\ s[i] >= 128
    <3>1. i + 1 \in D /\ rank[i + 1] < rank[i]
      BY <1>1, <2>4
    <3>2. Ends(i + 1, g[i + 1])
      BY <2>1, <3>1
    <3>3. g[i + 1] \in VarintRead
      BY <3>1
    <3>4. g[i].end = g[i + 1].end /\ g[i].ok = g[i + 1].ok
      <4> DEFINE b == s[i] - 128
                 r == g[i + 1]
      <4>1. b \in Nat
        BY <1>1, <2>4
      <4>2. g[i] = Added(r, b)
        BY <1>2, <2>4 DEF More
      <4> HIDE DEF b, r
      <4>3. Added(r, b).end = r.end /\ Added(r, b).ok = r.ok
        BY <3>3, <4>1, AddedIs DEF r
      <4>4. QED BY <4>2, <4>3 DEF r
    <3>5. /\ g[i + 1].end \in D /\ g[i + 1].end >= i + 1
          /\ g[i + 1].end \in Nat /\ i \in Nat
      BY <1>1, <3>2
    <3>6. g[i + 1].end >= i /\ g[i + 1].end > i
      BY <3>5
    <3> HIDE DEF D
    <3>7. QED BY <3>4, <3>5, <3>6
  <2>5. QED BY <1>1, <2>2, <2>3, <2>4
<1>4. rank \in [D -> Nat]
  BY <1>1 DEF Positions
<1>5. \A i \in D : i \in S
  <2> HIDE DEF D, rank, S
  <2>1. QED BY <1>3, <1>4, RankInduction
<1>6. Ends(start, g[start])
  BY <1>5
<1>7. QED BY <1>2, <1>6

----------------------------------------------------------------------------
(* A sequence w that stands in s at i.                                     *)

At(s, i, w) ==
  /\ i \in Nat \ {0} /\ i + Len(w) <= Len(s) + 1
  /\ \A k \in 1..Len(w) : s[(i - 1) + k] = w[k]

LEMMA AtBoth ==
  ASSUME NEW s \in Seq(Nat), NEW i \in Nat, NEW a \in Seq(Nat), NEW b \in Seq(Nat),
         At(s, i, a \o b)
  PROVE  At(s, i, a) /\ At(s, i + Len(a), b)
<1> DEFINE w == a \o b
           n == Len(a)
           m == Len(b)
<1>1. /\ Len(s) \in Nat /\ n \in Nat /\ m \in Nat /\ Len(w) = n + m
      /\ \A k \in 1..(n + m) : w[k] = IF k <= n THEN a[k] ELSE b[k - n]
  BY ConcatProperties
<1> HIDE DEF w, n, m
<1>2. At(s, i, w)
  BY DEF w
<1>3. i \in Nat \ {0} /\ i + (n + m) <= Len(s) + 1 /\ \A k \in 1..(n + m) : s[(i - 1) + k] = w[k]
  BY <1>1, <1>2 DEF At
<1>4. \A k \in 1..n : s[(i - 1) + k] = a[k]
  <2>1. TAKE k \in 1..n
  <2>2. k \in 1..(n + m) /\ k <= n
    BY <1>1
  <2>3. QED BY <1>1, <1>3, <2>2
<1>5. \A k \in 1..m : s[((i + n) - 1) + k] = b[k]
  <2>1. TAKE k \in 1..m
  <2>2. n + k \in 1..(n + m) /\ ~(n + k <= n) /\ (n + k) - n = k
        /\ (i - 1) + (n + k) = ((i + n) - 1) + k
    BY <1>1, <1>3
  <2>3. QED BY <1>1, <1>3, <2>2
<1>6. i + n <= Len(s) + 1 /\ (i + n) + m <= Len(s) + 1 /\ i + n \in Nat \ {0}
  BY <1>1, <1>3
<1>7. QED BY <1>3, <1>4, <1>5, <1>6 DEF At, n, m

LEMMA AtGrows ==
  ASSUME NEW s \in Seq(Nat), NEW t \in Seq(Nat), NEW w \in Seq(Nat)
  PROVE  /\ \A i : At(s, i, w) => At(s \o t, i, w)
         /\ At(s \o t, Len(s) + 1, t)
<1> DEFINE u == s \o t
           n == Len(s)
           m == Len(t)
<1>1. /\ n \in Nat /\ m \in Nat /\ Len(w) \in Nat /\ Len(u) = n + m
      /\ \A k \in 1..(n + m) : u[k] = IF k <= n THEN s[k] ELSE t[k - n]
  BY ConcatProperties
<1> HIDE DEF u, n, m
<1>2. ASSUME NEW i, At(s, i, w)
      PROVE  At(u, i, w)
  <2>1. i \in Nat \ {0} /\ i + Len(w) <= n + 1 /\ \A k \in 1..Len(w) : s[(i - 1) + k] = w[k]
    BY <1>2 DEF At, n
  <2>2. \A k \in 1..Len(w) : u[(i - 1) + k] = w[k]
    <3>1. TAKE k \in 1..Len(w)
    <3>2. (i - 1) + k \in 1..(n + m) /\ (i - 1) + k <= n
      BY <1>1, <2>1
    <3>3. QED BY <1>1, <2>1, <3>2
  <2>3. i + Len(w) <= Len(u) + 1
    BY <1>1, <2>1
  <2>4. QED BY <2>1, <2>2, <2>3 DEF At
<1>3. At(u, n + 1, t)
  <2>1. \A k \in 1..m : u[((n + 1) - 1) + k] = t[k]
    <3>1. TAKE k \in 1..m
    <3>2. n + k \in 1..(n + m) /\ ~(n + k <= n) /\ (n + k) - n = k /\ ((n + 1) - 1) + k = n + k
      BY <1>1
    <3>3. QED BY <1>1, <3>2
  <2>2. n + 1 \in Nat \ {0} /\ (n + 1) + m <= Len(u) + 1
    BY <1>1
  <2>3. QED BY <2>1, <2>2 DEF At, m
<1>4. QED BY <1>2, <1>3 DEF u, n

LEMMA AtIsPart ==
  ASSUME NEW s \in Seq(Nat), NEW i, NEW w \in Seq(Nat), At(s, i, w)
  PROVE  SubSeq(s, i, i + Len(w) - 1) = w
<1> DEFINE n == Len(w)
           u == SubSeq(s, i, i + n - 1)
<1>1. /\ i \in Nat \ {0} /\ i + n <= Len(s) + 1 /\ \A k \in 1..n : s[(i - 1) + k] = w[k]
      /\ n \in Nat /\ Len(s) \in Nat
  BY DEF At
<1>2. \A k \in i..(i + n - 1) : s[k] \in Nat
  BY SMTT(60), <1>1
<1>3. /\ u \in Seq(Nat)
      /\ Len(u) = IF i <= i + n - 1 THEN (i + n - 1) - i + 1 ELSE 0
      /\ \A k \in 1..((i + n - 1) - i + 1) : u[k] = s[i + k - 1]
  BY <1>1, <1>2, SubSeqProperties
<1> HIDE DEF u, n
<1>4. Len(u) = n
  BY <1>1, <1>3
<1>5. \A k \in 1..n : u[k] = w[k]
  <2>1. TAKE k \in 1..n
  <2>2. k \in 1..((i + n - 1) - i + 1) /\ i + k - 1 = (i - 1) + k
    BY <1>1
  <2>3. QED BY <1>1, <1>3, <2>2
<1>6. u = w
  BY <1>3, <1>4, <1>5, SeqEqual DEF n
<1>7. QED BY <1>6 DEF u, n

(* The reader finds a number where its varint stands, and no shorter one   *)
(* would do.                                                               *)
Found(v, e) == [ok |-> TRUE, val |-> v, end |-> e, short |-> TRUE]

LEMMA Byte1 ==
  ASSUME NEW v \in Nat
  PROVE  /\ OneByte(v) \in Seq(Nat) /\ Len(OneByte(v)) = 1 /\ OneByte(v)[1] = v
         /\ Mark(v) \in Seq(Nat) /\ Len(Mark(v)) = 1 /\ Mark(v)[1] = (v % 128) + 128
         /\ (v % 128) \in Nat /\ (v % 128) < 128
<1>1. (v % 128) \in Nat /\ (v % 128) < 128 /\ (v % 128) + 128 \in Nat
  OBVIOUS
<1>2. \A n \in Nat : <<n>> \in Seq(Nat) /\ Len(<<n>>) = 1 /\ <<n>>[1] = n
  OBVIOUS
<1>3. QED BY <1>1, <1>2 DEF OneByte, Mark

LEMMA VarintBytes ==
  ASSUME NEW v \in Nat
  PROVE  varint(v) \in Seq(Nat) /\ Len(varint(v)) \in Nat /\ Len(varint(v)) >= 1
<1>1. varint(v) \in Seq(Nat)
  BY VarintUnfolds
<1>2. Len(varint(v)) \in Nat
  BY <1>1, LenProperties
<1>3. CASE v < 128
  BY <1>1, <1>2, <1>3, VarintUnfolds, Byte1
<1>4. CASE v >= 128
  <2> DEFINE w == varint(v \div 128)
             h == Mark(v)
  <2>1. w \in Seq(Nat) /\ varint(v) = h \o w
    BY ZenonT(60), <1>4, VarintUnfolds
  <2>2. h \in Seq(Nat) /\ Len(h) = 1
    BY Byte1
  <2> HIDE DEF w, h
  <2>3. Len(varint(v)) = Len(h) + Len(w)
    BY ZenonT(60), <2>1, <2>2, ConcatProperties
  <2>4. Len(w) \in Nat
    BY <2>1, LenProperties
  <2>5. QED BY <1>1, <1>2, <2>2, <2>3, <2>4
<1>5. QED BY <1>3, <1>4

LEMMA AddedFound ==
  ASSUME NEW u \in Nat, NEW z \in Nat, NEW b \in Nat
  PROVE  Added(Found(u, z), b) = Found(u * 128 + b, z)
<1> DEFINE r == Found(u, z)
<1>1. r \in VarintRead /\ r.ok = TRUE /\ r.val = u /\ r.end = z /\ r.short = TRUE
  BY DEF Found, VarintRead
<1> HIDE DEF r
<1>2. Added(r, b) = [ok |-> r.ok, val |-> r.val * 128 + b, end |-> r.end, short |-> r.short]
  BY <1>1, AddedIs
<1>3. Added(r, b) = Found(u * 128 + b, z)
  BY <1>1, <1>2 DEF Found
<1>4. QED BY <1>3 DEF r

LEMMA ReadsBack ==
  ASSUME NEW s \in Seq(Nat), NEW start \in Positions(s), NEW v \in Nat,
         At(s, start, varint(v))
  PROVE  ReadVarint(s, start) = Found(v, start + Len(varint(v)))
<1> DEFINE D == Positions(s)
           rank == [n \in Nat |-> n]
<1>1. Len(s) \in Nat /\ \A i \in D : i \in Nat /\ i >= 1
  BY DEF Positions
<1>2. PICK g \in [D -> VarintRead] :
        /\ ReadVarint(s, start) = g[start]
        /\ \A i \in D :
             /\ i > Len(s) => g[i] = NoVarint(i)
             /\ i <= Len(s) /\ s[i] < 128 => g[i] = LastByte(s, start, i)
             /\ i <= Len(s) /\ s[i] >= 128 => g[i] = More(s, i, g[i + 1])
  BY ReadUnfolds
<1> DEFINE Back(n) ==
             \A i \in D : At(s, i, varint(n)) /\ (i = start \/ n # 0) =>
                         g[i] = Found(n, i + Len(varint(n)))
           S == {n \in Nat : Back(n)}
<1>3. \A n \in Nat : (\A m \in Nat : rank[m] < rank[n] => m \in S) => n \in S
  <2>1. SUFFICES ASSUME NEW n \in Nat, \A m \in Nat : m < n => Back(m)
                 PROVE  Back(n)
    <3> HIDE DEF Back
    <3>1. QED OBVIOUS
  <2>2. SUFFICES ASSUME NEW i \in D, At(s, i, varint(n)), i = start \/ n # 0
                 PROVE  g[i] = Found(n, i + Len(varint(n)))
    <3> HIDE DEF D
    <3>1. QED OBVIOUS
  <2> HIDE DEF Back
  <2>3. CASE n < 128
    <3>1. varint(n) = OneByte(n)
      BY <2>3, VarintUnfolds
    <3>2. Len(varint(n)) = 1 /\ varint(n)[1] = n
      BY <3>1, Byte1
    <3>3. i + 1 <= Len(s) + 1 /\ s[(i - 1) + 1] = n
      BY <2>2, <3>2 DEF At
    <3>4. i <= Len(s) /\ s[i] = n
      BY SMTT(60), <1>1, <3>3
    <3>5. g[i] = LastByte(s, start, i)
      BY <1>2, <2>3, <3>4
    <3>6. QED BY <2>2, <3>2, <3>4, <3>5 DEF LastByte, Found
  <2>4. CASE n >= 128
    <3> DEFINE m == n \div 128
               h == Mark(n)
               w == varint(m)
    <3>1. m \in Nat \ {0} /\ m < n /\ varint(n) = h \o w /\ w \in Seq(Nat)
      BY ZenonT(60), <2>4, VarintUnfolds
    <3>2. h \in Seq(Nat) /\ Len(h) = 1 /\ h[1] = (n % 128) + 128
      BY ZenonT(60), Byte1
    <3>3. n = m * 128 + (n % 128) /\ (n % 128) \in Nat
      BY <2>4
    <3> HIDE DEF m, h, w
    <3>4. At(s, i, h) /\ At(s, i + Len(h), w)
      BY ZenonT(60), <1>1, <2>2, <3>1, <3>2, AtBoth
    <3>5. i + 1 <= Len(s) + 1 /\ s[(i - 1) + 1] = (n % 128) + 128
      BY <3>2, <3>4 DEF At
    <3>6. i <= Len(s) /\ s[i] = (n % 128) + 128 /\ i + 1 \in D
      BY <1>1, <3>5 DEF Positions
    <3>7. g[i] = More(s, i, g[i + 1])
      BY SMTT(60), <1>2, <3>3, <3>6
    <3>8. g[i + 1] = Found(m, (i + 1) + Len(w))
      <4>1. At(s, i + 1, w)
        BY <3>2, <3>4
      <4>2. Back(m)
        BY <2>1, <3>1
      <4>3. QED BY <3>1, <3>6, <4>1, <4>2 DEF Back, w
    <3>9. Len(varint(n)) = 1 + Len(w) /\ Len(w) \in Nat
      <4>0. h \in Seq(Nat) /\ w \in Seq(Nat)
        BY <3>1, <3>2
      <4>1. Len(h \o w) = Len(h) + Len(w)
        BY <4>0, ConcatProperties
      <4>2. Len(w) \in Nat
        BY <3>1, LenProperties
      <4>3. QED BY <3>1, <3>2, <4>1, <4>2
    <3>10. m * 128 + (s[i] - 128) = n
      BY <3>1, <3>3, <3>6
    <3>11. (i + 1) + Len(w) = i + Len(varint(n))
      BY <1>1, <3>9
    <3>12. More(s, i, Found(m, (i + 1) + Len(w)))
             = Found(m * 128 + (s[i] - 128), (i + 1) + Len(w))
      <4> DEFINE e == (i + 1) + Len(w)
                 b == s[i] - 128
      <4>1. e \in Nat /\ m \in Nat /\ b \in Nat
        BY SMTT(60), <1>1, <3>1, <3>3, <3>6, <3>9
      <4> HIDE DEF e, b
      <4>2. Added(Found(m, e), b) = Found(m * 128 + b, e)
        BY <4>1, AddedFound
      <4>3. QED BY <4>2 DEF e, b, More
    <3>13. QED BY ZenonT(60), <3>7, <3>8, <3>10, <3>11, <3>12 DEF Found
  <2>5. QED BY <2>3, <2>4
<1>4. rank \in [Nat -> Nat]
  OBVIOUS
<1>5. \A n \in Nat : n \in S
  <2> HIDE DEF rank, S
  <2>1. QED BY <1>3, <1>4, RankInduction
<1>6. Back(v)
  BY <1>5
<1>7. QED BY <1>2, <1>6

----------------------------------------------------------------------------
(* Fields.                                                                 *)

FieldRead == [num : Nat, wire : Nat, val : Nat, data : Seq(Nat), short : BOOLEAN, end : Nat]
Length(tag, body) == IF tag.val % 8 = WIRE_LEN THEN body.val ELSE 0
BadField(s, tag, body) ==
  \/ ~tag.ok \/ ~body.ok \/ tag.val % 8 \notin {WIRE_VARINT, WIRE_LEN}
  \/ body.end + Length(tag, body) > Len(s) + 1
GoodField(s, tag, body) ==
  [ num |-> tag.val \div 8, wire |-> tag.val % 8,
    val |-> IF tag.val % 8 = WIRE_VARINT THEN body.val ELSE 0,
    data |-> SubSeq(s, body.end, body.end + Length(tag, body) - 1),
    short |-> tag.short /\ body.short, end |-> body.end + Length(tag, body) ]

LEMMA FieldUnfolds ==
  ASSUME NEW s, NEW i
  PROVE  LET tag == ReadVarint(s, i)
             body == ReadVarint(s, tag.end)
         IN ReadField(s, i) = IF BadField(s, tag, body) THEN Broken ELSE GoodField(s, tag, body)
  BY DEF ReadField, BadField, GoodField, Length

(* A field that is not broken ends further on in the message. *)
LEMMA FieldEnds ==
  ASSUME NEW s \in Seq(Nat), NEW i \in Positions(s)
  PROVE  LET f == ReadField(s, i)
         IN f \in FieldRead /\ (f # Broken => f.end \in Positions(s) /\ f.end > i)
<1> DEFINE tag == ReadVarint(s, i)
           body == ReadVarint(s, tag.end)
           n == Length(tag, body)
           f == ReadField(s, i)
<1> SUFFICES f \in FieldRead /\ (f # Broken => f.end \in Positions(s) /\ f.end > i)
  OBVIOUS
<1>1. tag \in VarintRead /\ tag.end \in Positions(s) /\ (tag.ok => tag.end > i)
  BY ReadEnds
<1>2. body \in VarintRead /\ body.end \in Positions(s) /\ (body.ok => body.end > tag.end)
  BY <1>1, ReadEnds
<1>3. f = IF BadField(s, tag, body) THEN Broken ELSE GoodField(s, tag, body)
  BY FieldUnfolds
<1> HIDE DEF tag, body, f
<1>4. /\ tag.val \in Nat /\ body.val \in Nat /\ tag.end \in Nat /\ body.end \in Nat
      /\ tag.short \in BOOLEAN /\ body.short \in BOOLEAN
      /\ Len(s) \in Nat /\ i \in Nat /\ body.end >= 1
  BY <1>1, <1>2 DEF VarintRead, Positions
<1>5. tag.val \div 8 \in Nat /\ tag.val % 8 \in Nat /\ n \in Nat
  BY <1>4 DEF Length
<1> HIDE DEF n
<1>6. CASE BadField(s, tag, body)
  <2>1. f = Broken
    BY <1>3, <1>6
  <2>2. << >> \in Seq(Nat)
    OBVIOUS
  <2>3. QED BY <2>1, <2>2 DEF Broken, FieldRead
<1>7. CASE ~BadField(s, tag, body)
  <2>1. tag.ok /\ body.ok /\ body.end + n <= Len(s) + 1
    BY SMTT(60), <1>4, <1>5, <1>7 DEF BadField, n
  <2> DEFINE d == SubSeq(s, body.end, body.end + n - 1)
             w == tag.val % 8
             q == tag.val \div 8
             v == IF w = WIRE_VARINT THEN body.val ELSE 0
             b == tag.short /\ body.short
             e == body.end + n
  <2>2. d \in Seq(Nat)
    <3> DEFINE from == body.end
    <3>1. from \in Nat /\ from >= 1 /\ from + n - 1 \in Int /\ from + n <= Len(s) + 1
      BY <1>4, <1>5, <2>1
    <3> HIDE DEF from
    <3>2. \A k \in from..(from + n - 1) : k \in 1..Len(s)
      BY <1>4, <1>5, <3>1
    <3>3. \A k \in from..(from + n - 1) : s[k] \in Nat
      BY <3>2
    <3>4. SubSeq(s, from, from + n - 1) \in Seq(Nat)
      BY <3>1, <3>3, SubSeqProperties
    <3>5. QED BY <3>4 DEF from
  <2>3. w \in Nat /\ q \in Nat /\ v \in Nat /\ b \in BOOLEAN /\ e \in Nat
    BY SMTT(60), <1>4, <1>5
  <2>4. e \in Positions(s) /\ e > i
    <3>1. tag.end > i /\ body.end > tag.end
      BY <1>1, <1>2, <2>1
    <3>2. e >= 1 /\ e <= Len(s) + 1 /\ e > i
      BY SMTT(60), <1>4, <1>5, <2>1, <3>1
    <3>3. QED BY <1>4, <2>3, <3>2 DEF Positions
  <2>5. f = [num |-> q, wire |-> w, val |-> v, data |-> d, short |-> b, end |-> e]
    BY <1>3, <1>7 DEF GoodField, n
  <2> HIDE DEF d, w, q, v, b, e
  <2>6. f \in FieldRead /\ f.end = e
    BY <2>2, <2>3, <2>5 DEF FieldRead
  <2>7. QED BY <2>4, <2>6
<1>8. QED BY <1>6, <1>7

(* What is written: a field with a number or with bytes.                   *)
NumberField(num, v) == [num |-> num, wire |-> WIRE_VARINT, val |-> v, data |-> << >>]
BytesField(num, d) == [num |-> num, wire |-> WIRE_LEN, val |-> 0, data |-> d]
Written ==
  {NumberField(num, v) : num \in Nat \ {0}, v \in Nat}
  \cup {BytesField(num, d) : num \in Nat \ {0}, d \in Seq(Nat)}
Encoded(f) ==
  IF f.wire = WIRE_VARINT THEN varint_field(f.num, f.val) ELSE bytes_field(f.num, f.data)
(* f as it is read, in its shortest form, up to e *)
Seen(f, e) ==
  [num |-> f.num, wire |-> f.wire, val |-> f.val, data |-> f.data, short |-> TRUE, end |-> e]

LEMMA WrittenTyped ==
  ASSUME NEW f \in Written
  PROVE  /\ f.num \in Nat \ {0} /\ f.val \in Nat /\ f.data \in Seq(Nat)
         /\ \/ f.wire = WIRE_VARINT /\ f.data = << >> /\ f = NumberField(f.num, f.val)
            \/ f.wire = WIRE_LEN /\ f.val = 0 /\ f = BytesField(f.num, f.data)
<1>1. CASE \E num \in Nat \ {0}, v \in Nat : f = NumberField(num, v)
  <2>1. << >> \in Seq(Nat)
    OBVIOUS
  <2>2. QED BY <1>1, <2>1 DEF NumberField
<1>2. CASE \E num \in Nat \ {0}, d \in Seq(Nat) : f = BytesField(num, d)
  BY <1>2 DEF BytesField
<1>3. QED BY <1>1, <1>2 DEF Written

LEMMA WrittenNumber ==
  ASSUME NEW num \in Nat \ {0}, NEW v \in Nat
  PROVE  /\ NumberField(num, v) \in Written
         /\ Encoded(NumberField(num, v)) = varint_field(num, v)
  BY DEF Written, NumberField, Encoded

LEMMA WrittenBytes ==
  ASSUME NEW num \in Nat \ {0}, NEW d \in Seq(Nat)
  PROVE  /\ BytesField(num, d) \in Written
         /\ Encoded(BytesField(num, d)) = bytes_field(num, d)
  BY DEF Written, BytesField, Encoded, WIRE_LEN, WIRE_VARINT

LEMMA NatAssociative ==
  ASSUME NEW a \in Seq(Nat), NEW b \in Seq(Nat), NEW d \in Seq(Nat)
  PROVE  (a \o b) \o d = a \o (b \o d)
  BY SMTT(60), ConcatAssociative

LEMMA EncodedTyped ==
  ASSUME NEW f \in Written
  PROVE  Encoded(f) \in Seq(Nat) /\ Len(Encoded(f)) \in Nat /\ Len(Encoded(f)) >= 1
<1> DEFINE tag == varint(f.num * 8 + f.wire)
<1>1. f.num * 8 + f.wire \in Nat
  BY WrittenTyped DEF WIRE_VARINT, WIRE_LEN
<1>2. tag \in Seq(Nat) /\ Len(tag) \in Nat /\ Len(tag) >= 1
  BY <1>1, VarintBytes
<1> HIDE DEF tag
<1>3. \A w \in Seq(Nat) : /\ tag \o w \in Seq(Nat)
                          /\ Len(tag \o w) \in Nat /\ Len(tag \o w) >= 1
  <2>1. TAKE w \in Seq(Nat)
  <2>2. tag \o w \in Seq(Nat) /\ Len(tag \o w) = Len(tag) + Len(w)
    BY <1>2, ConcatProperties
  <2>3. Len(w) \in Nat
    BY LenProperties
  <2>4. QED BY <1>2, <2>2, <2>3
<1>4. CASE f.wire = WIRE_VARINT
  <2>1. varint(f.val) \in Seq(Nat)
    BY WrittenTyped, VarintBytes
  <2>2. Encoded(f) = tag \o varint(f.val)
    BY <1>4 DEF Encoded, varint_field, tag
  <2>3. QED BY <1>3, <2>1, <2>2
<1>5. CASE f.wire # WIRE_VARINT
  <2> DEFINE d == f.data
             b == varint(Len(d))
  <2>1. d \in Seq(Nat) /\ Len(d) \in Nat /\ f.wire = WIRE_LEN
    BY <1>5, WrittenTyped, LenProperties
  <2>2. b \in Seq(Nat)
    BY <2>1, VarintBytes
  <2>3. Encoded(f) = (tag \o b) \o d
    BY <1>5, <2>1 DEF Encoded, bytes_field, tag
  <2> HIDE DEF b, d
  <2>4. (tag \o b) \o d = tag \o (b \o d)
    <3>1. tag \in Seq(Nat) /\ b \in Seq(Nat) /\ d \in Seq(Nat)
      BY <1>2, <2>1, <2>2
    <3>2. QED BY <3>1, NatAssociative
  <2>5. b \o d \in Seq(Nat)
    BY <2>1, <2>2, ConcatProperties
  <2>6. QED BY <1>3, <2>3, <2>4, <2>5
<1>6. QED BY <1>4, <1>5

(* The reader finds the field that was written. *)
LEMMA FieldBack ==
  ASSUME NEW s \in Seq(Nat), NEW i \in Positions(s), NEW f \in Written,
         At(s, i, Encoded(f))
  PROVE  ReadField(s, i) = Seen(f, i + Len(Encoded(f)))
<1> DEFINE n == f.num * 8 + f.wire
           a == varint(n)
<1>1. n \in Nat /\ n % 8 = f.wire /\ n \div 8 = f.num
  <2> DEFINE q == f.num
             w == f.wire
  <2>1. q \in Nat /\ w \in {0, 2}
    BY WrittenTyped DEF WIRE_VARINT, WIRE_LEN
  <2> HIDE DEF q, w
  <2>2. q * 8 + w \in Nat /\ (q * 8 + w) % 8 = w /\ (q * 8 + w) \div 8 = q
    BY <2>1
  <2>3. QED BY <2>2 DEF q, w
<1> HIDE DEF n
<1>2. a \in Seq(Nat) /\ Len(a) \in Nat /\ i \in Nat /\ i >= 1 /\ Len(s) \in Nat
  <2>1. a \in Seq(Nat) /\ Len(a) \in Nat
    BY <1>1, VarintBytes
  <2>2. i \in Nat /\ i >= 1 /\ Len(s) \in Nat
    BY DEF Positions
  <2>3. QED BY <2>1, <2>2
<1>3. CASE f.wire = WIRE_VARINT
  <2> DEFINE b == varint(f.val)
             j == i + Len(a)
             e == j + Len(b)
  <2>1. f.val \in Nat /\ f.data = << >>
    BY <1>3, WrittenTyped DEF WIRE_VARINT, WIRE_LEN
  <2>2. b \in Seq(Nat) /\ Len(b) \in Nat
    BY <2>1, VarintBytes
  <2>3. Encoded(f) = a \o b
    BY <1>3 DEF Encoded, varint_field, n
  <2> HIDE DEF b
  <2>4. At(s, i, a) /\ At(s, j, b)
    BY <1>2, <2>2, <2>3, AtBoth
  <2>5. j \in Positions(s) /\ e <= Len(s) + 1 /\ e \in Nat
    BY <1>2, <2>2, <2>4 DEF At, Positions
  <2>6. Len(Encoded(f)) = Len(a) + Len(b)
    BY <1>2, <2>2, <2>3, ConcatProperties
  <2>7. i + Len(Encoded(f)) = e
    BY <1>2, <2>2, <2>6
  <2>8. ReadVarint(s, i) = Found(n, j)
    BY <1>1, <2>4, ReadsBack
  <2> HIDE DEF a, j
  <2>9. ReadVarint(s, j) = Found(f.val, e)
    BY <2>1, <2>4, <2>5, ReadsBack DEF b
  <2> HIDE DEF e
  <2> DEFINE tag == Found(n, j)
             body == Found(f.val, e)
  <2>10. /\ tag.ok = TRUE /\ tag.val = n /\ tag.end = j /\ tag.short = TRUE
         /\ body.ok = TRUE /\ body.val = f.val /\ body.end = e /\ body.short = TRUE
    BY DEF Found
  <2>11. ReadField(s, i) = IF BadField(s, tag, body) THEN Broken ELSE GoodField(s, tag, body)
    BY <2>8, <2>9, <2>10, FieldUnfolds
  <2> HIDE DEF tag, body
  <2>12. Length(tag, body) = 0 /\ e + 0 = e
    BY <1>1, <1>3, <2>5, <2>10 DEF Length, WIRE_VARINT, WIRE_LEN
  <2>13. ~BadField(s, tag, body)
    BY <1>1, <1>2, <1>3, <2>5, <2>10, <2>12 DEF BadField
  <2>14. SubSeq(s, e, e + 0 - 1) = << >>
    BY <2>5, SubSeqEmpty
  <2>15. GoodField(s, tag, body) = Seen(f, e)
    BY <1>1, <1>3, <2>1, <2>10, <2>12, <2>14 DEF GoodField, Seen
  <2>16. QED BY <2>7, <2>11, <2>13, <2>15
<1>4. CASE f.wire # WIRE_VARINT
  <2> DEFINE d == f.data
             b == varint(Len(d))
             j == i + Len(a)
             k == j + Len(b)
             e == k + Len(d)
  <2>1. d \in Seq(Nat) /\ Len(d) \in Nat /\ f.wire = WIRE_LEN /\ f.val = 0
    BY <1>4, WrittenTyped, LenProperties
  <2>2. b \in Seq(Nat) /\ Len(b) \in Nat
    BY <2>1, VarintBytes
  <2>3. Encoded(f) = (a \o b) \o d
    BY <1>4, <2>1 DEF Encoded, bytes_field, n
  <2> HIDE DEF b, d
  <2>4. a \o b \in Seq(Nat) /\ Len(a \o b) = Len(a) + Len(b)
    BY <1>2, <2>2, ConcatProperties
  <2>5. At(s, i, a \o b) /\ At(s, i + Len(a \o b), d)
    BY <1>2, <2>1, <2>3, <2>4, AtBoth
  <2>6. At(s, i, a) /\ At(s, j, b)
    BY <1>2, <2>2, <2>5, AtBoth
  <2>7. i + Len(a \o b) = k
    BY <1>2, <2>2, <2>4
  <2>8. At(s, k, d)
    BY <2>5, <2>7
  <2>9. /\ j \in Positions(s) /\ k \in Nat \ {0}
        /\ e <= Len(s) + 1 /\ e \in Nat
    BY <1>2, <2>1, <2>2, <2>6, <2>8 DEF At, Positions
  <2>10. i + Len(Encoded(f)) = e
    <3>1. Len((a \o b) \o d) = Len(a \o b) + Len(d)
      BY <2>1, <2>4, ConcatProperties
    <3>2. QED BY <1>2, <2>1, <2>2, <2>3, <2>4, <3>1
  <2>11. ReadVarint(s, i) = Found(n, j)
    BY <1>1, <2>6, ReadsBack
  <2> HIDE DEF a, j
  <2>12. ReadVarint(s, j) = Found(Len(d), k)
    BY <2>1, <2>6, <2>9, ReadsBack DEF b
  <2> HIDE DEF k
  <2>13. SubSeq(s, k, e - 1) = d
    <3>1. d \in Seq(Nat) /\ At(s, k, d)
      BY <2>1, <2>8
    <3>2. SubSeq(s, k, k + Len(d) - 1) = d
      BY <3>1, AtIsPart
    <3>3. k + Len(d) - 1 = e - 1
      BY <2>1, <2>9
    <3>4. QED BY <3>2, <3>3
  <2> HIDE DEF e
  <2> DEFINE tag == Found(n, j)
             body == Found(Len(d), k)
  <2>14. /\ tag.ok = TRUE /\ tag.val = n /\ tag.end = j /\ tag.short = TRUE
         /\ body.ok = TRUE /\ body.val = Len(d) /\ body.end = k /\ body.short = TRUE
    BY DEF Found
  <2>15. ReadField(s, i) = IF BadField(s, tag, body) THEN Broken ELSE GoodField(s, tag, body)
    BY <2>11, <2>12, <2>14, FieldUnfolds
  <2> HIDE DEF tag, body
  <2>16. Length(tag, body) = Len(d) /\ k + Len(d) = e
    BY <1>1, <2>1, <2>14 DEF Length, e
  <2>17. ~BadField(s, tag, body)
    BY SMTT(60), <1>1, <1>2, <2>1, <2>9, <2>14, <2>16 DEF BadField
  <2>18. GoodField(s, tag, body) = Seen(f, e)
    <3>1. GoodField(s, tag, body) =
            [ num |-> n \div 8, wire |-> n % 8,
              val |-> IF n % 8 = WIRE_VARINT THEN Len(d) ELSE 0,
              data |-> SubSeq(s, k, e - 1), short |-> TRUE, end |-> e ]
      <4>1. (k + Len(d)) - 1 = e - 1
        BY <2>16
      <4>2. (tag.short /\ body.short) = TRUE
        BY <2>14
      <4>3. body.end + Length(tag, body) = e /\ body.end = k
        BY <2>14, <2>16
      <4>4. body.end + Length(tag, body) - 1 = e - 1
        BY <2>1, <2>9, <2>16, <4>3
      <4>5. SubSeq(s, body.end, body.end + Length(tag, body) - 1) = SubSeq(s, k, e - 1)
        BY <4>3, <4>4
      <4> DEFINE part == SubSeq(s, body.end, body.end + Length(tag, body) - 1)
                 last == body.end + Length(tag, body)
      <4>6. GoodField(s, tag, body) =
              [ num |-> tag.val \div 8, wire |-> tag.val % 8,
                val |-> IF tag.val % 8 = WIRE_VARINT THEN body.val ELSE 0,
                data |-> part, short |-> tag.short /\ body.short, end |-> last ]
        BY DEF GoodField
      <4>7. part = SubSeq(s, k, e - 1) /\ last = e
        BY <4>3, <4>5
      <4> HIDE DEF part, last
      <4>8. QED BY <2>14, <4>2, <4>6, <4>7
    <3>2. n % 8 # WIRE_VARINT
      BY <1>1, <2>1 DEF WIRE_LEN, WIRE_VARINT
    <3>3. QED BY <1>1, <2>1, <2>13, <3>1, <3>2 DEF Seen, d
  <2>19. QED BY <2>10, <2>15, <2>17, <2>18
<1>5. QED BY <1>3, <1>4

----------------------------------------------------------------------------
(* The message reader, unfolded.                                           *)

NoFields == << >>
OneBroken == <<Broken>>
First(r, rest) == <<r>> \o rest
Walks(s, f) ==
  f = [i \in Positions(s) |->
         IF i > Len(s) THEN NoFields
         ELSE IF ReadField(s, i) = Broken THEN OneBroken
         ELSE First(ReadField(s, i), f[ReadField(s, i).end])]
From(s) == CHOOSE f : Walks(s, f)

LEMMA FirstIs ==
  ASSUME NEW r \in FieldRead, NEW m \in Seq(FieldRead)
  PROVE  /\ First(r, m) \in Seq(FieldRead) /\ Len(m) \in Nat
         /\ Len(First(r, m)) = Len(m) + 1
         /\ First(r, m)[1] = r
         /\ \A k \in 1..Len(m) : First(r, m)[k + 1] = m[k]
<1> DEFINE a == <<r>>
<1>1. a \in Seq(FieldRead) /\ Len(a) = 1 /\ a[1] = r
  OBVIOUS
<1> HIDE DEF a
<1>2. Len(m) \in Nat
  BY LenProperties
<1>3. /\ a \o m \in Seq(FieldRead) /\ Len(a \o m) = Len(a) + Len(m)
      /\ \A k \in 1..Len(a) + Len(m) : (a \o m)[k] = IF k <= Len(a) THEN a[k] ELSE m[k - Len(a)]
  BY <1>1, ConcatProperties
<1>4. (a \o m)[1] = r
  <2>1. 1 \in 1..Len(a) + Len(m) /\ 1 <= Len(a)
    BY <1>1, <1>2
  <2>2. QED BY <1>1, <1>3, <2>1
<1>5. \A k \in 1..Len(m) : (a \o m)[k + 1] = m[k]
  <2>1. TAKE k \in 1..Len(m)
  <2>2. /\ k + 1 \in 1..Len(a) + Len(m) /\ ~(k + 1 <= Len(a))
        /\ (k + 1) - Len(a) = k
    BY <1>1, <1>2
  <2>3. QED BY <1>3, <2>2
<1>6. First(r, m) = a \o m
  BY DEF First, a
<1>7. QED BY <1>1, <1>2, <1>3, <1>4, <1>5, <1>6

LEMMA BrokenTyped == Broken \in FieldRead /\ OneBroken \in Seq(FieldRead)
                     /\ NoFields \in Seq(FieldRead)
<1>1. << >> \in Seq(Nat) /\ << >> \in Seq(FieldRead)
  OBVIOUS
<1>2. Broken \in FieldRead
  BY <1>1 DEF Broken, FieldRead
<1>3. \A r \in FieldRead : <<r>> \in Seq(FieldRead)
  OBVIOUS
<1>4. QED BY <1>1, <1>2, <1>3 DEF OneBroken, NoFields

LEMMA MessageUnfolds ==
  ASSUME NEW s \in Seq(Nat)
  PROVE  /\ ReadMessage(s) = From(s)[1]
         /\ From(s) \in [Positions(s) -> Seq(FieldRead)]
         /\ \A i \in Positions(s) :
              /\ i > Len(s) => From(s)[i] = NoFields
              /\ i <= Len(s) /\ ReadField(s, i) # Broken =>
                   From(s)[i] = First(ReadField(s, i), From(s)[ReadField(s, i).end])
<1> DEFINE D == Positions(s)
           V == Seq(FieldRead)
           F(i) == ReadField(s, i)
           rank == [i \in D |-> Len(s) + 1 - i]
           B == {i \in D : i > Len(s) \/ F(i) = Broken}
           c == [i \in D |-> IF i > Len(s) THEN NoFields ELSE OneBroken]
           p == [i \in D |-> IF F(i) = Broken THEN i ELSE F(i).end]
           d == [q \in D \X V |-> First(F(q[1]), q[2])]
<1>1. Len(s) \in Nat /\ \A i \in D : i \in Nat /\ i <= Len(s) + 1
  BY DEF Positions
<1>2. \A i \in D : F(i) \in FieldRead /\ (F(i) # Broken => F(i).end \in D /\ F(i).end > i)
  BY FieldEnds
<1>3. NoFields \in V /\ OneBroken \in V /\ \A r \in FieldRead, m \in V : First(r, m) \in V
  BY BrokenTyped, FirstIs
<1> HIDE DEF F, V
<1>4. Recursion(D, V, rank, B, c, p, d)
  <2>1. rank \in [D -> Nat]
    <3>1. \A i \in D : Len(s) + 1 - i \in Nat
      BY <1>1
    <3> HIDE DEF D
    <3>2. QED BY <3>1
  <2> HIDE DEF D
  <2>2. B \in SUBSET D /\ c \in [D -> V] /\ p \in [D -> D]
    BY <1>2, <1>3
  <2>3. d \in [D \X V -> V]
    BY <1>2, <1>3
  <2>4. \A i \in D \ B : rank[p[i]] < rank[i]
    <3>1. TAKE i \in D \ B
    <3>2. p[i] = F(i).end /\ F(i).end \in D /\ F(i).end > i
      BY <1>2
    <3>3. F(i).end \in Nat /\ i \in Nat /\ rank[i] = Len(s) + 1 - i
          /\ rank[p[i]] = Len(s) + 1 - F(i).end
      BY <1>1, <3>2
    <3>4. QED BY <1>1, <3>2, <3>3
  <2> HIDE DEF rank, B, c, p, d
  <2>5. QED BY <2>1, <2>2, <2>3, <2>4 DEF Recursion
<1>5. PICK h : Obeys(h, D, V, B, c, p, d)
  <2> HIDE DEF D, V, rank, B, c, p, d
  <2>1. QED BY <1>4, RecursionExists
<1> HIDE DEF D
<1>6. h \in [D -> V] /\ \A i \in D : h[i] = IF i \in B THEN c[i] ELSE d[<<i, h[p[i]]>>]
  <2> HIDE DEF V, rank, B, c, p, d
  <2>1. QED BY <1>5 DEF Obeys
<1>7. \A i \in D : h[i] = IF i > Len(s) THEN NoFields
                          ELSE IF F(i) = Broken THEN OneBroken ELSE First(F(i), h[F(i).end])
  <2>1. TAKE i \in D
  <2>2. CASE i \in B
    <3>1. i > Len(s) \/ F(i) = Broken
      BY <2>2
    <3>2. h[i] = c[i]
      BY <1>6, <2>2
    <3>3. c[i] = IF i > Len(s) THEN NoFields ELSE OneBroken
      OBVIOUS
    <3> HIDE DEF c
    <3>4. QED BY <3>1, <3>2, <3>3
  <2>3. CASE i \notin B
    <3>1. ~(i > Len(s)) /\ F(i) # Broken
      BY <2>3
    <3>2. p[i] = F(i).end /\ F(i).end \in D
      BY <1>2, <3>1
    <3>3. <<i, h[F(i).end]>> \in D \X V
      BY <1>6, <3>2
    <3>4. d[<<i, h[F(i).end]>>] = First(F(i), h[F(i).end])
      BY <3>3
    <3>5. h[i] = d[<<i, h[F(i).end]>>]
      <4> HIDE DEF B, c, d, p
      <4>1. QED BY <1>6, <2>3, <3>2
    <3> HIDE DEF d
    <3>6. QED BY <3>1, <3>4, <3>5
  <2>4. QED BY <2>2, <2>3
<1>8. Walks(s, h)
  <2> HIDE DEF B, c, p, d
  <2>1. h = [i \in D |-> h[i]]
    BY <1>6
  <2>2. QED BY <1>7, <2>1 DEF Walks, D, F
<1> HIDE DEF B, c, p, d
<1> DEFINE g == From(s)
<1>9. Walks(s, g)
  BY <1>8 DEF From
<1>10. ReadMessage(s) = g[1]
  BY Zenon DEF ReadMessage, From, Walks, NoFields, OneBroken, First
<1> HIDE DEF g
<1>11. \A i \in D : g[i] = IF i > Len(s) THEN NoFields
                          ELSE IF F(i) = Broken THEN OneBroken ELSE First(F(i), g[F(i).end])
  BY <1>9 DEF Walks, D, F
<1>12. \A i \in D : g[i] \in V
  <2> DEFINE S == {i \in D : g[i] \in V}
  <2>1. \A i \in D : (\A j \in D : rank[j] < rank[i] => j \in S) => i \in S
    <3>1. SUFFICES ASSUME NEW i \in D, \A j \in D : rank[j] < rank[i] => g[j] \in V
                   PROVE  g[i] \in V
      <4> HIDE DEF rank
      <4>1. QED OBVIOUS
    <3>2. CASE i > Len(s) \/ F(i) = Broken
      BY <1>3, <1>11, <3>2
    <3>3. CASE ~(i > Len(s) \/ F(i) = Broken)
      <4>1. F(i).end \in D /\ F(i).end > i /\ F(i) \in FieldRead
        BY <1>2, <3>3
      <4>2. rank[F(i).end] < rank[i]
        <5>1. F(i).end \in Nat /\ i \in Nat /\ rank[i] = Len(s) + 1 - i
              /\ rank[F(i).end] = Len(s) + 1 - F(i).end
          BY <1>1, <4>1
        <5>2. QED BY <1>1, <4>1, <5>1
      <4>3. g[F(i).end] \in V
        BY <3>1, <4>1, <4>2
      <4>4. QED BY <1>3, <1>11, <3>3, <4>1, <4>3
    <3>4. QED BY <3>2, <3>3
  <2>2. rank \in [D -> Nat]
    <3>1. \A i \in D : Len(s) + 1 - i \in Nat
      BY <1>1
    <3>2. QED BY <3>1
  <2> HIDE DEF S, rank
  <2>3. \A i \in D : i \in S
    BY <2>1, <2>2, RankInduction
  <2>4. QED BY <2>3 DEF S
<1>13. g \in [D -> V]
  <2>1. g = [i \in D |-> g[i]]
    BY <1>9 DEF Walks, D
  <2>2. QED BY <1>12, <2>1
<1>14. \A i \in D :
         /\ i > Len(s) => g[i] = NoFields
         /\ i <= Len(s) /\ F(i) # Broken => g[i] = First(F(i), g[F(i).end])
  <2>1. \A i \in D : i <= Len(s) => ~(i > Len(s))
    BY <1>1
  <2>2. QED BY <1>11, <2>1
<1>15. QED BY <1>10, <1>13, <1>14 DEF g, D, V, F

----------------------------------------------------------------------------
(* Messages.                                                               *)

(* s is n fields, one behind the other: fs[k] from p[k] on, in the order   *)
(* of their numbers.                                                       *)
Spelled(s, n, fs, p) ==
  /\ s \in Seq(Nat) /\ n \in Nat
  /\ fs \in [1..n -> Written] /\ p \in [1..(n + 1) -> Nat \ {0}]
  /\ p[1] = 1 /\ p[n + 1] = Len(s) + 1
  /\ \A k \in 1..n : At(s, p[k], Encoded(fs[k])) /\ p[k + 1] = p[k] + Len(Encoded(fs[k]))
  /\ \A k, l \in 1..n : k < l => fs[k].num < fs[l].num

(* s spells the fields F. *)
Tells(s, F) == \E n, fs, p : Spelled(s, n, fs, p) /\ F = {fs[k] : k \in 1..n}

LEMMA TellsOne ==
  ASSUME NEW f \in Written
  PROVE  Tells(Encoded(f), {f})
<1> DEFINE s == Encoded(f)
           fs == [k \in 1..1 |-> f]
           p == [k \in 1..(1 + 1) |-> IF k = 1 THEN 1 ELSE Len(s) + 1]
<1>1. s \in Seq(Nat) /\ Len(s) \in Nat
  BY EncodedTyped
<1> HIDE DEF s
<1>2. At(s, 1, s)
  BY <1>1 DEF At
<1>3. fs \in [1..1 -> Written] /\ p \in [1..(1 + 1) -> Nat \ {0}]
  BY <1>1
<1>4. p[1] = 1 /\ p[1 + 1] = Len(s) + 1 /\ Len(s) + 1 = 1 + Len(s)
  BY <1>1
<1>5. \A k \in 1..1 : k = 1 /\ fs[k] = f
  OBVIOUS
<1>6. {fs[k] : k \in 1..1} = {f}
  OBVIOUS
<1> HIDE DEF fs, p
<1>7. Spelled(s, 1, fs, p)
  <2>1. \A k \in 1..1 : At(s, p[k], Encoded(fs[k])) /\ p[k + 1] = p[k] + Len(Encoded(fs[k]))
    BY <1>2, <1>4, <1>5 DEF s
  <2>2. \A k, l \in 1..1 : k < l => fs[k].num < fs[l].num
    BY <1>5
  <2>3. QED BY <1>1, <1>3, <1>4, <2>1, <2>2 DEF Spelled
<1>8. QED BY <1>6, <1>7 DEF Tells, s

LEMMA TellsMore ==
  ASSUME NEW s, NEW F, Tells(s, F), NEW f \in Written, \A g \in F : g.num < f.num
  PROVE  Tells(s \o Encoded(f), F \cup {f})
<1> DEFINE w == Encoded(f)
           u == s \o w
<1>1. PICK n, fs, p : Spelled(s, n, fs, p) /\ F = {fs[k] : k \in 1..n}
  BY DEF Tells
<1>2. /\ s \in Seq(Nat) /\ n \in Nat
      /\ fs \in [1..n -> Written] /\ p \in [1..(n + 1) -> Nat \ {0}]
      /\ p[1] = 1 /\ p[n + 1] = Len(s) + 1
      /\ \A k \in 1..n : At(s, p[k], Encoded(fs[k])) /\ p[k + 1] = p[k] + Len(Encoded(fs[k]))
      /\ \A k, l \in 1..n : k < l => fs[k].num < fs[l].num
  BY <1>1 DEF Spelled
<1>3. w \in Seq(Nat) /\ Len(w) \in Nat /\ Len(s) \in Nat
  BY <1>2, EncodedTyped
<1> HIDE DEF w
<1>4. u \in Seq(Nat) /\ Len(u) = Len(s) + Len(w)
  BY <1>2, <1>3, ConcatProperties
<1>5. At(u, Len(s) + 1, w)
  BY <1>2, <1>3, AtGrows
<1>6. \A k \in 1..n : At(u, p[k], Encoded(fs[k]))
  <2>1. TAKE k \in 1..n
  <2>2. Encoded(fs[k]) \in Seq(Nat) /\ At(s, p[k], Encoded(fs[k]))
    BY <1>2, EncodedTyped
  <2>3. QED BY <1>2, <1>3, <2>2, AtGrows
<1> HIDE DEF u
<1> DEFINE gs == [k \in 1..(n + 1) |-> IF k = n + 1 THEN f ELSE fs[k]]
           q == [k \in 1..((n + 1) + 1) |-> IF k = (n + 1) + 1 THEN Len(u) + 1 ELSE p[k]]
<1>7. /\ gs \in [1..(n + 1) -> Written] /\ gs[n + 1] = f
      /\ \A k \in 1..n : gs[k] = fs[k]
  <2>1. \A k \in 1..(n + 1) : k = n + 1 \/ k \in 1..n
    BY <1>2
  <2>2. \A k \in 1..n : k \in 1..(n + 1) /\ k # n + 1
    BY <1>2
  <2>3. n + 1 \in 1..(n + 1)
    BY <1>2
  <2>4. gs \in [1..(n + 1) -> Written]
    BY <1>2, <2>1
  <2>5. QED BY <2>2, <2>3, <2>4
<1>8. /\ q \in [1..((n + 1) + 1) -> Nat \ {0}] /\ q[(n + 1) + 1] = Len(u) + 1
      /\ \A k \in 1..(n + 1) : q[k] = p[k]
  <2>1. \A k \in 1..((n + 1) + 1) : k = (n + 1) + 1 \/ k \in 1..(n + 1)
    BY <1>2
  <2>2. \A k \in 1..(n + 1) : k \in 1..((n + 1) + 1) /\ k # (n + 1) + 1
    BY <1>2
  <2>3. (n + 1) + 1 \in 1..((n + 1) + 1) /\ Len(u) + 1 \in Nat \ {0}
    BY <1>2, <1>3, <1>4
  <2>4. q \in [1..((n + 1) + 1) -> Nat \ {0}]
    BY <1>2, <2>1, <2>3
  <2>5. QED BY <2>2, <2>3, <2>4
<1> HIDE DEF gs, q
<1>9. {gs[k] : k \in 1..(n + 1)} = F \cup {f}
  <2>1. 1..(n + 1) = (1..n) \cup {n + 1}
    BY <1>2
  <2>2. {gs[k] : k \in 1..n} = {fs[k] : k \in 1..n}
    BY <1>7
  <2>3. QED BY <1>1, <1>7, <2>1, <2>2
<1>10. Spelled(u, n + 1, gs, q)
  <2>1. \A k \in 1..(n + 1) : At(u, q[k], Encoded(gs[k])) /\ q[k + 1] = q[k] + Len(Encoded(gs[k]))
    <3>1. TAKE k \in 1..(n + 1)
    <3>2. CASE k = n + 1
      <4>1. q[k] = Len(s) + 1 /\ gs[k] = f /\ q[k + 1] = Len(u) + 1
        BY <1>2, <1>7, <1>8, <3>2
      <4>2. QED BY <1>3, <1>4, <1>5, <4>1 DEF w
    <3>3. CASE k # n + 1
      <4>1. k \in 1..n /\ k + 1 \in 1..(n + 1)
        BY <1>2, <3>3
      <4>2. q[k] = p[k] /\ q[k + 1] = p[k + 1] /\ gs[k] = fs[k]
        BY <1>7, <1>8, <4>1
      <4>3. QED BY <1>2, <1>6, <4>1, <4>2
    <3>4. QED BY <3>2, <3>3
  <2>2. \A k, l \in 1..(n + 1) : k < l => gs[k].num < gs[l].num
    <3>1. SUFFICES ASSUME NEW k \in 1..(n + 1), NEW l \in 1..(n + 1), k < l
                   PROVE  gs[k].num < gs[l].num
      OBVIOUS
    <3>2. k \in 1..n
      BY <1>2, <3>1
    <3>3. CASE l = n + 1
      BY <1>1, <1>7, <3>2, <3>3
    <3>4. CASE l # n + 1
      <4>1. l \in 1..n
        BY <1>2, <3>4
      <4>2. QED BY <1>2, <1>7, <3>1, <3>2, <4>1
    <3>5. QED BY <3>3, <3>4
  <2>3. n + 1 \in Nat /\ q[1] = 1
    BY <1>2, <1>8
  <2>4. QED BY <1>4, <1>7, <1>8, <2>1, <2>2, <2>3 DEF Spelled
<1>11. QED BY <1>9, <1>10 DEF Tells, u, w

(* A node reads the fields that a message spells, and no others.           *)
LEMMA SpelledReads ==
  ASSUME NEW s, NEW n, NEW fs, NEW p, Spelled(s, n, fs, p)
  PROVE  LET m == ReadMessage(s)
         IN m \in Seq(FieldRead) /\ Len(m) = n /\ \A k \in 1..n : m[k] = Seen(fs[k], p[k + 1])
<1>1. /\ s \in Seq(Nat) /\ n \in Nat
      /\ fs \in [1..n -> Written] /\ p \in [1..(n + 1) -> Nat \ {0}]
      /\ p[1] = 1 /\ p[n + 1] = Len(s) + 1
      /\ \A k \in 1..n : At(s, p[k], Encoded(fs[k])) /\ p[k + 1] = p[k] + Len(Encoded(fs[k]))
  BY DEF Spelled
<1>2. Len(s) \in Nat
  BY <1>1
<1>3. \A k \in 1..n : /\ p[k] \in Positions(s) /\ p[k] <= Len(s)
                      /\ ReadField(s, p[k]) = Seen(fs[k], p[k + 1])
                      /\ ReadField(s, p[k]) # Broken
  <2>1. TAKE k \in 1..n
  <2> DEFINE e == Encoded(fs[k])
  <2>2. fs[k] \in Written /\ e \in Seq(Nat) /\ Len(e) \in Nat /\ Len(e) >= 1
    BY <1>1, EncodedTyped
  <2>3. At(s, p[k], e) /\ p[k + 1] = p[k] + Len(e)
    BY <1>1
  <2>4. p[k] \in Nat \ {0} /\ p[k] + Len(e) <= Len(s) + 1
    BY <2>3 DEF At
  <2>5. p[k] \in Positions(s) /\ p[k] <= Len(s)
    BY <1>2, <2>2, <2>4 DEF Positions
  <2>6. ReadField(s, p[k]) = Seen(fs[k], p[k + 1])
    BY <1>1, <2>2, <2>3, <2>5, FieldBack
  <2>7. Seen(fs[k], p[k + 1]).num # 0
    BY <2>2, WrittenTyped DEF Seen
  <2>8. Broken.num = 0
    BY DEF Broken
  <2>9. QED BY <2>5, <2>6, <2>7, <2>8
<1> DEFINE g == From(s)
<1>4. /\ ReadMessage(s) = g[1]
      /\ g \in [Positions(s) -> Seq(FieldRead)]
      /\ \A i \in Positions(s) :
           /\ i > Len(s) => g[i] = NoFields
           /\ i <= Len(s) /\ ReadField(s, i) # Broken =>
                g[i] = First(ReadField(s, i), g[ReadField(s, i).end])
  BY <1>1, MessageUnfolds
<1> HIDE DEF g
<1> DEFINE Rest(q, j) == /\ g[p[q]] \in Seq(FieldRead) /\ Len(g[p[q]]) = j
                           /\ \A k \in 1..j : g[p[q]][k] = Seen(fs[(q - 1) + k], p[q + k])
           S == {j \in 0..n : Rest(n + 1 - j, j)}
<1>5. 0 \in S
  <2>1. p[n + 1] \in Positions(s) /\ p[n + 1] > Len(s)
    BY <1>1, <1>2 DEF Positions
  <2>2. g[p[n + 1]] = NoFields
    BY <1>4, <2>1
  <2>3. NoFields \in Seq(FieldRead) /\ Len(NoFields) = 0
    BY BrokenTyped DEF NoFields
  <2>4. n + 1 - 0 = n + 1 /\ 0 \in 0..n /\ 1..0 = {}
    BY <1>1
  <2>5. Rest(n + 1, 0)
    BY <2>2, <2>3, <2>4
  <2>6. QED BY <2>4, <2>5
<1>6. \A j \in 1..n : j - 1 \in S => j \in S
  <2>1. SUFFICES ASSUME NEW j \in 1..n, Rest(n + 1 - (j - 1), j - 1)
                 PROVE  Rest(n + 1 - j, j)
    <3> HIDE DEF Rest
    <3>1. \A j \in 1..n : j \in 0..n
      BY <1>1
    <3>2. QED BY <3>1
  <2> DEFINE q == n + 1 - j
             r == ReadField(s, p[q])
             m == g[p[q + 1]]
  <2>2. q \in 1..n /\ q \in Nat /\ n + 1 - (j - 1) = q + 1 /\ j \in Nat /\ j >= 1
    BY <1>1
  <2> HIDE DEF q
  <2>3. /\ m \in Seq(FieldRead) /\ Len(m) = j - 1
        /\ \A k \in 1..(j - 1) : m[k] = Seen(fs[((q + 1) - 1) + k], p[(q + 1) + k])
    BY <2>1, <2>2
  <2>4. r = Seen(fs[q], p[q + 1]) /\ p[q] \in Positions(s) /\ p[q] <= Len(s) /\ r # Broken
    BY <1>3, <2>2
  <2>5. r.end = p[q + 1]
    BY <2>4 DEF Seen
  <2>6. g[p[q]] = First(r, m)
    BY <1>4, <2>4, <2>5
  <2>7. r \in FieldRead
    BY <1>1, <2>4, FieldEnds
  <2> HIDE DEF r, m
  <2>8. /\ First(r, m) \in Seq(FieldRead)
        /\ Len(First(r, m)) = Len(m) + 1
        /\ First(r, m)[1] = r
        /\ \A k \in 1..Len(m) : First(r, m)[k + 1] = m[k]
    BY <2>3, <2>7, FirstIs
  <2>9. \A k \in 1..j : First(r, m)[k] = Seen(fs[(q - 1) + k], p[q + k])
    <3>1. TAKE k \in 1..j
    <3>2. CASE k = 1
      <4>1. (q - 1) + k = q /\ q + k = q + 1
        BY <2>2, <3>2
      <4>2. QED BY <2>4, <2>8, <3>2, <4>1
    <3>3. CASE k # 1
      <4>1. /\ k - 1 \in 1..(j - 1) /\ (k - 1) + 1 = k
            /\ ((q + 1) - 1) + (k - 1) = (q - 1) + k /\ (q + 1) + (k - 1) = q + k
        BY <2>2, <3>3
      <4>2. First(r, m)[(k - 1) + 1] = m[k - 1]
        BY <2>3, <2>8, <4>1
      <4>3. m[k - 1] = Seen(fs[((q + 1) - 1) + (k - 1)], p[(q + 1) + (k - 1)])
        BY <2>3, <4>1
      <4>4. QED BY <4>1, <4>2, <4>3
    <3>4. QED BY <3>2, <3>3
  <2>10. Len(m) + 1 = j
    BY <2>2, <2>3
  <2>11. QED BY <2>6, <2>8, <2>9, <2>10 DEF q
<1> HIDE DEF S
<1>7. \A j \in 0..n : j \in S
  BY <1>1, <1>5, <1>6, PrefixInduction
<1>8. Rest(n + 1 - n, n)
  <2>1. n \in 0..n
    BY <1>1
  <2> HIDE DEF Rest
  <2>2. n \in S
    BY <1>7, <2>1
  <2>3. QED BY <2>2 DEF S
<1>9. n + 1 - n = 1
  BY <1>1
<1>10. Rest(1, n)
  BY <1>8, <1>9
<1>11. \A k \in 1..n : (1 - 1) + k = k /\ 1 + k = k + 1
  OBVIOUS
<1>12. QED BY <1>1, <1>4, <1>10, <1>11

----------------------------------------------------------------------------
(* What a node finds in a message.                                         *)

(* the one field of m with a number *)
LEMMA FieldFound ==
  ASSUME NEW m \in Seq(FieldRead), NEW k \in 1..Len(m), NEW num, m[k].num = num,
         \A l \in 1..Len(m) : m[l].num = num => l = k
  PROVE  ValueOf(m, num) = m[k].val /\ DataOf(m, num) = m[k].data
<1> DEFINE I == {i \in 1..Len(m) : m[i].num = num}
<1>1. I = {k} /\ I # {} /\ k \in Nat /\ k # 0
  BY LenProperties
<1>2. Field(m, num) = Max(I)
  BY <1>1 DEF Field, SelectLastInSeq
<1> HIDE DEF I
<1>3. Max({k}) = k
  BY <1>1 DEF Max
<1>4. Field(m, num) = k
  BY <1>1, <1>2, <1>3
<1>5. QED BY <1>1, <1>4 DEF ValueOf, DataOf

LEMMA FieldAbsent ==
  ASSUME NEW m, NEW num, \A l \in 1..Len(m) : m[l].num # num
  PROVE  ValueOf(m, num) = 0 /\ DataOf(m, num) = << >>
<1>1. {i \in 1..Len(m) : m[i].num = num} = {}
  OBVIOUS
<1>2. Field(m, num) = 0
  BY <1>1 DEF Field, SelectLastInSeq
<1>3. QED BY <1>2 DEF ValueOf, DataOf

(* The message that a node reads in what F spells. *)
Carried(m, F) ==
  /\ WellFormed(m)
  /\ \A k \in DOMAIN m : m[k].short
  /\ \A k \in 2..Len(m) : m[k - 1].num < m[k].num
  /\ \A k \in DOMAIN m : \E f \in F : m[k].num = f.num /\ m[k].val = f.val /\ m[k].data = f.data
  /\ \A f \in F : ValueOf(m, f.num) = f.val /\ DataOf(m, f.num) = f.data
  /\ \A num : (\A f \in F : f.num # num) => ValueOf(m, num) = 0 /\ DataOf(m, num) = << >>

LEMMA TellsReads ==
  ASSUME NEW s, NEW F, Tells(s, F)
  PROVE  s \in Seq(Nat) /\ Carried(ReadMessage(s), F)
<1> DEFINE m == ReadMessage(s)
<1>1. PICK n, fs, p : Spelled(s, n, fs, p) /\ F = {fs[k] : k \in 1..n}
  BY DEF Tells
<1>2. /\ s \in Seq(Nat) /\ n \in Nat /\ fs \in [1..n -> Written]
      /\ \A k, l \in 1..n : k < l => fs[k].num < fs[l].num
  BY <1>1 DEF Spelled
<1>3. m \in Seq(FieldRead) /\ Len(m) = n /\ \A k \in 1..n : m[k] = Seen(fs[k], p[k + 1])
  BY <1>1, SpelledReads
<1>4. DOMAIN m = 1..n
  BY <1>3, LenProperties
<1> HIDE DEF m
<1>5. \A k \in 1..n :
        /\ fs[k] \in Written /\ fs[k] \in F /\ fs[k].num \in Nat \ {0}
        /\ m[k].num = fs[k].num /\ m[k].val = fs[k].val /\ m[k].data = fs[k].data
        /\ m[k].short = TRUE
  <2>1. TAKE k \in 1..n
  <2>2. fs[k] \in Written /\ fs[k] \in F
    BY <1>1, <1>2
  <2>3. fs[k].num \in Nat \ {0}
    BY <2>2, WrittenTyped
  <2>4. m[k] = Seen(fs[k], p[k + 1])
    BY <1>3
  <2>5. /\ m[k].num = fs[k].num /\ m[k].val = fs[k].val /\ m[k].data = fs[k].data
        /\ m[k].short = TRUE
    BY <2>4 DEF Seen
  <2>6. QED BY <2>2, <2>3, <2>5
<1>6. WellFormed(m)
  <2>1. Broken.num = 0
    BY DEF Broken
  <2>2. QED BY <1>4, <1>5, <2>1 DEF WellFormed
<1>7. \A k \in DOMAIN m : m[k].short
  BY <1>4, <1>5
<1>8. \A k \in 2..Len(m) : m[k - 1].num < m[k].num
  <2>1. TAKE k \in 2..Len(m)
  <2>2. k - 1 \in 1..n /\ k \in 1..n /\ k - 1 < k
    BY <1>2, <1>3
  <2>3. fs[k - 1].num < fs[k].num
    BY <1>2, <2>2
  <2>4. m[k - 1].num = fs[k - 1].num /\ m[k].num = fs[k].num
    BY <1>5, <2>2
  <2>5. QED BY <2>3, <2>4
<1>9. \A k \in DOMAIN m : \E f \in F : m[k].num = f.num /\ m[k].val = f.val /\ m[k].data = f.data
  BY <1>4, <1>5
<1>10. \A k, l \in 1..n : m[k].num = m[l].num => k = l
  <2>1. SUFFICES ASSUME NEW k \in 1..n, NEW l \in 1..n, m[k].num = m[l].num, k # l
                 PROVE  FALSE
    OBVIOUS
  <2>2. fs[k].num = fs[l].num /\ fs[k].num \in Nat /\ fs[l].num \in Nat
    BY <1>5, <2>1
  <2>3. k < l \/ l < k
    BY <1>2, <2>1
  <2>4. fs[k].num < fs[l].num \/ fs[l].num < fs[k].num
    BY <1>2, <2>3
  <2>5. QED BY <2>2, <2>4
<1>11. \A f \in F : ValueOf(m, f.num) = f.val /\ DataOf(m, f.num) = f.data
  <2>1. TAKE f \in F
  <2>2. PICK k \in 1..n : f = fs[k]
    BY <1>1
  <2>3. m[k].num = f.num /\ m[k].val = f.val /\ m[k].data = f.data
    BY <1>5, <2>2
  <2>4. \A l \in 1..Len(m) : m[l].num = f.num => l = k
    BY <1>3, <1>10, <2>3
  <2>5. k \in 1..Len(m)
    BY <1>3
  <2>6. ValueOf(m, f.num) = m[k].val /\ DataOf(m, f.num) = m[k].data
    BY <1>3, <2>3, <2>4, <2>5, FieldFound
  <2>7. QED BY <2>3, <2>6
<1>12. \A num : (\A f \in F : f.num # num) => ValueOf(m, num) = 0 /\ DataOf(m, num) = << >>
  <2>1. SUFFICES ASSUME NEW num, \A f \in F : f.num # num
                 PROVE  ValueOf(m, num) = 0 /\ DataOf(m, num) = << >>
    OBVIOUS
  <2>2. \A l \in 1..Len(m) : m[l].num # num
    BY <1>3, <1>5, <2>1
  <2>3. QED BY <2>2, FieldAbsent
<1>13. Carried(m, F)
  BY <1>6, <1>7, <1>8, <1>9, <1>11, <1>12 DEF Carried
<1>14. QED BY <1>2, <1>13 DEF m

----------------------------------------------------------------------------
(* Numbers as bytes.                                                       *)

Halves(n, f) == f = [j \in Nat |-> IF j = 0 THEN n ELSE f[j - 1] \div 256]

LEMMA ShiftedUnfolds ==
  ASSUME NEW n \in Nat
  PROVE  /\ Shifted(n, 0) = n
         /\ \A k \in Nat : Shifted(n, k) \in Nat
         /\ \A k \in Nat : Shifted(n, k + 1) = Shifted(n, k) \div 256
<1> DEFINE rank == [k \in Nat |-> k]
           B == {0}
           c == [k \in Nat |-> n]
           p == [k \in Nat |-> IF k = 0 THEN 0 ELSE k - 1]
           d == [q \in Nat \X Nat |-> q[2] \div 256]
<1>1. Recursion(Nat, Nat, rank, B, c, p, d)
  <2>1. rank \in [Nat -> Nat] /\ B \in SUBSET Nat /\ c \in [Nat -> Nat] /\ p \in [Nat -> Nat]
    OBVIOUS
  <2>2. d \in [Nat \X Nat -> Nat]
    <3>1. \A v \in Nat : v \div 256 \in Nat
      OBVIOUS
    <3>2. QED BY <3>1
  <2>3. \A k \in Nat \ B : rank[p[k]] < rank[k]
    OBVIOUS
  <2> HIDE DEF rank, B, c, p, d
  <2>4. QED BY <2>1, <2>2, <2>3 DEF Recursion
<1>2. PICK h : Obeys(h, Nat, Nat, B, c, p, d)
  <2> HIDE DEF rank, B, c, p, d
  <2>1. QED BY <1>1, RecursionExists
<1>3. h \in [Nat -> Nat] /\ \A k \in Nat : h[k] = IF k \in B THEN c[k] ELSE d[<<k, h[p[k]]>>]
  <2> HIDE DEF rank, B, c, p, d
  <2>1. QED BY <1>2 DEF Obeys
<1>4. \A k \in Nat : h[k] = IF k = 0 THEN n ELSE h[k - 1] \div 256
  <2>1. TAKE k \in Nat
  <2>2. CASE k = 0
    BY <1>3, <2>2
  <2>3. CASE k # 0
    <3>1. k \notin B /\ p[k] = k - 1 /\ k - 1 \in Nat
      BY <2>3
    <3> HIDE DEF B, p
    <3>2. d[<<k, h[k - 1]>>] = h[k - 1] \div 256
      BY <1>3, <3>1
    <3> HIDE DEF d
    <3>3. QED BY <1>3, <2>3, <3>1, <3>2
  <2>4. QED BY <2>2, <2>3
<1> HIDE DEF rank, B, c, p, d
<1>5. Halves(n, h)
  BY <1>3, <1>4 DEF Halves
<1> DEFINE g == CHOOSE f : Halves(n, f)
<1>6. Halves(n, g)
  BY <1>5
<1>7. \A k : Shifted(n, k) = g[k]
  BY Zenon DEF Shifted, Halves
<1> HIDE DEF g
<1>8. \A k \in Nat : g[k] = IF k = 0 THEN n ELSE g[k - 1] \div 256
  BY <1>6 DEF Halves
<1>9. g[0] = n
  BY <1>8
<1>10. \A k \in Nat : g[k + 1] = g[k] \div 256
  <2>1. TAKE k \in Nat
  <2>2. k + 1 \in Nat /\ k + 1 # 0 /\ (k + 1) - 1 = k
    OBVIOUS
  <2>3. QED BY <1>8, <2>2
<1>11. \A k \in Nat : g[k] \in Nat
  <2> DEFINE S == {k \in Nat : g[k] \in Nat}
  <2>1. 0 \in S
    BY <1>9
  <2>2. \A k \in Nat : k \in S => k + 1 \in S
    <3>1. \A v \in Nat : v \div 256 \in Nat
      OBVIOUS
    <3>2. QED BY <1>10, <3>1
  <2> HIDE DEF S
  <2>3. \A k \in Nat : k \in S
    BY <2>1, <2>2, SetInduction
  <2>4. QED BY <2>3 DEF S
<1>12. QED BY <1>7, <1>9, <1>10, <1>11

(* A smaller number is the smaller one however far it is shifted. *)
LEMMA ShiftedMonotone ==
  ASSUME NEW a \in Nat, NEW b \in Nat, a <= b
  PROVE  \A k \in Nat : Shifted(a, k) <= Shifted(b, k)
<1> DEFINE S == {k \in Nat : Shifted(a, k) <= Shifted(b, k)}
<1>1. 0 \in S
  BY ShiftedUnfolds
<1>2. \A k \in Nat : k \in S => k + 1 \in S
  <2>1. \A x, y \in Nat : x <= y => x \div 256 <= y \div 256
    OBVIOUS
  <2>2. SUFFICES ASSUME NEW k \in Nat, Shifted(a, k) <= Shifted(b, k)
                 PROVE  Shifted(a, k + 1) <= Shifted(b, k + 1)
    OBVIOUS
  <2>3. Shifted(a, k) \in Nat /\ Shifted(b, k) \in Nat
    BY ShiftedUnfolds
  <2>4. QED BY <2>1, <2>2, <2>3, ShiftedUnfolds
<1> HIDE DEF S
<1>3. \A k \in Nat : k \in S
  BY <1>1, <1>2, SetInduction
<1>4. QED BY <1>3 DEF S

(* to_be_bytes writes as many bytes as it is told. *)
LEMMA BytesTyped ==
  ASSUME NEW n \in Nat, NEW w \in Nat
  PROVE  /\ to_be_bytes(n, w) \in Seq(Nat) /\ Len(to_be_bytes(n, w)) = w
         /\ \A i \in 1..w : to_be_bytes(n, w)[i] = Shifted(n, w - i) % 256
<1>1. \A i \in 1..w : Shifted(n, w - i) % 256 \in Nat
  <2>1. TAKE i \in 1..w
  <2>2. Shifted(n, w - i) \in Nat
    BY ShiftedUnfolds
  <2>3. QED BY <2>2
<1> DEFINE t == to_be_bytes(n, w)
<1>2. t \in [1..w -> Nat]
  BY <1>1 DEF to_be_bytes
<1>3. t \in Seq(Nat)
  BY <1>2
<1>4. Len(t) = w
  BY <1>2, <1>3, LenProperties
<1>5. \A i \in 1..w : t[i] = Shifted(n, w - i) % 256
  BY DEF to_be_bytes
<1>6. QED BY <1>3, <1>4, <1>5

LEMMA BytesLen ==
  \A n, w \in Nat : to_be_bytes(n, w) \in Seq(Nat) /\ Len(to_be_bytes(n, w)) = w
<1>1. TAKE n, w \in Nat
<1>2. QED BY BytesTyped

Horner(s, f) == f = [k \in 0..Len(s) |-> IF k = 0 THEN 0 ELSE f[k - 1] * 256 + s[k]]

Sums(s, g) ==
  /\ g \in [0..Len(s) -> Nat]
  /\ from_be_bytes(s) = g[Len(s)]
  /\ g[0] = 0
  /\ \A k \in 1..Len(s) : g[k] = g[k - 1] * 256 + s[k]

LEMMA BytesUnfold ==
  ASSUME NEW s \in Seq(Nat)
  PROVE  \E g : Sums(s, g)
<1> DEFINE n == Len(s)
           d == [q \in (1..n) \X Nat |-> q[2] * 256 + s[q[1]]]
<1>1. n \in Nat /\ \A k \in 1..n : s[k] \in Nat
  BY LenProperties
<1>2. PrefixRecursion(n, Nat, 0, d)
  <2>1. d \in [(1..n) \X Nat -> Nat]
    BY <1>1
  <2> HIDE DEF d, n
  <2>2. QED BY <1>1, <2>1 DEF PrefixRecursion
<1>3. PICK h : PrefixObeys(h, n, Nat, 0, d)
  <2> HIDE DEF d, n
  <2>1. QED BY <1>2, PrefixRecursionExists
<1>4. h \in [0..n -> Nat] /\ h[0] = 0 /\ \A k \in 1..n : h[k] = d[<<k, h[k - 1]>>]
  <2> HIDE DEF d, n
  <2>1. QED BY <1>3 DEF PrefixObeys
<1>5. \A k \in 1..n : h[k] = h[k - 1] * 256 + s[k]
  <2>1. TAKE k \in 1..n
  <2>2. k - 1 \in 0..n
    BY <1>1
  <2>3. h[k - 1] \in Nat
    BY <1>4, <2>2
  <2>4. QED BY ZenonT(60), <1>4, <2>3
<1> HIDE DEF d
<1>6. \A k \in 0..n : h[k] = IF k = 0 THEN 0 ELSE h[k - 1] * 256 + s[k]
  BY <1>1, <1>4, <1>5
<1>7. Horner(s, h)
  BY <1>4, <1>6 DEF Horner
<1> DEFINE g == CHOOSE f : Horner(s, f)
<1>8. Horner(s, g)
  BY <1>7
<1>9. from_be_bytes(s) = g[Len(s)]
  BY Zenon DEF from_be_bytes, Horner
<1> HIDE DEF g
<1>10. \A k \in 0..n : g[k] = IF k = 0 THEN 0 ELSE g[k - 1] * 256 + s[k]
  BY <1>8 DEF Horner
<1>11. g[0] = 0 /\ \A k \in 1..n : g[k] = g[k - 1] * 256 + s[k]
  BY <1>1, <1>10
<1>12. \A k \in 0..n : g[k] \in Nat
  <2> DEFINE S == {k \in 0..n : g[k] \in Nat}
  <2>1. 0 \in S
    BY <1>1, <1>11
  <2>2. \A k \in 1..n : k - 1 \in S => k \in S
    BY SMTT(60), <1>1, <1>11
  <2> HIDE DEF S
  <2>3. \A k \in 0..n : k \in S
    BY <1>1, <2>1, <2>2, PrefixInduction
  <2>4. QED BY <2>3 DEF S
<1>13. DOMAIN g = 0..n
  BY <1>8 DEF Horner
<1>14. g = [k \in 0..n |-> g[k]]
  BY <1>8, <1>13 DEF Horner
<1>15. g \in [0..n -> Nat]
  BY <1>12, <1>14
<1>16. QED BY <1>9, <1>11, <1>15 DEF Sums, n

(* A number that fits the width is read back from its bytes. *)
LEMMA BytesBack ==
  ASSUME NEW v \in Nat, NEW w \in Nat, Shifted(v, w) = 0
  PROVE  from_be_bytes(to_be_bytes(v, w)) = v
<1> DEFINE s == to_be_bytes(v, w)
           T(k) == Shifted(v, w - k)
<1>1. s \in Seq(Nat) /\ Len(s) = w /\ \A i \in 1..w : s[i] = T(i) % 256
  BY BytesTyped
<1> HIDE DEF s
<1>2. PICK g : Sums(s, g)
  BY <1>1, BytesUnfold
<1> DEFINE S == {k \in 0..w : g[k] = T(k)}
<1>3. T(0) = 0 /\ T(w) = v
  <2>1. w - 0 = w /\ w - w = 0
    OBVIOUS
  <2>2. QED BY <2>1, ShiftedUnfolds
<1>4. 0 \in S
  BY <1>2, <1>3 DEF Sums
<1>5. \A k \in 1..w : k - 1 \in S => k \in S
  <2>1. SUFFICES ASSUME NEW k \in 1..w, g[k - 1] = T(k - 1)
                 PROVE  g[k] = T(k)
    OBVIOUS
  <2>2. w - k \in Nat /\ w - (k - 1) = (w - k) + 1
    OBVIOUS
  <2>3. T(k) \in Nat /\ T(k - 1) = T(k) \div 256
    <3> DEFINE j == w - k
    <3>1. j \in Nat /\ T(k) = Shifted(v, j) /\ T(k - 1) = Shifted(v, j + 1)
      BY <2>2
    <3> HIDE DEF j, T
    <3>2. QED BY <3>1, ShiftedUnfolds
  <2> HIDE DEF T
  <2>4. g[k] = T(k - 1) * 256 + s[k] /\ s[k] = T(k) % 256
    <3>1. k \in 1..Len(s) /\ s[k] = T(k) % 256
      BY <1>1
    <3>2. g[k] = g[k - 1] * 256 + s[k]
      BY <1>2, <3>1 DEF Sums
    <3>3. QED BY <2>1, <3>1, <3>2
  <2>5. (T(k) \div 256) * 256 + (T(k) % 256) = T(k)
    BY SMTT(60), <2>3
  <2>6. QED BY <2>3, <2>4, <2>5
<1>6. \A k \in 0..w : k \in S
  <2> HIDE DEF S
  <2>1. QED BY <1>4, <1>5, PrefixInduction
<1>7. g[w] = T(w)
  BY <1>6
<1>8. QED BY <1>1, <1>2, <1>3, <1>7 DEF Sums, s

----------------------------------------------------------------------------
(* Accounts, block ids and call data as bytes.                             *)

(* bytes are naturals *)
LEMMA ByteSeq ==
  ASSUME NEW n \in Nat, NEW t \in [1..n -> Byte]
  PROVE  t \in Seq(Nat) /\ Len(t) = n
<1>1. t \in [1..n -> Nat]
  <2>1. Byte \subseteq Nat
    BY DEF Byte
  <2>2. \A i \in 1..n : t[i] \in Nat
    BY <2>1
  <2>3. QED BY <2>2
<1>2. t \in Seq(Nat)
  BY <1>1
<1>3. QED BY <1>1, <1>2, LenProperties

LEMMA PartsTyped ==
  /\ \A a \in Accounts : KeyHash(a) \in Seq(Nat) /\ Len(KeyHash(a)) = 20
  /\ \A id \in BlockIds : HashPart(id) \in Seq(Nat) /\ Len(HashPart(id)) = 8
  /\ \A n \in Nat : Zeros(n) \in Seq(Nat) /\ Len(Zeros(n)) = n
  /\ ERC20_TRANSFER_SELECTOR_BYTES \in Seq(Nat) /\ Len(ERC20_TRANSFER_SELECTOR_BYTES) = 4
  /\ \A type \in Nat : /\ type_url(type) \in Seq(Nat)
                       /\ Len(type_url(type)) = TypeUrlLen(type)
                       /\ TypeUrlLen(type) \in Nat /\ TypeUrlLen(type) >= 45
<1>1. \A a \in Accounts : KeyHash(a) \in Seq(Nat) /\ Len(KeyHash(a)) = 20
  BY ByteSeq, TronProtoAssumption
<1>2. \A id \in BlockIds : HashPart(id) \in Seq(Nat) /\ Len(HashPart(id)) = 8
  BY ByteSeq, TronProtoAssumption
<1>3. \A n \in Nat : Zeros(n) \in Seq(Nat) /\ Len(Zeros(n)) = n
  <2>1. TAKE n \in Nat
  <2>2. Zeros(n) \in [1..n -> Byte]
    BY DEF Zeros, Byte
  <2>3. QED BY <2>2, ByteSeq
<1>4. ERC20_TRANSFER_SELECTOR_BYTES \in Seq(Nat) /\ Len(ERC20_TRANSFER_SELECTOR_BYTES) = 4
  BY DEF ERC20_TRANSFER_SELECTOR_BYTES
<1>5. \A type \in Nat : /\ type_url(type) \in Seq(Nat)
                       /\ Len(type_url(type)) = TypeUrlLen(type)
                       /\ TypeUrlLen(type) \in Nat /\ TypeUrlLen(type) >= 45
  <2>1. TAKE type \in Nat
  <2>2. TypeUrlLen(type) \in Nat /\ TypeUrlLen(type) >= 45
    BY DEF TypeUrlLen
  <2>3. type_url(type) \in [1..TypeUrlLen(type) -> Nat]
    BY DEF type_url
  <2>4. type_url(type) \in Seq(Nat)
    BY <2>2, <2>3
  <2>5. QED BY <2>2, <2>3, <2>4, LenProperties
<1>6. QED BY <1>1, <1>2, <1>3, <1>4, <1>5

(* the part of s where w stands *)
LEMMA PartAt ==
  ASSUME NEW s \in Seq(Nat), NEW w \in Seq(Nat), NEW i \in Nat, NEW j \in Nat,
         At(s, i, w), Len(w) = (j + 1) - i
  PROVE  SubSeq(s, i, j) = w
<1>1. i + Len(w) - 1 = j
  OBVIOUS
<1>2. QED BY <1>1, AtIsPart

(* An address is the prefix byte and the key hash. *)
Prefix == <<65>>

LEMMA AddressTyped ==
  ASSUME NEW a \in Accounts
  PROVE  /\ address_bytes(a) = Prefix \o KeyHash(a)
         /\ address_bytes(a) \in Seq(Nat) /\ Len(address_bytes(a)) = 21
         /\ SubSeq(address_bytes(a), 2, TRON_ADDRESS_LEN) = KeyHash(a)
<1> DEFINE h == KeyHash(a)
           s == Prefix \o h
<1>1. Prefix \in Seq(Nat) /\ Len(Prefix) = 1 /\ h \in Seq(Nat) /\ Len(h) = 20
  BY PartsTyped DEF Prefix
<1>2. address_bytes(a) = s
  BY DEF address_bytes, Prefix
<1> HIDE DEF h
<1>3. s \in Seq(Nat) /\ Len(s) = Len(Prefix) + Len(h) /\ At(s, Len(Prefix) + 1, h)
  BY <1>1, AtGrows, ConcatProperties
<1> HIDE DEF s
<1>4. Len(s) = 21 /\ At(s, 2, h)
  BY <1>1, <1>3
<1>5. SubSeq(s, 2, 21) = h
  <2>1. 2 \in Nat /\ 21 \in Nat /\ Len(h) = (21 + 1) - 2
    BY <1>1
  <2>2. QED BY <1>1, <1>3, <1>4, <2>1, PartAt
<1>6. QED BY <1>2, <1>3, <1>4, <1>5 DEF TRON_ADDRESS_LEN, s, h

(* The node knows an account by its address. *)
LEMMA AccountBack ==
  ASSUME NEW a \in Accounts
  PROVE  AccountAt(address_bytes(a)) = {a}
<1>1. \A b \in Accounts : address_bytes(b) = address_bytes(a) => b = a
  <2>1. TAKE b \in Accounts
  <2>2. /\ SubSeq(address_bytes(a), 2, TRON_ADDRESS_LEN) = KeyHash(a)
        /\ SubSeq(address_bytes(b), 2, TRON_ADDRESS_LEN) = KeyHash(b)
    BY AddressTyped
  <2>3. address_bytes(b) = address_bytes(a) => KeyHash(b) = KeyHash(a)
    BY <2>2
  <2>4. QED BY <2>3, TronProtoAssumption
<1>2. QED BY <1>1 DEF AccountAt

(* The four parts of the call data of a token transfer. *)
IsCall(s, a, b, d, e) ==
  /\ s \in Seq(Nat) /\ Len(s) = 68
  /\ SubSeq(s, 1, 4) = a /\ SubSeq(s, 5, 16) = b
  /\ SubSeq(s, 17, 36) = d /\ SubSeq(s, 37, 68) = e

LEMMA CallParts ==
  ASSUME NEW a \in Seq(Nat), NEW b \in Seq(Nat), NEW d \in Seq(Nat), NEW e \in Seq(Nat),
         Len(a) = 4, Len(b) = 12, Len(d) = 20, Len(e) = 32,
         NEW s, s = ((a \o b) \o d) \o e
  PROVE  IsCall(s, a, b, d, e)
<1> DEFINE ab == a \o b
           abd == ab \o d
           u == abd \o e
<1>1. /\ ab \in Seq(Nat) /\ Len(ab) = Len(a) + Len(b)
      /\ At(ab, Len(a) + 1, b) /\ At(ab, 1, a)
  <2>1. At(a, 1, a)
    BY DEF At
  <2>2. QED BY ZenonT(60), <2>1, AtGrows, ConcatProperties
<1> HIDE DEF ab
<1>2. /\ abd \in Seq(Nat) /\ Len(abd) = Len(ab) + Len(d)
      /\ At(abd, Len(ab) + 1, d) /\ At(abd, Len(a) + 1, b) /\ At(abd, 1, a)
  BY ZenonT(60), <1>1, AtGrows, ConcatProperties
<1> HIDE DEF abd
<1>3. /\ u \in Seq(Nat) /\ Len(u) = Len(abd) + Len(e)
      /\ At(u, Len(abd) + 1, e) /\ At(u, Len(ab) + 1, d) /\ At(u, Len(a) + 1, b)
      /\ At(u, 1, a)
  BY ZenonT(60), <1>1, <1>2, AtGrows, ConcatProperties
<1>4. /\ s \in Seq(Nat) /\ Len(s) = 68
      /\ At(s, 1, a) /\ At(s, 5, b) /\ At(s, 17, d) /\ At(s, 37, e)
  <2>1. s = u
    BY DEF u, abd, ab
  <2> HIDE DEF u
  <2>2. QED BY <1>1, <1>2, <1>3, <2>1
<1>5. SubSeq(s, 1, 4) = a
  <2> DEFINE i == 1
             j == 4
  <2>1. i \in Nat /\ j \in Nat /\ At(s, i, a) /\ Len(a) = (j + 1) - i
    BY <1>4
  <2>2. s \in Seq(Nat)
    BY <1>4
  <2> HIDE DEF i, j
  <2>3. SubSeq(s, i, j) = a
    BY <2>1, <2>2, PartAt
  <2>4. QED BY <2>3 DEF i, j
<1>6. SubSeq(s, 5, 16) = b
  <2> DEFINE i == 5
             j == 16
  <2>1. i \in Nat /\ j \in Nat /\ At(s, i, b) /\ Len(b) = (j + 1) - i
    BY <1>4
  <2>2. s \in Seq(Nat)
    BY <1>4
  <2> HIDE DEF i, j
  <2>3. SubSeq(s, i, j) = b
    BY <2>1, <2>2, PartAt
  <2>4. QED BY <2>3 DEF i, j
<1>7. SubSeq(s, 17, 36) = d
  <2> DEFINE i == 17
             j == 36
  <2>1. i \in Nat /\ j \in Nat /\ At(s, i, d) /\ Len(d) = (j + 1) - i
    BY <1>4
  <2>2. s \in Seq(Nat)
    BY <1>4
  <2> HIDE DEF i, j
  <2>3. SubSeq(s, i, j) = d
    BY <2>1, <2>2, PartAt
  <2>4. QED BY <2>3 DEF i, j
<1>8. SubSeq(s, 37, 68) = e
  <2> DEFINE i == 37
             j == 68
  <2>1. i \in Nat /\ j \in Nat /\ At(s, i, e) /\ Len(e) = (j + 1) - i
    BY <1>4
  <2>2. s \in Seq(Nat)
    BY <1>4
  <2> HIDE DEF i, j
  <2>3. SubSeq(s, i, j) = e
    BY <2>1, <2>2, PartAt
  <2>4. QED BY <2>3 DEF i, j
<1>9. QED BY <1>4, <1>5, <1>6, <1>7, <1>8 DEF IsCall

(* The call data of a token transfer, and what the node reads in it. *)
LEMMA TransferDataBack ==
  ASSUME NEW to \in Accounts, NEW amount \in 0..U256Max, NEW data,
         data = trc20_transfer_data([to |-> to, amount |-> amount])
  PROVE  /\ data \in Seq(Nat)
         /\ \A t \in Accounts : TokenTransfers({t}, data) = {TransferOf(t, to, amount)}
<1> DEFINE sel == ERC20_TRANSFER_SELECTOR_BYTES
           zs == Zeros(12)
           h == KeyHash(to)
           n == to_be_bytes(amount, 32)
           s == ((sel \o zs) \o h) \o n
<1>1. amount \in Nat /\ U256Max \in Nat /\ amount <= U256Max
  BY WidthAssumption
<1>2. /\ sel \in Seq(Nat) /\ Len(sel) = 4 /\ zs \in Seq(Nat) /\ Len(zs) = 12
      /\ h \in Seq(Nat) /\ Len(h) = 20 /\ n \in Seq(Nat) /\ Len(n) = 32
  <2>1. 12 \in Nat /\ 32 \in Nat
    OBVIOUS
  <2>2. sel \in Seq(Nat) /\ Len(sel) = 4 /\ h \in Seq(Nat) /\ Len(h) = 20
    BY PartsTyped
  <2>3. zs \in Seq(Nat) /\ Len(zs) = 12
    BY <2>1, PartsTyped
  <2>4. n \in Seq(Nat) /\ Len(n) = 32
    BY <1>1, <2>1, BytesLen
  <2>5. QED BY <2>2, <2>3, <2>4
<1>3. from_be_bytes(n) = amount
  <2>1. Shifted(amount, 32) <= Shifted(U256Max, 32) /\ Shifted(U256Max, 32) = 0
    BY <1>1, ShiftedMonotone, TronProtoAssumption
  <2>2. Shifted(amount, 32) \in Nat
    BY <1>1, ShiftedUnfolds
  <2>3. Shifted(amount, 32) = 0
    BY <2>1, <2>2
  <2>4. QED BY <1>1, <2>3, BytesBack
<1>4. data = s
  BY AddressTyped DEF trc20_transfer_data
<1> HIDE DEF sel, zs, h, n
<1>9. s = ((sel \o zs) \o h) \o n
  OBVIOUS
<1> HIDE DEF s
<1>5. /\ s \in Seq(Nat) /\ Len(s) = 68
      /\ SubSeq(s, 1, 4) = sel /\ SubSeq(s, 5, 16) = zs
      /\ SubSeq(s, 17, 36) = h /\ SubSeq(s, 37, 68) = n
  <2>1. IsCall(s, sel, zs, h, n)
    BY <1>2, <1>9, CallParts
  <2>2. QED BY <2>1 DEF IsCall
<1>6. AccountAt(<<65>> \o SubSeq(s, 17, 36)) = {to}
  <2>1. <<65>> \o SubSeq(s, 17, 36) = address_bytes(to)
    BY <1>5 DEF address_bytes, h
  <2>2. QED BY <2>1, AccountBack
<1>7. ASSUME NEW t \in Accounts
       PROVE  TokenTransfers({t}, s) = {TransferOf(t, to, amount)}
  <2>1. TokenTransfers({t}, s) =
          {TransferOf(u, r, from_be_bytes(SubSeq(s, 37, 68))) :
             u \in {t}, r \in AccountAt(<<65>> \o SubSeq(s, 17, 36))}
    BY <1>5 DEF TokenTransfers, sel, zs
  <2>2. from_be_bytes(SubSeq(s, 37, 68)) = amount
    BY <1>3, <1>5
  <2>3. QED BY <1>6, <2>1, <2>2
<1>8. QED BY <1>4, <1>5, <1>7

----------------------------------------------------------------------------
(* The messages of a transaction.                                          *)

AnyFields(type, value) == {BytesField(1, type_url(type)), BytesField(2, value)}
AnyBytes(type, value) == bytes_field(1, type_url(type)) \o bytes_field(2, value)

WrapFields(type, value) == {NumberField(1, type), BytesField(2, AnyBytes(type, value))}

TransferFields(owner, to, amount) ==
  {BytesField(1, address_bytes(owner)), BytesField(2, address_bytes(to)), NumberField(3, amount)}
TransferBytes(owner, to, amount) ==
  bytes_field(1, address_bytes(owner)) \o bytes_field(2, address_bytes(to)) \o varint_field(3, amount)

TriggerFields(owner, contract, data) ==
  { BytesField(1, address_bytes(owner)), BytesField(2, address_bytes(contract)),
    BytesField(4, data) }
TriggerBytes(owner, contract, data) ==
  bytes_field(1, address_bytes(owner)) \o bytes_field(2, address_bytes(contract))
    \o bytes_field(4, data)

(* Two fields, or three, in ascending order. *)
LEMMA TellsTwo ==
  ASSUME NEW f \in Written, NEW g \in Written, f.num < g.num
  PROVE  Tells(Encoded(f) \o Encoded(g), {f, g})
<1>1. Tells(Encoded(f), {f})
  BY TellsOne
<1>2. \A h \in {f} : h.num < g.num
  OBVIOUS
<1>3. Tells(Encoded(f) \o Encoded(g), {f} \cup {g})
  BY <1>1, <1>2, TellsMore
<1>4. {f} \cup {g} = {f, g}
  OBVIOUS
<1>5. QED BY <1>3, <1>4

LEMMA TellsThree ==
  ASSUME NEW f \in Written, NEW g \in Written, NEW h \in Written, f.num < g.num, g.num < h.num
  PROVE  Tells(Encoded(f) \o Encoded(g) \o Encoded(h), {f, g, h})
<1>1. Tells(Encoded(f) \o Encoded(g), {f, g})
  BY TellsTwo
<1>2. f.num < h.num
  BY WrittenTyped
<1>3. \A e \in {f, g} : e.num < h.num
  BY <1>2
<1>4. Tells((Encoded(f) \o Encoded(g)) \o Encoded(h), {f, g} \cup {h})
  BY <1>1, <1>3, TellsMore
<1>5. {f, g} \cup {h} = {f, g, h}
  OBVIOUS
<1>6. QED BY <1>4, <1>5

LEMMA FieldNums ==
  \A num, v : /\ NumberField(num, v).num = num /\ NumberField(num, v).val = v
              /\ NumberField(num, v).data = << >>
              /\ BytesField(num, v).num = num /\ BytesField(num, v).val = 0
              /\ BytesField(num, v).data = v
  BY DEF NumberField, BytesField

LEMMA AnyTells ==
  ASSUME NEW type \in Nat, NEW value \in Seq(Nat)
  PROVE  Tells(AnyBytes(type, value), AnyFields(type, value))
<1> DEFINE f == BytesField(1, type_url(type))
           g == BytesField(2, value)
<1>1. /\ f \in Written /\ Encoded(f) = bytes_field(1, type_url(type)) /\ f.num = 1
      /\ g \in Written /\ Encoded(g) = bytes_field(2, value) /\ g.num = 2
  <2>1. type_url(type) \in Seq(Nat) /\ 1 \in Nat \ {0} /\ 2 \in Nat \ {0}
    BY PartsTyped
  <2>2. QED BY <2>1, WrittenBytes, FieldNums
<1>2. AnyBytes(type, value) = Encoded(f) \o Encoded(g) /\ AnyFields(type, value) = {f, g}
  BY <1>1 DEF AnyBytes, AnyFields
<1> HIDE DEF f, g
<1>3. QED BY <1>1, <1>2, TellsTwo

LEMMA WrapTells ==
  ASSUME NEW type \in Nat, NEW value \in Seq(Nat)
  PROVE  Tells(wrap_in_contract(type, value), WrapFields(type, value))
<1> DEFINE any == AnyBytes(type, value)
           f == NumberField(1, type)
           g == BytesField(2, any)
<1>1. any \in Seq(Nat)
  BY AnyTells, TellsReads
<1>2. wrap_in_contract(type, value) = varint_field(1, type) \o bytes_field(2, any)
  BY DEF wrap_in_contract, AnyBytes
<1> HIDE DEF any
<1>3. /\ f \in Written /\ Encoded(f) = varint_field(1, type) /\ f.num = 1
      /\ g \in Written /\ Encoded(g) = bytes_field(2, any) /\ g.num = 2
  <2>1. 1 \in Nat \ {0} /\ 2 \in Nat \ {0}
    OBVIOUS
  <2>2. QED BY <1>1, <2>1, WrittenNumber, WrittenBytes, FieldNums
<1>4. wrap_in_contract(type, value) = Encoded(f) \o Encoded(g) /\ WrapFields(type, value) = {f, g}
  BY <1>2, <1>3 DEF WrapFields, any
<1> HIDE DEF f, g
<1>5. QED BY <1>3, <1>4, TellsTwo

LEMMA TransferTells ==
  ASSUME NEW owner \in Accounts, NEW to \in Accounts, NEW amount \in Nat
  PROVE  Tells(TransferBytes(owner, to, amount), TransferFields(owner, to, amount))
<1> DEFINE f == BytesField(1, address_bytes(owner))
           g == BytesField(2, address_bytes(to))
           h == NumberField(3, amount)
<1>1. /\ f \in Written /\ Encoded(f) = bytes_field(1, address_bytes(owner)) /\ f.num = 1
      /\ g \in Written /\ Encoded(g) = bytes_field(2, address_bytes(to)) /\ g.num = 2
      /\ h \in Written /\ Encoded(h) = varint_field(3, amount) /\ h.num = 3
  <2>1. /\ 1 \in Nat \ {0} /\ 2 \in Nat \ {0} /\ 3 \in Nat \ {0}
        /\ address_bytes(owner) \in Seq(Nat) /\ address_bytes(to) \in Seq(Nat)
    BY AddressTyped
  <2>2. QED BY <2>1, WrittenBytes, WrittenNumber, FieldNums
<1>2. /\ TransferBytes(owner, to, amount) = Encoded(f) \o Encoded(g) \o Encoded(h)
      /\ TransferFields(owner, to, amount) = {f, g, h}
  BY <1>1 DEF TransferBytes, TransferFields
<1> HIDE DEF f, g, h
<1>3. f \in Written /\ g \in Written /\ h \in Written /\ f.num < g.num /\ g.num < h.num
  BY <1>1
<1>4. Tells(Encoded(f) \o Encoded(g) \o Encoded(h), {f, g, h})
  BY <1>3, TellsThree
<1>5. QED BY <1>2, <1>4

LEMMA TriggerTells ==
  ASSUME NEW owner \in Accounts, NEW contract \in Accounts, NEW data \in Seq(Nat)
  PROVE  Tells(TriggerBytes(owner, contract, data), TriggerFields(owner, contract, data))
<1> DEFINE f == BytesField(1, address_bytes(owner))
           g == BytesField(2, address_bytes(contract))
           h == BytesField(4, data)
<1>1. /\ f \in Written /\ Encoded(f) = bytes_field(1, address_bytes(owner)) /\ f.num = 1
      /\ g \in Written /\ Encoded(g) = bytes_field(2, address_bytes(contract)) /\ g.num = 2
      /\ h \in Written /\ Encoded(h) = bytes_field(4, data) /\ h.num = 4
  <2>1. /\ 1 \in Nat \ {0} /\ 2 \in Nat \ {0} /\ 4 \in Nat \ {0}
        /\ address_bytes(owner) \in Seq(Nat) /\ address_bytes(contract) \in Seq(Nat)
    BY AddressTyped
  <2>2. QED BY <2>1, WrittenBytes, FieldNums
<1>2. /\ TriggerBytes(owner, contract, data) = Encoded(f) \o Encoded(g) \o Encoded(h)
      /\ TriggerFields(owner, contract, data) = {f, g, h}
  BY <1>1 DEF TriggerBytes, TriggerFields
<1> HIDE DEF f, g, h
<1>3. f \in Written /\ g \in Written /\ h \in Written /\ f.num < g.num /\ g.num < h.num
  BY <1>1
<1>4. Tells(Encoded(f) \o Encoded(g) \o Encoded(h), {f, g, h})
  BY <1>3, TellsThree
<1>5. QED BY <1>2, <1>4

(* The contract message: what it wraps, and the message inside.            *)
InnerBytes(c) ==
  IF c.type = TRON_CONTRACT_TYPE_TRANSFER THEN TransferBytes(c.owner, c.to, c.amount)
  ELSE TriggerBytes(c.owner, c.contract, trc20_transfer_data(c.data))
InnerFields(c) ==
  IF c.type = TRON_CONTRACT_TYPE_TRANSFER THEN TransferFields(c.owner, c.to, c.amount)
  ELSE TriggerFields(c.owner, c.contract, trc20_transfer_data(c.data))

LEMMA ContractTyped ==
  ASSUME NEW c \in Contract
  PROVE  /\ c.type \in Nat \ {0} /\ c.owner \in Accounts
         /\ \/ /\ c.type = TRON_CONTRACT_TYPE_TRANSFER
               /\ c.to \in Accounts /\ c.amount \in 0..U64Max /\ c.amount \in Nat
            \/ /\ c.type = TRON_CONTRACT_TYPE_TRIGGER_SMART
               /\ c.type # TRON_CONTRACT_TYPE_TRANSFER
               /\ c.contract \in Accounts /\ c.data.to \in Accounts
               /\ c.data.amount \in 0..U256Max
               /\ c.data = [to |-> c.data.to, amount |-> c.data.amount]
               /\ trc20_transfer_data(c.data) \in Seq(Nat)
<1>1. U64Max \in Nat /\ 0..U64Max \subseteq Nat
  BY WidthAssumption
<1>2. CASE c \in [ type : {TRON_CONTRACT_TYPE_TRANSFER}, owner : Accounts, to : Accounts,
                   amount : 0..U64Max ]
  BY <1>1, <1>2 DEF TRON_CONTRACT_TYPE_TRANSFER
<1>3. CASE c \in [ type : {TRON_CONTRACT_TYPE_TRIGGER_SMART}, owner : Accounts,
                   contract : Accounts, data : [to : Accounts, amount : 0..U256Max] ]
  <2>1. /\ c.type = TRON_CONTRACT_TYPE_TRIGGER_SMART /\ c.owner \in Accounts
        /\ c.contract \in Accounts /\ c.data \in [to : Accounts, amount : 0..U256Max]
    BY <1>3
  <2>2. /\ c.data.to \in Accounts /\ c.data.amount \in 0..U256Max
        /\ c.data = [to |-> c.data.to, amount |-> c.data.amount]
    BY <2>1
  <2>3. trc20_transfer_data(c.data) \in Seq(Nat)
    BY <2>2, TransferDataBack
  <2>4. QED
    BY <2>1, <2>2, <2>3 DEF TRON_CONTRACT_TYPE_TRANSFER, TRON_CONTRACT_TYPE_TRIGGER_SMART
<1>4. QED BY <1>2, <1>3 DEF Contract

LEMMA ContractTells ==
  ASSUME NEW c \in Contract
  PROVE  /\ InnerBytes(c) \in Seq(Nat)
         /\ Tells(InnerBytes(c), InnerFields(c))
         /\ Tells(AnyBytes(c.type, InnerBytes(c)), AnyFields(c.type, InnerBytes(c)))
         /\ Tells(contract_bytes(c), WrapFields(c.type, InnerBytes(c)))
<1>1. Tells(InnerBytes(c), InnerFields(c))
  BY ContractTyped, TransferTells, TriggerTells DEF InnerBytes, InnerFields
<1>2. InnerBytes(c) \in Seq(Nat) /\ c.type \in Nat
  BY <1>1, TellsReads, ContractTyped
<1>3. contract_bytes(c) = wrap_in_contract(c.type, InnerBytes(c))
  BY ContractTyped
     DEF contract_bytes, InnerBytes, encode_transfer_contract, encode_trigger_smart_contract,
         TransferBytes, TriggerBytes
<1>4. QED BY <1>1, <1>2, <1>3, AnyTells, WrapTells

(* The fields of raw_data. *)
Limit(raw) == IF IsSome(raw.feeLimit) THEN {NumberField(18, raw.feeLimit.val)} ELSE {}
TimedFields(raw) ==
  { BytesField(1, to_be_bytes(raw.refBlockBytes, 2)), BytesField(4, HashPart(raw.refBlockHash)),
    NumberField(8, raw.expiration), BytesField(11, contract_bytes(raw.contract)),
    NumberField(14, raw.timestamp) }
RawFields(raw) == TimedFields(raw) \cup Limit(raw)

LEMMA RawTyped ==
  ASSUME NEW raw \in RawData
  PROVE  /\ raw.refBlockBytes \in Nat /\ raw.refBlockHash \in BlockIds
         /\ raw.expiration \in Nat /\ raw.expiration <= U64Max
         /\ raw.timestamp \in Nat /\ raw.timestamp <= U64Max
         /\ raw.contract \in Contract
         /\ raw.feeLimit.val \in Nat /\ raw.feeLimit.val <= U64Max
         /\ IsSome(raw.feeLimit) <=> raw.feeLimit.val > 0
         /\ to_be_bytes(raw.refBlockBytes, 2) \in Seq(Nat)
         /\ Len(to_be_bytes(raw.refBlockBytes, 2)) = 2
         /\ HashPart(raw.refBlockHash) \in Seq(Nat) /\ Len(HashPart(raw.refBlockHash)) = 8
         /\ contract_bytes(raw.contract) \in Seq(Nat)
<1>1. U64Max \in Nat /\ RefBlockMod \in Nat
  BY WidthAssumption
<1>2. /\ raw.refBlockBytes \in 0..(RefBlockMod - 1) /\ raw.refBlockHash \in BlockIds
      /\ raw.expiration \in 0..U64Max /\ raw.timestamp \in 0..U64Max
      /\ raw.contract \in Contract
      /\ raw.feeLimit \in {None} \cup {Dec(i) : i \in 1..U64Max}
  BY DEF RawData
<1>3. /\ raw.feeLimit.val \in Nat /\ raw.feeLimit.val <= U64Max
      /\ IsSome(raw.feeLimit) <=> raw.feeLimit.val > 0
  BY <1>1, <1>2 DEF None, Dec, IsSome
<1>4. raw.refBlockBytes \in Nat /\ 2 \in Nat
  BY <1>1, <1>2
<1>5. /\ to_be_bytes(raw.refBlockBytes, 2) \in Seq(Nat)
      /\ Len(to_be_bytes(raw.refBlockBytes, 2)) = 2
  BY <1>4, BytesLen
<1>6. HashPart(raw.refBlockHash) \in Seq(Nat) /\ Len(HashPart(raw.refBlockHash)) = 8
  BY <1>2, PartsTyped
<1>7. contract_bytes(raw.contract) \in Seq(Nat)
  BY <1>2, ContractTells, TellsReads
<1>8. QED BY <1>1, <1>2, <1>3, <1>4, <1>5, <1>6, <1>7

LEMMA RawTells ==
  ASSUME NEW raw \in RawData
  PROVE  Tells(raw_data_bytes(raw), RawFields(raw))
<1> DEFINE a == BytesField(1, to_be_bytes(raw.refBlockBytes, 2))
           b == BytesField(4, HashPart(raw.refBlockHash))
           d == NumberField(8, raw.expiration)
           e == BytesField(11, contract_bytes(raw.contract))
           f == NumberField(14, raw.timestamp)
           g == NumberField(18, raw.feeLimit.val)
           s == Encoded(a) \o Encoded(b) \o Encoded(d) \o Encoded(e) \o Encoded(f)
<1>1. /\ a \in Written /\ b \in Written /\ d \in Written /\ e \in Written
      /\ f \in Written /\ g \in Written
      /\ Encoded(a) = bytes_field(1, to_be_bytes(raw.refBlockBytes, 2))
      /\ Encoded(b) = bytes_field(4, HashPart(raw.refBlockHash))
      /\ Encoded(d) = varint_field(8, raw.expiration)
      /\ Encoded(e) = bytes_field(11, contract_bytes(raw.contract))
      /\ Encoded(f) = varint_field(14, raw.timestamp)
      /\ Encoded(g) = varint_field(18, raw.feeLimit.val)
  <2>1. /\ 1 \in Nat \ {0} /\ 4 \in Nat \ {0} /\ 8 \in Nat \ {0} /\ 11 \in Nat \ {0}
        /\ 14 \in Nat \ {0} /\ 18 \in Nat \ {0}
    OBVIOUS
  <2>2. QED BY <2>1, RawTyped, WrittenBytes, WrittenNumber
<1>2. a.num = 1 /\ b.num = 4 /\ d.num = 8 /\ e.num = 11 /\ f.num = 14 /\ g.num = 18
  BY FieldNums
<1>3. raw_data_bytes(raw) = s \o (IF IsSome(raw.feeLimit) THEN Encoded(g) ELSE << >>)
  BY <1>1 DEF raw_data_bytes
<1>4. RawFields(raw) = {a, b, d, e, f} \cup (IF IsSome(raw.feeLimit) THEN {g} ELSE {})
  BY DEF RawFields, TimedFields, Limit
<1> HIDE DEF a, b, d, e, f, g
<1>5. Tells(Encoded(a) \o Encoded(b) \o Encoded(d), {a, b, d})
  BY <1>1, <1>2, TellsThree
<1>6. Tells((Encoded(a) \o Encoded(b) \o Encoded(d)) \o Encoded(e), {a, b, d} \cup {e})
  <2>1. \A h \in {a, b, d} : h.num < e.num
    BY <1>2
  <2>2. QED BY <1>1, <1>5, <2>1, TellsMore
<1>7. Tells(s, {a, b, d} \cup {e} \cup {f})
  <2>1. \A h \in {a, b, d} \cup {e} : h.num < f.num
    BY <1>2
  <2>2. QED BY <1>1, <1>6, <2>1, TellsMore
<1>8. {a, b, d} \cup {e} \cup {f} = {a, b, d, e, f}
  OBVIOUS
<1>9. s \in Seq(Nat) /\ Tells(s, {a, b, d, e, f})
  BY <1>7, <1>8, TellsReads
<1> HIDE DEF s
<1>10. CASE IsSome(raw.feeLimit)
  <2>1. \A h \in {a, b, d, e, f} : h.num < g.num
    BY <1>2
  <2>2. Tells(s \o Encoded(g), {a, b, d, e, f} \cup {g})
    BY <1>1, <1>9, <2>1, TellsMore
  <2>3. QED BY <1>3, <1>4, <1>10, <2>2
<1>11. CASE ~IsSome(raw.feeLimit)
  <2>1. s \o << >> = s
    BY <1>9, ConcatEmptySeq
  <2>2. {a, b, d, e, f} \cup {} = {a, b, d, e, f}
    OBVIOUS
  <2>3. QED BY <1>3, <1>4, <1>9, <1>11, <2>1, <2>2
<1>12. QED BY <1>10, <1>11

----------------------------------------------------------------------------
(* What a compiled Tron transaction is.                                    *)

LEMMA RawOf ==
  ASSUME SessionInv, NEW i \in CompiledTron
  PROVE  /\ i \in Compiled /\ Unsigned(i) \in RawData
         /\ Unsigned(i).expiration = Unsigned(i).timestamp + ExpirationMs
<1>1. i \in Compiled /\ i \in DOMAIN outputs /\ outputs[i].result.code = OK
      /\ Unsigned(i).envelope = "raw_data"
  BY DEF CompiledTron, Compiled
<1>2. PICK q \in Sources, clock \in 0..U64Max :
        held /\ outputs[i].result = compile(q, outputs[i].now, clock)
  BY <1>1 DEF SessionInv, CompiledFromDraft
<1>3. prepared \in PreparedTransaction /\ q \in PreparedTransaction
  BY <1>2, SourceDraft DEF SessionInv, TypeOK, held
<1>4. compile(q, outputs[i].now, clock).code = OK
  BY <1>1, <1>2
<1>5. q.chain = "tron"
  <2>1. q.chain = "ethereum" => Unsigned(i).envelope \in {"eip1559", "legacy"}
    BY <1>2, <1>3, <1>4, EvmPreImage DEF Unsigned
  <2>2. q.chain \in {"ethereum", "tron"}
    BY <1>3 DEF PreparedTransaction, Chain
  <2>3. QED BY <1>1, <2>1, <2>2
<1>6. Unsigned(i) = encode_raw_data(q, timestamp_ms(outputs[i].now, clock))
  BY <1>2, <1>3, <1>4, <1>5, TronSigned DEF Unsigned
<1>7. Unsigned(i).expiration = Unsigned(i).timestamp + ExpirationMs
  BY <1>6 DEF encode_raw_data
<1>8. Unsigned(i) \in RawData
  <2>1. outputs[i].result \in CompilationResult
    <3>1. outputs[i] \in [now : OptU64, result : CompilationResult]
      BY <1>1, SeqElement DEF SessionInv, TypeOK
    <3>2. QED BY <3>1
  <2>2. Unsigned(i) \in Eip1559 \cup Legacy \cup RawData
    BY <1>1, <2>1 DEF CompilationResult, Unsigned, Failed
  <2>3. \A u \in Eip1559 \cup Legacy : u.envelope # "raw_data"
    BY DEF Eip1559, Legacy
  <2>4. QED BY <1>1, <2>2, <2>3
<1>9. QED BY <1>1, <1>7, <1>8

(* The messages that the node reads in it. *)
LEMMA MessagesOf ==
  ASSUME SessionInv, NEW i \in CompiledTron
  PROVE  LET raw == Unsigned(i)
             c == raw.contract
             m == Message(i)
             contract == ReadMessage(DataOf(m, 11))
             any == ReadMessage(DataOf(contract, 2))
             inner == ReadMessage(DataOf(any, 2))
         IN /\ Carried(m, RawFields(raw))
            /\ Carried(contract, WrapFields(c.type, InnerBytes(c)))
            /\ Carried(any, AnyFields(c.type, InnerBytes(c)))
            /\ Carried(inner, InnerFields(c))
<1> DEFINE raw == Unsigned(i)
           c == raw.contract
           m == Message(i)
           contract == ReadMessage(DataOf(m, 11))
           any == ReadMessage(DataOf(contract, 2))
           inner == ReadMessage(DataOf(any, 2))
<1>1. raw \in RawData /\ c \in Contract
  BY RawOf, RawTyped
<1>2. m = ReadMessage(raw_data_bytes(raw))
  BY DEF Message
<1> HIDE DEF raw
<1>3. Carried(m, RawFields(raw))
  BY <1>1, <1>2, RawTells, TellsReads
<1> HIDE DEF m
<1>4. DataOf(m, 11) = contract_bytes(c)
  <2>1. BytesField(11, contract_bytes(c)) \in RawFields(raw)
    BY DEF RawFields, TimedFields
  <2>2. QED BY <1>3, <2>1, FieldNums DEF Carried
<1>5. Carried(contract, WrapFields(c.type, InnerBytes(c)))
  BY <1>1, <1>4, ContractTells, TellsReads
<1> HIDE DEF contract
<1>6. DataOf(contract, 2) = AnyBytes(c.type, InnerBytes(c))
  <2>1. BytesField(2, AnyBytes(c.type, InnerBytes(c))) \in WrapFields(c.type, InnerBytes(c))
    BY DEF WrapFields
  <2>2. QED BY <1>5, <2>1, FieldNums DEF Carried
<1>7. Carried(any, AnyFields(c.type, InnerBytes(c)))
  BY <1>1, <1>6, ContractTells, TellsReads
<1> HIDE DEF any
<1>8. DataOf(any, 2) = InnerBytes(c)
  <2>1. BytesField(2, InnerBytes(c)) \in AnyFields(c.type, InnerBytes(c))
    BY DEF AnyFields
  <2>2. QED BY <1>7, <2>1, FieldNums DEF Carried
<1>9. Carried(inner, InnerFields(c))
  BY <1>1, <1>8, ContractTells, TellsReads
<1>10. QED BY <1>3, <1>5, <1>7, <1>9 DEF raw, m, contract, any

----------------------------------------------------------------------------
(* The node's own serialisation.                                           *)

(* A message as the node would write it, in a transaction made at ts. *)
Serialised(m, ts) ==
  /\ \A k \in DOMAIN m : m[k].short
  /\ \A k \in 2..Len(m) : m[k - 1].num < m[k].num
  /\ \A k \in DOMAIN m : m[k].val = 0 /\ m[k].data = << >> => m[k].num = 14 /\ ts = 0

LEMMA CarriedSerialised ==
  ASSUME NEW m, NEW F, Carried(m, F), NEW ts,
         \A f \in F : f.val = 0 /\ f.data = << >> => f.num = 14 /\ ts = 0
  PROVE  Serialised(m, ts)
<1>1. \A k \in DOMAIN m : m[k].val = 0 /\ m[k].data = << >> => m[k].num = 14 /\ ts = 0
  <2>1. TAKE k \in DOMAIN m
  <2>2. PICK f \in F : m[k].num = f.num /\ m[k].val = f.val /\ m[k].data = f.data
    BY DEF Carried
  <2>3. QED BY <2>2
<1>2. QED BY <1>1 DEF Carried, Serialised

(* Bytes that are something are not the default. *)
LEMMA NotEmpty == ASSUME NEW s \in Seq(Nat), Len(s) >= 1 PROVE s # << >>
  BY EmptySeq

LEMMA TellsSomething ==
  ASSUME NEW s, NEW F, Tells(s, F), NEW f \in F
  PROVE  s # << >>
<1>1. PICK n, fs, p : Spelled(s, n, fs, p) /\ F = {fs[k] : k \in 1..n}
  BY DEF Tells
<1>2. PICK k \in 1..n : f = fs[k]
  BY <1>1
<1>3. /\ s \in Seq(Nat) /\ f \in Written /\ At(s, p[k], Encoded(f))
      /\ n \in Nat /\ p \in [1..(n + 1) -> Nat \ {0}]
  BY <1>1, <1>2 DEF Spelled
<1>4. p[k] \in Nat \ {0} /\ Len(s) \in Nat
  <2>1. k \in 1..(n + 1)
    BY <1>3
  <2>2. QED BY <1>3, <2>1, LenProperties
<1>5. Len(Encoded(f)) \in Nat /\ Len(Encoded(f)) >= 1
  BY <1>3, EncodedTyped
<1>6. p[k] + Len(Encoded(f)) <= Len(s) + 1
  BY <1>3 DEF At
<1>7. Len(s) >= 1
  BY <1>4, <1>5, <1>6
<1>8. QED BY <1>3, <1>7, NotEmpty

LEMMA ContractNotEmpty ==
  ASSUME NEW c \in Contract
  PROVE  /\ InnerBytes(c) # << >>
         /\ AnyBytes(c.type, InnerBytes(c)) # << >>
         /\ contract_bytes(c) # << >>
<1>1. /\ \E f \in InnerFields(c) : TRUE
      /\ \E f \in AnyFields(c.type, InnerBytes(c)) : TRUE
      /\ \E f \in WrapFields(c.type, InnerBytes(c)) : TRUE
  BY DEF InnerFields, TransferFields, TriggerFields, AnyFields, WrapFields
<1>2. QED BY <1>1, ContractTells, TellsSomething

(* The signed bytes of a compiled Tron transaction, and the contract and   *)
(* the Any in them, are what a node serialises after it has read them; the *)
(* exception is a time pinned at 0 (tron_proto.rs:78-126).                 *)
THEOREM HashKept == Spec => []NodeKeepsHash
<1>1. SessionInv => NodeKeepsHash
  <2>1. SUFFICES ASSUME SessionInv, NEW i \in CompiledTron
                 PROVE  LET contract == ReadMessage(DataOf(Message(i), 11))
                            parameter == ReadMessage(DataOf(contract, 2))
                        IN \A m \in {Message(i), contract, parameter} :
                             Serialised(m, Unsigned(i).timestamp)
    BY DEF NodeKeepsHash, Serialised
  <2> DEFINE raw == Unsigned(i)
             c == raw.contract
             ts == raw.timestamp
             m == Message(i)
             contract == ReadMessage(DataOf(m, 11))
             parameter == ReadMessage(DataOf(contract, 2))
  <2>2. /\ Carried(m, RawFields(raw))
        /\ Carried(contract, WrapFields(c.type, InnerBytes(c)))
        /\ Carried(parameter, AnyFields(c.type, InnerBytes(c)))
    BY <2>1, MessagesOf
  <2>3. raw \in RawData /\ raw.expiration = ts + ExpirationMs
    BY <2>1, RawOf
  <2> HIDE DEF m, contract, parameter, raw
  <2>4. c \in Contract /\ ts \in Nat
    BY <2>3, RawTyped
  <2>5. Serialised(m, ts)
    <3>1. to_be_bytes(raw.refBlockBytes, 2) # << >> /\ HashPart(raw.refBlockHash) # << >>
      <4>1. /\ to_be_bytes(raw.refBlockBytes, 2) \in Seq(Nat)
            /\ Len(to_be_bytes(raw.refBlockBytes, 2)) = 2
            /\ HashPart(raw.refBlockHash) \in Seq(Nat) /\ Len(HashPart(raw.refBlockHash)) = 8
        BY <2>3, RawTyped
      <4>2. 2 >= 1 /\ 8 >= 1
        OBVIOUS
      <4>3. QED BY <4>1, <4>2, NotEmpty
    <3>2. contract_bytes(c) # << >>
      BY <2>4, ContractNotEmpty
    <3>3. raw.expiration # 0
      BY <2>3, <2>4, WidthAssumption
    <3>4. IsSome(raw.feeLimit) => raw.feeLimit.val # 0
      BY <2>3, RawTyped
    <3>5. \A f \in TimedFields(raw) : f.val = 0 /\ f.data = << >> => f.num = 14 /\ ts = 0
      BY <3>1, <3>2, <3>3, FieldNums DEF TimedFields
    <3>6. \A f \in Limit(raw) : f.val # 0
      BY <3>4, FieldNums DEF Limit
    <3>7. QED BY <2>2, <3>5, <3>6, CarriedSerialised DEF RawFields
  <2>6. Serialised(contract, ts)
    <3>1. c.type # 0
      BY <2>4, ContractTyped
    <3>2. AnyBytes(c.type, InnerBytes(c)) # << >>
      BY <2>4, ContractNotEmpty
    <3>3. \A f \in WrapFields(c.type, InnerBytes(c)) : ~(f.val = 0 /\ f.data = << >>)
      BY <3>1, <3>2, FieldNums DEF WrapFields
    <3>4. QED BY <2>2, <3>3, CarriedSerialised
  <2>7. Serialised(parameter, ts)
    <3>1. type_url(c.type) # << >>
      <4>1. c.type \in Nat
        BY <2>4, ContractTyped
      <4>2. /\ type_url(c.type) \in Seq(Nat) /\ Len(type_url(c.type)) = TypeUrlLen(c.type)
            /\ TypeUrlLen(c.type) \in Nat /\ TypeUrlLen(c.type) >= 45
        BY <4>1, PartsTyped
      <4>3. Len(type_url(c.type)) >= 1
        BY <4>2
      <4>4. QED BY <4>2, <4>3, NotEmpty
    <3>2. InnerBytes(c) # << >>
      BY <2>4, ContractNotEmpty
    <3>3. \A f \in AnyFields(c.type, InnerBytes(c)) : ~(f.val = 0 /\ f.data = << >>)
      BY <3>1, <3>2, FieldNums DEF AnyFields
    <3>4. QED BY <2>2, <3>3, CarriedSerialised
  <2>8. QED BY <2>5, <2>6, <2>7 DEF m, contract, parameter, raw
<1>2. QED BY <1>1, Invariance, PTL

----------------------------------------------------------------------------
(* What the node executes.                                                 *)

ContractEffects(c) ==
  IF c.type = TRON_CONTRACT_TYPE_TRANSFER THEN CoinTransfer(c.to, c.amount)
  ELSE {TransferOf(c.contract, c.data.to, c.data.amount)}

(* A number of 63 bits is what the node takes it for, and no other is. *)
LEMMA SignedNumber ==
  ASSUME NEW v \in Nat, v <= U64Max
  PROVE  /\ Int64(v) < 0 <=> v > I64Max
         /\ ~(v > I64Max) => Int64(v) = v
<1>1. I64Max \in Nat /\ U64Max \in Nat
  BY WidthAssumption
<1>2. v > I64Max => v - (U64Max + 1) < 0
  BY <1>1
<1>3. QED BY <1>1, <1>2 DEF Int64

LEMMA InnerRead ==
  ASSUME NEW c \in Contract, NEW inner, Carried(inner, InnerFields(c))
  PROVE  /\ DataOf(inner, 1) = address_bytes(c.owner)
         /\ c.type = TRON_CONTRACT_TYPE_TRANSFER =>
              DataOf(inner, 2) = address_bytes(c.to) /\ ValueOf(inner, 3) = c.amount
         /\ c.type # TRON_CONTRACT_TYPE_TRANSFER =>
              /\ DataOf(inner, 2) = address_bytes(c.contract) /\ ValueOf(inner, 3) = 0
              /\ DataOf(inner, 4) = trc20_transfer_data(c.data)
<1>1. CASE c.type = TRON_CONTRACT_TYPE_TRANSFER
  <2>1. /\ BytesField(1, address_bytes(c.owner)) \in InnerFields(c)
        /\ BytesField(2, address_bytes(c.to)) \in InnerFields(c)
        /\ NumberField(3, c.amount) \in InnerFields(c)
    BY <1>1 DEF InnerFields, TransferFields
  <2>2. QED BY <1>1, <2>1, FieldNums DEF Carried
<1>2. CASE c.type # TRON_CONTRACT_TYPE_TRANSFER
  <2>1. /\ BytesField(1, address_bytes(c.owner)) \in InnerFields(c)
        /\ BytesField(2, address_bytes(c.contract)) \in InnerFields(c)
        /\ BytesField(4, trc20_transfer_data(c.data)) \in InnerFields(c)
    BY <1>2 DEF InnerFields, TriggerFields
  <2>2. \A f \in InnerFields(c) : f.num # 3
    BY <1>2, FieldNums DEF InnerFields, TriggerFields
  <2>3. ValueOf(inner, 3) = 0
    BY <2>2 DEF Carried
  <2>4. QED BY <1>2, <2>1, <2>3, FieldNums DEF Carried
<1>3. QED BY <1>1, <1>2

LEMMA EffectsRead ==
  ASSUME NEW c \in Contract, NEW any, NEW inner,
         Carried(any, AnyFields(c.type, InnerBytes(c))), Carried(inner, InnerFields(c))
  PROVE  LET e == EffectsOf(c.type, any, inner)
             large == c.type = TRON_CONTRACT_TYPE_TRANSFER /\ c.amount > I64Max
         IN /\ e.wellFormed
            /\ e.owner = {c.owner}
            /\ e.negative <=> large
            /\ ~large => e.transfers = ContractEffects(c)
<1> DEFINE e == EffectsOf(c.type, any, inner)
           amount == Int64(ValueOf(inner, 3))
           target == AccountAt(DataOf(inner, 2))
           large == c.type = TRON_CONTRACT_TYPE_TRANSFER /\ c.amount > I64Max
<1>1. /\ e.wellFormed = (WellFormed(any) /\ WellFormed(inner) /\ DataOf(any, 1) = type_url(c.type))
      /\ e.owner = AccountAt(DataOf(inner, 1))
      /\ e.negative = (amount < 0)
      /\ c.type = TRON_CONTRACT_TYPE_TRANSFER =>
           e.transfers = UNION {CoinTransfer(t, amount) : t \in target}
      /\ c.type # TRON_CONTRACT_TYPE_TRANSFER =>
           e.transfers = TokenTransfers(target, DataOf(inner, 4))
  BY DEF EffectsOf
<1> HIDE DEF e
<1>2. e.wellFormed
  <2>1. WellFormed(any) /\ WellFormed(inner)
    BY DEF Carried
  <2>2. BytesField(1, type_url(c.type)) \in AnyFields(c.type, InnerBytes(c))
    BY DEF AnyFields
  <2>3. DataOf(any, 1) = type_url(c.type)
    BY <2>2, FieldNums DEF Carried
  <2>4. QED BY Zenon, <1>1, <2>1, <2>3
<1>3. e.owner = {c.owner}
  BY <1>1, InnerRead, AccountBack, ContractTyped
<1>4. CASE c.type = TRON_CONTRACT_TYPE_TRANSFER
  <2>1. /\ c.to \in Accounts /\ c.amount \in Nat /\ c.amount <= U64Max
    <3>1. c.to \in Accounts /\ c.amount \in 0..U64Max /\ c.amount \in Nat
      BY Zenon, <1>4, ContractTyped
    <3>2. QED BY <3>1, WidthAssumption
  <2>2. amount = Int64(c.amount) /\ target = {c.to}
    BY <1>4, <2>1, InnerRead, AccountBack
  <2>3. e.transfers = UNION {CoinTransfer(t, amount) : t \in {c.to}}
    BY <1>1, <1>4, <2>2
  <2> HIDE DEF amount, target
  <2>4. e.transfers = CoinTransfer(c.to, amount)
    BY <2>3
  <2>5. amount < 0 <=> c.amount > I64Max
    BY <2>1, <2>2, SignedNumber
  <2>6. ~(c.amount > I64Max) => amount = c.amount
    BY <2>1, <2>2, SignedNumber
  <2>7. e.negative <=> large
    BY <1>1, <1>4, <2>5
  <2>8. ~large => e.transfers = ContractEffects(c)
    BY <1>4, <2>4, <2>6 DEF ContractEffects
  <2>9. QED BY <1>2, <1>3, <2>7, <2>8 DEF e
<1>5. CASE c.type # TRON_CONTRACT_TYPE_TRANSFER
  <2>1. /\ c.contract \in Accounts /\ c.data.to \in Accounts /\ c.data.amount \in 0..U256Max
        /\ c.data = [to |-> c.data.to, amount |-> c.data.amount]
    BY <1>5, ContractTyped
  <2>2. amount = Int64(0) /\ target = {c.contract} /\ DataOf(inner, 4) = trc20_transfer_data(c.data)
    BY <1>5, <2>1, InnerRead, AccountBack
  <2>3. e.transfers = TokenTransfers({c.contract}, trc20_transfer_data(c.data))
    BY <1>1, <1>5, <2>2
  <2>4. e.transfers = {TransferOf(c.contract, c.data.to, c.data.amount)}
    BY <2>1, <2>3, TransferDataBack
  <2>5. ~(amount < 0)
    <3>1. 0 \in Nat /\ 0 <= U64Max /\ ~(0 > I64Max)
      BY WidthAssumption
    <3>2. QED BY <2>2, <3>1, SignedNumber
  <2>6. ~e.negative /\ ~large
    BY <1>1, <1>5, <2>5
  <2>7. e.transfers = ContractEffects(c)
    BY <1>5, <2>4 DEF ContractEffects
  <2>8. QED BY <1>2, <1>3, <2>6, <2>7 DEF e
<1>6. QED BY <1>4, <1>5

(* The numbers of the message, and which of them the node refuses. *)
LEMMA NumbersRead ==
  ASSUME NEW raw \in RawData, NEW m, Carried(m, RawFields(raw))
  PROVE  /\ ValueOf(m, 8) = raw.expiration /\ ValueOf(m, 14) = raw.timestamp
         /\ ValueOf(m, 18) = raw.feeLimit.val
         /\ (\E num \in {8, 14, 18} : Int64(ValueOf(m, num)) < 0) <=>
              \/ raw.expiration > I64Max \/ raw.timestamp > I64Max
              \/ raw.feeLimit.val > I64Max
<1>1. ValueOf(m, 8) = raw.expiration /\ ValueOf(m, 14) = raw.timestamp
  <2>1. /\ NumberField(8, raw.expiration) \in RawFields(raw)
        /\ NumberField(14, raw.timestamp) \in RawFields(raw)
    BY DEF RawFields, TimedFields
  <2>2. QED BY <2>1, FieldNums DEF Carried
<1>2. ValueOf(m, 18) = raw.feeLimit.val
  <2>1. CASE IsSome(raw.feeLimit)
    <3>1. NumberField(18, raw.feeLimit.val) \in RawFields(raw)
      BY <2>1 DEF RawFields, Limit
    <3>2. QED BY <3>1, FieldNums DEF Carried
  <2>2. CASE ~IsSome(raw.feeLimit)
    <3>1. \A f \in RawFields(raw) : f.num # 18
      BY <2>2, FieldNums DEF RawFields, TimedFields, Limit
    <3>2. ValueOf(m, 18) = 0
      BY <3>1 DEF Carried
    <3>3. raw.feeLimit.val = 0
      BY <2>2, RawTyped
    <3>4. QED BY <3>2, <3>3
  <2>3. QED BY <2>1, <2>2
<1>3. /\ Int64(raw.expiration) < 0 <=> raw.expiration > I64Max
      /\ Int64(raw.timestamp) < 0 <=> raw.timestamp > I64Max
      /\ Int64(raw.feeLimit.val) < 0 <=> raw.feeLimit.val > I64Max
  BY RawTyped, SignedNumber
<1>4. QED BY <1>1, <1>2, <1>3

(* The accepted transaction, its review and its bytes. *)
LEMMA ReviewedTron ==
  ASSUME SessionInv, trusted, reviewed.code = OK, NEW i \in CompiledTron
  PROVE  LET raw == Unsigned(i)
         IN /\ ContractEffects(raw.contract) = Approved(reviewed.summary)
            /\ raw.contract.owner = reviewed.summary.from.acct
            /\ raw.feeLimit.val = unwrap_or_0(reviewed.summary.fee.estimatedMaxCost).val
<1>1. i \in Compiled /\ Unsigned(i).envelope = "raw_data"
  BY DEF CompiledTron
<1>2. /\ Effects(Unsigned(i)) = Approved(reviewed.summary)
      /\ SameEnvelope(reviewed.summary, Unsigned(i))
      /\ unwrap_or_0(reviewed.summary.fee.estimatedMaxCost).val = FeeCeiling(Unsigned(i))
  BY <1>1, SignedAgrees, CostAgrees DEF SignedIsReviewed, CostCeiling
<1>3. reviewed.summary.chain = "tron"
  <2>1. prepared \in PreparedTransaction
    BY <1>1, Provenance
  <2>2. PICK q \in Drafts(prepared) : reviewed.summary = TransactionReview(q)
    BY <1>1, Provenance
  <2>3. PICK r \in Drafts(prepared), clock \in 0..U64Max :
          /\ outputs[i].result = compile(r, outputs[i].now, clock)
          /\ r \in PreparedTransaction
          /\ compile(r, outputs[i].now, clock).code = OK
    BY <1>1, Provenance
  <2>4. q.chain = prepared.chain /\ r.chain = prepared.chain
    BY <2>1, DraftFields
  <2>5. r.chain = "ethereum" => Unsigned(i).envelope \in {"eip1559", "legacy"}
    BY <2>3, EvmPreImage DEF Unsigned
  <2>6. r.chain = "tron"
    BY <1>1, <2>3, <2>5 DEF PreparedTransaction, Chain
  <2>7. reviewed.summary.chain = q.chain
    BY <2>2 DEF TransactionReview
  <2>8. QED BY <2>4, <2>6, <2>7
<1>4. Effects(Unsigned(i)) = ContractEffects(Unsigned(i).contract)
  BY <1>1 DEF Effects, ContractEffects
<1>5. FeeCeiling(Unsigned(i)) = Unsigned(i).feeLimit.val
  BY <1>1 DEF FeeCeiling
<1>6. Unsigned(i).contract.owner = reviewed.summary.from.acct
  BY <1>2, <1>3 DEF SameEnvelope
<1>7. QED BY <1>2, <1>4, <1>5, <1>6

(* What a node reads in the signed bytes of an accepted transaction is     *)
(* what was approved, or one of its numbers is past the int64 of its field *)
(* and the node refuses it (tron_proto.rs:56-62,113-126, tron.rs:194-221). *)
THEOREM ReviewedExecuted == Spec => []NodeExecutesReviewed
<1>1. SessionInv => NodeExecutesReviewed
  <2>1. SUFFICES ASSUME SessionInv, trusted, reviewed.code = OK, NEW i \in CompiledTron
                 PROVE  LET m == Message(i)
                            contract == ReadMessage(DataOf(m, 11))
                            effects == NodeEffects(contract)
                        IN /\ WellFormed(m) /\ WellFormed(contract) /\ effects.wellFormed
                           /\ Refused(m, effects) <=> TooLargeForInt64(Unsigned(i))
                           /\ ~Refused(m, effects) =>
                                /\ effects.transfers = Approved(reviewed.summary)
                                /\ effects.owner = {reviewed.summary.from.acct}
                                /\ ValueOf(m, 18) =
                                     unwrap_or_0(reviewed.summary.fee.estimatedMaxCost).val
                                /\ ValueOf(m, 8) = ValueOf(m, 14) + ExpirationMs
    BY DEF NodeExecutesReviewed
  <2> DEFINE raw == Unsigned(i)
             c == raw.contract
             m == Message(i)
             contract == ReadMessage(DataOf(m, 11))
             any == ReadMessage(DataOf(contract, 2))
             inner == ReadMessage(DataOf(any, 2))
             effects == NodeEffects(contract)
             large == c.type = TRON_CONTRACT_TYPE_TRANSFER /\ c.amount > I64Max
  <2>2. /\ Carried(m, RawFields(raw))
        /\ Carried(contract, WrapFields(c.type, InnerBytes(c)))
        /\ Carried(any, AnyFields(c.type, InnerBytes(c)))
        /\ Carried(inner, InnerFields(c))
    BY <2>1, MessagesOf
  <2>3. raw \in RawData /\ raw.expiration = raw.timestamp + ExpirationMs
    BY <2>1, RawOf
  <2>4. /\ ContractEffects(c) = Approved(reviewed.summary)
        /\ c.owner = reviewed.summary.from.acct
        /\ raw.feeLimit.val = unwrap_or_0(reviewed.summary.fee.estimatedMaxCost).val
    BY <2>1, ReviewedTron
  <2>5. effects = EffectsOf(ValueOf(contract, 1), any, inner)
    BY DEF NodeEffects
  <2> HIDE DEF raw, m, contract, any, inner, effects
  <2>6. c \in Contract
    BY <2>3, RawTyped
  <2>7. ValueOf(contract, 1) = c.type
    <3>1. NumberField(1, c.type) \in WrapFields(c.type, InnerBytes(c))
      BY DEF WrapFields
    <3>2. QED BY <2>2, <3>1, FieldNums DEF Carried
  <2>8. /\ effects.wellFormed /\ effects.owner = {c.owner}
        /\ effects.negative <=> large
        /\ ~large => effects.transfers = ContractEffects(c)
    BY <2>2, <2>5, <2>6, <2>7, EffectsRead
  <2>9. /\ ValueOf(m, 8) = raw.expiration /\ ValueOf(m, 14) = raw.timestamp
        /\ ValueOf(m, 18) = raw.feeLimit.val
        /\ (\E num \in {8, 14, 18} : Int64(ValueOf(m, num)) < 0) <=>
             \/ raw.expiration > I64Max \/ raw.timestamp > I64Max
             \/ raw.feeLimit.val > I64Max
    BY <2>2, <2>3, NumbersRead
  <2>10. raw.timestamp > I64Max => raw.expiration > I64Max
    BY SMTT(60), <2>3, RawTyped, WidthAssumption
  <2>11. Refused(m, effects) <=> TooLargeForInt64(raw)
    BY Zenon, <2>8, <2>9, <2>10 DEF Refused, TooLargeForInt64
  <2>12. WellFormed(m) /\ WellFormed(contract)
    BY <2>2 DEF Carried
  <2>13. ~Refused(m, effects) => ~large
    BY Zenon, <2>8 DEF Refused
  <2>14. QED
    BY <2>3, <2>4, <2>8, <2>9, <2>11, <2>12, <2>13 DEF raw, m, contract, effects
<1>2. QED BY <1>1, Invariance, PTL
=============================================================================
