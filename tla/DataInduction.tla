--------------------------- MODULE DataInduction ---------------------------
(***************************************************************************)
(* Induction and recursion over data, stated with sets and functions so    *)
(* that the provers can instantiate them: a property is the set of the     *)
(* values that have it, the body of a recursive function is a function of  *)
(* the argument and of the value at one argument of smaller rank.          *)
(***************************************************************************)
EXTENDS WellFoundedInduction, TLAPS

(* A set of naturals that is not empty has a least element. *)
LEMMA NatLeast ==
  ASSUME NEW T, T \subseteq Nat, T # {}
  PROVE  \E m \in T : \A n \in T : m <= n
<1> DEFINE R == {pair \in Nat \X Nat : pair[1] < pair[2]}
<1>1. IsWellFoundedOn(R, Nat)
  BY NatLessThanWellFounded DEF OpToRel
<1>2. \A x, y \in Nat : <<x, y>> \in R <=> x < y
  OBVIOUS
<1> HIDE DEF R
<1>3. PICK m \in T : \A n \in T : ~(<<n, m>> \in R)
  BY <1>1, WFMin
<1>4. \A n \in T : m <= n
  <2>1. TAKE n \in T
  <2>2. m \in Nat /\ n \in Nat
    OBVIOUS
  <2>3. ~(n < m)
    BY <1>2, <1>3, <2>2
  <2>4. QED BY <2>2, <2>3
<1>5. QED BY <1>4

(* Induction on a rank: S has every element whose predecessors it has. *)
LEMMA RankInduction ==
  ASSUME NEW D, NEW rank \in [D -> Nat], NEW S,
         \A x \in D : (\A y \in D : rank[y] < rank[x] => y \in S) => x \in S
  PROVE  \A x \in D : x \in S
<1> SUFFICES ASSUME NEW z \in D, z \notin S
             PROVE  FALSE
  OBVIOUS
<1> DEFINE T == {rank[x] : x \in D \ S}
<1>1. T \subseteq Nat /\ T # {}
  OBVIOUS
<1>2. PICK m \in T : \A n \in T : m <= n
  BY <1>1, NatLeast
<1>3. PICK x \in D \ S : rank[x] = m
  OBVIOUS
<1>4. \A y \in D : rank[y] < rank[x] => y \in S
  <2>1. SUFFICES ASSUME NEW y \in D, rank[y] < rank[x], y \notin S
                 PROVE  FALSE
    OBVIOUS
  <2>2. rank[y] \in T
    BY <2>1
  <2>3. rank[x] <= rank[y]
    BY <1>2, <1>3, <2>2
  <2>4. QED BY <2>1, <2>3
<1>5. QED BY <1>3, <1>4

(* Induction on the naturals up to a bound, or on all of them. *)
LEMMA SetInduction ==
  ASSUME NEW S, 0 \in S, \A n \in Nat : n \in S => n + 1 \in S
  PROVE  \A n \in Nat : n \in S
<1> DEFINE rank == [n \in Nat |-> n]
<1>1. \A n \in Nat : (\A m \in Nat : rank[m] < rank[n] => m \in S) => n \in S
  <2>1. SUFFICES ASSUME NEW n \in Nat, \A m \in Nat : m < n => m \in S
                 PROVE  n \in S
    OBVIOUS
  <2>2. CASE n = 0
    BY <2>2
  <2>3. CASE n # 0
    <3>1. n - 1 \in Nat /\ n - 1 < n /\ (n - 1) + 1 = n
      BY <2>3
    <3>2. n - 1 \in S
      BY <2>1, <3>1
    <3>3. (n - 1) + 1 \in S
      BY <3>1, <3>2
    <3>4. QED BY <3>1, <3>3
  <2>4. QED BY <2>2, <2>3
<1>2. rank \in [Nat -> Nat]
  OBVIOUS
<1> HIDE DEF rank
<1>3. QED BY <1>1, <1>2, RankInduction

(* What a recursive definition on D is made of: the arguments B where it   *)
(* ends, with the values c; else the argument p[x], of smaller rank, that  *)
(* it looks at, and the value d gives for x and what it finds there.  The  *)
(* two definitions are atoms to the provers, by which they find the        *)
(* instances of the lemma.                                                 *)
Recursion(D, V, rank, B, c, p, d) ==
  /\ rank \in [D -> Nat]
  /\ B \in SUBSET D
  /\ c \in [D -> V] /\ p \in [D -> D] /\ d \in [D \X V -> V]
  /\ \A x \in D \ B : rank[p[x]] < rank[x]
Obeys(g, D, V, B, c, p, d) ==
  /\ g \in [D -> V]
  /\ \A x \in D : g[x] = IF x \in B THEN c[x] ELSE d[<<x, g[p[x]]>>]

(* A recursive definition has a function. *)
LEMMA RecursionExists ==
  ASSUME NEW D, NEW V, NEW rank, NEW B, NEW c, NEW p, NEW d,
         Recursion(D, V, rank, B, c, p, d)
  PROVE  \E g : Obeys(g, D, V, B, c, p, d)
<1>0. /\ rank \in [D -> Nat]
      /\ B \in SUBSET D
      /\ c \in [D -> V] /\ p \in [D -> D] /\ d \in [D \X V -> V]
      /\ \A x \in D \ B : rank[p[x]] < rank[x]
  BY DEF Recursion
<1> USE <1>0
<1> DEFINE Body(g, x) == IF x \in B THEN c[x] ELSE d[<<x, g[p[x]]>>]
           Below(n) == {g \in [D -> V] : \A x \in D : rank[x] < n => g[x] = Body(g, x)}
<1>1. \A n \in Nat : Below(n) # {}
  <2> DEFINE S == {n \in Nat : Below(n) # {}}
  <2>1. 0 \in S
    <3>1. c \in Below(0)
      OBVIOUS
    <3>2. QED BY <3>1
  <2>2. \A n \in Nat : n \in S => n + 1 \in S
    <3>1. SUFFICES ASSUME NEW n \in Nat, Below(n) # {}
                   PROVE  Below(n + 1) # {}
      <4> HIDE DEF Below
      <4>1. QED OBVIOUS
    <3>0. PICK g \in Below(n) : TRUE
      BY <3>1
    <3> DEFINE h == [x \in D |-> IF rank[x] < n THEN g[x] ELSE Body(g, x)]
    <3>2. g \in [D -> V] /\ \A x \in D : rank[x] < n => g[x] = Body(g, x)
      BY <3>0
    <3>3. \A x \in D : Body(g, x) \in V
      <4>1. TAKE x \in D
      <4>2. c[x] \in V /\ g[p[x]] \in V
        BY <3>2
      <4>3. d[<<x, g[p[x]]>>] \in V
        BY <4>2
      <4>4. QED BY <4>2, <4>3
    <3>4. h \in [D -> V]
      BY <3>2, <3>3
    <3>5. \A x \in D : rank[x] < n + 1 => h[x] = Body(h, x)
      <4>1. SUFFICES ASSUME NEW x \in D, rank[x] < n + 1
                     PROVE  h[x] = Body(h, x)
        OBVIOUS
      <4>2. h[x] = Body(g, x)
        BY <3>2
      <4>3. x \notin B => h[p[x]] = g[p[x]]
        <5>1. SUFFICES ASSUME x \notin B
                       PROVE  h[p[x]] = g[p[x]]
          OBVIOUS
        <5>2. p[x] \in D /\ rank[p[x]] < rank[x] /\ rank[x] \in Nat /\ rank[p[x]] \in Nat
          BY <5>1
        <5>3. rank[p[x]] < n
          BY <4>1, <5>2
        <5>4. QED BY <5>2, <5>3
      <4>4. QED BY <4>2, <4>3
    <3>6. h \in Below(n + 1)
      BY <3>4, <3>5
    <3>7. QED BY <3>6
  <2>3. \A n \in Nat : n \in S
    <3> HIDE DEF S
    <3>1. QED BY <2>1, <2>2, SetInduction
  <2>4. QED BY <2>3
<1>2. \A n \in Nat, m \in Nat : \A g \in Below(n), h \in Below(m) :
        \A x \in D : rank[x] < n /\ rank[x] < m => g[x] = h[x]
  <2>1. TAKE n \in Nat, m \in Nat
  <2>2. TAKE g \in Below(n), h \in Below(m)
  <2> DEFINE S == {x \in D : rank[x] < n /\ rank[x] < m => g[x] = h[x]}
  <2>3. \A x \in D : (\A y \in D : rank[y] < rank[x] => y \in S) => x \in S
    <3>1. SUFFICES ASSUME NEW x \in D, rank[x] < n, rank[x] < m,
                          \A y \in D : rank[y] < rank[x] => y \in S
                   PROVE  g[x] = h[x]
      OBVIOUS
    <3>2. g[x] = Body(g, x) /\ h[x] = Body(h, x)
      BY <2>2, <3>1
    <3>3. x \notin B => g[p[x]] = h[p[x]]
      <4>1. SUFFICES ASSUME x \notin B
                     PROVE  g[p[x]] = h[p[x]]
        OBVIOUS
      <4>2. p[x] \in D /\ rank[p[x]] < rank[x] /\ rank[x] \in Nat /\ rank[p[x]] \in Nat
        BY <4>1
      <4>3. rank[p[x]] < n /\ rank[p[x]] < m /\ p[x] \in S
        BY <3>1, <4>2
      <4>4. QED BY <4>3
    <3>4. QED BY <3>2, <3>3
  <2>4. \A x \in D : x \in S
    <3> HIDE DEF S
    <3>1. QED BY <2>3, RankInduction
  <2>5. QED BY <2>4
<1> DEFINE pick == [x \in D |-> CHOOSE g : g \in Below(rank[x] + 1)]
           G == [x \in D |-> pick[x][x]]
<1>3. \A x \in D : pick[x] \in Below(rank[x] + 1)
  <2>1. TAKE x \in D
  <2>2. rank[x] + 1 \in Nat
    OBVIOUS
  <2>3. Below(rank[x] + 1) # {}
    BY <1>1, <2>2
  <2> HIDE DEF Below
  <2>4. QED BY <2>3
<1>4. \A x \in D : pick[x] \in [D -> V] /\ pick[x][x] = Body(pick[x], x)
  <2>1. TAKE x \in D
  <2>2. pick[x] \in Below(rank[x] + 1)
    BY <1>3
  <2>3. rank[x] < rank[x] + 1
    OBVIOUS
  <2> HIDE DEF pick
  <2>4. QED BY <2>2, <2>3
<1>5. G \in [D -> V]
  <2> HIDE DEF pick
  <2>1. QED BY <1>4
<1>6. \A x \in D : G[x] = Body(G, x)
  <2>1. TAKE x \in D
  <2>2. x \notin B => pick[x][p[x]] = G[p[x]]
    <3>1. SUFFICES ASSUME x \notin B
                   PROVE  pick[x][p[x]] = G[p[x]]
      OBVIOUS
    <3>2. p[x] \in D /\ rank[p[x]] < rank[x] /\ rank[x] + 1 \in Nat /\ rank[p[x]] + 1 \in Nat
          /\ rank[p[x]] < rank[x] + 1 /\ rank[p[x]] < rank[p[x]] + 1
      BY SMTT(60), <3>1
    <3>3. pick[x] \in Below(rank[x] + 1) /\ pick[p[x]] \in Below(rank[p[x]] + 1)
      BY <1>3, <3>2
    <3>4. pick[x][p[x]] = pick[p[x]][p[x]]
      <4> HIDE DEF Below, pick
      <4>1. QED BY <1>2, <3>2, <3>3
    <3>5. G[p[x]] = pick[p[x]][p[x]]
      <4> HIDE DEF pick
      <4>1. QED BY <3>2
    <3>6. QED BY ZenonT(60), <3>4, <3>5
  <2>3. G[x] = Body(pick[x], x)
    <3> HIDE DEF pick
    <3>1. QED BY <1>4
  <2> HIDE DEF G, pick
  <2>4. QED BY <2>2, <2>3
<1> HIDE DEF G
<1>7. Obeys(G, D, V, B, c, p, d)
  BY <1>5, <1>6 DEF Obeys
<1>8. QED BY <1>7

(* Recursion along a sequence: from v, one step for each position up to n. *)
PrefixRecursion(n, V, v, d) == n \in Nat /\ v \in V /\ d \in [(1..n) \X V -> V]
PrefixObeys(g, n, V, v, d) ==
  /\ g \in [0..n -> V]
  /\ g[0] = v
  /\ \A k \in 1..n : g[k] = d[<<k, g[k - 1]>>]

LEMMA PrefixRecursionExists ==
  ASSUME NEW n, NEW V, NEW v, NEW d, PrefixRecursion(n, V, v, d)
  PROVE  \E g : PrefixObeys(g, n, V, v, d)
<1>0. n \in Nat /\ v \in V /\ d \in [(1..n) \X V -> V]
  BY DEF PrefixRecursion
<1> USE <1>0
<1> DEFINE D == 0..n
           rank == [k \in D |-> k]
           B == {0}
           c == [k \in D |-> v]
           p == [k \in D |-> IF k = 0 THEN 0 ELSE k - 1]
           e == [q \in D \X V |-> IF q[1] = 0 THEN v ELSE d[q]]
<1>1. Recursion(D, V, rank, B, c, p, e)
  <2>1. rank \in [D -> Nat] /\ c \in [D -> V] /\ p \in [D -> D] /\ B \in SUBSET D
    OBVIOUS
  <2>2. \A q \in D \X V : q[1] # 0 => q \in (1..n) \X V
    OBVIOUS
  <2>3. e \in [D \X V -> V]
    BY <2>2
  <2>4. \A k \in D \ B : rank[p[k]] < rank[k]
    OBVIOUS
  <2> HIDE DEF D, rank, B, c, p, e
  <2>5. QED BY <2>1, <2>3, <2>4 DEF Recursion
<1>2. PICK g : Obeys(g, D, V, B, c, p, e)
  <2> HIDE DEF D, rank, B, c, p, e
  <2>1. QED BY <1>1, RecursionExists
<1>3. g \in [D -> V] /\ \A k \in D : g[k] = IF k \in B THEN c[k] ELSE e[<<k, g[p[k]]>>]
  <2> HIDE DEF D, rank, B, c, p, e
  <2>1. QED BY <1>2 DEF Obeys
<1>4. g[0] = v
  <2>1. 0 \in D /\ 0 \in B /\ c[0] = v
    OBVIOUS
  <2> HIDE DEF D, B, c
  <2>2. QED BY <1>3, <2>1
<1>5. \A k \in 1..n : g[k] = d[<<k, g[k - 1]>>]
  <2>1. TAKE k \in 1..n
  <2>2. k \in D /\ k - 1 \in D /\ p[k] = k - 1 /\ g[k - 1] \in V
    BY <1>3
  <2>3. e[<<k, g[k - 1]>>] = d[<<k, g[k - 1]>>]
    BY <2>2
  <2>4. QED BY <1>3, <2>2, <2>3
<1>6. PrefixObeys(g, n, V, v, d)
  BY <1>3, <1>4, <1>5 DEF PrefixObeys
<1>7. QED BY <1>6

(* What holds at 0 and is handed on holds at every position up to n. *)
LEMMA PrefixInduction ==
  ASSUME NEW n \in Nat, NEW S, 0 \in S, \A k \in 1..n : k - 1 \in S => k \in S
  PROVE  \A k \in 0..n : k \in S
<1> DEFINE T == {k \in Nat : k <= n => k \in S}
<1>1. \A k \in Nat : k \in T => k + 1 \in T
  <2>1. SUFFICES ASSUME NEW k \in Nat, k + 1 <= n, k \in S
                 PROVE  k + 1 \in S
    OBVIOUS
  <2>2. k + 1 \in 1..n /\ (k + 1) - 1 = k
    BY <2>1
  <2>3. QED BY <2>1, <2>2
<1>2. \A k \in Nat : k \in T
  <2>1. 0 \in T
    OBVIOUS
  <2> HIDE DEF T
  <2>2. QED BY <1>1, <2>1, SetInduction
<1>3. QED BY <1>2
============================================================================
