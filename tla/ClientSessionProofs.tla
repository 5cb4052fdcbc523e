------------------------- MODULE ClientSessionProofs -------------------------
(***************************************************************************)
(* Proofs about ClientSession, for any sessions, scripts, configurations,  *)
(* data centres, lengths and delays: the types of the state, the dials     *)
(* over TCP and the connections that sessions account for, and that what a *)
(* client and a server say to each other arrives as it was said.           *)
(*                                                                         *)
(* The codecs come first, each by what it does to any bytes: the recursive *)
(* functions of FakeTls, MsgSplitter, RawWebSocket and of a peer's view    *)
(* are determined by induction over sets of numbers.  Then the two ways of *)
(* a bridge, a step of a relay at a time, and last the sessions, place by  *)
(* place (Conducts).                                                       *)
(***************************************************************************)
EXTENDS ClientSession, SequenceTheorems, WellFoundedInduction, TLAPS

(***************************************************************************)
(* Induction over numbers, on sets instead of predicates, and what it      *)
(* says of recursive functions.                                            *)
(***************************************************************************)
LEMMA Climb ==
  ASSUME NEW S, 0 \in S, \A n \in Nat : n \in S => n + 1 \in S
  PROVE  Nat \subseteq S
<1> SUFFICES ASSUME Nat \ S # {} PROVE FALSE
  OBVIOUS
<1> DEFINE R == {p \in Nat \X Nat : p[1] < p[2]}
           T == Nat \ S
<1>1. IsWellFoundedOn(R, Nat)
  BY NatLessThanWellFounded DEF OpToRel
<1>2. T \subseteq Nat /\ T # {}
  OBVIOUS
<1>3. PICK x \in T : \A y \in T : ~(<<y, x>> \in R)
  <2> HIDE DEF R, T
  <2> QED
    BY <1>1, <1>2, WFMin
<1>4. x # 0 /\ x \in Nat /\ x - 1 \in Nat
  OBVIOUS
<1>5. <<x - 1, x>> \in R
  BY <1>4
<1>6. x - 1 \in S
  BY <1>3, <1>4, <1>5
<1> QED
  BY <1>4, <1>6

\* From the end backwards, each place on the ones behind it.
LEMMA Descend ==
  ASSUME NEW n \in Nat, NEW S,
         \A i \in 0 .. n : (\A j \in (i + 1) .. n : j \in S) => i \in S
  PROVE  0 .. n \subseteq S
<1> DEFINE T == {k \in Nat : \A j \in (n - k) .. n : j \in 0 .. n => j \in S}
<1>1. 0 \in T
  OBVIOUS
<1>2. \A k \in Nat : k \in T => k + 1 \in T
  <2> SUFFICES ASSUME NEW k \in T, NEW j \in (n - (k + 1)) .. n, j \in 0 .. n PROVE j \in S
    OBVIOUS
  <2>1. CASE j \in (n - k) .. n
    BY <2>1
  <2>2. CASE j = n - (k + 1)
    <3>1. \A i \in (j + 1) .. n : i \in S
      BY <2>2
    <3> QED
      BY <3>1
  <2> QED
    BY <2>1, <2>2
<1>3. n \in T
  <2> HIDE DEF T
  <2>1. Nat \subseteq T
    BY <1>1, <1>2, Climb
  <2> QED
    BY <2>1
<1> QED
  BY <1>3

\* A function that at each place asks one place further on, or none.
Backwards(f, n, J, K, B) ==
  \A i \in 0 .. n : f[i] = IF J[i] \in (i + 1) .. n THEN K[i][f[J[i]]] ELSE B[i]

LEMMA BackwardsExists ==
  ASSUME NEW n \in Nat, NEW V, NEW J, NEW K \in [0 .. n -> [V -> V]], NEW B \in [0 .. n -> V]
  PROVE  \E f \in [0 .. n -> V] : Backwards(f, n, J, K, B)
<1> DEFINE Upto(m, f) ==
      \A i \in m .. n : f[i] = IF J[i] \in (i + 1) .. n THEN K[i][f[J[i]]] ELSE B[i]
<1> DEFINE S == {m \in 0 .. n : \E f \in [0 .. n -> V] : Upto(m, f)}
<1>1. ASSUME NEW m \in 0 .. n, NEW f \in [0 .. n -> V], Upto(m + 1, f)
      PROVE  m \in S
  <2> DEFINE v == IF J[m] \in (m + 1) .. n THEN K[m][f[J[m]]] ELSE B[m]
             g == [f EXCEPT ![m] = v]
  <2>1. v \in V
    OBVIOUS
  <2>2. g \in [0 .. n -> V] /\ g[m] = v /\ \A i \in (m + 1) .. n : g[i] = f[i]
    BY <2>1
  <2> HIDE DEF g
  <2>3. \A i \in m .. n : g[i] = IF J[i] \in (i + 1) .. n THEN K[i][g[J[i]]] ELSE B[i]
    <3> SUFFICES ASSUME NEW i \in m .. n
                 PROVE  g[i] = IF J[i] \in (i + 1) .. n THEN K[i][g[J[i]]] ELSE B[i]
      OBVIOUS
    <3>1. J[i] \in (i + 1) .. n => g[J[i]] = f[J[i]]
      BY <2>2
    <3>2. CASE i = m
      BY <2>2, <3>1, <3>2
    <3>3. CASE i \in (m + 1) .. n
      <4>1. f[i] = IF J[i] \in (i + 1) .. n THEN K[i][f[J[i]]] ELSE B[i]
        BY <1>1, <3>3
      <4> QED
        BY <2>2, <3>1, <3>3, <4>1
    <3> QED
      BY <3>2, <3>3
  <2> QED
    BY <2>2, <2>3
<1>2. \A m \in 0 .. n : (\A j \in (m + 1) .. n : j \in S) => m \in S
  <2> SUFFICES ASSUME NEW m \in 0 .. n, \A j \in (m + 1) .. n : j \in S PROVE m \in S
    OBVIOUS
  <2>1. CASE m = n
    BY <1>1, <2>1
  <2>2. CASE m # n
    <3>1. m + 1 \in S
      <4> HIDE DEF S
      <4>1. m + 1 \in (m + 1) .. n
        BY <2>2
      <4> QED
        BY <4>1
    <3>2. PICK f \in [0 .. n -> V] : Upto(m + 1, f)
      BY <3>1
    <3> QED
      BY <1>1, <3>2
  <2> QED
    BY <2>1, <2>2
<1>3. 0 \in S
  <2> HIDE DEF S
  <2>1. 0 .. n \subseteq S
    BY <1>2, Descend
  <2> QED
    BY <2>1
<1> QED
  BY <1>3 DEF Backwards

\* A function that at each place asks the place before.
Forwards(f, n, b, G) == f[0] = b /\ \A i \in 1 .. n : f[i] = G[i][f[i - 1]]

LEMMA ForwardsExists ==
  ASSUME NEW n \in Nat, NEW V, NEW b \in V, NEW G \in [1 .. n -> [V -> V]]
  PROVE  \E f \in [0 .. n -> V] : Forwards(f, n, b, G)
<1> DEFINE Upto(m, f) == f[0] = b /\ \A i \in 1 .. n : i <= m => f[i] = G[i][f[i - 1]]
           T == {m \in Nat : \E f \in [0 .. n -> V] : Upto(m, f)}
<1>1. 0 \in T
  <2> DEFINE g == [i \in 0 .. n |-> b]
  <2>1. g \in [0 .. n -> V]
    OBVIOUS
  <2>2. Upto(0, g)
    OBVIOUS
  <2> QED
    BY <2>1, <2>2
<1>2. ASSUME NEW m \in Nat, m \in T PROVE m + 1 \in T
  <2>1. PICK f \in [0 .. n -> V] : Upto(m, f)
    BY <1>2
  <2>2. CASE ~ (m + 1 \in 1 .. n)
    <3>1. Upto(m + 1, f)
      BY <2>1, <2>2
    <3> QED
      BY <3>1
  <2>3. CASE m + 1 \in 1 .. n
    <3> DEFINE v == G[m + 1][f[m]]
               g == [f EXCEPT ![m + 1] = v]
    <3>0. m \in 0 .. n /\ m + 1 \in 0 .. n
      BY <2>3
    <3>1. v \in V
      BY <2>3, <3>0
    <3>2. g \in [0 .. n -> V] /\ g[m + 1] = v /\ \A i \in 0 .. n : i <= m => g[i] = f[i]
      BY <3>0, <3>1
    <3> HIDE DEF g
    <3>3. ASSUME NEW i \in 1 .. n, i <= m + 1
          PROVE  g[i] = G[i][g[i - 1]]
      <4>0. i - 1 \in 0 .. n /\ i - 1 <= m
        BY <3>3
      <4>1. CASE i = m + 1
        BY <3>2, <4>0, <4>1
      <4>2. CASE i <= m
        BY <2>1, <3>2, <4>0, <4>2
      <4> QED
        BY <3>3, <4>1, <4>2
    <3>4. g[0] = b
      BY <2>1, <3>0, <3>2
    <3>5. Upto(m + 1, g)
      BY <3>3, <3>4
    <3> QED
      BY <3>2, <3>5
  <2> QED
    BY <2>2, <2>3
<1>3. n \in T
  <2> HIDE DEF T
  <2>1. Nat \subseteq T
    BY <1>1, <1>2, Climb
  <2> QED
    BY <2>1
<1>4. PICK f \in [0 .. n -> V] : Upto(n, f)
  BY <1>3
<1>5. f[0] = b /\ \A i \in 1 .. n : f[i] = G[i][f[i - 1]]
  BY <1>4
<1> QED
  BY <1>5 DEF Forwards

-----------------------------------------------------------------------------
(***************************************************************************)
(* Sequences joined one after the other: FlattenSeq, as SequencesExt folds *)
(* it, is what the sequences amount to.                                    *)
(***************************************************************************)
\* What q amounts to up to each place.
Flat(q, f) ==
  /\ f[0] = <<>>
  /\ \A i \in 1 .. Len(q) : f[i] = f[i - 1] \o q[i]

LEMMA FlatStep ==
  ASSUME NEW q, NEW f, Flat(q, f), NEW i \in Nat, i + 1 \in 1 .. Len(q)
  PROVE  f[i + 1] = f[i] \o q[i + 1]
<1>1. f[i + 1] = f[(i + 1) - 1] \o q[i + 1]
  BY DEF Flat
<1>2. (i + 1) - 1 = i
  OBVIOUS
<1> QED
  BY <1>1, <1>2

LEMMA FlatExists ==
  ASSUME NEW S, NEW q \in Seq(Seq(S))
  PROVE  \E f \in [0 .. Len(q) -> Seq(S)] : Flat(q, f)
<1> DEFINE n == Len(q)
           V == Seq(S)
           G == [i \in 1 .. n |-> [x \in V |-> x \o q[i]]]
<1>1. n \in Nat /\ <<>> \in V /\ \A i \in 1 .. n : q[i] \in V
  OBVIOUS
<1>2. \A x \in V, y \in V : x \o y \in V
  OBVIOUS
<1>3. G \in [1 .. n -> [V -> V]]
  <2> HIDE DEF V, n
  <2> QED
    BY <1>1, <1>2
<1>4. \A i \in 1 .. n : \A x \in V : G[i][x] = x \o q[i]
  OBVIOUS
<1>7. DOMAIN G = 1 .. n
  OBVIOUS
<1> HIDE DEF G, n, V
<1>5. PICK f \in [0 .. n -> V] : f[0] = <<>> /\ \A i \in 1 .. n : f[i] = G[i][f[i - 1]]
  <2> DEFINE b == <<>>
  <2>1. n \in Nat /\ b \in V
    BY <1>1
  <2> HIDE DEF b
  <2>2. \E f \in [0 .. n -> V] : Forwards(f, n, b, G)
    BY <1>3, <2>1, ForwardsExists
  <2> QED
    BY <2>2 DEF b, Forwards
<1>6. \A i \in 1 .. n : f[i] = f[i - 1] \o q[i]
  <2> SUFFICES ASSUME NEW i \in 1 .. n PROVE f[i] = f[i - 1] \o q[i]
    OBVIOUS
  <2>1. i - 1 \in 0 .. n
    BY <1>1
  <2> QED
    BY <1>4, <1>5, <2>1
<1> QED
  BY <1>5, <1>6 DEF Flat, n, V

LEMMA FlattenIs ==
  ASSUME NEW S, NEW q \in Seq(Seq(S))
  PROVE  \E f \in [0 .. Len(q) -> Seq(S)] : Flat(q, f) /\ FlattenSeq(q) = f[Len(q)]
<1>1. PICK f \in [0 .. Len(q) -> Seq(S)] : Flat(q, f)
  BY FlatExists
<1>2. CASE Len(q) = 0
  BY <1>1, <1>2 DEF Flat, FlattenSeq
<1>3. CASE Len(q) # 0
  <2> DEFINE n == Len(q)
             F(e) == [i \in 1 .. n |-> IF i = 1 THEN q[i] ELSE e[i - 1] \o q[i]]
             e == CHOOSE g : g = F(g)
             h == [i \in 1 .. n |-> f[i]]
  <2>0. n \in Nat /\ n # 0 /\ \A i \in 1 .. n : q[i] \in Seq(S)
    BY <1>3
  <2>1. FlattenSeq(q) = e[n]
    BY <1>3 DEF FlattenSeq
  <2>2. h = F(h)
    <3>1. ASSUME NEW i \in 1 .. n PROVE h[i] = IF i = 1 THEN q[i] ELSE h[i - 1] \o q[i]
      <4>1. f[i] = f[i - 1] \o q[i]
        BY <1>1 DEF Flat
      <4>2. CASE i = 1
        BY <1>1, <2>0, <4>1, <4>2 DEF Flat
      <4>3. CASE i # 1
        <5>1. i - 1 \in 1 .. n
          BY <2>0, <4>3
        <5> QED
          BY <4>1, <4>3, <5>1
      <4> QED
        BY <4>2, <4>3
    <3> QED
      BY <3>1
  <2>3. e = F(e)
    <3> HIDE DEF h, F
    <3> QED
      BY <2>2
  <2>4. \A i \in 1 .. n : e[i] = IF i = 1 THEN q[i] ELSE e[i - 1] \o q[i]
    <3> HIDE DEF e
    <3> QED
      BY <2>3
  <2> HIDE DEF e
  <2> DEFINE T == {k \in Nat : k \in 1 .. n => e[k] = f[k]}
  <2>5. 0 \in T
    OBVIOUS
  <2>6. ASSUME NEW k \in Nat, k \in T PROVE k + 1 \in T
    <3> SUFFICES ASSUME k + 1 \in 1 .. n PROVE e[k + 1] = f[k + 1]
      OBVIOUS
    <3>1. e[k + 1] = IF k + 1 = 1 THEN q[k + 1] ELSE e[k + 1 - 1] \o q[k + 1]
      BY <2>4
    <3>2. f[k + 1] = f[k] \o q[k + 1]
      BY <1>1, <2>0, FlatStep
    <3>3. k + 1 - 1 = k /\ (k # 0 => k \in 1 .. n)
      BY <2>0
    <3>4. CASE k = 0
      <4>1. f[0] = <<>> /\ q[1] \in Seq(S)
        BY <1>1, <2>0, <3>4 DEF Flat
      <4>2. <<>> \o q[1] = q[1]
        BY <4>1
      <4> QED
        BY <3>1, <3>2, <3>4, <4>1, <4>2
    <3>5. CASE k # 0
      <4>1. e[k] = f[k]
        BY <2>6, <3>3, <3>5
      <4>2. e[k + 1] = e[k] \o q[k + 1]
        <5>1. k + 1 # 1
          BY <3>5
        <5>2. e[k + 1] = e[k + 1 - 1] \o q[k + 1]
          BY <3>1, <5>1, Zenon
        <5> QED
          BY <3>3, <5>2
      <4> QED
        BY <3>2, <4>1, <4>2
    <3> QED
      BY <3>4, <3>5
  <2>7. n \in T
    <3> HIDE DEF T, n
    <3>1. Nat \subseteq T
      BY <2>5, <2>6, Climb
    <3> QED
      BY <2>0, <3>1
  <2> QED
    BY <1>1, <2>0, <2>1, <2>7
<1> QED
  BY <1>2, <1>3

LEMMA FlattenEmpty == FlattenSeq(<<>>) = <<>>
BY DEF FlattenSeq

LEMMA FlattenType ==
  ASSUME NEW S, NEW q \in Seq(Seq(S))
  PROVE  FlattenSeq(q) \in Seq(S)
<1>1. PICK f \in [0 .. Len(q) -> Seq(S)] : FlattenSeq(q) = f[Len(q)]
  BY FlattenIs
<1>2. Len(q) \in 0 .. Len(q)
  OBVIOUS
<1> QED
  BY <1>1, <1>2

Agree(p, q, n) == \A i \in 1 .. n : p[i] = q[i]

\* Only what stands up to a place counts there.
LEMMA FlatSame ==
  ASSUME NEW p, NEW q, NEW n \in Nat, n <= Len(p), n <= Len(q), Len(p) \in Nat, Len(q) \in Nat,
         NEW f, NEW g, Flat(p, f), Flat(q, g), Agree(p, q, n)
  PROVE  f[n] = g[n]
<1> DEFINE T == {k \in Nat : k \in 0 .. n => f[k] = g[k]}
<1>1. 0 \in T
  BY DEF Flat
<1>2. ASSUME NEW k \in Nat, k \in T PROVE k + 1 \in T
  <2> SUFFICES ASSUME k + 1 \in 0 .. n PROVE f[k + 1] = g[k + 1]
    OBVIOUS
  <2>0. k \in 0 .. n /\ k + 1 - 1 = k /\ k + 1 \in 1 .. Len(p) /\ k + 1 \in 1 .. Len(q) /\ k + 1 \in 1 .. n
    OBVIOUS
  <2>1. f[k + 1] = f[k] \o p[k + 1]
    BY <2>0, FlatStep
  <2>2. g[k + 1] = g[k] \o q[k + 1]
    BY <2>0, FlatStep
  <2> QED
    BY <1>2, <2>0, <2>1, <2>2 DEF Agree
<1>3. n \in T
  <2> HIDE DEF T
  <2> QED
    BY <1>1, <1>2, Climb
<1> QED
  BY <1>3

LEMMA FlattenAppend ==
  ASSUME NEW S, NEW q \in Seq(Seq(S)), NEW x \in Seq(S)
  PROVE  FlattenSeq(Append(q, x)) = FlattenSeq(q) \o x
<1> DEFINE r == Append(q, x)
           n == Len(q)
<1>1. n \in Nat /\ r \in Seq(Seq(S))
  OBVIOUS
<1>2. Len(r) = n + 1 /\ r[n + 1] = x /\ \A i \in 1 .. n : r[i] = q[i]
  OBVIOUS
<1> HIDE DEF r
<1>3. PICK f : Flat(q, f) /\ FlattenSeq(q) = f[Len(q)]
  BY FlattenIs
<1>4. PICK g : Flat(r, g) /\ FlattenSeq(r) = g[Len(r)]
  BY <1>1, FlattenIs
<1>5. g[n + 1] = g[n] \o x
  <2>1. n + 1 \in 1 .. (n + 1) /\ n + 1 - 1 = n
    BY <1>1
  <2> QED
    BY <1>1, <1>2, <1>4, <2>1, FlatStep
<1>6. f[n] = g[n]
  <2> HIDE DEF n
  <2>1. n <= n + 1 /\ n + 1 \in Nat /\ n <= n
    BY <1>1
  <2>2. Agree(q, r, n)
    BY <1>2 DEF Agree
  <2>3. n = Len(q)
    BY DEF n
  <2> QED
    <3>1. n \in Nat /\ n <= Len(q) /\ n <= Len(r) /\ Len(q) \in Nat /\ Len(r) \in Nat
      BY <1>1, <1>2, <2>1, <2>3
    <3>2. Flat(q, f) /\ Flat(r, g)
      BY <1>3, <1>4
    <3> QED
      BY <2>2, <3>1, <3>2, FlatSame
<1> QED
  BY <1>2, <1>3, <1>4, <1>5, <1>6 DEF r, n

LEMMA FlattenOne ==
  ASSUME NEW S, NEW x \in Seq(S)
  PROVE  FlattenSeq(<<x>>) = x
<1>1. <<x>> = Append(<<>>, x) /\ <<>> \in Seq(Seq(S)) /\ <<>> \o x = x
  OBVIOUS
<1> QED
  BY <1>1, FlattenAppend, FlattenEmpty

LEMMA FlattenConcat ==
  ASSUME NEW S, NEW p \in Seq(Seq(S)), NEW q \in Seq(Seq(S))
  PROVE  FlattenSeq(p \o q) = FlattenSeq(p) \o FlattenSeq(q)
<1> DEFINE Q == Seq(Seq(S))
           Claim(r) == FlattenSeq(p \o r) = FlattenSeq(p) \o FlattenSeq(r)
           T == {k \in Nat : \A r \in Q : Len(r) = k => Claim(r)}
<1>0. FlattenSeq(p) \in Seq(S)
  BY FlattenType
<1>1. 0 \in T
  <2> SUFFICES ASSUME NEW r \in Q, Len(r) = 0 PROVE Claim(r)
    OBVIOUS
  <2>1. r = <<>> /\ p \o r = p
    OBVIOUS
  <2> QED
    BY <1>0, <2>1, FlattenEmpty
<1>2. ASSUME NEW k \in Nat, k \in T PROVE k + 1 \in T
  <2> SUFFICES ASSUME NEW r \in Q, Len(r) = k + 1 PROVE Claim(r)
    OBVIOUS
  <2> DEFINE h == SubSeq(r, 1, k)
             x == r[k + 1]
  <2>1. h \in Q /\ Len(h) = k /\ x \in Seq(S)
    OBVIOUS
  <2>2. r = Append(h, x)
    OBVIOUS
  <2>3. p \o r = Append(p \o h, x) /\ p \o h \in Q
    <3>1. \A u \in Q, v \in Q, y \in Seq(S) : v = Append(u, y) => p \o v = Append(p \o u, y)
      <4> SUFFICES ASSUME NEW u \in Q, NEW y \in Seq(S) PROVE p \o Append(u, y) = Append(p \o u, y)
        OBVIOUS
      <4> QED
        BY AppendProperties, ConcatProperties, SMTT(30)
    <3> HIDE DEF h, x
    <3> QED
      BY <2>1, <2>2, <3>1
  <2> HIDE DEF h, x
  <2>4. FlattenSeq(p \o h) = FlattenSeq(p) \o FlattenSeq(h)
    BY <1>2, <2>1
  <2>5. FlattenSeq(p \o r) = FlattenSeq(p \o h) \o x
    BY <2>1, <2>3, FlattenAppend
  <2>6. FlattenSeq(r) = FlattenSeq(h) \o x /\ FlattenSeq(h) \in Seq(S)
    BY <2>1, <2>2, FlattenAppend, FlattenType
  <2>7. (FlattenSeq(p) \o FlattenSeq(h)) \o x = FlattenSeq(p) \o (FlattenSeq(h) \o x)
    BY <1>0, <2>1, <2>6, SMTT(30)
  <2> QED
    BY <2>4, <2>5, <2>6, <2>7
<1>3. Len(q) \in T
  <2> HIDE DEF T
  <2>1. Nat \subseteq T
    BY <1>1, <1>2, Climb
  <2> QED
    BY <2>1
<1> QED
  BY <1>3

LEMMA SeqCut ==
  ASSUME NEW T, NEW q \in Seq(T), NEW k \in 0 .. Len(q)
  PROVE  /\ SubSeq(q, 1, k) \in Seq(T) /\ Len(SubSeq(q, 1, k)) = k
         /\ SubSeq(q, k + 1, Len(q)) \in Seq(T)
         /\ Len(SubSeq(q, k + 1, Len(q))) = Len(q) - k
         /\ q = SubSeq(q, 1, k) \o SubSeq(q, k + 1, Len(q))
<1>1. SubSeq(q, 1, k) \in Seq(T) /\ Len(SubSeq(q, 1, k)) = k
  OBVIOUS
<1>2. SubSeq(q, k + 1, Len(q)) \in Seq(T) /\ Len(SubSeq(q, k + 1, Len(q))) = Len(q) - k
  OBVIOUS
<1>3. 1 \in 1 .. (Len(q) + 1) /\ k \in (1 - 1) .. Len(q) /\ Len(q) \in k .. Len(q)
  OBVIOUS
<1> QED
  BY <1>1, <1>2, <1>3, ConcatAdjacentSubSeq, SubSeqFull

\* A cut between two parts.
LEMMA FlattenCut ==
  ASSUME NEW S, NEW q \in Seq(Seq(S)), NEW k \in 0 .. Len(q)
  PROVE  FlattenSeq(q) = FlattenSeq(SubSeq(q, 1, k)) \o FlattenSeq(SubSeq(q, k + 1, Len(q)))
<1> DEFINE a == SubSeq(q, 1, k)
           b == SubSeq(q, k + 1, Len(q))
<1>1. a \in Seq(Seq(S)) /\ b \in Seq(Seq(S)) /\ q = a \o b
  <2> DEFINE T == Seq(S)
  <2> HIDE DEF T
  <2>1. q \in Seq(T)
    BY DEF T
  <2>2. a \in Seq(T) /\ b \in Seq(T) /\ q = a \o b
    BY <2>1, SeqCut
  <2> QED
    BY <2>2 DEF T
<1> HIDE DEF a, b
<1>2. FlattenSeq(a \o b) = FlattenSeq(a) \o FlattenSeq(b)
  BY <1>1, FlattenConcat
<1> QED
  BY <1>1, <1>2 DEF a, b

\* The first part and the others.
LEMMA FlattenFirst ==
  ASSUME NEW S, NEW q \in Seq(Seq(S)), q # <<>>
  PROVE  FlattenSeq(q) = q[1] \o FlattenSeq(SubSeq(q, 2, Len(q)))
<1> DEFINE a == SubSeq(q, 1, 1)
<1>1. 1 \in 0 .. Len(q) /\ q[1] \in Seq(S)
  OBVIOUS
<1>2. a = <<q[1]>>
  <2>1. a \in Seq(Seq(S)) /\ Len(a) = 1 /\ a[1] = q[1]
    BY <1>1
  <2> HIDE DEF a
  <2> QED
    BY <2>1
<1>3. FlattenSeq(q) = FlattenSeq(a) \o FlattenSeq(SubSeq(q, 1 + 1, Len(q)))
  BY <1>1, FlattenCut
<1>4. FlattenSeq(a) = q[1]
  BY <1>1, <1>2, FlattenOne
<1> HIDE DEF a
<1> QED
  BY <1>3, <1>4

-----------------------------------------------------------------------------
(***************************************************************************)
(* Cuts of sequences, and the key streams.                                 *)
(***************************************************************************)
Item == Nat \X Int \X Int

\* What stands after place a and up to place b.
LEMMA SliceIs ==
  ASSUME NEW T, NEW q \in Seq(T), NEW a \in Nat, NEW b \in Nat, a <= b, b <= Len(q)
  PROVE  /\ SubSeq(q, a + 1, b) \in Seq(T)
         /\ Len(SubSeq(q, a + 1, b)) = b - a
         /\ \A i \in 1 .. (b - a) : SubSeq(q, a + 1, b)[i] = q[a + i]
<1>1. a + 1 \in Int /\ b \in Int /\ \A i \in (a + 1) .. b : q[i] \in T
  OBVIOUS
<1>2. /\ SubSeq(q, a + 1, b) \in Seq(T)
      /\ Len(SubSeq(q, a + 1, b)) = IF a + 1 <= b THEN b - (a + 1) + 1 ELSE 0
      /\ \A i \in 1 .. (b - (a + 1) + 1) : SubSeq(q, a + 1, b)[i] = q[(a + 1) + i - 1]
  BY <1>1, SubSeqProperties
<1>3. \A i \in Int : (a + 1) + i - 1 = a + i
  OBVIOUS
<1>4. b - (a + 1) + 1 = b - a /\ (a + 1 <= b \/ b - a = 0)
  OBVIOUS
<1>5. Len(SubSeq(q, a + 1, b)) = b - a
  BY <1>2, <1>4
<1>6. ASSUME NEW i \in 1 .. (b - a) PROVE SubSeq(q, a + 1, b)[i] = q[a + i]
  <2>1. i \in 1 .. (b - (a + 1) + 1) /\ i \in Int
    BY <1>4
  <2>2. SubSeq(q, a + 1, b)[i] = q[(a + 1) + i - 1]
    BY <1>2, <2>1
  <2> QED
    BY <1>3, <2>1, <2>2
<1> QED
  BY <1>2, <1>5, <1>6

LEMMA SliceEmpty ==
  ASSUME NEW T, NEW q \in Seq(T), NEW a \in Nat
  PROVE  SubSeq(q, a + 1, a) = <<>>
BY SubSeqEmpty

LEMMA SliceJoin ==
  ASSUME NEW T, NEW q \in Seq(T), NEW a \in Nat, NEW b \in Nat, NEW c \in Nat,
         a <= b, b <= c, c <= Len(q)
  PROVE  SubSeq(q, a + 1, b) \o SubSeq(q, b + 1, c) = SubSeq(q, a + 1, c)
<1>1. a + 1 \in 1 .. (Len(q) + 1) /\ b \in ((a + 1) - 1) .. Len(q) /\ c \in b .. Len(q)
  OBVIOUS
<1> QED
  BY <1>1, ConcatAdjacentSubSeq

LEMMA SliceOfSlice ==
  ASSUME NEW T, NEW q \in Seq(T), NEW a \in Nat, NEW b \in Nat, a <= b, b <= Len(q),
         NEW i \in Nat, NEW j \in Nat, i <= j, j <= b - a
  PROVE  SubSeq(SubSeq(q, a + 1, b), i + 1, j) = SubSeq(q, a + i + 1, a + j)
<1> DEFINE u == SubSeq(q, a + 1, b)
<1>1. u \in Seq(T) /\ Len(u) = b - a /\ \A k \in 1 .. (b - a) : u[k] = q[a + k]
  BY SliceIs
<1> HIDE DEF u
<1> DEFINE v == SubSeq(u, i + 1, j)
           w == SubSeq(q, a + i + 1, a + j)
<1>2. v \in Seq(T) /\ Len(v) = j - i /\ \A k \in 1 .. (j - i) : v[k] = u[i + k]
  BY <1>1, SliceIs
<1>3. w \in Seq(T) /\ Len(w) = j - i /\ \A k \in 1 .. (j - i) : w[k] = q[a + i + k]
  <2>1. a + i \in Nat /\ a + j \in Nat /\ a + i <= a + j /\ a + j <= Len(q) /\ (a + j) - (a + i) = j - i
    OBVIOUS
  <2> HIDE DEF w
  <2>2. PICK c \in Nat, d \in Nat : c = a + i /\ d = a + j
    BY <2>1
  <2>3. w = SubSeq(q, c + 1, d)
    BY <2>2 DEF w
  <2>4. SubSeq(q, c + 1, d) \in Seq(T) /\ Len(SubSeq(q, c + 1, d)) = d - c
        /\ \A k \in 1 .. (d - c) : SubSeq(q, c + 1, d)[k] = q[c + k]
    BY <2>1, <2>2, SliceIs
  <2> QED
    BY <2>1, <2>2, <2>3, <2>4
<1> HIDE DEF v, w
<1>4. \A k \in 1 .. (j - i) : v[k] = w[k]
  <2> SUFFICES ASSUME NEW k \in 1 .. (j - i) PROVE v[k] = w[k]
    OBVIOUS
  <2>1. i + k \in 1 .. (b - a) /\ a + (i + k) = a + i + k
    OBVIOUS
  <2> QED
    BY <1>1, <1>2, <1>3, <2>1
<1>5. v = w
  BY <1>2, <1>3, <1>4, SeqEqual
<1> QED
  BY <1>5 DEF u, v, w

LEMMA DropIs ==
  ASSUME NEW T, NEW q \in Seq(T), NEW k \in Nat, k <= Len(q)
  PROVE  /\ Drop(q, k) \in Seq(T) /\ Len(Drop(q, k)) = Len(q) - k
         /\ \A i \in 1 .. (Len(q) - k) : Drop(q, k)[i] = q[k + i]
BY SliceIs DEF Drop

LEMMA DropNone ==
  ASSUME NEW T, NEW q \in Seq(T)
  PROVE  Drop(q, 0) = q /\ Drop(q, Len(q)) = <<>>
<1>1. Drop(q, 0) = q
  BY SubSeqFull DEF Drop
<1>2. Drop(q, Len(q)) = <<>>
  BY SubSeqEmpty DEF Drop
<1> QED
  BY <1>1, <1>2

LEMMA DropSlice ==
  ASSUME NEW T, NEW q \in Seq(T), NEW a \in Nat, NEW b \in Nat, a <= b, b <= Len(q),
         NEW k \in Nat, k <= b - a
  PROVE  /\ Drop(SubSeq(q, a + 1, b), k) = SubSeq(q, a + k + 1, b)
         /\ SubSeq(SubSeq(q, a + 1, b), 1, k) = SubSeq(q, a + 1, a + k)
<1>1. Len(SubSeq(q, a + 1, b)) = b - a /\ b - a \in Nat /\ a + (b - a) = b
  BY SliceIs
<1>2. SubSeq(SubSeq(q, a + 1, b), k + 1, b - a) = SubSeq(q, a + k + 1, a + (b - a))
  BY <1>1, SliceOfSlice
<1>3. SubSeq(SubSeq(q, a + 1, b), 0 + 1, k) = SubSeq(q, a + 0 + 1, a + k)
  BY SliceOfSlice
<1> QED
  BY <1>1, <1>2, <1>3 DEF Drop

LEMMA DropDrop ==
  ASSUME NEW T, NEW q \in Seq(T), NEW j \in Nat, NEW k \in Nat, j + k <= Len(q)
  PROVE  Drop(Drop(q, j), k) = Drop(q, j + k)
BY DropSlice DEF Drop

\* Cuts of two sequences one after the other.
LEMMA CutConcat ==
  ASSUME NEW T, NEW u \in Seq(T), NEW v \in Seq(T), NEW k \in Nat, k <= Len(u)
  PROVE  /\ SubSeq(u \o v, 1, k) = SubSeq(u, 1, k)
         /\ Drop(u \o v, k) = Drop(u, k) \o v
<1>1. u \o v \in Seq(T) /\ Len(u \o v) = Len(u) + Len(v)
      /\ \A i \in 1 .. (Len(u) + Len(v)) : (u \o v)[i] = IF i <= Len(u) THEN u[i] ELSE v[i - Len(u)]
  BY ConcatProperties
<1>2. Len(u) \in Nat /\ Len(v) \in Nat
  OBVIOUS
<1> DEFINE w == u \o v
<1> HIDE DEF w
<1>3. w \in Seq(T) /\ Len(w) = Len(u) + Len(v)
      /\ \A i \in 1 .. (Len(u) + Len(v)) : w[i] = IF i <= Len(u) THEN u[i] ELSE v[i - Len(u)]
  BY <1>1 DEF w
<1>4. SubSeq(w, 1, k) = SubSeq(u, 1, k)
  <2> DEFINE x == SubSeq(w, 0 + 1, k)
             y == SubSeq(u, 0 + 1, k)
  <2>1. x \in Seq(T) /\ Len(x) = k - 0 /\ \A i \in 1 .. (k - 0) : x[i] = w[0 + i]
    BY <1>2, <1>3, SliceIs
  <2>2. y \in Seq(T) /\ Len(y) = k - 0 /\ \A i \in 1 .. (k - 0) : y[i] = u[0 + i]
    BY <1>2, SliceIs
  <2> HIDE DEF x, y
  <2>3. Len(x) = Len(y) /\ \A i \in 1 .. Len(x) : x[i] = y[i]
    BY <1>2, <1>3, <2>1, <2>2
  <2>4. x = y
    BY <2>1, <2>2, <2>3, SeqEqual
  <2> QED
    BY <2>4 DEF x, y
<1>5. Drop(w, k) = Drop(u, k) \o v
  <2> DEFINE x == Drop(w, k)
             d == Drop(u, k)
  <2>1. x \in Seq(T) /\ Len(x) = Len(w) - k /\ \A i \in 1 .. (Len(w) - k) : x[i] = w[k + i]
    <3>1. k <= Len(w)
      BY <1>2, <1>3
    <3> QED
      BY <1>3, <3>1, DropIs
  <2>2. d \in Seq(T) /\ Len(d) = Len(u) - k /\ \A i \in 1 .. (Len(u) - k) : d[i] = u[k + i]
    BY <1>2, DropIs
  <2> HIDE DEF x, d
  <2> DEFINE y == d \o v
  <2>3. y \in Seq(T) /\ Len(y) = Len(d) + Len(v)
        /\ \A i \in 1 .. (Len(d) + Len(v)) : y[i] = IF i <= Len(d) THEN d[i] ELSE v[i - Len(d)]
    BY <2>2, ConcatProperties
  <2> HIDE DEF y
  <2>4. Len(x) = Len(y)
    BY <1>2, <1>3, <2>1, <2>2, <2>3
  <2>5. \A i \in 1 .. Len(x) : x[i] = y[i]
    <3> SUFFICES ASSUME NEW i \in 1 .. Len(x) PROVE x[i] = y[i]
      OBVIOUS
    <3>1. i \in 1 .. (Len(u) + Len(v) - k) /\ k + i \in 1 .. (Len(u) + Len(v))
      BY <1>2, <1>3, <2>1
    <3>2. CASE k + i <= Len(u)
      <4>1. i \in 1 .. Len(d) /\ i <= Len(d) /\ d[i] = u[k + i]
        BY <1>2, <2>2, <3>1, <3>2
      <4>2. y[i] = d[i]
        BY <1>2, <2>2, <2>3, <4>1, SMTT(30)
      <4>3. x[i] = u[k + i]
        BY <1>2, <1>3, <2>1, <3>1, <3>2
      <4> QED
        BY <4>1, <4>2, <4>3
    <3>3. CASE Len(u) < k + i
      <4>1. (k + i) - Len(u) = i - Len(d) /\ ~ (i <= Len(d))
        BY <1>2, <2>2, <3>3
      <4>2. x[i] = v[(k + i) - Len(u)]
        BY <1>2, <1>3, <2>1, <3>1, <3>3
      <4>3. y[i] = v[i - Len(d)]
        BY <1>2, <2>2, <2>3, <3>1, <4>1
      <4> QED
        BY <4>1, <4>2, <4>3
    <3> QED
      BY <1>2, <3>2, <3>3
  <2>6. x = y
    BY <2>1, <2>3, <2>4, <2>5, SeqEqual
  <2> QED
    BY <2>6 DEF x, y, d
<1> QED
  BY <1>4, <1>5 DEF w

LEMMA DropConcat ==
  ASSUME NEW T, NEW u \in Seq(T), NEW v \in Seq(T), NEW k \in Nat, k <= Len(v)
  PROVE  Drop(u \o v, Len(u) + k) = Drop(v, k)
<1>1. Len(u) \in Nat /\ Len(u) <= Len(u) /\ u \o v \in Seq(T) /\ Len(u \o v) = Len(u) + Len(v)
  OBVIOUS
<1>2. Drop(u \o v, Len(u)) = Drop(u, Len(u)) \o v
  BY <1>1, CutConcat
<1>3. Drop(u \o v, Len(u)) = v
  BY <1>2, DropNone
<1>4. Drop(Drop(u \o v, Len(u)), k) = Drop(u \o v, Len(u) + k)
  <2> DEFINE w == u \o v
  <2>1. w \in Seq(T) /\ Len(u) \in Nat /\ Len(u) + k <= Len(w)
    BY <1>1
  <2> HIDE DEF w
  <2>2. Drop(Drop(w, Len(u)), k) = Drop(w, Len(u) + k)
    BY <2>1, DropDrop
  <2> QED
    BY <2>2 DEF w
<1> QED
  BY <1>3, <1>4

-----------------------------------------------------------------------------
(***************************************************************************)
(* Key streams.                                                            *)
(***************************************************************************)
LEMMA EncipherIs ==
  ASSUME NEW P \in Seq(Nat), NEW key \in Int, NEW a \in Int
  PROVE  /\ Encipher(key, a, P) \in Seq(Item)
         /\ Len(Encipher(key, a, P)) = Len(P)
         /\ \A i \in 1 .. Len(P) : Encipher(key, a, P)[i] = <<P[i], a + i - 1, key>>
<1>1. DOMAIN P = 1 .. Len(P) /\ Len(P) \in Nat /\ \A i \in 1 .. Len(P) : P[i] \in Nat
  OBVIOUS
<1>2. \A i \in 1 .. Len(P) : <<P[i], a + i - 1, key>> \in Item
  BY <1>1 DEF Item
<1> QED
  BY <1>1, <1>2 DEF Encipher

LEMMA EncipherConcat ==
  ASSUME NEW P \in Seq(Nat), NEW Q \in Seq(Nat), NEW key \in Int, NEW a \in Nat
  PROVE  Encipher(key, a, P \o Q) = Encipher(key, a, P) \o Encipher(key, a + Len(P), Q)
<1> DEFINE R == P \o Q
<1>1. R \in Seq(Nat) /\ Len(R) = Len(P) + Len(Q) /\ Len(P) \in Nat /\ Len(Q) \in Nat
      /\ \A i \in 1 .. (Len(P) + Len(Q)) : R[i] = IF i <= Len(P) THEN P[i] ELSE Q[i - Len(P)]
  BY ConcatProperties
<1> HIDE DEF R
<1> DEFINE x == Encipher(key, a, R)
           y == Encipher(key, a, P)
           z == Encipher(key, a + Len(P), Q)
<1>2. x \in Seq(Item) /\ Len(x) = Len(R) /\ \A i \in 1 .. Len(R) : x[i] = <<R[i], a + i - 1, key>>
  <2>1. R \in Seq(Nat) /\ a \in Int
    BY <1>1
  <2> QED
    BY <2>1, EncipherIs
<1>3. y \in Seq(Item) /\ Len(y) = Len(P) /\ \A i \in 1 .. Len(P) : y[i] = <<P[i], a + i - 1, key>>
  BY EncipherIs
<1>4. z \in Seq(Item) /\ Len(z) = Len(Q)
      /\ \A i \in 1 .. Len(Q) : z[i] = <<Q[i], (a + Len(P)) + i - 1, key>>
  BY <1>1, EncipherIs, SMTT(30)
<1> HIDE DEF x, y, z
<1> DEFINE w == y \o z
<1>5. w \in Seq(Item) /\ Len(w) = Len(y) + Len(z)
      /\ \A i \in 1 .. (Len(y) + Len(z)) : w[i] = IF i <= Len(y) THEN y[i] ELSE z[i - Len(y)]
  <2> DEFINE I == Item
  <2>1. y \in Seq(I) /\ z \in Seq(I)
    BY <1>3, <1>4
  <2> HIDE DEF I
  <2>2. w \in Seq(I) /\ Len(w) = Len(y) + Len(z)
      /\ \A i \in 1 .. (Len(y) + Len(z)) : w[i] = IF i <= Len(y) THEN y[i] ELSE z[i - Len(y)]
    BY <2>1, ConcatProperties
  <2> QED
    BY <2>2 DEF I
<1> HIDE DEF w
<1>6. \A i \in 1 .. Len(x) : x[i] = w[i]
  <2> SUFFICES ASSUME NEW i \in 1 .. Len(x) PROVE x[i] = w[i]
    OBVIOUS
  <2>0. i \in 1 .. (Len(P) + Len(Q)) /\ x[i] = <<R[i], a + i - 1, key>>
    BY <1>1, <1>2
  <2>1. CASE i <= Len(P)
    <3>1. i \in 1 .. Len(P) /\ w[i] = y[i] /\ R[i] = P[i]
      BY <1>1, <1>3, <1>4, <1>5, <2>0, <2>1
    <3> QED
      BY <1>3, <2>0, <3>1
  <2>2. CASE Len(P) < i
    <3>1. i - Len(P) \in 1 .. Len(Q) /\ (a + Len(P)) + (i - Len(P)) - 1 = a + i - 1
      BY <1>1, <2>0, <2>2
    <3>2. w[i] = z[i - Len(P)]
      <4>1. ~ (i <= Len(y)) /\ i \in 1 .. (Len(y) + Len(z))
        BY <1>1, <1>3, <1>4, <2>0, <2>2
      <4>2. w[i] = z[i - Len(y)]
        BY <1>5, <4>1
      <4> QED
        BY <1>3, <4>2
    <3>3. R[i] = Q[i - Len(P)]
      <4>1. ~ (i <= Len(P))
        BY <1>1, <2>0, <2>2
      <4> QED
        BY <1>1, <2>0, <4>1
    <3>4. z[i - Len(P)] = <<Q[i - Len(P)], (a + Len(P)) + (i - Len(P)) - 1, key>>
      BY <1>4, <3>1
    <3> QED
      BY <2>0, <3>1, <3>2, <3>3, <3>4
  <2>3. i <= Len(P) \/ Len(P) < i
    <3>1. i \in Int /\ Len(P) \in Int
      BY <1>1, <2>0
    <3> QED
      BY <3>1
  <2> QED
    BY <2>1, <2>2, <2>3
<1>7. x = w
  BY <1>1, <1>2, <1>3, <1>4, <1>5, <1>6, SeqEqual
<1> QED
  BY <1>7 DEF x, w, y, z, R

\* Who reads with the key of the writer at the writer's place gets what was written.
LEMMA DecipherEncipher ==
  ASSUME NEW P \in Seq(Nat), NEW key \in Int, NEW a \in Int
  PROVE  Decipher(key, a, Encipher(key, a, P)) = P
<1> DEFINE x == Encipher(key, a, P)
<1>1. x \in Seq(Item) /\ Len(x) = Len(P) /\ \A i \in 1 .. Len(P) : x[i] = <<P[i], a + i - 1, key>>
  BY EncipherIs
<1> HIDE DEF x
<1>2. Decipher(key, a, x) = [i \in 1 .. Len(P) |-> P[i]]
  <2>1. DOMAIN x = 1 .. Len(P)
    BY <1>1
  <2>2. \A i \in 1 .. Len(P) : x[i][3] = key /\ x[i][2] = a + i - 1 /\ x[i][1] = P[i]
    BY <1>1
  <2> QED
    BY <2>1, <2>2 DEF Decipher
<1>3. [i \in 1 .. Len(P) |-> P[i]] = P
  OBVIOUS
<1> QED
  BY <1>2, <1>3 DEF x

\* A cut of an enciphered stream is the cut enciphered at its place.
LEMMA EncipherSlice ==
  ASSUME NEW P \in Seq(Nat), NEW key \in Int, NEW a \in Nat, NEW b \in Nat, a <= b, b <= Len(P)
  PROVE  SubSeq(Encipher(key, 0, P), a + 1, b) = Encipher(key, a, SubSeq(P, a + 1, b))
<1> DEFINE x == Encipher(key, 0, P)
           s == SubSeq(P, a + 1, b)
<1>1. x \in Seq(Item) /\ Len(x) = Len(P) /\ \A i \in 1 .. Len(P) : x[i] = <<P[i], 0 + i - 1, key>>
  BY EncipherIs
<1>2. s \in Seq(Nat) /\ Len(s) = b - a /\ \A i \in 1 .. (b - a) : s[i] = P[a + i]
  BY SliceIs
<1> HIDE DEF x, s
<1> DEFINE y == SubSeq(x, a + 1, b)
           z == Encipher(key, a, s)
<1>3. y \in Seq(Item) /\ Len(y) = b - a /\ \A i \in 1 .. (b - a) : y[i] = x[a + i]
  BY <1>1, SliceIs
<1>4. z \in Seq(Item) /\ Len(z) = b - a /\ \A i \in 1 .. (b - a) : z[i] = <<s[i], a + i - 1, key>>
  <2>1. z \in Seq(Item) /\ Len(z) = Len(s) /\ \A i \in 1 .. Len(s) : z[i] = <<s[i], a + i - 1, key>>
    <3>1. a \in Int /\ s \in Seq(Nat)
      BY <1>2
    <3> QED
      BY <3>1, EncipherIs
  <2> HIDE DEF z
  <2> QED
    BY <1>2, <2>1
<1> HIDE DEF y, z
<1>5. \A i \in 1 .. Len(y) : y[i] = z[i]
  <2> SUFFICES ASSUME NEW i \in 1 .. (b - a) PROVE y[i] = z[i]
    BY <1>3
  <2>1. a + i \in 1 .. Len(P) /\ 0 + (a + i) - 1 = a + i - 1
    OBVIOUS
  <2>2. x[a + i] = <<P[a + i], 0 + (a + i) - 1, key>>
    BY <1>1, <2>1
  <2> QED
    BY <1>2, <1>3, <1>4, <2>1, <2>2
<1>6. y = z
  BY <1>3, <1>4, <1>5, SeqEqual
<1> QED
  BY <1>6 DEF x, y, z, s

LEMMA MinOfTwo ==
  ASSUME NEW a \in Int, NEW b \in Int
  PROVE  Min({a, b}) \in {a, b} /\ Min({a, b}) <= a /\ Min({a, b}) <= b
<1> DEFINE x == CHOOSE v \in {a, b} : \A y \in {a, b} : v <= y
<1>1. \E v \in {a, b} : \A y \in {a, b} : v <= y
  OBVIOUS
<1>2. x \in {a, b} /\ \A y \in {a, b} : x <= y
  BY <1>1
<1>3. Min({a, b}) = x
  BY DEF Min
<1> HIDE DEF x
<1> QED
  BY <1>2, <1>3

LEMMA MinOfThree ==
  ASSUME NEW a \in Int, NEW b \in Int, NEW c \in Int
  PROVE  Min({a, b, c}) \in {a, b, c} /\ Min({a, b, c}) <= a /\ Min({a, b, c}) <= b /\ Min({a, b, c}) <= c
<1> DEFINE x == CHOOSE v \in {a, b, c} : \A y \in {a, b, c} : v <= y
<1>1. \E v \in {a, b, c} : \A y \in {a, b, c} : v <= y
  <2>1. (a <= b /\ a <= c) \/ (b <= a /\ b <= c) \/ (c <= a /\ c <= b)
    OBVIOUS
  <2> QED
    BY <2>1
<1>2. x \in {a, b, c} /\ \A y \in {a, b, c} : x <= y
  BY <1>1
<1>3. Min({a, b, c}) = x
  BY DEF Min
<1> HIDE DEF x
<1> QED
  BY <1>2, <1>3

-----------------------------------------------------------------------------
(***************************************************************************)
(* Change-cipher records.                                                  *)
(***************************************************************************)
\* A change-cipher record that is whole stands at place i + 1.
Skips(w, i) ==
  /\ i < Len(w)
  /\ w[i + 1] = Record(CCS, w[i + 1][1])
  /\ i + 1 + w[i + 1][1] <= Len(w)

SkipsTo(w, f) ==
  \A i \in 0 .. Len(w) : f[i] = IF Skips(w, i) THEN f[i + 1 + w[i + 1][1]] ELSE i

LEMMA CcsIs ==
  ASSUME NEW w \in Seq(Item)
  PROVE  \E f \in [0 .. Len(w) -> 0 .. Len(w)] : SkipsTo(w, f) /\ CcsLength(w) = f[0]
<1> DEFINE n == Len(w)
           J == [i \in 0 .. n |-> IF Skips(w, i) THEN i + 1 + w[i + 1][1] ELSE i]
           K == [i \in 0 .. n |-> [x \in 0 .. n |-> x]]
           B == [i \in 0 .. n |-> i]
           F(e) == [i \in 0 .. n |-> IF Skips(w, i) THEN e[i + 1 + w[i + 1][1]] ELSE i]
           e == CHOOSE g : g = F(g)
<1>1. n \in Nat
  OBVIOUS
<1>2. PICK f \in [0 .. n -> 0 .. n] : Backwards(f, n, J, K, B)
  <2>1. K \in [0 .. n -> [0 .. n -> 0 .. n]] /\ B \in [0 .. n -> 0 .. n]
    BY <1>1
  <2> DEFINE V == 0 .. n
  <2>2. K \in [0 .. n -> [V -> V]] /\ B \in [0 .. n -> V]
    BY <2>1
  <2> HIDE DEF J, K, B, n, V
  <2>3. \E f \in [0 .. n -> V] : Backwards(f, n, J, K, B)
    BY <1>1, <2>2, BackwardsExists
  <2> QED
    BY <2>3 DEF V
<1>3. ASSUME NEW i \in 0 .. n
      PROVE  f[i] = IF Skips(w, i) THEN f[i + 1 + w[i + 1][1]] ELSE i
  <2>1. f[i] = IF J[i] \in (i + 1) .. n THEN K[i][f[J[i]]] ELSE B[i]
    BY <1>2 DEF Backwards
  <2>2. CASE Skips(w, i)
    <3>1. w[i + 1][1] \in Nat
      <4>1. i + 1 \in 1 .. n
        BY <1>1, <2>2 DEF Skips
      <4>2. w[i + 1] \in Item
        BY <4>1
      <4> QED
        BY <4>2 DEF Item
    <3>2. J[i] = i + 1 + w[i + 1][1] /\ J[i] \in (i + 1) .. n
      BY <1>1, <2>2, <3>1 DEF Skips
    <3>3. J[i] \in 0 .. n
      BY <1>1, <3>2
    <3>4. f[J[i]] \in 0 .. n
      BY <3>3
    <3>5. K[i][f[J[i]]] = f[J[i]]
      BY <3>4
    <3> QED
      BY <2>1, <2>2, <3>2, <3>5
  <2>3. CASE ~ Skips(w, i)
    <3>1. J[i] = i /\ B[i] = i
      BY <2>3
    <3> QED
      BY <1>1, <2>1, <2>3, <3>1
  <2> QED
    BY <2>2, <2>3
<1>4. f = F(f)
  BY <1>3
<1>5. e = F(e)
  <2> HIDE DEF F
  <2> QED
    BY <1>4
<1>6. CcsLength(w) = e[0]
  BY DEF CcsLength, Skips
<1>7. \A i \in 0 .. n : e[i] = IF Skips(w, i) THEN e[i + 1 + w[i + 1][1]] ELSE i
  <2> HIDE DEF e
  <2> QED
    BY <1>5
<1> HIDE DEF e
<1> DEFINE S == {i \in 0 .. n : e[i] = f[i]}
<1>8. ASSUME NEW i \in 0 .. n, \A j \in (i + 1) .. n : j \in S PROVE i \in S
  <2>1. CASE Skips(w, i)
    <3>1. w[i + 1][1] \in Nat
      <4>1. i + 1 \in 1 .. n
        BY <1>1, <2>1 DEF Skips
      <4>2. w[i + 1] \in Item
        BY <4>1
      <4> QED
        BY <4>2 DEF Item
    <3>2. i + 1 + w[i + 1][1] \in (i + 1) .. n
      BY <1>1, <2>1, <3>1 DEF Skips
    <3> QED
      BY <1>3, <1>7, <1>8, <2>1, <3>2
  <2>2. CASE ~ Skips(w, i)
    BY <1>3, <1>7, <2>2
  <2> QED
    BY <2>1, <2>2
<1>9. 0 \in S
  <2> HIDE DEF S, n
  <2>1. 0 .. n \subseteq S
    BY <1>1, <1>8, Descend
  <2> QED
    BY <1>1, <2>1
<1> QED
  BY <1>3, <1>6, <1>9 DEF SkipsTo

LEMMA ConcatFirst ==
  ASSUME NEW T, NEW u \in Seq(T), NEW v \in Seq(T)
  PROVE  /\ u \o v \in Seq(T) /\ Len(u \o v) = Len(u) + Len(v) /\ Len(u) \in Nat /\ Len(v) \in Nat
         /\ \A i \in 1 .. Len(u) : (u \o v)[i] = u[i]
         /\ \A i \in 1 .. Len(v) : (u \o v)[Len(u) + i] = v[i]
<1>1. u \o v \in Seq(T) /\ Len(u \o v) = Len(u) + Len(v) /\ Len(u) \in Nat /\ Len(v) \in Nat
  OBVIOUS
<1>2. \A i \in 1 .. Len(u) : (u \o v)[i] = u[i]
  OBVIOUS
<1>3. ASSUME NEW i \in 1 .. Len(v) PROVE (u \o v)[Len(u) + i] = v[i]
  <2>1. Len(u) + i \in 1 .. (Len(u) + Len(v)) /\ ~ (Len(u) + i <= Len(u)) /\ (Len(u) + i) - Len(u) = i
    BY <1>1
  <2> QED
    BY <2>1, ConcatProperties
<1> QED
  BY <1>1, <1>2, <1>3

LEMMA ItemAt ==
  ASSUME NEW w \in Seq(Item), NEW i \in 1 .. Len(w)
  PROVE  w[i] \in Item /\ w[i][1] \in Nat
<1>1. w[i] \in Item
  OBVIOUS
<1> QED
  BY <1>1 DEF Item

\* What stands before a wire changes no skip in it.
LEMMA SkipsShift ==
  ASSUME NEW u \in Seq(Item), NEW v \in Seq(Item), NEW f \in [0 .. Len(u \o v) -> 0 .. Len(u \o v)],
         NEW g \in [0 .. Len(v) -> 0 .. Len(v)],
         SkipsTo(u \o v, f), SkipsTo(v, g)
  PROVE  \A i \in 0 .. Len(v) : f[Len(u) + i] = Len(u) + g[i]
<1> DEFINE w == u \o v
           m == Len(u)
           n == Len(v)
           S == {i \in 0 .. n : f[m + i] = m + g[i]}
<1>1. w \in Seq(Item) /\ Len(w) = m + n /\ m \in Nat /\ n \in Nat
  OBVIOUS
<1>2. \A i \in 1 .. n : w[m + i] = v[i]
  <2> SUFFICES ASSUME NEW i \in 1 .. n PROVE w[m + i] = v[i]
    OBVIOUS
  <2>1. m + i \in 1 .. (Len(u) + Len(v)) /\ ~ (m + i <= Len(u)) /\ (m + i) - Len(u) = i
    BY <1>1
  <2> QED
    BY <2>1, ConcatProperties
<1>3. ASSUME NEW i \in 0 .. n, \A j \in (i + 1) .. n : j \in S PROVE i \in S
  <2>0. m + i \in 0 .. (m + n) /\ (m + i) + 1 = m + (i + 1)
    BY <1>1
  <2>1. f[m + i] = IF Skips(w, m + i) THEN f[(m + i) + 1 + w[(m + i) + 1][1]] ELSE m + i
    <3>1. m + i \in 0 .. Len(w)
      BY <1>1, <2>0
    <3> HIDE DEF m
    <3> QED
      BY <3>1 DEF SkipsTo
  <2>2. g[i] = IF Skips(v, i) THEN g[i + 1 + v[i + 1][1]] ELSE i
    BY DEF SkipsTo
  <2>3. i < n => w[(m + i) + 1] = v[i + 1]
    BY <1>1, <1>2, <2>0
  <2>4. Skips(w, m + i) <=> Skips(v, i)
    <3>1. CASE i < n
      <4>1. v[i + 1][1] \in Nat
        BY <1>1, <3>1, ItemAt
      <4>2. ((m + i) + 1 + v[i + 1][1] <= m + n) <=> (i + 1 + v[i + 1][1] <= n)
        BY <1>1, <4>1
      <4> HIDE DEF w, m, n
      <4>3. m + i < m + n
        BY <1>1, <3>1
      <4> QED
        BY <1>1, <2>3, <3>1, <4>2, <4>3 DEF Skips, n
    <3>2. CASE ~ (i < n)
      <4>1. ~ (m + i < Len(w))
        BY <1>1, <3>2
      <4> QED
        BY <3>2, <4>1 DEF Skips
    <3> QED
      BY <3>1, <3>2
  <2>5. CASE Skips(v, i)
    <3>1. i < n /\ v[i + 1][1] \in Nat
      <4>1. i < n
        BY <2>5 DEF Skips
      <4> QED
        BY <1>1, <4>1, ItemAt
    <3>2. i + 1 + v[i + 1][1] \in (i + 1) .. n
      BY <1>1, <2>5, <3>1 DEF Skips
    <3> DEFINE k == i + 1 + v[i + 1][1]
    <3>3. f[m + k] = m + g[k]
      BY <1>3, <3>2
    <3>4. (m + i) + 1 + w[(m + i) + 1][1] = m + k
      <4>1. w[(m + i) + 1][1] = v[i + 1][1]
        BY <2>3, <3>1
      <4>2. \A x \in Nat : (m + i) + 1 + x = m + (i + 1 + x)
        BY <1>1
      <4> HIDE DEF w, m
      <4> QED
        BY <3>1, <4>1, <4>2
    <3> QED
      BY <2>1, <2>2, <2>4, <2>5, <3>3, <3>4
  <2>6. CASE ~ Skips(v, i)
    BY <2>1, <2>2, <2>4, <2>6
  <2> QED
    BY <2>5, <2>6
<1>4. 0 .. n \subseteq S
  <2> HIDE DEF S, n
  <2> QED
    BY <1>1, <1>3, Descend
<1> QED
  BY <1>4

CcsRecord == <<Record(CCS, 1), <<1, 0, 0>>>>

LEMMA CcsRecordIs == CcsRecord \in Seq(Item) /\ Len(CcsRecord) = 2
<1>1. Record(CCS, 1) \in Item /\ <<1, 0, 0>> \in Item
  BY DEF Item, Record, CCS, Plain
<1> QED
  BY <1>1 DEF CcsRecord

\* Such a record is skipped, and what comes after it as if it were not there.
LEMMA CcsSkipped ==
  ASSUME NEW v \in Seq(Item)
  PROVE  AfterCcs(CcsRecord \o v) = AfterCcs(v)
<1> DEFINE u == CcsRecord
           w == u \o v
<1>1. u \in Seq(Item) /\ Len(u) = 2
  BY CcsRecordIs
<1>2. u[1] = Record(CCS, 1)
  BY DEF CcsRecord
<1>3. w \in Seq(Item) /\ Len(w) = 2 + Len(v) /\ Len(v) \in Nat /\ w[1] = u[1]
  <2> HIDE DEF u
  <2>1. 1 \in 1 .. Len(u) /\ u \in Seq(Item)
    BY <1>1
  <2>2. /\ u \o v \in Seq(Item) /\ Len(u \o v) = Len(u) + Len(v) /\ Len(v) \in Nat
        /\ \A i \in 1 .. Len(u) : (u \o v)[i] = u[i]
    BY <2>1, ConcatFirst
  <2> HIDE DEF w
  <2>3. w \in Seq(Item) /\ Len(w) = Len(u) + Len(v) /\ Len(v) \in Nat
        /\ \A i \in 1 .. Len(u) : w[i] = u[i]
    BY <2>2 DEF w
  <2> QED
    BY <1>1, <2>1, <2>3
<1> HIDE DEF u, w
<1>4. PICK f \in [0 .. Len(w) -> 0 .. Len(w)] : SkipsTo(w, f) /\ CcsLength(w) = f[0]
  BY <1>3, CcsIs
<1>5. PICK g \in [0 .. Len(v) -> 0 .. Len(v)] : SkipsTo(v, g) /\ CcsLength(v) = g[0]
  BY CcsIs
<1>6. \A i \in 0 .. Len(v) : f[Len(u) + i] = Len(u) + g[i]
  BY <1>1, <1>3, <1>4, <1>5, SkipsShift DEF w
<1>7. f[2] = 2 + g[0]
  <2>1. 0 \in 0 .. Len(v) /\ Len(u) + 0 = 2
    BY <1>1, <1>3
  <2> QED
    BY <1>1, <1>6, <2>1
<1>8. w[0 + 1][1] = 1 /\ Skips(w, 0)
  BY <1>2, <1>3 DEF Skips, Record
<1>9. f[0] = f[2]
  <2>1. 0 \in 0 .. Len(w) /\ 0 + 1 + w[0 + 1][1] = 2
    BY <1>3, <1>8
  <2> QED
    BY <1>4, <1>8, <2>1 DEF SkipsTo
<1>10. CcsLength(w) = 2 + CcsLength(v) /\ CcsLength(v) \in 0 .. Len(v)
  <2>1. 0 \in 0 .. Len(v)
    BY <1>3
  <2> QED
    BY <1>4, <1>5, <1>7, <1>9, <2>1
<1>11. AfterCcs(w) = Drop(w, 2 + CcsLength(v)) /\ AfterCcs(v) = Drop(v, CcsLength(v))
  BY <1>10 DEF AfterCcs, Drop
<1> DEFINE k == CcsLength(v)
<1>12. k \in Nat /\ k <= Len(v)
  BY <1>3, <1>10
<1> HIDE DEF k
<1>13. Drop(u \o v, Len(u) + k) = Drop(v, k)
  BY <1>1, <1>12, DropConcat
<1> QED
  BY <1>1, <1>11, <1>13 DEF w, u, k

LEMMA CcsNone ==
  ASSUME NEW w \in Seq(Item), w = <<>> \/ w[1][2] # CCS
  PROVE  AfterCcs(w) = w
<1>1. PICK f \in [0 .. Len(w) -> 0 .. Len(w)] : SkipsTo(w, f) /\ CcsLength(w) = f[0]
  BY CcsIs
<1>2. ~ Skips(w, 0)
  <2>1. CASE w = <<>>
    BY <2>1 DEF Skips
  <2>2. CASE w[1][2] # CCS
    BY <2>2 DEF Skips, Record
  <2> QED
    BY <2>1, <2>2
<1>3. CcsLength(w) = 0
  <2>1. 0 \in 0 .. Len(w)
    OBVIOUS
  <2> QED
    BY <1>1, <1>2, <2>1 DEF SkipsTo
<1> QED
  BY <1>3, SubSeqFull DEF AfterCcs

-----------------------------------------------------------------------------
(***************************************************************************)
(* The records of a client, and who reads them.                            *)
(***************************************************************************)
LEMMA StartsIs ==
  ASSUME NEW L \in Seq(Nat)
  PROVE  /\ Len(L) > 0 => Starts(L)[1] = 0
         /\ \A i \in 1 .. Len(L) : Starts(L)[i] \in Nat
         /\ \A i \in 1 .. (Len(L) - 1) : Starts(L)[i + 1] = Starts(L)[i] + L[i]
<1> DEFINE n == Len(L)
           G == [i \in 1 .. n |-> [x \in Nat |-> IF i = 1 THEN 0 ELSE x + L[i - 1]]]
           F(e) == [i \in 1 .. n |-> IF i = 1 THEN 0 ELSE e[i - 1] + L[i - 1]]
           e == CHOOSE g : g = F(g)
<1>1. n \in Nat /\ \A i \in 1 .. n : L[i] \in Nat
  OBVIOUS
<1>2. PICK f \in [0 .. n -> Nat] : Forwards(f, n, 0, G)
  <2>1. G \in [1 .. n -> [Nat -> Nat]]
    <3>1. \A i \in 1 .. n : \A x \in Nat : (IF i = 1 THEN 0 ELSE x + L[i - 1]) \in Nat
      BY <1>1
    <3> QED
      BY <3>1
  <2> DEFINE V == Nat
             b == 0
  <2>2. b \in V /\ G \in [1 .. n -> [V -> V]]
    BY <2>1
  <2> HIDE DEF V, b, G, n
  <2>3. \E f \in [0 .. n -> V] : Forwards(f, n, b, G)
    BY <1>1, <2>2, ForwardsExists
  <2> QED
    BY <2>3 DEF V, b
<1>3. ASSUME NEW i \in 1 .. n PROVE f[i] = IF i = 1 THEN 0 ELSE f[i - 1] + L[i - 1]
  <2>1. f[i] = G[i][f[i - 1]] /\ i - 1 \in 0 .. n
    <3> HIDE DEF G
    <3>1. \A j \in 1 .. n : f[j] = G[j][f[j - 1]]
      BY <1>2 DEF Forwards
    <3> QED
      BY <1>1, <3>1
  <2>2. f[i - 1] \in Nat
    BY <2>1
  <2> QED
    BY <2>1, <2>2
<1> DEFINE h == [i \in 1 .. n |-> f[i]]
<1>4. h = F(h)
  <2>1. ASSUME NEW i \in 1 .. n PROVE h[i] = IF i = 1 THEN 0 ELSE h[i - 1] + L[i - 1]
    <3>1. i # 1 => i - 1 \in 1 .. n
      BY <1>1
    <3> QED
      BY <1>3, <3>1
  <2> QED
    BY <2>1
<1>5. e = F(e)
  <2> HIDE DEF F, h
  <2> QED
    BY <1>4
<1>6. Starts(L) = e
  BY DEF Starts
<1>7. \A i \in 1 .. n : e[i] = IF i = 1 THEN 0 ELSE e[i - 1] + L[i - 1]
  <2> HIDE DEF e
  <2> QED
    BY <1>5
<1> HIDE DEF e, h, G, F
<1> DEFINE T == {k \in Nat : k \in 1 .. n => e[k] \in Nat}
<1>8. 0 \in T
  OBVIOUS
<1>9. ASSUME NEW k \in Nat, k \in T PROVE k + 1 \in T
  <2> SUFFICES ASSUME k + 1 \in 1 .. n PROVE e[k + 1] \in Nat
    OBVIOUS
  <2>1. CASE k = 0
    BY <1>7, <2>1
  <2>2. CASE k # 0
    <3>1. e[k + 1] = e[(k + 1) - 1] + L[(k + 1) - 1] /\ (k + 1) - 1 = k /\ k \in 1 .. n
      BY <1>1, <1>7, <2>2
    <3> QED
      BY <1>1, <1>9, <3>1
  <2> QED
    BY <2>1, <2>2
<1>10. Nat \subseteq T
  <2> HIDE DEF T
  <2> QED
    BY <1>8, <1>9, Climb
<1>11. \A i \in 1 .. n : e[i] \in Nat
  BY <1>1, <1>10
<1>12. \A i \in 1 .. (n - 1) : e[i + 1] = e[i] + L[i]
  <2> SUFFICES ASSUME NEW i \in 1 .. (n - 1) PROVE e[i + 1] = e[i] + L[i]
    OBVIOUS
  <2>1. i + 1 \in 1 .. n /\ i + 1 # 1 /\ (i + 1) - 1 = i
    BY <1>1
  <2> QED
    BY <1>7, <2>1
<1>13. n > 0 => e[1] = 0
  BY <1>1, <1>7
<1> QED
  BY <1>6, <1>11, <1>12, <1>13

\* The bytes that the first k records hold.
Past(L, N, k) ==
  IF k = 0 THEN 0
  ELSE IF Starts(L)[k] + L[k] <= N THEN Starts(L)[k] + L[k] ELSE N

Begins(L, N) == \A i \in 1 .. Len(L) : Starts(L)[i] <= N

LEMMA PastIs ==
  ASSUME NEW L \in Seq(Nat), NEW N \in Nat, Begins(L, N)
  PROVE  /\ \A k \in 0 .. Len(L) : Past(L, N, k) \in 0 .. N
         /\ Past(L, N, 0) = 0
         /\ \A k \in 0 .. (Len(L) - 1) :
              /\ Starts(L)[k + 1] = Past(L, N, k)
              /\ Past(L, N, k) <= Past(L, N, k + 1)
              /\ Past(L, N, k + 1) <= Past(L, N, k) + L[k + 1]
              /\ L[k + 1] = 0 => Past(L, N, k + 1) = Past(L, N, k)
              /\ k + 1 < Len(L) => Past(L, N, k + 1) = Past(L, N, k) + L[k + 1]
<1> DEFINE n == Len(L)
           s == Starts(L)
<1>1. n \in Nat /\ \A i \in 1 .. n : L[i] \in Nat /\ s[i] \in Nat /\ s[i] <= N
  BY StartsIs DEF Begins
<1>2. n > 0 => s[1] = 0
  BY StartsIs
<1>3. \A i \in 1 .. (n - 1) : s[i + 1] = s[i] + L[i]
  BY StartsIs
<1> HIDE DEF s
<1>4. \A k \in 1 .. n : Past(L, N, k) = IF s[k] + L[k] <= N THEN s[k] + L[k] ELSE N
  BY DEF Past, s
<1>5. Past(L, N, 0) = 0
  BY DEF Past
<1> HIDE DEF n
<1>6. ASSUME NEW k \in 0 .. (n - 1) PROVE s[k + 1] = Past(L, N, k)
  <2>1. CASE k = 0
    BY <1>1, <1>2, <1>5, <2>1
  <2>2. CASE k # 0
    <3>1. k \in 1 .. (n - 1) /\ k \in 1 .. n /\ k + 1 \in 1 .. n
      BY <1>1, <2>2
    <3> QED
      BY <1>1, <1>3, <1>4, <3>1
  <2> QED
    BY <2>1, <2>2
<1>7. ASSUME NEW k \in 0 .. (n - 1)
      PROVE  /\ Past(L, N, k) <= Past(L, N, k + 1)
             /\ Past(L, N, k + 1) <= Past(L, N, k) + L[k + 1]
             /\ L[k + 1] = 0 => Past(L, N, k + 1) = Past(L, N, k)
  <2>1. k + 1 \in 1 .. n
    BY <1>1
  <2>2. s[k + 1] = Past(L, N, k) /\ s[k + 1] \in Nat /\ L[k + 1] \in Nat /\ s[k + 1] <= N
    BY <1>1, <1>6, <2>1
  <2>3. Past(L, N, k + 1) = IF s[k + 1] + L[k + 1] <= N THEN s[k + 1] + L[k + 1] ELSE N
    BY <1>4, <2>1
  <2> QED
    BY <2>2, <2>3
<1>8. ASSUME NEW k \in 0 .. (n - 1), k + 1 < n
      PROVE  Past(L, N, k + 1) = Past(L, N, k) + L[k + 1]
  <2>1. k + 1 \in 0 .. (n - 1) /\ k + 1 \in 1 .. (n - 1)
    BY <1>1, <1>8
  <2>2. s[(k + 1) + 1] = Past(L, N, k + 1)
    BY <1>6, <2>1
  <2>3. s[(k + 1) + 1] = s[k + 1] + L[k + 1]
    BY <1>3, <2>1
  <2> QED
    BY <1>6, <2>2, <2>3
<1>9. ASSUME NEW k \in 0 .. n PROVE Past(L, N, k) \in 0 .. N
  <2>1. CASE k = 0
    BY <1>5, <2>1
  <2>2. CASE k # 0
    <3>1. k \in 1 .. n
      BY <1>1, <2>2
    <3>2. s[k] \in Nat /\ L[k] \in Nat /\ Past(L, N, k) = IF s[k] + L[k] <= N THEN s[k] + L[k] ELSE N
      BY <1>1, <1>4, <3>1
    <3> QED
      BY <3>2
  <2> QED
    BY <2>1, <2>2
<1> QED
  BY <1>5, <1>6, <1>7, <1>8, <1>9 DEF n, s

\* The records that a client cuts its bytes into, and those after the first k.
RecordOf(L, C, i) ==
  IF L[i] = 0 THEN CcsRecord
  ELSE <<Record(APPDATA, L[i])>> \o SubSeq(C, Past(L, Len(C), i - 1) + 1, Past(L, Len(C), i))
RecordsOf(L, C) == [i \in 1 .. Len(L) |-> RecordOf(L, C, i)]
RecordsAfter(L, C, k) == FlattenSeq(Drop(RecordsOf(L, C), k))

LEMMA RecordIs ==
  ASSUME NEW L \in Seq(Nat), NEW C \in Seq(Item), Begins(L, Len(C)), NEW i \in 1 .. Len(L)
  PROVE  RecordOf(L, C, i) \in Seq(Item)
<1>1. CASE L[i] = 0
  BY <1>1, CcsRecordIs DEF RecordOf
<1>2. CASE L[i] # 0
  <2>1. Record(APPDATA, L[i]) \in Item
    <3>1. L[i] \in Nat
      OBVIOUS
    <3> QED
      BY <3>1 DEF Record, Item, APPDATA, Plain
  <2>2. /\ Past(L, Len(C), i - 1) \in Nat /\ Past(L, Len(C), i) \in Nat
        /\ Past(L, Len(C), i - 1) <= Past(L, Len(C), i) /\ Past(L, Len(C), i) <= Len(C)
    <3>1. i - 1 \in 0 .. (Len(L) - 1) /\ (i - 1) + 1 = i /\ i \in 0 .. Len(L) /\ i - 1 \in 0 .. Len(L)
      OBVIOUS
    <3>2. Len(C) \in Nat
      OBVIOUS
    <3> QED
      BY <3>1, <3>2, PastIs
  <2> DEFINE h == <<Record(APPDATA, L[i])>>
             b == SubSeq(C, Past(L, Len(C), i - 1) + 1, Past(L, Len(C), i))
  <2>3. h \in Seq(Item) /\ b \in Seq(Item)
    BY <2>1, <2>2, SliceIs
  <2> HIDE DEF h, b
  <2>4. h \o b \in Seq(Item)
    BY <2>3, ConcatProperties
  <2> QED
    BY <1>2, <2>4 DEF RecordOf, h, b
<1> QED
  BY <1>1, <1>2

LEMMA InRecordsIs ==
  ASSUME NEW L \in Seq(Nat), NEW C \in Seq(Item), Begins(L, Len(C))
  PROVE  /\ RecordsOf(L, C) \in Seq(Seq(Item)) /\ Len(RecordsOf(L, C)) = Len(L)
         /\ InRecords(L, C) = RecordsAfter(L, C, 0)
<1>1. \A i \in 1 .. Len(L) : RecordOf(L, C, i) \in Seq(Item)
  BY RecordIs
<1>2. RecordsOf(L, C) \in Seq(Seq(Item)) /\ Len(RecordsOf(L, C)) = Len(L)
  BY <1>1 DEF RecordsOf
<1>3. \A i \in 1 .. Len(L) :
        RecordOf(L, C, i) =
          IF L[i] = 0 THEN <<Record(CCS, 1), <<1, 0, 0>>>>
          ELSE <<Record(APPDATA, L[i])>>
                 \o SubSeq(C, Starts(L)[i] + 1, Min({Starts(L)[i] + L[i], Len(C)}))
  <2> SUFFICES ASSUME NEW i \in 1 .. Len(L)
               PROVE  /\ Past(L, Len(C), i - 1) = Starts(L)[i]
                      /\ Past(L, Len(C), i) = Min({Starts(L)[i] + L[i], Len(C)})
    BY DEF RecordOf, CcsRecord
  <2>1. i - 1 \in 0 .. (Len(L) - 1) /\ (i - 1) + 1 = i /\ Len(C) \in Nat /\ L[i] \in Nat
    OBVIOUS
  <2>2. Past(L, Len(C), i - 1) = Starts(L)[i]
    BY <2>1, PastIs
  <2>3. Starts(L)[i] \in Nat
    BY StartsIs
  <2>4. PICK a \in Int, b \in Int : a = Starts(L)[i] + L[i] /\ b = Len(C)
    BY <2>1, <2>3
  <2>5. Min({a, b}) \in {a, b} /\ Min({a, b}) <= a /\ Min({a, b}) <= b
    BY MinOfTwo
  <2>6. Past(L, Len(C), i) = IF a <= b THEN a ELSE b
    BY <2>4 DEF Past
  <2>7. Min({a, b}) = IF a <= b THEN a ELSE b
    BY <2>5
  <2> QED
    BY <2>2, <2>4, <2>6, <2>7
<1>4. InRecords(L, C) = FlattenSeq(RecordsOf(L, C))
  BY <1>3 DEF InRecords, RecordsOf
<1>5. Drop(RecordsOf(L, C), 0) = RecordsOf(L, C)
  BY <1>2, DropNone
<1> QED
  BY <1>2, <1>4, <1>5 DEF RecordsAfter

LEMMA RecordsAfterIs ==
  ASSUME NEW L \in Seq(Nat), NEW C \in Seq(Item), Begins(L, Len(C))
  PROVE  /\ \A k \in 0 .. Len(L) : RecordsAfter(L, C, k) \in Seq(Item)
         /\ RecordsAfter(L, C, Len(L)) = <<>>
         /\ \A k \in 0 .. (Len(L) - 1) :
              RecordsAfter(L, C, k) = RecordOf(L, C, k + 1) \o RecordsAfter(L, C, k + 1)
<1> DEFINE R == RecordsOf(L, C)
           V == Seq(Item)
<1>1. R \in Seq(V) /\ Len(R) = Len(L) /\ Len(L) \in Nat /\ \A i \in 1 .. Len(L) : R[i] = RecordOf(L, C, i)
  BY InRecordsIs DEF RecordsOf
<1> HIDE DEF R, V
<1>2. ASSUME NEW k \in 0 .. Len(L)
      PROVE  Drop(R, k) \in Seq(V) /\ Len(Drop(R, k)) = Len(L) - k
             /\ \A i \in 1 .. (Len(L) - k) : Drop(R, k)[i] = R[k + i]
  <2>1. k \in Nat /\ k <= Len(R)
    BY <1>1
  <2> QED
    BY <1>1, <2>1, DropIs
<1>3. ASSUME NEW k \in 0 .. Len(L) PROVE RecordsAfter(L, C, k) \in Seq(Item)
  <2>1. Drop(R, k) \in Seq(Seq(Item))
    BY <1>2 DEF V
  <2> QED
    BY <2>1, FlattenType DEF RecordsAfter, R
<1>4. RecordsAfter(L, C, Len(L)) = <<>>
  <2>1. Drop(R, Len(L)) = <<>>
    BY <1>1, DropNone
  <2> QED
    BY <2>1, FlattenEmpty DEF RecordsAfter, R
<1>5. ASSUME NEW k \in 0 .. (Len(L) - 1)
      PROVE  RecordsAfter(L, C, k) = RecordOf(L, C, k + 1) \o RecordsAfter(L, C, k + 1)
  <2> DEFINE d == Drop(R, k)
  <2>0. k \in 0 .. Len(L) /\ k \in Nat /\ k + 1 \in 1 .. Len(L) /\ k + 1 <= Len(R) /\ 1 \in 1 .. (Len(L) - k)
    BY <1>1
  <2>1. d \in Seq(V) /\ Len(d) = Len(L) - k /\ d[1] = R[k + 1]
    BY <1>2, <2>0
  <2>2. Drop(d, 1) = Drop(R, k + 1)
    <3>1. k + 1 <= Len(R) /\ 1 \in Nat
      BY <2>0
    <3> QED
      BY <1>1, <2>0, <3>1, DropDrop
  <2> HIDE DEF d
  <2>3. d # <<>>
    BY <2>0, <2>1
  <2>4. d \in Seq(Seq(Item))
    BY <2>1 DEF V
  <2>5. FlattenSeq(d) = d[1] \o FlattenSeq(SubSeq(d, 2, Len(d)))
    BY <2>3, <2>4, FlattenFirst
  <2>6. SubSeq(d, 2, Len(d)) = Drop(d, 1)
    BY DEF Drop
  <2>7. d[1] = RecordOf(L, C, k + 1)
    BY <1>1, <2>0, <2>1
  <2> QED
    BY <2>2, <2>5, <2>6, <2>7 DEF RecordsAfter, d, R
<1> QED
  BY <1>3, <1>4, <1>5

\* Between two records, a reader comes to the next one that carries bytes, or to the end.
LEMMA CcsReads ==
  ASSUME NEW L \in Seq(Nat), NEW C \in Seq(Item), Begins(L, Len(C)), NEW k \in 0 .. Len(L)
  PROVE  \E j \in k .. Len(L) :
           /\ AfterCcs(RecordsAfter(L, C, k)) = RecordsAfter(L, C, j)
           /\ Past(L, Len(C), j) = Past(L, Len(C), k)
           /\ j < Len(L) => L[j + 1] # 0
<1> DEFINE n == Len(L)
           W(i) == RecordsAfter(L, C, i)
           P(i) == Past(L, Len(C), i)
           Good(i, j) == AfterCcs(W(i)) = W(j) /\ P(j) = P(i) /\ (j < n => L[j + 1] # 0)
           S == {i \in 0 .. n : \E j \in i .. n : Good(i, j)}
<1>0. n \in Nat /\ Len(C) \in Nat
  OBVIOUS
<1>1. ASSUME NEW i \in 0 .. n, \A j \in (i + 1) .. n : j \in S PROVE i \in S
  <2>1. CASE i = n
    <3>1. W(i) = <<>> /\ W(i) \in Seq(Item)
      BY <2>1, RecordsAfterIs
    <3>2. AfterCcs(W(i)) = W(i)
      BY <3>1, CcsNone
    <3>3. Good(i, i)
      BY <2>1, <3>2
    <3> QED
      BY <1>0, <3>3
  <2>2. CASE i # n
    <3>0. i \in 0 .. (Len(L) - 1) /\ i + 1 \in 0 .. n /\ i + 1 \in 1 .. Len(L)
      BY <1>0, <2>2
    <3>1. W(i) = RecordOf(L, C, i + 1) \o W(i + 1) /\ W(i + 1) \in Seq(Item) /\ W(i) \in Seq(Item)
      BY <3>0, RecordsAfterIs
    <3>2. CASE L[i + 1] = 0
      <4>1. W(i) = CcsRecord \o W(i + 1)
        BY <3>1, <3>2 DEF RecordOf
      <4>2. AfterCcs(W(i)) = AfterCcs(W(i + 1))
        BY <3>1, <4>1, CcsSkipped
      <4>3. P(i + 1) = P(i)
        BY <1>0, <3>0, <3>2, PastIs
      <4>4. i + 1 \in (i + 1) .. n
        BY <1>0, <3>0
      <4>5. PICK j \in (i + 1) .. n : Good(i + 1, j)
        BY <1>1, <4>4
      <4>6. Good(i, j) /\ j \in i .. n
        BY <1>0, <4>2, <4>3, <4>5
      <4> QED
        BY <4>6
    <3>3. CASE L[i + 1] # 0
      <4> DEFINE h == <<Record(APPDATA, L[i + 1])>>
                 b == SubSeq(C, P((i + 1) - 1) + 1, P(i + 1))
      <4>1. RecordOf(L, C, i + 1) = h \o b /\ RecordOf(L, C, i + 1) \in Seq(Item)
        BY <3>0, <3>3, RecordIs DEF RecordOf
      <4>2. (h \o b)[1] = Record(APPDATA, L[i + 1]) /\ Len(h \o b) >= 1
        <5>1. P((i + 1) - 1) \in Nat /\ P(i + 1) \in Nat /\ P((i + 1) - 1) <= P(i + 1) /\ P(i + 1) <= Len(C)
          <6>1. (i + 1) - 1 = i
            BY <3>0
          <6> QED
            BY <1>0, <3>0, <6>1, PastIs
        <5>2. b \in Seq(Item)
          BY <5>1, SliceIs
        <5>3. h \in Seq(Item) /\ Len(h) = 1 /\ h[1] = Record(APPDATA, L[i + 1])
          <6>1. Record(APPDATA, L[i + 1]) \in Item
            BY <3>0 DEF Record, Item, APPDATA, Plain
          <6> QED
            BY <6>1
        <5> HIDE DEF h, b
        <5>4. 1 \in 1 .. Len(h)
          BY <5>3
        <5>5. Len(h \o b) = Len(h) + Len(b) /\ Len(b) \in Nat /\ \A m \in 1 .. Len(h) : (h \o b)[m] = h[m]
          BY <5>2, <5>3, ConcatFirst
        <5> QED
          BY <5>3, <5>4, <5>5
      <4>3. W(i)[1] = Record(APPDATA, L[i + 1])
        <5>1. 1 \in 1 .. Len(RecordOf(L, C, i + 1))
          <6> DEFINE r == RecordOf(L, C, i + 1)
          <6>1. r \in Seq(Item) /\ Len(r) >= 1
            BY <4>1, <4>2
          <6> HIDE DEF r
          <6>2. Len(r) \in Nat
            BY <6>1
          <6>3. 1 \in 1 .. Len(r)
            BY <6>1, <6>2
          <6> QED
            BY <6>3 DEF r
        <5>2. RecordOf(L, C, i + 1)[1] = Record(APPDATA, L[i + 1])
          BY <4>1, <4>2
        <5> QED
          BY <3>1, <4>1, <5>1, <5>2, ConcatFirst
      <4>4. W(i)[1][2] # CCS
        BY <4>3 DEF Record, CCS, APPDATA
      <4>5. AfterCcs(W(i)) = W(i)
        BY <3>1, <4>4, CcsNone
      <4>6. Good(i, i)
        BY <3>3, <4>5
      <4> QED
        BY <1>0, <4>6
    <3> QED
      BY <3>2, <3>3
  <2> QED
    BY <2>1, <2>2
<1>2. 0 .. n \subseteq S
  <2> HIDE DEF S, n
  <2> QED
    BY <1>0, <1>1, Descend
<1> QED
  BY <1>2

\* A reader stands at place p of C: between two records, or left bytes before the end of
\* record k, of which the last one may not be whole.
Between(L, C, left, wire, p, k) ==
  left = 0 /\ p = Past(L, Len(C), k) /\ wire = RecordsAfter(L, C, k)
Within(L, C, left, wire, p, k) ==
  /\ left > 0
  /\ p <= Past(L, Len(C), k)
  /\ Past(L, Len(C), k) <= p + left
  /\ k < Len(L) => p + left = Past(L, Len(C), k)
  /\ wire = SubSeq(C, p + 1, Past(L, Len(C), k)) \o RecordsAfter(L, C, k)
TlsAt(L, C, left, wire, p) ==
  /\ left \in Nat
  /\ p \in 0 .. Len(C)
  /\ \E k \in 0 .. Len(L) : Between(L, C, left, wire, p, k) \/ Within(L, C, left, wire, p, k)

Got(L, C, p, t) ==
  /\ p + Len(t.data) <= Len(C)
  /\ t.data = SubSeq(C, p + 1, p + Len(t.data))
  /\ Len(t.data) \in Nat
  /\ TlsAt(L, C, t.left, t.wire, p + Len(t.data))

\* What is read of the body of a record, of which m bytes are there.
LEMMA BodyRead ==
  ASSUME NEW L \in Seq(Nat), NEW C \in Seq(Item), Begins(L, Len(C)), NEW k \in 0 .. Len(L),
         NEW left \in Nat, NEW p \in Nat, NEW wire, Within(L, C, left, wire, p, k),
         NEW j \in Nat, j <= left, j <= Len(wire)
  PROVE  Got(L, C, p, Taken(left - j, SubSeq(wire, j + 1, Len(wire)), SubSeq(wire, 1, j)))
<1> DEFINE e == Past(L, Len(C), k)
           u == SubSeq(C, p + 1, e)
           v == RecordsAfter(L, C, k)
<1>1. e \in 0 .. Len(C) /\ Len(C) \in Nat /\ Len(L) \in Nat
  BY PastIs
<1>2. /\ left > 0 /\ p <= e /\ e <= p + left /\ (k < Len(L) => p + left = e)
      /\ wire = u \o v
  BY DEF Within
<1>3. v \in Seq(Item) /\ (k = Len(L) => v = <<>>)
  BY RecordsAfterIs
<1>4. u \in Seq(Item) /\ Len(u) = e - p
  <2>1. e \in Nat /\ e <= Len(C) /\ p <= e
    BY <1>1, <1>2
  <2> HIDE DEF e
  <2> QED
    BY <2>1, SliceIs
<1>5. wire \in Seq(Item) /\ (k = Len(L) => Len(wire) = e - p)
  <2> HIDE DEF u, v
  <2>1. u \o v \in Seq(Item) /\ Len(u \o v) = Len(u) + Len(v)
    BY <1>3, <1>4, ConcatFirst
  <2>2. v = <<>> => Len(v) = 0
    OBVIOUS
  <2> QED
    BY <1>1, <1>2, <1>3, <1>4, <2>1, <2>2
<1>6. j <= e - p
  <2>1. CASE k = Len(L)
    BY <1>5, <2>1
  <2>2. CASE k # Len(L)
    BY <1>1, <1>2, <2>2
  <2> QED
    BY <2>1, <2>2
<1>7. SubSeq(wire, 1, j) = SubSeq(u, 1, j) /\ Drop(wire, j) = Drop(u, j) \o v
  <2> HIDE DEF u, v
  <2> QED
    BY <1>2, <1>3, <1>4, <1>6, CutConcat
<1>8. Drop(u, j) = SubSeq(C, p + j + 1, e) /\ SubSeq(u, 1, j) = SubSeq(C, p + 1, p + j)
  BY <1>1, <1>2, <1>6, DropSlice, SMTT(30)
<1> DEFINE t == Taken(left - j, SubSeq(wire, j + 1, Len(wire)), SubSeq(wire, 1, j))
<1>9. t.left = left - j /\ t.wire = SubSeq(C, (p + j) + 1, e) \o v /\ t.data = SubSeq(C, p + 1, p + j)
  BY <1>7, <1>8 DEF Taken, Drop
<1>10. Len(t.data) = j
  <2>1. Len(SubSeq(C, p + 1, p + j)) = (p + j) - p
    BY <1>1, <1>2, <1>6, SliceIs
  <2> QED
    BY <1>9, <2>1
<1> HIDE DEF t
<1>11. TlsAt(L, C, t.left, t.wire, p + j)
  <2>1. t.left \in Nat /\ p + j \in 0 .. Len(C)
    BY <1>1, <1>2, <1>6, <1>9
  <2>2. CASE j = left
    <3>1. p + j = e
      <4> HIDE DEF e
      <4> QED
        BY <1>1, <1>2, <1>6, <2>2
    <3>2. SubSeq(C, (p + j) + 1, e) = <<>>
      BY <1>1, <3>1, SliceEmpty
    <3>3. t.wire = v
      <4> HIDE DEF v
      <4>1. <<>> \o v = v
        BY <1>3
      <4> QED
        BY <1>9, <3>2, <4>1
    <3>4. Between(L, C, t.left, t.wire, p + j, k)
      BY <1>9, <2>2, <3>1, <3>3 DEF Between
    <3> QED
      BY <2>1, <3>4 DEF TlsAt
  <2>3. CASE j # left
    <3>1. t.left > 0 /\ p + j <= e /\ e <= (p + j) + t.left
          /\ (k < Len(L) => (p + j) + t.left = e)
      BY <1>1, <1>2, <1>6, <1>9, <2>3
    <3>2. Within(L, C, t.left, t.wire, p + j, k)
      BY <1>9, <3>1 DEF Within
    <3> QED
      BY <2>1, <3>2 DEF TlsAt
  <2> QED
    BY <2>2, <2>3
<1>12. p + j <= Len(C)
  BY <1>1, <1>2, <1>6
<1>13. Got(L, C, p, t)
  BY <1>9, <1>10, <1>11, <1>12 DEF Got
<1> QED
  BY <1>13 DEF t

\* Every outcome of reading a record: the bytes that come next, and the reader behind them.
LEMMA TlsRead ==
  ASSUME NEW L \in Seq(Nat), NEW C \in Seq(Item), Begins(L, Len(C)),
         NEW left, NEW wire, NEW p, TlsAt(L, C, left, wire, p), NEW t \in Payloads(left, wire)
  PROVE  Got(L, C, p, t)
<1>0. left \in Nat /\ p \in 0 .. Len(C) /\ p \in Nat /\ Len(C) \in Nat /\ Len(L) \in Nat
  BY DEF TlsAt
<1>1. PICK k \in 0 .. Len(L) : Between(L, C, left, wire, p, k) \/ Within(L, C, left, wire, p, k)
  BY DEF TlsAt
<1>2. CASE Within(L, C, left, wire, p, k)
  <2>1. left > 0
    BY <1>2 DEF Within
  <2>2. PICK j \in 1 .. Min({left, Len(wire)}) :
          t = Taken(left - j, SubSeq(wire, j + 1, Len(wire)), SubSeq(wire, 1, j))
    BY <2>1 DEF Payloads
  <2>3. Len(wire) \in Nat
    <3> DEFINE u == SubSeq(C, p + 1, Past(L, Len(C), k))
               v == RecordsAfter(L, C, k)
    <3>1. Past(L, Len(C), k) \in 0 .. Len(C) /\ p <= Past(L, Len(C), k) /\ wire = u \o v
      BY <1>0, <1>2, PastIs DEF Within
    <3>2. u \in Seq(Item) /\ v \in Seq(Item)
      BY <1>0, <3>1, SliceIs, RecordsAfterIs
    <3> HIDE DEF u, v
    <3>3. u \o v \in Seq(Item)
      BY <3>2, ConcatFirst
    <3> QED
      BY <3>1, <3>3
  <2>4. j \in Nat /\ j <= left /\ j <= Len(wire)
    <3>1. Min({left, Len(wire)}) <= left /\ Min({left, Len(wire)}) <= Len(wire) /\ Min({left, Len(wire)}) \in {left, Len(wire)}
      <4>1. PICK a \in Int, b \in Int : a = left /\ b = Len(wire)
        BY <1>0, <2>3
      <4> QED
        BY <4>1, MinOfTwo
    <3> QED
      BY <1>0, <2>2, <2>3, <3>1
  <2> QED
    BY <1>0, <1>2, <2>2, <2>4, BodyRead
<1>3. CASE Between(L, C, left, wire, p, k)
  <2>0. left = 0 /\ p = Past(L, Len(C), k) /\ wire = RecordsAfter(L, C, k)
    BY <1>3 DEF Between
  <2>1. PICK j \in k .. Len(L) : /\ AfterCcs(RecordsAfter(L, C, k)) = RecordsAfter(L, C, j)
                                 /\ Past(L, Len(C), j) = Past(L, Len(C), k)
                                 /\ j < Len(L) => L[j + 1] # 0
    BY CcsReads
  <2> DEFINE w == RecordsAfter(L, C, j)
  <2>2. AfterCcs(wire) = w
    BY <2>0, <2>1
  <2>3. CASE j = Len(L)
    <3>1. w = <<>>
      BY <2>3, RecordsAfterIs
    <3>2. Payloads(left, wire) = {}
      BY <2>0, <2>2, <3>1 DEF Payloads
    <3> QED
      BY <3>2
  <2>4. CASE j # Len(L)
    <3>0. j \in 0 .. (Len(L) - 1) /\ j \in 0 .. Len(L) /\ j + 1 \in 0 .. Len(L) /\ j + 1 \in 1 .. Len(L) /\ (j + 1) - 1 = j
      BY <1>0, <2>4
    <3> DEFINE len == L[j + 1]
               e == Past(L, Len(C), j + 1)
               h == <<Record(APPDATA, len)>>
               b == SubSeq(C, p + 1, e)
               v == RecordsAfter(L, C, j + 1)
    <3>1. len \in Nat /\ len # 0
      BY <2>1, <3>0
    <3>2. e \in 0 .. Len(C) /\ p <= e /\ e <= p + len /\ (j + 1 < Len(L) => e = p + len)
      BY <1>0, <2>0, <2>1, <3>0, PastIs
    <3>3. w = (h \o b) \o v
      <4>1. w = RecordOf(L, C, j + 1) \o v
        BY <3>0, RecordsAfterIs
      <4>2. RecordOf(L, C, j + 1) = h \o b
        BY <2>0, <2>1, <3>0, <3>1 DEF RecordOf
      <4> QED
        BY <4>1, <4>2
    <3>4. h \in Seq(Item) /\ Len(h) = 1 /\ h[1] = Record(APPDATA, len)
      <4>1. Record(APPDATA, len) \in Item
        BY <3>1 DEF Record, Item, APPDATA, Plain
      <4> QED
        BY <4>1
    <3>5. b \in Seq(Item) /\ v \in Seq(Item)
      <4>1. e \in Nat /\ e <= Len(C) /\ p \in Nat /\ p <= e
        BY <1>0, <3>2
      <4>2. v \in Seq(Item)
        BY <3>0, RecordsAfterIs
      <4> HIDE DEF e
      <4> QED
        BY <4>1, <4>2, SliceIs
    <3> DEFINE x == b \o v
    <3> HIDE DEF h, b, v, w, e, len
    <3>6. w = h \o x /\ x \in Seq(Item)
      <4>1. (h \o b) \o v = h \o (b \o v)
        <5>1. h \in Seq(Item) /\ b \in Seq(Item) /\ v \in Seq(Item)
          BY <3>4, <3>5
        <5> QED
          BY <5>1, ConcatAssociative, SMTT(30)
      <4>2. b \o v \in Seq(Item)
        BY <3>5, ConcatFirst
      <4> QED
        BY <3>3, <4>1, <4>2 DEF x
    <3> HIDE DEF x
    <3>7. w \in Seq(Item) /\ Len(w) = 1 + Len(x) /\ w[1] = Record(APPDATA, len) /\ Len(x) \in Nat
      <4>1. 1 \in 1 .. Len(h)
        BY <3>4
      <4>2. h \o x \in Seq(Item) /\ Len(h \o x) = Len(h) + Len(x) /\ Len(x) \in Nat
            /\ \A i \in 1 .. Len(h) : (h \o x)[i] = h[i]
        BY <3>4, <3>6, ConcatFirst
      <4> QED
        BY <3>4, <3>6, <4>1, <4>2
    <3>8. w # <<>> /\ w[1][2] = APPDATA /\ w[1][1] = len
      BY <3>7 DEF Record
    <3>9. PICK i \in 1 .. Min({len, TlsChunk, Len(w) - 1}) :
            t = Taken(len - i, SubSeq(w, i + 2, Len(w)), SubSeq(w, 2, i + 1))
      <4>1. Payloads(left, wire) =
              {Taken(len - i, SubSeq(w, i + 2, Len(w)), SubSeq(w, 2, i + 1)) :
                 i \in 1 .. Min({len, TlsChunk, Len(w) - 1})}
        <5>1. ~ (left > 0)
          BY <2>0
        <5> QED
          BY <2>2, <3>1, <3>8, <5>1, Zenon DEF Payloads
      <4> QED
        BY <4>1
    <3>10. i \in Nat /\ i <= len /\ i <= Len(x)
      <4>1. TlsChunk \in Int
        BY ChunkAssumption
      <4>2. Len(w) - 1 \in Int /\ Len(w) - 1 = Len(x) /\ len \in Int
        BY <3>1, <3>7
      <4>3. PICK c \in Int : c = Len(w) - 1
        BY <4>2
      <4>4. Min({len, TlsChunk, c}) <= len /\ Min({len, TlsChunk, c}) <= c /\ Min({len, TlsChunk, c}) \in Int
        BY <4>1, <4>2, <4>3, MinOfThree, ZenonT(60)
      <4> QED
        BY <3>1, <3>9, <4>2, <4>3, <4>4
    <3>11. SubSeq(w, i + 2, Len(w)) = SubSeq(x, i + 1, Len(x)) /\ SubSeq(w, 2, i + 1) = SubSeq(x, 1, i)
      <4>1. Drop(w, 1 + i) = Drop(x, i)
        <5>1. Drop(h \o x, Len(h) + i) = Drop(x, i)
          BY <3>4, <3>6, <3>10, DropConcat
        <5> QED
          BY <3>4, <3>6, <5>1
      <4>2. Drop(w, 1) = x
        <5>1. Drop(h \o x, Len(h) + 0) = Drop(x, 0)
          BY <3>4, <3>6, <3>7, DropConcat
        <5>2. Drop(x, 0) = x
          BY <3>6, DropNone
        <5> QED
          BY <3>4, <3>6, <5>1, <5>2
      <4>3. SubSeq(SubSeq(w, 1 + 1, Len(w)), 1, i) = SubSeq(w, 1 + 1, 1 + i)
        BY <3>7, <3>10, DropSlice
      <4>4. 1 + i + 1 = i + 2 /\ 1 + 1 = 2 /\ 1 + i = i + 1
        BY <3>10
      <4> QED
        BY <4>1, <4>2, <4>3, <4>4 DEF Drop
    <3>12. Within(L, C, len, x, p, j + 1)
      BY <3>1, <3>2, <1>0 DEF Within, x, b, v, e
    <3>13. Got(L, C, p, Taken(len - i, SubSeq(x, i + 1, Len(x)), SubSeq(x, 1, i)))
      BY <1>0, <3>0, <3>1, <3>10, <3>12, BodyRead
    <3> QED
      BY <3>9, <3>11, <3>13
  <2> QED
    BY <2>3, <2>4
<1> QED
  BY <1>1, <1>2, <1>3

LEMMA MinOfNats ==
  ASSUME NEW a \in Nat, NEW b \in Nat
  PROVE  /\ Min({a, b}) \in Nat /\ Min({a, b}) <= a /\ Min({a, b}) <= b
         /\ Min({a, b}) = a \/ Min({a, b}) = b
<1>1. PICK x \in Int, y \in Int : x = a /\ y = b
  OBVIOUS
<1>2. Min({x, y}) \in {x, y} /\ Min({x, y}) <= x /\ Min({x, y}) <= y
  BY MinOfTwo
<1> QED
  BY <1>1, <1>2

SplitterType == [proto : {"abridged", "intermediate"}, cipher : Seq(Item), plain : Seq(Nat),
                 disabled : BOOLEAN]
ConnType ==
  [tls : BOOLEAN, left : Nat, buf : Seq(Item), wire : Seq(Item), dec : Nat, enc : Nat,
   tgDec : Nat, cltEnc : Nat, split : BOOLEAN, sp : SplitterType, eof : BOOLEAN,
   sent : Seq(Item), served : Seq(Item), frag : Seq(Item), got : Seq(Item)]

\* The items d stand in C after place p.
Holds(C, p, d) ==
  /\ p \in Nat /\ d \in Seq(Item)
  /\ p + Len(d) <= Len(C)
  /\ d = SubSeq(C, p + 1, p + Len(d))

\* A reader of C has given away what stands up to place p.
ReaderAt(L, C, tls, left, wire, buf, p) ==
  /\ Holds(C, p, buf)
  /\ tls => TlsAt(L, C, left, wire, p + Len(buf))
  /\ ~ tls => buf = <<>> /\ wire = Drop(C, p)

LEMMA HoldsIs ==
  ASSUME NEW C \in Seq(Item), NEW p \in Nat, NEW e \in Nat, p <= e, e <= Len(C)
  PROVE  Holds(C, p, SubSeq(C, p + 1, e)) /\ Len(SubSeq(C, p + 1, e)) = e - p
<1> DEFINE d == SubSeq(C, p + 1, e)
<1>1. d \in Seq(Item) /\ Len(d) = e - p
  BY SliceIs
<1>2. d = SubSeq(C, p + 1, e)
  OBVIOUS
<1> HIDE DEF d
<1>3. p + Len(d) = e
  BY <1>1
<1>4. Holds(C, p, d)
  BY <1>1, <1>2, <1>3 DEF Holds
<1> QED
  BY <1>1, <1>4 DEF d

\* The first of what is held, and what is kept of it.
FirstOf(b, n) == SubSeq(b, 1, Min({n, Len(b)}))
Parted(C, p, b, d, r) ==
  Holds(C, p, d) /\ Holds(C, p + Len(d), r) /\ (p + Len(d)) + Len(r) = p + Len(b)

LEMMA TakeFirst ==
  ASSUME NEW C \in Seq(Item), NEW p \in Nat, NEW b \in Seq(Item), Holds(C, p, b), NEW n \in Nat
  PROVE  Parted(C, p, b, FirstOf(b, n), Drop(b, n))
<1>1. Len(b) \in Nat /\ Len(C) \in Nat
  OBVIOUS
<1>2. PICK l \in Nat : l = Len(b)
  BY <1>1
<1>3. PICK e \in Nat : e = p + l
  OBVIOUS
<1>4. e <= Len(C) /\ p <= e /\ e - p = l /\ b = SubSeq(C, p + 1, e)
  BY <1>2, <1>3 DEF Holds
<1>5. PICK m \in Nat : m = Min({n, l}) /\ m <= n /\ m <= l /\ (m = n \/ m = l)
  BY MinOfNats
<1>6. m <= e - p
  BY <1>4, <1>5
<1>7. /\ Drop(SubSeq(C, p + 1, e), m) = SubSeq(C, p + m + 1, e)
      /\ SubSeq(SubSeq(C, p + 1, e), 1, m) = SubSeq(C, p + 1, p + m)
  BY <1>4, <1>6, DropSlice
<1> DEFINE d == SubSeq(b, 1, m)
           r == Drop(b, n)
<1>8. d = SubSeq(C, p + 1, p + m)
  BY <1>4, <1>7
<1>9. r = SubSeq(C, p + m + 1, e)
  <2>1. CASE m = n
    BY <1>4, <1>7, <2>1
  <2>2. CASE m # n
    <3>1. l < n + 1 /\ p + m + 1 = e + 1
      BY <1>3, <1>5, <2>2
    <3>2. r = <<>>
      BY <1>2, <3>1, SubSeqEmpty DEF Drop
    <3>3. SubSeq(C, e + 1, e) = <<>>
      BY SliceEmpty
    <3> QED
      BY <3>1, <3>2, <3>3
  <2> QED
    BY <2>1, <2>2
<1>10. PICK a \in Nat : a = p + m /\ p <= a /\ a <= e /\ a <= Len(C)
  BY <1>3, <1>4, <1>5
<1>11. d = SubSeq(C, p + 1, a) /\ r = SubSeq(C, a + 1, e)
  BY <1>8, <1>9, <1>10
<1> HIDE DEF d, r
<1>12. Holds(C, p, d) /\ Len(d) = a - p
  <2>1. Holds(C, p, SubSeq(C, p + 1, a)) /\ Len(SubSeq(C, p + 1, a)) = a - p
    BY <1>10, HoldsIs
  <2> QED
    BY <1>11, <2>1
<1>13. Holds(C, a, r) /\ Len(r) = e - a
  <2>1. Holds(C, a, SubSeq(C, a + 1, e)) /\ Len(SubSeq(C, a + 1, e)) = e - a
    BY <1>4, <1>10, HoldsIs
  <2> QED
    BY <1>11, <2>1
<1>14. p + Len(d) = a /\ a + Len(r) = e
  BY <1>10, <1>12, <1>13
<1> QED
  BY <1>2, <1>3, <1>5, <1>12, <1>13, <1>14 DEF d, r, Parted, FirstOf

LEMMA TlsAtWire ==
  ASSUME NEW L \in Seq(Nat), NEW C \in Seq(Item), Begins(L, Len(C)),
         NEW left, NEW wire, NEW p, TlsAt(L, C, left, wire, p)
  PROVE  left \in Nat /\ wire \in Seq(Item)
<1>1. left \in Nat /\ p \in Nat /\ Len(C) \in Nat
  BY DEF TlsAt
<1>2. PICK k \in 0 .. Len(L) : Between(L, C, left, wire, p, k) \/ Within(L, C, left, wire, p, k)
  BY DEF TlsAt
<1>3. RecordsAfter(L, C, k) \in Seq(Item)
  BY RecordsAfterIs
<1>4. CASE Between(L, C, left, wire, p, k)
  BY <1>1, <1>3, <1>4 DEF Between
<1>5. CASE Within(L, C, left, wire, p, k)
  <2>1. PICK e \in Nat : e = Past(L, Len(C), k) /\ e <= Len(C)
    BY <1>1, PastIs
  <2>2. wire = SubSeq(C, p + 1, e) \o RecordsAfter(L, C, k) /\ p <= e
    BY <1>5, <2>1 DEF Within
  <2>3. SubSeq(C, p + 1, e) \in Seq(Item)
    BY <1>1, <2>1, <2>2, SliceIs
  <2> DEFINE u == SubSeq(C, p + 1, e)
             v == RecordsAfter(L, C, k)
  <2> HIDE DEF u, v
  <2>4. u \o v \in Seq(Item)
    BY <1>3, <2>3, ConcatFirst DEF u, v
  <2> QED
    BY <1>1, <2>2, <2>4 DEF u, v
<1> QED
  BY <1>2, <1>4, <1>5

ReadDone(L, C, c, p, r) ==
  /\ Holds(C, p, r.data)
  /\ ReaderAt(L, C, c.tls, r.c.left, r.c.wire, r.c.buf, p + Len(r.data))
  /\ r.c.left \in Nat /\ r.c.wire \in Seq(Item)
  /\ r.c = [c EXCEPT !.left = r.c.left, !.wire = r.c.wire, !.buf = r.c.buf]

LEMMA ReadClientIs ==
  ASSUME NEW L \in Seq(Nat), NEW C \in Seq(Item), Begins(L, Len(C)), NEW c \in ConnType, NEW p \in Nat,
         ReaderAt(L, C, c.tls, c.left, c.wire, c.buf, p), NEW r \in ReadClient(c)
  PROVE  ReadDone(L, C, c, p, r)
<1> USE DEF ReadDone
<1>0. ReadSize \in Nat /\ Len(C) \in Nat
  BY SessionAssumption
<1>1. Holds(C, p, c.buf)
  BY DEF ReaderAt
<1>2. c.left \in Nat /\ c.wire \in Seq(Item) /\ c.tls \in BOOLEAN /\ c.buf \in Seq(Item)
  BY DEF ConnType
<1>3. CASE c.buf # <<>>
  <2>1. r = [c    |-> [c EXCEPT !.buf = Drop(@, ReadSize)],
             data |-> SubSeq(c.buf, 1, Min({ReadSize, Len(c.buf)}))]
    BY <1>3 DEF ReadClient
  <2>2. c.tls
    BY <1>2, <1>3 DEF ReaderAt
  <2>3. /\ r.c.buf = Drop(c.buf, ReadSize) /\ r.c.left = c.left /\ r.c.wire = c.wire
        /\ r.c = [c EXCEPT !.left = r.c.left, !.wire = r.c.wire, !.buf = r.c.buf]
        /\ r.data = SubSeq(c.buf, 1, Min({ReadSize, Len(c.buf)}))
    BY <2>1 DEF ConnType
  <2>4. /\ Holds(C, p, r.data) /\ Holds(C, p + Len(r.data), r.c.buf)
        /\ (p + Len(r.data)) + Len(r.c.buf) = p + Len(c.buf)
    <3>1. Parted(C, p, c.buf, FirstOf(c.buf, ReadSize), Drop(c.buf, ReadSize))
      <4>1. PICK x \in Seq(Item), n \in Nat : x = c.buf /\ n = ReadSize
        BY <1>0, <1>2
      <4>2. Holds(C, p, x)
        BY <1>1, <4>1
      <4>3. Parted(C, p, x, FirstOf(x, n), Drop(x, n))
        BY <4>2, TakeFirst
      <4> QED
        BY <4>1, <4>3
    <3> QED
      BY <2>3, <3>1 DEF Parted, FirstOf
  <2>5. TlsAt(L, C, r.c.left, r.c.wire, p + Len(c.buf))
    BY <2>2, <2>3 DEF ReaderAt
  <2>6. ReaderAt(L, C, c.tls, r.c.left, r.c.wire, r.c.buf, p + Len(r.data))
    BY <2>2, <2>4, <2>5 DEF ReaderAt
  <2> QED
    BY <1>2, <2>3, <2>4, <2>6
<1>4. CASE c.buf = <<>> /\ c.tls
  <2>0. Len(c.buf) = 0 /\ p + 0 = p
    BY <1>4
  <2>1. PICK t \in Payloads(c.left, c.wire) :
          r = [c    |-> [c EXCEPT !.left = t.left, !.wire = t.wire, !.buf = Drop(t.data, ReadSize)],
               data |-> SubSeq(t.data, 1, Min({ReadSize, Len(t.data)}))]
    BY <1>4 DEF ReadClient
  <2>2. TlsAt(L, C, c.left, c.wire, p)
    BY <1>4, <2>0 DEF ReaderAt
  <2>3. Got(L, C, p, t)
    BY <2>2, TlsRead
  <2>4. /\ r.c.buf = Drop(t.data, ReadSize) /\ r.c.left = t.left /\ r.c.wire = t.wire
        /\ r.c = [c EXCEPT !.left = r.c.left, !.wire = r.c.wire, !.buf = r.c.buf]
        /\ r.data = SubSeq(t.data, 1, Min({ReadSize, Len(t.data)}))
    BY <2>1 DEF ConnType
  <2>5. Holds(C, p, t.data) /\ TlsAt(L, C, t.left, t.wire, p + Len(t.data))
    <3>1. /\ p + Len(t.data) <= Len(C) /\ t.data = SubSeq(C, p + 1, p + Len(t.data))
          /\ Len(t.data) \in Nat /\ TlsAt(L, C, t.left, t.wire, p + Len(t.data))
      BY <2>3 DEF Got
    <3>2. PICK e \in Nat : e = p + Len(t.data)
      BY <3>1
    <3>3. p <= e
      BY <3>1, <3>2
    <3>4. Holds(C, p, SubSeq(C, p + 1, e))
      BY <3>1, <3>2, <3>3, HoldsIs
    <3> QED
      BY <3>1, <3>2, <3>4
  <2>6. /\ Holds(C, p, r.data) /\ Holds(C, p + Len(r.data), r.c.buf)
        /\ (p + Len(r.data)) + Len(r.c.buf) = p + Len(t.data)
    <3>1. Parted(C, p, t.data, FirstOf(t.data, ReadSize), Drop(t.data, ReadSize))
      <4>1. PICK x \in Seq(Item), n \in Nat : x = t.data /\ n = ReadSize
        BY <1>0, <2>5 DEF Holds
      <4>2. Holds(C, p, x)
        BY <2>5, <4>1
      <4>3. Parted(C, p, x, FirstOf(x, n), Drop(x, n))
        BY <4>2, TakeFirst
      <4> QED
        BY <4>1, <4>3
    <3> QED
      BY <2>4, <3>1 DEF Parted, FirstOf
  <2>8. ReaderAt(L, C, c.tls, r.c.left, r.c.wire, r.c.buf, p + Len(r.data))
    BY <1>4, <2>4, <2>5, <2>6 DEF ReaderAt
  <2>9. r.c.left \in Nat /\ r.c.wire \in Seq(Item)
    BY <2>4, <2>5, TlsAtWire
  <2> QED
    BY <2>4, <2>6, <2>8, <2>9
<1>5. CASE c.buf = <<>> /\ ~ c.tls
  <2>1. PICK k \in 1 .. Min({ReadSize, Len(c.wire)}) :
          r = [c |-> [c EXCEPT !.wire = Drop(@, k)], data |-> SubSeq(c.wire, 1, k)]
    BY <1>5 DEF ReadClient
  <2>2. c.wire = Drop(C, p) /\ p <= Len(C)
    <3>1. p + Len(<<>>) <= Len(C) /\ Len(<<>>) = 0
      BY <1>1, <1>5 DEF Holds
    <3> QED
      BY <1>0, <1>5, <3>1 DEF ReaderAt
  <2>3. Len(c.wire) = Len(C) - p
    BY <2>2, DropIs
  <2>4. k \in Nat /\ k <= Len(C) - p
    <3>1. Len(c.wire) \in Nat
      BY <1>0, <2>2, <2>3
    <3>2. Min({ReadSize, Len(c.wire)}) \in Nat /\ Min({ReadSize, Len(c.wire)}) <= Len(c.wire)
      BY <1>0, <3>1, MinOfNats
    <3> QED
      BY <2>1, <2>3, <3>2
  <2>5. PICK e \in Nat : e = Len(C)
    BY <1>0
  <2>6. Drop(c.wire, k) = SubSeq(C, p + k + 1, e) /\ SubSeq(c.wire, 1, k) = SubSeq(C, p + 1, p + k)
    <3>1. c.wire = SubSeq(C, p + 1, e) /\ p <= e /\ e <= Len(C) /\ k <= e - p
      BY <2>2, <2>4, <2>5 DEF Drop
    <3>2. Drop(SubSeq(C, p + 1, e), k) = SubSeq(C, p + k + 1, e)
          /\ SubSeq(SubSeq(C, p + 1, e), 1, k) = SubSeq(C, p + 1, p + k)
      BY <2>4, <3>1, DropSlice
    <3> QED
      BY <3>1, <3>2
  <2>7. /\ r.c.buf = <<>> /\ r.c.left = c.left /\ r.c.wire = Drop(C, p + k)
        /\ r.c = [c EXCEPT !.left = r.c.left, !.wire = r.c.wire, !.buf = r.c.buf]
        /\ r.data = SubSeq(C, p + 1, p + k)
    <3>1. Drop(C, p + k) = SubSeq(C, p + k + 1, e)
      BY <2>5 DEF Drop
    <3>2. /\ r.c.buf = <<>> /\ r.c.left = c.left /\ r.c.wire = Drop(c.wire, k)
          /\ r.c = [c EXCEPT !.left = r.c.left, !.wire = r.c.wire, !.buf = r.c.buf]
          /\ r.data = SubSeq(c.wire, 1, k)
      BY <1>5, <2>1 DEF ConnType
    <3> QED
      BY <2>6, <3>1, <3>2
  <2>8. PICK a \in Nat : a = p + k /\ a <= Len(C) /\ p <= a
    BY <2>2, <2>4, <2>5
  <2>9. Holds(C, p, r.data) /\ Len(r.data) = a - p
    BY <2>7, <2>8, HoldsIs
  <2>10. p + Len(r.data) = a
    BY <2>8, <2>9
  <2>11. Holds(C, a, <<>>)
    <3>1. Holds(C, a, SubSeq(C, a + 1, a))
      BY <2>8, HoldsIs
    <3>2. SubSeq(C, a + 1, a) = <<>>
      BY SliceEmpty
    <3> QED
      BY <3>1, <3>2
  <2>12. r.c.wire = Drop(C, a) /\ r.c.wire \in Seq(Item)
    BY <2>7, <2>8, DropIs
  <2>13. ReaderAt(L, C, c.tls, r.c.left, r.c.wire, r.c.buf, a)
    BY <1>5, <2>7, <2>11, <2>12 DEF ReaderAt
  <2> QED
    BY <1>2, <2>7, <2>9, <2>10, <2>12, <2>13
<1> QED
  BY <1>3, <1>4, <1>5

-----------------------------------------------------------------------------
(***************************************************************************)
(* The lengths that packets say, and how MsgSplitter cuts by them.         *)
(***************************************************************************)
LEMMA TimesNat ==
  ASSUME NEW a \in Nat, NEW b \in Nat
  PROVE  a * b \in Nat
  OBVIOUS

LEMMA HighIs == High \in Nat /\ High > 0 /\ 2 * High \in Nat /\ Byte \subseteq Nat
<1>1. High \in Nat \ {0}
  BY SplitterAssumption
<1> QED
  BY <1>1 DEF Byte

LEMMA LittleEndianIs ==
  ASSUME NEW B \in Seq(Nat)
  PROVE  LittleEndian(B) \in Nat
<1> DEFINE n == Len(B)
           d == 2 * High
<1>0. n \in Nat /\ d \in Nat
  BY HighIs
<1> DEFINE J == [i \in 0 .. n |-> i + 1]
           K == [i \in 0 .. n |-> [x \in Nat |-> IF i < n THEN B[i + 1] + d * x ELSE 0]]
           Z == [i \in 0 .. n |-> 0]
           F(e) == [i \in 1 .. (n + 1) |-> IF i = n + 1 THEN 0 ELSE B[i] + d * e[i + 1]]
           e == CHOOSE g : g = F(g)
<1>1. PICK f \in [0 .. n -> Nat] : Backwards(f, n, J, K, Z)
  <2>1. ASSUME NEW i \in 0 .. n, NEW x \in Nat PROVE (IF i < n THEN B[i + 1] + d * x ELSE 0) \in Nat
    <3>1. i < n => B[i + 1] \in Nat
      BY <1>0
    <3>2. d * x \in Nat
      <4> HIDE DEF d
      <4> QED
        BY <1>0, TimesNat
    <3> QED
      BY <3>1, <3>2
  <2>2. K \in [0 .. n -> [Nat -> Nat]] /\ Z \in [0 .. n -> Nat]
    BY <2>1
  <2> HIDE DEF K, Z, J, n
  <2>3. \E f \in [0 .. n -> Nat] : Backwards(f, n, J, K, Z)
    BY <1>0, <2>2, BackwardsExists
  <2> QED
    BY <2>3
<1>2. ASSUME NEW i \in 0 .. n PROVE f[i] = IF i < n THEN B[i + 1] + d * f[i + 1] ELSE 0
  <2>1. f[i] = IF J[i] \in (i + 1) .. n THEN K[i][f[J[i]]] ELSE Z[i]
    <3> HIDE DEF J, K, Z, n
    <3> QED
      BY <1>1 DEF Backwards
  <2>2. J[i] = i + 1 /\ Z[i] = 0
    BY <1>0
  <2>3. CASE i < n
    <3>1. i + 1 \in (i + 1) .. n /\ i + 1 \in 0 .. n
      BY <1>0, <2>3
    <3>2. f[i + 1] \in Nat
      BY <3>1
    <3>3. K[i][f[i + 1]] = B[i + 1] + d * f[i + 1]
      <4> HIDE DEF d
      <4> QED
        BY <2>3, <3>2
    <3> QED
      BY <2>1, <2>2, <2>3, <3>1, <3>3
  <2>4. CASE ~ (i < n)
    BY <1>0, <2>1, <2>2, <2>4
  <2> QED
    BY <2>3, <2>4
<1> DEFINE h == [i \in 1 .. (n + 1) |-> f[i - 1]]
<1>3. h = F(h)
  <2>1. ASSUME NEW i \in 1 .. (n + 1) PROVE h[i] = IF i = n + 1 THEN 0 ELSE B[i] + d * h[i + 1]
    <3>1. i - 1 \in 0 .. n /\ (i - 1) + 1 = i /\ (i - 1 < n <=> i # n + 1) /\ h[i] = f[i - 1]
      BY <1>0
    <3>2. h[i] = IF i - 1 < n THEN B[i] + d * f[i] ELSE 0
      <4>1. f[i - 1] = IF i - 1 < n THEN B[(i - 1) + 1] + d * f[(i - 1) + 1] ELSE 0
        BY <1>2, <3>1
      <4> QED
        BY <3>1, <4>1
    <3>3. i # n + 1 => h[i + 1] = f[i]
      <4> SUFFICES ASSUME i # n + 1 PROVE h[i + 1] = f[i]
        OBVIOUS
      <4>1. i + 1 \in 1 .. (n + 1) /\ (i + 1) - 1 = i
        BY <1>0
      <4> QED
        BY <4>1
    <3> HIDE DEF h, d, n
    <3> QED
      BY <3>1, <3>2, <3>3
  <2> HIDE DEF d, n
  <2> QED
    BY <2>1
<1>4. e = F(e)
  <2> HIDE DEF F, h
  <2> QED
    BY <1>3
<1>5. LittleEndian(B) = e[1]
  BY Zenon DEF LittleEndian
<1> DEFINE S == {i \in 0 .. n : e[i + 1] \in Nat}
<1>6. \A i \in 1 .. (n + 1) : e[i] = IF i = n + 1 THEN 0 ELSE B[i] + d * e[i + 1]
  <2> HIDE DEF e, d, n
  <2> QED
    BY <1>4
<1> HIDE DEF e
<1>7. ASSUME NEW i \in 0 .. n, \A j \in (i + 1) .. n : j \in S PROVE i \in S
  <2>1. i + 1 \in 1 .. (n + 1)
    BY <1>0
  <2>2. CASE i = n
    BY <1>6, <2>1, <2>2
  <2>3. CASE i # n
    <3>1. i + 1 \in (i + 1) .. n /\ i + 1 # n + 1
      BY <1>0, <2>3
    <3>2. e[(i + 1) + 1] \in Nat
      BY <1>7, <3>1
    <3>3. d * e[(i + 1) + 1] \in Nat
      <4> HIDE DEF d
      <4> QED
        BY <1>0, <3>2, TimesNat
    <3>4. e[i + 1] = B[i + 1] + d * e[(i + 1) + 1] /\ B[i + 1] \in Nat
      BY <1>0, <1>6, <2>1, <3>1
    <3>5. e[i + 1] \in Nat
      <4> HIDE DEF d
      <4> QED
        BY <3>3, <3>4
    <3> QED
      BY <3>5
  <2> QED
    BY <2>2, <2>3
<1>8. 0 .. n \subseteq S
  <2> HIDE DEF S, n
  <2> QED
    BY <1>0, <1>7, Descend
<1>9. e[0 + 1] \in Nat
  BY <1>0, <1>8
<1> QED
  BY <1>5, <1>9

\* What a header says of a packet that starts like this: its length and that of what follows.
HeaderOf(proto, P) ==
  IF proto = "abridged" THEN IF P[1] % High = High - 1 THEN 1 + LongBytes ELSE 1 ELSE FieldBytes
BodyOf(proto, P) ==
  IF proto = "abridged"
  THEN Word * (IF P[1] % High = High - 1 THEN LittleEndian(SubSeq(P, 2, HeaderOf(proto, P)))
               ELSE P[1] % High)
  ELSE LittleEndian(SubSeq(P, 1, FieldBytes)) % (High * (2 * High)^(FieldBytes - 1))

LEMMA NextLenIs ==
  ASSUME NEW proto \in {"abridged", "intermediate"}, NEW P \in Seq(Nat), P # <<>>
  PROVE  /\ HeaderOf(proto, P) \in Nat /\ HeaderOf(proto, P) > 0
         /\ Len(P) < HeaderOf(proto, P) => NextPacketLen(proto, P) = None
         /\ HeaderOf(proto, P) <= Len(P) =>
              /\ BodyOf(proto, P) \in Nat
              /\ NextPacketLen(proto, P) =
                   IF BodyOf(proto, P) = 0 THEN 0
                   ELSE IF Len(P) < HeaderOf(proto, P) + BodyOf(proto, P) THEN None
                   ELSE HeaderOf(proto, P) + BodyOf(proto, P)
<1>0. /\ LongBytes \in Nat /\ LongBytes > 0 /\ FieldBytes \in Nat /\ FieldBytes > 0 /\ Word \in Nat
      /\ High \in Nat /\ High > 0 /\ Len(P) \in Nat /\ P[1] \in Nat
  BY SplitterAssumption
<1> DEFINE h == HeaderOf(proto, P)
           b == BodyOf(proto, P)
<1>1. h \in Nat /\ h > 0
  BY <1>0 DEF HeaderOf
<1>2. CASE proto = "abridged"
  <2> DEFINE long == P[1] % High = High - 1
  <2>1. P[1] % High \in Nat
    BY <1>0
  <2>2. h = IF long THEN 1 + LongBytes ELSE 1
    BY <1>2 DEF HeaderOf
  <2>3. NextPacketLen(proto, P) = IF Len(P) < h THEN None ELSE Sized(h, b, P)
    BY <1>2 DEF NextPacketLen, NextAbridgedLen, HeaderOf, BodyOf
  <2>4. ASSUME h <= Len(P) PROVE b \in Nat
    <3>1. CASE long
      <4>1. SubSeq(P, 1 + 1, h) \in Seq(Nat)
        <5>1. 1 <= h /\ 1 \in Nat
          BY <1>1
        <5> HIDE DEF h
        <5> QED
          BY <1>1, <2>4, <5>1, SliceIs
      <4>2. LittleEndian(SubSeq(P, 2, h)) \in Nat
        <5>1. 1 + 1 = 2
          OBVIOUS
        <5> QED
          BY <4>1, <5>1, LittleEndianIs
      <4>3. b = Word * LittleEndian(SubSeq(P, 2, h))
        BY <1>2, <3>1 DEF BodyOf
      <4> HIDE DEF h, b
      <4> QED
        BY <1>0, <4>2, <4>3, TimesNat
    <3>2. CASE ~ long
      <4>1. b = Word * (P[1] % High)
        BY <1>2, <3>2 DEF BodyOf
      <4> HIDE DEF b, long
      <4> QED
        BY <1>0, <2>1, <4>1, TimesNat
    <3> QED
      BY <3>1, <3>2
  <2> HIDE DEF h, b, long
  <2>5. h <= Len(P) => b \in Nat
    BY <2>4
  <2>6. Sized(h, b, P) = IF b = 0 THEN 0 ELSE IF Len(P) < h + b THEN None ELSE h + b
    BY DEF Sized
  <2>7. h <= Len(P) => ~ (Len(P) < h)
    BY <1>0, <1>1
  <2> QED
    BY <1>1, <2>3, <2>5, <2>6, <2>7 DEF h, b
<1>3. CASE proto = "intermediate"
  <2> DEFINE q == High * (2 * High)^(FieldBytes - 1)
  <2>1. proto # "abridged"
    BY <1>3
  <2>2. h = FieldBytes /\ b = LittleEndian(SubSeq(P, 1, h)) % q
    BY <2>1 DEF HeaderOf, BodyOf
  <2>3. NextPacketLen(proto, P) = IF Len(P) < h THEN None ELSE Sized(h, b, P)
    BY <2>1 DEF NextPacketLen, NextIntermediateLen, HeaderOf, BodyOf
  <2>4. q \in Nat \ {0}
    BY FieldAssumption
  <2>5. ASSUME h <= Len(P) PROVE b \in Nat
    <3>1. SubSeq(P, 0 + 1, h) \in Seq(Nat)
      <4>1. 0 <= h /\ 0 \in Nat
        BY <1>1
      <4> HIDE DEF h
      <4> QED
        BY <1>1, <2>5, <4>1, SliceIs
    <3>2. LittleEndian(SubSeq(P, 1, h)) \in Nat
      <4>1. 0 + 1 = 1
        OBVIOUS
      <4> QED
        BY <3>1, <4>1, LittleEndianIs
    <3>3. ASSUME NEW x \in Nat, NEW y \in Nat \ {0} PROVE x % y \in Nat
      OBVIOUS
    <3>4. LittleEndian(SubSeq(P, 1, h)) % q \in Nat
      <4> HIDE DEF h, q
      <4> QED
        BY <2>4, <3>2, <3>3
    <3> QED
      BY <2>2, <3>4
  <2> HIDE DEF h, b, q
  <2>6. h <= Len(P) => b \in Nat
    BY <2>5
  <2>7. Sized(h, b, P) = IF b = 0 THEN 0 ELSE IF Len(P) < h + b THEN None ELSE h + b
    BY DEF Sized
  <2>8. h <= Len(P) => ~ (Len(P) < h)
    BY <1>0, <1>1
  <2> QED
    BY <1>1, <2>3, <2>6, <2>7, <2>8 DEF h, b
<1> QED
  BY <1>2, <1>3

\* No length reaches past what has arrived.
LEMMA NextLenBounds ==
  ASSUME NEW proto \in {"abridged", "intermediate"}, NEW P \in Seq(Nat), P # <<>>
  PROVE  NextPacketLen(proto, P) = None \/ NextPacketLen(proto, P) \in 0 .. Len(P)
<1>1. PICK h \in Nat : h = HeaderOf(proto, P) /\ h > 0
  BY NextLenIs
<1>2. Len(P) \in Nat
  OBVIOUS
<1>3. CASE Len(P) < h
  BY <1>1, <1>3, NextLenIs
<1>4. CASE h <= Len(P)
  <2>1. PICK b \in Nat : b = BodyOf(proto, P)
    BY <1>1, <1>4, NextLenIs
  <2>2. NextPacketLen(proto, P) = IF b = 0 THEN 0 ELSE IF Len(P) < h + b THEN None ELSE h + b
    BY <1>1, <1>4, <2>1, NextLenIs
  <2> QED
    BY <1>2, <2>2
<1> QED
  BY <1>1, <1>2, <1>3, <1>4

\* A packet is known by its first bytes: until all of them are there nothing is cut, and
\* whatever follows, it is cut where it ends.
LEMMA PacketKnown ==
  ASSUME NEW proto \in {"abridged", "intermediate"}, NEW P \in Seq(Nat), P # <<>>,
         NextPacketLen(proto, P) = Len(P),
         NEW R \in Seq(Nat), R # <<>>, NEW n \in Nat, n <= Len(P), n <= Len(R),
         n = Len(P) \/ n = Len(R), Agree(R, P, n)
  PROVE  NextPacketLen(proto, R) = IF n = Len(P) THEN Len(P) ELSE None
<1>0. Len(P) \in Nat /\ Len(R) \in Nat /\ Len(P) > 0 /\ Len(R) > 0 /\ n > 0
  <2>1. Len(P) \in Nat /\ Len(R) \in Nat /\ Len(P) > 0 /\ Len(R) > 0
    OBVIOUS
  <2> QED
    BY <2>1
<1>1. R[1] = P[1]
  BY <1>0 DEF Agree
<1>2. PICK h \in Nat : h = HeaderOf(proto, P) /\ h > 0
  BY NextLenIs
<1>3. HeaderOf(proto, R) = h
  BY <1>1, <1>2 DEF HeaderOf
<1>4. None \notin Int
  BY SplitterAssumption
<1>5. h <= Len(P)
  BY <1>0, <1>2, <1>4, NextLenIs
<1>6. PICK b \in Nat : b = BodyOf(proto, P)
  BY <1>2, <1>5, NextLenIs
<1>7. NextPacketLen(proto, P) = IF b = 0 THEN 0 ELSE IF Len(P) < h + b THEN None ELSE h + b
  BY <1>2, <1>5, <1>6, NextLenIs
<1>8. b # 0 /\ Len(P) = h + b
  <2>1. PICK l \in Nat : l = Len(P) /\ l > 0
    BY <1>0
  <2>2. l = IF b = 0 THEN 0 ELSE IF l < h + b THEN None ELSE h + b
    BY <1>7, <2>1
  <2>3. l # None
    BY <1>4, <2>1
  <2>4. b # 0
    BY <2>1, <2>2
  <2>5. ~ (l < h + b)
    BY <2>2, <2>3, <2>4, Zenon
  <2> QED
    BY <2>1, <2>2, <2>4, <2>5
<1>9. CASE Len(R) < h
  <2>1. NextPacketLen(proto, R) = None
    BY <1>3, <1>9, NextLenIs
  <2>2. n # Len(P)
    BY <1>0, <1>5, <1>9
  <2> QED
    BY <2>1, <2>2
<1>10. CASE h <= Len(R)
  <2>1. h <= n
    BY <1>0, <1>5, <1>10
  <2>2. ASSUME NEW k \in Nat, k <= h PROVE SubSeq(R, k + 1, h) = SubSeq(P, k + 1, h)
    <3>1. \A i \in 1 .. (h - k) : R[k + i] = P[k + i]
      <4> SUFFICES ASSUME NEW i \in 1 .. (h - k) PROVE R[k + i] = P[k + i]
        OBVIOUS
      <4>1. k + i \in 1 .. n
        BY <2>1, <2>2
      <4> QED
        BY <4>1 DEF Agree
    <3> DEFINE x == SubSeq(R, k + 1, h)
               y == SubSeq(P, k + 1, h)
    <3>2. x \in Seq(Nat) /\ Len(x) = h - k /\ \A i \in 1 .. (h - k) : x[i] = R[k + i]
      BY <1>10, <2>2, SliceIs
    <3>3. y \in Seq(Nat) /\ Len(y) = h - k /\ \A i \in 1 .. (h - k) : y[i] = P[k + i]
      BY <1>5, <2>2, SliceIs
    <3>4. \A i \in 1 .. Len(x) : x[i] = y[i]
      <4> HIDE DEF x, y
      <4> QED
        BY <3>1, <3>2, <3>3
    <3> HIDE DEF x, y
    <3>5. x = y
      BY <3>2, <3>3, <3>4, SeqEqual
    <3> QED
      BY <3>5 DEF x, y
  <2>3. SubSeq(R, 2, h) = SubSeq(P, 2, h) /\ SubSeq(R, 1, h) = SubSeq(P, 1, h)
    <3>1. 1 \in Nat /\ 1 <= h /\ 0 \in Nat /\ 0 <= h
      BY <1>2
    <3>2. SubSeq(R, 1 + 1, h) = SubSeq(P, 1 + 1, h) /\ SubSeq(R, 0 + 1, h) = SubSeq(P, 0 + 1, h)
      BY <2>2, <3>1
    <3>3. 1 + 1 = 2 /\ 0 + 1 = 1
      OBVIOUS
    <3> QED
      BY <3>2, <3>3
  <2>4. BodyOf(proto, R) = b
    <3>1. CASE proto = "abridged"
      BY <1>1, <1>2, <1>3, <1>6, <2>3, <3>1 DEF BodyOf
    <3>2. CASE proto # "abridged"
      <4>1. h = FieldBytes
        BY <1>2, <3>2 DEF HeaderOf
      <4> QED
        BY <1>6, <2>3, <3>2, <4>1 DEF BodyOf
    <3> QED
      BY <3>1, <3>2
  <2>5. NextPacketLen(proto, R) = IF b = 0 THEN 0 ELSE IF Len(R) < h + b THEN None ELSE h + b
    BY <1>3, <1>10, <2>4, NextLenIs
  <2> QED
    BY <1>0, <1>8, <2>5
<1> QED
  BY <1>0, <1>2, <1>9, <1>10

-----------------------------------------------------------------------------
(***************************************************************************)
(* MsgSplitter.split, its loop by what it does from an offset on.          *)
(***************************************************************************)
\* A step of the loop: the part it cuts, put before the others.
Put(s, x) == [x EXCEPT !.parts = <<s>> \o @]

\* What split() does from offset o on, by what it does further on.
NextAt(proto, p, o) == IF o = Len(p) THEN None ELSE NextPacketLen(proto, Drop(p, o))
CutAt(proto, c, p, f, o) ==
  IF NextAt(proto, p, o) = None THEN [parts |-> <<>>, offset |-> o, disabled |-> FALSE]
  ELSE IF NextAt(proto, p, o) = 0
  THEN [parts |-> <<Drop(c, o)>>, offset |-> Len(c), disabled |-> TRUE]
  ELSE Put(SubSeq(c, o + 1, o + NextAt(proto, p, o)), f[o + NextAt(proto, p, o)])
Cuts(proto, c, p, f) == \A o \in 0 .. Len(c) : f[o] = CutAt(proto, c, p, f, o)
CutType(n) == [parts : Seq(Seq(Item)), offset : 0 .. n, disabled : BOOLEAN]

LEMMA NextAtIs ==
  ASSUME NEW proto \in {"abridged", "intermediate"}, NEW p \in Seq(Nat), NEW o \in 0 .. Len(p)
  PROVE  NextAt(proto, p, o) = None \/ (NextAt(proto, p, o) \in 0 .. (Len(p) - o) /\ o < Len(p))
<1>1. CASE o = Len(p)
  BY <1>1 DEF NextAt
<1>2. CASE o # Len(p)
  <2>1. Len(p) \in Nat /\ o \in Nat /\ o <= Len(p) /\ o < Len(p)
    BY <1>2
  <2>2. PICK d \in Seq(Nat) : d = Drop(p, o) /\ Len(d) = Len(p) - o
    BY <2>1, DropIs
  <2>3. d # <<>>
    BY <2>1, <2>2
  <2>4. NextPacketLen(proto, d) = None \/ NextPacketLen(proto, d) \in 0 .. Len(d)
    BY <2>3, NextLenBounds
  <2> QED
    BY <1>2, <2>1, <2>2, <2>4 DEF NextAt
<1> QED
  BY <1>1, <1>2

LEMMA OnePart ==
  ASSUME NEW S, NEW x \in S, NEW q \in Seq(S)
  PROVE  /\ <<x>> \o q \in Seq(S) /\ Len(<<x>> \o q) = 1 + Len(q)
         /\ (<<x>> \o q)[1] = x
         /\ \A i \in 1 .. Len(q) : (<<x>> \o q)[1 + i] = q[i]
<1>0. <<x>> \in Seq(S) /\ Len(<<x>>) = 1 /\ <<x>>[1] = x
  OBVIOUS
<1>1. PICK h \in Seq(S) : h = <<x>> /\ Len(h) = 1 /\ h[1] = x
  BY <1>0, Zenon
<1>2. /\ h \o q \in Seq(S) /\ Len(h \o q) = Len(h) + Len(q) /\ Len(h) \in Nat /\ Len(q) \in Nat
      /\ \A i \in 1 .. Len(h) : (h \o q)[i] = h[i]
      /\ \A i \in 1 .. Len(q) : (h \o q)[Len(h) + i] = q[i]
  BY <1>1, ConcatFirst
<1>3. 1 \in 1 .. Len(h)
  BY <1>1
<1>4. h \o q \in Seq(S) /\ Len(h \o q) = 1 + Len(q)
  BY <1>1, <1>2
<1>5. (h \o q)[1] = x
  BY <1>1, <1>2, <1>3
<1>6. \A i \in 1 .. Len(q) : (h \o q)[1 + i] = q[i]
  BY <1>1, <1>2
<1> QED
  BY <1>1, <1>4, <1>5, <1>6

LEMMA PutIs ==
  ASSUME NEW N \in Nat, NEW s \in Seq(Item), NEW x \in CutType(N)
  PROVE  /\ Put(s, x) \in CutType(N) /\ Put(s, x).parts = <<s>> \o x.parts
         /\ Put(s, x).offset = x.offset /\ Put(s, x).disabled = x.disabled
<1> DEFINE S == Seq(Item)
<1>1. s \in S /\ x.parts \in Seq(S)
  BY DEF CutType
<1> HIDE DEF S
<1>2. <<s>> \o x.parts \in Seq(S)
  BY <1>1, OnePart
<1>3. PICK q \in Seq(S) : q = <<s>> \o x.parts
  BY <1>2
<1>4. /\ [x EXCEPT !.parts = q] \in CutType(N) /\ [x EXCEPT !.parts = q].parts = q
      /\ [x EXCEPT !.parts = q].offset = x.offset /\ [x EXCEPT !.parts = q].disabled = x.disabled
  BY <1>3 DEF CutType, S
<1>5. Put(s, x) = [x EXCEPT !.parts = q]
  BY <1>3 DEF Put
<1> QED
  BY <1>3, <1>4, <1>5

LEMMA CutsExist ==
  ASSUME NEW proto \in {"abridged", "intermediate"}, NEW c \in Seq(Item), NEW p \in Seq(Nat),
         Len(c) = Len(p)
  PROVE  \E f \in [0 .. Len(c) -> CutType(Len(c))] : Cuts(proto, c, p, f)
<1> DEFINE n == Len(c)
           V == CutType(n)
           a(o) == NextAt(proto, p, o)
           J == [o \in 0 .. n |-> IF a(o) = None THEN o ELSE o + a(o)]
           K == [o \in 0 .. n |-> [x \in V |->
                   IF J[o] \in (o + 1) .. n THEN Put(SubSeq(c, o + 1, J[o]), x) ELSE x]]
           B == [o \in 0 .. n |-> IF a(o) = None THEN [parts |-> <<>>, offset |-> o, disabled |-> FALSE]
                                  ELSE [parts |-> <<Drop(c, o)>>, offset |-> n, disabled |-> TRUE]]
<1>0. n \in Nat /\ n = Len(p)
  OBVIOUS
<1>1. ASSUME NEW o \in 0 .. n PROVE a(o) = None \/ a(o) \in 0 .. (n - o)
  BY NextAtIs
<1> HIDE DEF a
<1>2. ASSUME NEW o \in 0 .. n, NEW x \in V
      PROVE  (IF J[o] \in (o + 1) .. n THEN Put(SubSeq(c, o + 1, J[o]), x) ELSE x) \in V
  <2>1. CASE J[o] \in (o + 1) .. n
    <3>1. PICK m \in Nat : m = J[o] /\ o <= m /\ m <= Len(c) /\ o \in Nat
      BY <1>0, <2>1
    <3>2. Put(SubSeq(c, o + 1, m), x) \in CutType(n)
      <4>1. PICK s \in Seq(Item) : s = SubSeq(c, o + 1, m)
        BY <3>1, SliceIs
      <4>2. Put(s, x) \in CutType(n)
        <5> HIDE DEF n
        <5> QED
          BY <1>0, PutIs
      <4> QED
        BY <4>1, <4>2
    <3> QED
      BY <2>1, <3>1, <3>2
  <2>2. CASE ~ (J[o] \in (o + 1) .. n)
    BY <2>2
  <2> QED
    BY <2>1, <2>2
<1>3. K \in [0 .. n -> [V -> V]]
  BY <1>2
<1>4. B \in [0 .. n -> V]
  <2>1. ASSUME NEW o \in 0 .. n PROVE B[o] \in V
    <3>1. o \in Nat /\ o <= Len(c) /\ n \in 0 .. n
      BY <1>0
    <3>2. PICK d \in Seq(Item) : d = Drop(c, o)
      BY <3>1, DropIs
    <3>3. [parts |-> <<>>, offset |-> o, disabled |-> FALSE] \in V
      BY DEF CutType
    <3>4. [parts |-> <<d>>, offset |-> n, disabled |-> TRUE] \in V
      BY <3>1 DEF CutType
    <3> QED
      BY <3>2, <3>3, <3>4
  <2> QED
    BY <2>1
<1>5. PICK f \in [0 .. n -> V] : Backwards(f, n, J, K, B)
  <2> HIDE DEF J, K, B, n, V
  <2>1. \E f \in [0 .. n -> V] : Backwards(f, n, J, K, B)
    BY <1>0, <1>3, <1>4, BackwardsExists
  <2> QED
    BY <2>1
<1>6. ASSUME NEW o \in 0 .. n PROVE f[o] = CutAt(proto, c, p, f, o)
  <2>1. f[o] = IF J[o] \in (o + 1) .. n THEN K[o][f[J[o]]] ELSE B[o]
    <3> HIDE DEF J, K, B, n
    <3> QED
      BY <1>5 DEF Backwards
  <2>2. CASE a(o) = None
    <3>1. J[o] = o
      BY <2>2
    <3>2. ~ (o \in (o + 1) .. n)
      BY <1>0
    <3>3. f[o] = [parts |-> <<>>, offset |-> o, disabled |-> FALSE]
      BY <2>1, <2>2, <3>1, <3>2
    <3> QED
      BY <2>2, <3>3 DEF CutAt, a
  <2>3. CASE a(o) # None /\ a(o) = 0
    <3>1. J[o] = o
      BY <2>3
    <3>2. ~ (o \in (o + 1) .. n)
      BY <1>0
    <3>3. f[o] = [parts |-> <<Drop(c, o)>>, offset |-> n, disabled |-> TRUE]
      BY <2>1, <2>3, <3>1, <3>2
    <3> QED
      BY <2>3, <3>3 DEF CutAt, a
  <2>4. CASE a(o) # None /\ a(o) # 0
    <3>1. J[o] = o + a(o) /\ o + a(o) \in (o + 1) .. n
      BY <1>0, <1>1, <2>4
    <3>2. PICK m \in (o + 1) .. n : m = o + a(o)
      BY <3>1
    <3>3. f[m] \in V
      BY <1>0, <3>2
    <3>4. K[o][f[m]] = Put(SubSeq(c, o + 1, m), f[m])
      BY <3>1, <3>2, <3>3
    <3>5. f[o] = Put(SubSeq(c, o + 1, m), f[m])
      BY <2>1, <3>1, <3>2, <3>4
    <3> QED
      BY <2>4, <3>2, <3>5 DEF CutAt, a
  <2> QED
    BY <2>2, <2>3, <2>4
<1>7. Cuts(proto, c, p, f)
  BY <1>6 DEF Cuts
<1> QED
  BY <1>7

\* What the loop has cut from offset o on: all of the bytes up to its offset.
Cut(c, o, x) ==
  /\ x \in CutType(Len(c))
  /\ o <= x.offset
  /\ FlattenSeq(x.parts) = SubSeq(c, o + 1, x.offset)
  /\ x.disabled => x.offset = Len(c)

LEMMA CutsJoin ==
  ASSUME NEW proto \in {"abridged", "intermediate"}, NEW c \in Seq(Item), NEW p \in Seq(Nat),
         Len(c) = Len(p), NEW f, Cuts(proto, c, p, f)
  PROVE  \A o \in 0 .. Len(c) : Cut(c, o, f[o])
<1> DEFINE n == Len(c)
           S == {o \in 0 .. n : Cut(c, o, f[o])}
<1>0. n \in Nat /\ n = Len(p)
  OBVIOUS
<1>1. ASSUME NEW o \in 0 .. n, \A j \in (o + 1) .. n : j \in S PROVE o \in S
  <2> DEFINE a == NextAt(proto, p, o)
  <2>1. a = None \/ (a \in 0 .. (n - o) /\ o < n)
    BY NextAtIs
  <2>2. f[o] = CutAt(proto, c, p, f, o)
    BY DEF Cuts
  <2>3. o \in Nat /\ o <= Len(c)
    OBVIOUS
  <2>4. CASE a = None
    <3>1. f[o] = [parts |-> <<>>, offset |-> o, disabled |-> FALSE]
      BY <2>2, <2>4 DEF CutAt
    <3>2. FlattenSeq(<<>>) = SubSeq(c, o + 1, o)
      BY <2>3, FlattenEmpty, SliceEmpty
    <3> DEFINE y == [parts |-> <<>>, offset |-> o, disabled |-> FALSE]
    <3>3. y \in CutType(n) /\ y.parts = <<>> /\ y.offset = o /\ y.disabled = FALSE
      BY DEF CutType
    <3>4. Cut(c, o, y)
      <4> HIDE DEF y
      <4> QED
        BY <2>3, <3>2, <3>3 DEF Cut
    <3> QED
      BY <3>1, <3>4
  <2>5. CASE a # None /\ a = 0
    <3>1. f[o] = [parts |-> <<Drop(c, o)>>, offset |-> n, disabled |-> TRUE]
      BY <2>2, <2>5 DEF CutAt
    <3>2. PICK d \in Seq(Item) : d = Drop(c, o)
      BY <2>3, DropIs
    <3>3. FlattenSeq(<<d>>) = d
      BY FlattenOne
    <3>4. d = SubSeq(c, o + 1, n)
      BY <3>2 DEF Drop
    <3>5. [parts |-> <<d>>, offset |-> n, disabled |-> TRUE] \in CutType(n)
      BY <1>0 DEF CutType
    <3> DEFINE y == [parts |-> <<d>>, offset |-> n, disabled |-> TRUE]
    <3>6. y.parts = <<d>> /\ y.offset = n
      OBVIOUS
    <3>7. Cut(c, o, y)
      <4> HIDE DEF y
      <4> QED
        BY <2>3, <3>3, <3>4, <3>5, <3>6 DEF Cut, y
    <3> QED
      BY <3>1, <3>2, <3>7
  <2>6. CASE a # None /\ a # 0
    <3>1. PICK m \in (o + 1) .. n : m = o + a
      BY <1>0, <2>1, <2>6
    <3>2. f[o] = Put(SubSeq(c, o + 1, m), f[m])
      BY <2>2, <2>6, <3>1 DEF CutAt
    <3>3. Cut(c, m, f[m])
      BY <1>1, <3>1
    <3>4. PICK x \in CutType(n) : x = f[m] /\ m <= x.offset /\ FlattenSeq(x.parts) = SubSeq(c, m + 1, x.offset)
                                  /\ (x.disabled => x.offset = n)
      BY <3>3 DEF Cut
    <3>5. m \in Nat /\ o <= m /\ m <= Len(c)
      BY <1>0, <3>1
    <3>7. PICK s \in Seq(Item) : s = SubSeq(c, o + 1, m)
      BY <2>3, <3>5, SliceIs
    <3> DEFINE y == Put(s, x)
    <3>6. y \in CutType(n) /\ y.parts = <<s>> \o x.parts /\ y.offset = x.offset /\ y.disabled = x.disabled
      <4> HIDE DEF n
      <4> QED
        BY <1>0, PutIs
    <3>8. FlattenSeq(<<s>> \o x.parts) = s \o FlattenSeq(x.parts)
      <4>1. PICK u \in Seq(Seq(Item)), v \in Seq(Seq(Item)) : u = <<s>> /\ v = x.parts
        <5>1. x.parts \in Seq(Seq(Item))
          BY DEF CutType
        <5>2. <<s>> \in Seq(Seq(Item))
          OBVIOUS
        <5> QED
          BY <5>1, <5>2
      <4>2. FlattenSeq(u \o v) = FlattenSeq(u) \o FlattenSeq(v)
        BY FlattenConcat
      <4>3. FlattenSeq(<<s>>) = s
        BY FlattenOne
      <4> QED
        BY <4>1, <4>2, <4>3
    <3>9. s \o SubSeq(c, m + 1, x.offset) = SubSeq(c, o + 1, x.offset)
      <4>1. PICK e \in Nat : e = x.offset /\ m <= e /\ e <= Len(c)
        BY <1>0, <3>4, <3>5 DEF CutType
      <4> QED
        BY <2>3, <3>5, <3>7, <4>1, SliceJoin
    <3> HIDE DEF y
    <3>10. o <= y.offset
      <4>1. x.offset \in Nat
        BY <1>0 DEF CutType
      <4> QED
        BY <2>3, <3>4, <3>5, <3>6, <4>1
    <3>11. Cut(c, o, y)
      BY <3>4, <3>6, <3>8, <3>9, <3>10 DEF Cut
    <3> QED
      BY <3>2, <3>4, <3>7, <3>11 DEF y
  <2> QED
    BY <2>4, <2>5, <2>6
<1>2. 0 .. n \subseteq S
  <2> HIDE DEF S, n
  <2> QED
    BY <1>0, <1>1, Descend
<1> QED
  BY <1>2

\* split() is its loop.
SplitBy(proto, sp, chunk, plain, c, p) ==
  \E f : /\ Cuts(proto, c, p, f)
         /\ Split(sp, chunk, plain) =
              [parts |-> f[0].parts,
               sp    |-> [sp EXCEPT !.cipher = Drop(c, f[0].offset), !.plain = Drop(p, f[0].offset),
                                    !.disabled = f[0].disabled]]

LEMMA SplitIs ==
  ASSUME NEW sp \in SplitterType, ~ sp.disabled, NEW chunk, NEW plain, NEW c \in Seq(Item), NEW p \in Seq(Nat),
         c = sp.cipher \o chunk, p = sp.plain \o plain, Len(c) = Len(p)
  PROVE  SplitBy(sp.proto, sp, chunk, plain, c, p)
<1> DEFINE n == Len(c)
           F(e) == [o \in 0 .. n |->
                      LET a == IF o = n THEN None ELSE NextPacketLen(sp.proto, Drop(p, o))
                      IN IF a = None THEN [parts |-> <<>>, offset |-> o, disabled |-> FALSE]
                         ELSE IF a = 0 THEN [parts |-> <<Drop(c, o)>>, offset |-> n, disabled |-> TRUE]
                         ELSE Put(SubSeq(c, o + 1, o + a), e[o + a])]
           e == CHOOSE g : g = F(g)
<1>0. n \in Nat /\ n = Len(p) /\ sp.proto \in {"abridged", "intermediate"}
  BY DEF SplitterType
<1>1. PICK f \in [0 .. n -> CutType(n)] : Cuts(sp.proto, c, p, f)
  BY <1>0, CutsExist
<1>2. \A g : F(g) = [o \in 0 .. n |-> CutAt(sp.proto, c, p, g, o)]
  BY <1>0 DEF CutAt, NextAt
<1>3. f = F(f)
  <2>1. \A o \in 0 .. n : f[o] = CutAt(sp.proto, c, p, f, o)
    BY <1>1 DEF Cuts
  <2>2. f = [o \in 0 .. n |-> f[o]]
    BY <1>1
  <2>3. [o \in 0 .. n |-> f[o]] = [o \in 0 .. n |-> CutAt(sp.proto, c, p, f, o)]
    BY <2>1
  <2> HIDE DEF F
  <2> QED
    BY <1>2, <2>2, <2>3
<1>4. e = F(e)
  <2> HIDE DEF F
  <2> QED
    BY <1>3
<1>5. Split(sp, chunk, plain) =
        [parts |-> e[0].parts,
         sp    |-> [sp EXCEPT !.cipher = Drop(c, e[0].offset), !.plain = Drop(p, e[0].offset),
                              !.disabled = e[0].disabled]]
  BY ZenonT(60) DEF Split, Put
<1>6. Cuts(sp.proto, c, p, e)
  <2> HIDE DEF e, F
  <2>1. e = [o \in 0 .. n |-> CutAt(sp.proto, c, p, e, o)]
    BY <1>2, <1>4
  <2>2. \A o \in 0 .. n : e[o] = CutAt(sp.proto, c, p, e, o)
    <3> SUFFICES ASSUME NEW o \in 0 .. n PROVE e[o] = CutAt(sp.proto, c, p, e, o)
      OBVIOUS
    <3>1. [k \in 0 .. n |-> CutAt(sp.proto, c, p, e, k)][o] = CutAt(sp.proto, c, p, e, o)
      OBVIOUS
    <3> QED
      BY <2>1, <3>1, Zenon
  <2> QED
    BY <2>2 DEF Cuts
<1> QED
  BY <1>5, <1>6 DEF SplitBy

-----------------------------------------------------------------------------
(***************************************************************************)
(* What a client says, and the splitter among its packets.                 *)
(***************************************************************************)
\* Where the packets end in what a client says, and that each has the length it says.
EndOf(Q, k) == InitLen + Len(FlattenSeq(SubSeq(Q, 1, k)))
Speech(Q) == InitBytes \o FlattenSeq(Q)
Speaks(proto, Q, w) == \A i \in 1 .. w : Q[i] # <<>> /\ NextPacketLen(proto, Q[i]) = Len(Q[i])

LEMMA JoinThree ==
  ASSUME NEW T, NEW a \in Seq(T), NEW b \in Seq(T), NEW c \in Seq(T)
  PROVE  (a \o b) \o c = a \o (b \o c)
  BY ConcatAssociative, SMT

LEMMA InitBytesIs == InitBytes \in Seq(Nat) /\ Len(InitBytes) = InitLen /\ InitLen \in Nat /\ InitLen > 0
<1>1. InitLen \in Nat /\ InitLen > 0
  BY SessionAssumption
<1> QED
  BY <1>1 DEF InitBytes

LEMMA EndsIs ==
  ASSUME NEW Q \in Seq(Seq(Nat))
  PROVE  /\ Speech(Q) \in Seq(Nat)
         /\ EndOf(Q, 0) = InitLen
         /\ \A k \in 0 .. Len(Q) : EndOf(Q, k) \in Nat /\ EndOf(Q, k) <= Len(Speech(Q))
         /\ \A k \in 0 .. (Len(Q) - 1) :
              /\ EndOf(Q, k + 1) = EndOf(Q, k) + Len(Q[k + 1])
              /\ \A i \in 1 .. Len(Q[k + 1]) : Speech(Q)[EndOf(Q, k) + i] = Q[k + 1][i]
<1> DEFINE S == Speech(Q)
           V == Seq(Nat)
           Upto(k) == InitBytes \o FlattenSeq(SubSeq(Q, 1, k))
           Rest(k) == FlattenSeq(SubSeq(Q, k + 1, Len(Q)))
<1>0. InitBytes \in V /\ Len(InitBytes) = InitLen /\ InitLen \in Nat
  BY InitBytesIs
<1>1. ASSUME NEW k \in 0 .. Len(Q)
      PROVE  /\ Upto(k) \in V /\ Rest(k) \in V /\ Len(Upto(k)) = EndOf(Q, k)
             /\ S = Upto(k) \o Rest(k)
  <2> DEFINE a == SubSeq(Q, 1, k)
             b == SubSeq(Q, k + 1, Len(Q))
  <2>1. a \in Seq(V) /\ b \in Seq(V)
    BY SeqCut
  <2>2. FlattenSeq(Q) = FlattenSeq(a) \o FlattenSeq(b)
    BY FlattenCut
  <2>3. FlattenSeq(a) \in V /\ FlattenSeq(b) \in V
    BY <2>1, FlattenType DEF V
  <2> DEFINE x == FlattenSeq(a)
             y == FlattenSeq(b)
  <2>4. S = InitBytes \o (x \o y) /\ Upto(k) = InitBytes \o x /\ Rest(k) = y /\ EndOf(Q, k) = InitLen + Len(x)
    BY <2>2 DEF Speech, EndOf
  <2> HIDE DEF x, y, S, Upto, Rest
  <2>5. x \in V /\ y \in V
    BY <2>3 DEF x, y
  <2>6. InitBytes \o (x \o y) = (InitBytes \o x) \o y
    <3>1. PICK a0 \in Seq(Nat), a1 \in Seq(Nat), a2 \in Seq(Nat) : a0 = InitBytes /\ a1 = x /\ a2 = y
      BY <1>0, <2>5
    <3>2. (a0 \o a1) \o a2 = a0 \o (a1 \o a2)
      BY JoinThree, SMTT(30)
    <3> QED
      BY <3>1, <3>2
  <2> HIDE DEF V
  <2>7. InitBytes \o x \in V /\ Len(InitBytes \o x) = Len(InitBytes) + Len(x)
    <3>1. InitBytes \in Seq(Nat) /\ x \in Seq(Nat)
      BY <1>0, <2>5 DEF V
    <3> QED
      BY <3>1, ConcatFirst DEF V
  <2> QED
    BY <1>0, <2>4, <2>5, <2>6, <2>7
<1>2. S \in V
  <2>0. 0 \in 0 .. Len(Q)
    OBVIOUS
  <2>1. PICK a \in V, b \in V : S = a \o b
    BY <1>1, <2>0
  <2> HIDE DEF S
  <2> QED
    BY <2>1
<1>3. EndOf(Q, 0) = InitLen
  <2>1. SubSeq(Q, 0 + 1, 0) = <<>>
    BY SliceEmpty
  <2>2. SubSeq(Q, 1, 0) = <<>>
    <3>1. 0 + 1 = 1
      OBVIOUS
    <3> QED
      BY <2>1, <3>1
  <2>3. FlattenSeq(SubSeq(Q, 1, 0)) = <<>>
    BY <2>2, FlattenEmpty
  <2>4. Len(<<>>) = 0
    OBVIOUS
  <2>5. EndOf(Q, 0) = InitLen + Len(<<>>)
    BY <2>3 DEF EndOf
  <2> QED
    BY <1>0, <2>4, <2>5
<1>4. ASSUME NEW k \in 0 .. Len(Q) PROVE EndOf(Q, k) \in Nat /\ EndOf(Q, k) <= Len(S)
  <2>1. PICK a \in V, b \in V : a = Upto(k) /\ b = Rest(k) /\ Len(a) = EndOf(Q, k) /\ S = a \o b
    BY <1>1
  <2>2. Len(a \o b) = Len(a) + Len(b) /\ Len(a) \in Nat /\ Len(b) \in Nat
    BY ConcatFirst
  <2> HIDE DEF S
  <2> QED
    BY <2>1, <2>2
<1>5. ASSUME NEW k \in 0 .. (Len(Q) - 1)
      PROVE  /\ EndOf(Q, k + 1) = EndOf(Q, k) + Len(Q[k + 1])
             /\ \A i \in 1 .. Len(Q[k + 1]) : S[EndOf(Q, k) + i] = Q[k + 1][i]
  <2>0. k \in 0 .. Len(Q) /\ k \in Nat /\ k + 1 \in 0 .. Len(Q) /\ k + 1 \in 1 .. Len(Q) /\ k + 1 <= Len(Q)
    OBVIOUS
  <2>1. PICK P \in V : P = Q[k + 1]
    BY <2>0
  <2>2. Rest(k) = P \o Rest(k + 1) /\ Rest(k + 1) \in V
    <3> DEFINE d == Drop(Q, k)
    <3>1. d \in Seq(V) /\ Len(d) = Len(Q) - k /\ d[1] = Q[k + 1]
      <4>0. k \in Nat /\ k <= Len(Q)
        BY <2>0
      <4>1. /\ Drop(Q, k) \in Seq(V) /\ Len(Drop(Q, k)) = Len(Q) - k
            /\ \A i \in 1 .. (Len(Q) - k) : Drop(Q, k)[i] = Q[k + i]
        BY <4>0, DropIs
      <4>1a. d = Drop(Q, k)
        OBVIOUS
      <4>2. 1 \in 1 .. (Len(Q) - k)
        BY <2>0
      <4> HIDE DEF d
      <4> QED
        BY <4>1, <4>1a, <4>2
    <3>2. Drop(d, 1) = Drop(Q, k + 1)
      <4>1. k + 1 <= Len(Q) /\ 1 \in Nat
        BY <2>0
      <4> QED
        BY <2>0, <4>1, DropDrop
    <3> HIDE DEF d
    <3>3. d # <<>>
      <4>1. Len(d) > 0
        BY <2>0, <3>1
      <4> QED
        BY <4>1
    <3>4. FlattenSeq(d) = d[1] \o FlattenSeq(SubSeq(d, 2, Len(d)))
      <4>1. d \in Seq(Seq(Nat))
        BY <3>1 DEF V
      <4> QED
        BY <3>3, <4>1, FlattenFirst
    <3>5. SubSeq(d, 2, Len(d)) = Drop(d, 1)
      BY DEF Drop
    <3>6. Rest(k) = FlattenSeq(d) /\ Rest(k + 1) = FlattenSeq(Drop(Q, k + 1))
      BY DEF d, Drop
    <3>7. Rest(k + 1) \in V
      BY <1>1, <2>0
    <3> HIDE DEF Rest
    <3> QED
      BY <2>1, <3>1, <3>2, <3>4, <3>5, <3>6, <3>7
  <2>3. PICK a \in V, r \in V : a = Upto(k) /\ r = Rest(k + 1) /\ Len(a) = EndOf(Q, k) /\ S = a \o (P \o r)
    <3>1. Upto(k) \in V /\ Len(Upto(k)) = EndOf(Q, k) /\ S = Upto(k) \o Rest(k)
      BY <1>1, <2>0
    <3> HIDE DEF S, Upto, Rest
    <3> QED
      BY <2>2, <3>1
  <2>4. /\ P \o r \in V /\ Len(P \o r) = Len(P) + Len(r) /\ Len(P) \in Nat /\ Len(r) \in Nat
        /\ \A i \in 1 .. Len(P) : (P \o r)[i] = P[i]
    BY ConcatFirst
  <2>5. PICK u \in V : u = P \o r
    BY <2>4
  <2>6. Len(a) \in Nat /\ Len(a \o u) = Len(a) + Len(u) /\ \A i \in 1 .. Len(u) : (a \o u)[Len(a) + i] = u[i]
    BY ConcatFirst
  <2>7. \A i \in 1 .. Len(P) : i \in 1 .. Len(u) /\ S[EndOf(Q, k) + i] = P[i]
    <3> HIDE DEF S, V
    <3> SUFFICES ASSUME NEW i \in 1 .. Len(P) PROVE i \in 1 .. Len(u) /\ S[EndOf(Q, k) + i] = P[i]
      OBVIOUS
    <3>1. i \in 1 .. Len(u)
      BY <2>4, <2>5
    <3> QED
      BY <2>3, <2>4, <2>5, <2>6, <3>1
  <2>8. EndOf(Q, k + 1) = EndOf(Q, k) + Len(P)
    <3>1. PICK b \in V : b = Upto(k + 1) /\ Len(b) = EndOf(Q, k + 1) /\ S = b \o r
      BY <1>1, <2>0, <2>3
    <3>2. Len(b \o r) = Len(b) + Len(r) /\ Len(b) \in Nat
      BY ConcatFirst
    <3> HIDE DEF S, V
    <3>3. Len(a) + (Len(P) + Len(r)) = Len(b) + Len(r)
      BY <2>3, <2>4, <2>5, <2>6, <3>1, <3>2
    <3>4. Len(a) + Len(P) = Len(b)
      BY <2>4, <2>6, <3>2, <3>3
    <3> QED
      BY <2>3, <3>1, <3>4
  <2> QED
    BY <2>1, <2>7, <2>8
<1> QED
  BY <1>2, <1>3, <1>4, <1>5

\* The bytes p are what is said after place m.
Stands(S, m, p) ==
  /\ m \in Nat /\ p \in Seq(Nat) /\ m + Len(p) <= Len(S) /\ p = SubSeq(S, m + 1, m + Len(p))

LEMMA StandsIs ==
  ASSUME NEW S \in Seq(Nat), NEW m \in Nat, NEW p \in Seq(Nat), Stands(S, m, p)
  PROVE  \A i \in 1 .. Len(p) : p[i] = S[m + i]
<1>1. Len(S) \in Nat /\ Len(p) \in Nat
  OBVIOUS
<1>2. PICK e \in Nat : e = m + Len(p)
  BY <1>1
<1>3. m <= e /\ e <= Len(S) /\ p = SubSeq(S, m + 1, e) /\ e - m = Len(p)
  BY <1>1, <1>2 DEF Stands
<1>4. \A i \in 1 .. (e - m) : SubSeq(S, m + 1, e)[i] = S[m + i]
  BY <1>3, SliceIs
<1> QED
  BY <1>3, <1>4

LEMMA LeastOf ==
  ASSUME NEW a \in Nat, NEW b \in Nat
  PROVE  \E n \in Nat : n <= a /\ n <= b /\ (n = a \/ n = b)
  OBVIOUS

StandsAt(S, a, P) == \A i \in 1 .. Len(P) : S[a + i] = P[i]

Sound(proto, P) == P # <<>> /\ NextPacketLen(proto, P) = Len(P)
NextFits(proto, p, o, P) ==
  \/ NextAt(proto, p, o) = None
  \/ NextAt(proto, p, o) = Len(P) /\ Len(P) > 0 /\ o + Len(P) <= Len(p)

\* Where a packet begins, its length is read, or nothing while it is not there.
LEMMA NextAtPacket ==
  ASSUME NEW proto \in {"abridged", "intermediate"}, NEW S \in Seq(Nat), NEW m \in Nat, NEW p \in Seq(Nat),
         Stands(S, m, p), NEW o \in Nat, o <= Len(p), NEW P \in Seq(Nat),
         Sound(proto, P), NEW e \in Nat, e = m + o, StandsAt(S, e, P)
  PROVE  NextFits(proto, p, o, P)
<1>0. Len(p) \in Nat /\ Len(P) \in Nat
  OBVIOUS
<1>1. P # <<>> /\ NextPacketLen(proto, P) = Len(P)
  BY DEF Sound
<1>2. Len(P) > 0
  BY <1>1
<1>4. CASE o = Len(p)
  BY <1>4 DEF NextAt, NextFits
<1>5. CASE o # Len(p)
  <2>1. PICK R \in Seq(Nat) : /\ R = Drop(p, o) /\ Len(R) = Len(p) - o
                              /\ \A i \in 1 .. (Len(p) - o) : R[i] = p[o + i]
    <3>1. /\ Drop(p, o) \in Seq(Nat) /\ Len(Drop(p, o)) = Len(p) - o
          /\ \A i \in 1 .. (Len(p) - o) : Drop(p, o)[i] = p[o + i]
      BY DropIs
    <3> QED
      BY <3>1
  <2>2. Len(R) > 0 /\ Len(R) \in Nat
    BY <1>0, <1>5, <2>1
  <2>3. R # <<>>
    BY <2>2
  <2>4. PICK n \in Nat : n <= Len(P) /\ n <= Len(R) /\ (n = Len(P) \/ n = Len(R))
    BY <1>0, <2>2, LeastOf
  <2>5. Agree(R, P, n)
    <3> SUFFICES ASSUME NEW i \in 1 .. n PROVE R[i] = P[i]
      BY DEF Agree
    <3>0. PICK r \in Nat : r = Len(R) /\ r = Len(p) - o /\ n <= r
      BY <2>1, <2>2, <2>4
    <3>1. i \in 1 .. Len(P) /\ i \in 1 .. (Len(p) - o)
      <4>1. i \in 1 .. r
        BY <3>0
      <4>2. i \in 1 .. Len(P)
        BY <1>0, <2>4
      <4> QED
        BY <3>0, <4>1, <4>2
    <3>2. o + i \in 1 .. Len(p) /\ m + (o + i) = (m + o) + i
      BY <1>0, <3>1
    <3>3. R[i] = p[o + i]
      BY <2>1, <3>1
    <3>4. p[o + i] = S[m + (o + i)]
      BY <3>2, StandsIs
    <3>5. S[e + i] = P[i]
      BY <3>1 DEF StandsAt
    <3> QED
      BY <3>2, <3>3, <3>4, <3>5
  <2>6. NextPacketLen(proto, R) = IF n = Len(P) THEN Len(P) ELSE None
    BY <1>1, <2>3, <2>4, <2>5, PacketKnown
  <2>7. NextAt(proto, p, o) = NextPacketLen(proto, R)
    BY <1>5, <2>1 DEF NextAt
  <2>8. n = Len(P) => o + Len(P) <= Len(p)
    BY <1>0, <2>1, <2>2, <2>4
  <2> QED
    BY <1>2, <2>6, <2>7, <2>8 DEF NextFits
<1> QED
  BY <1>4, <1>5

\* What is cut where packet K has ended: each of the next packets is one part.
Fits(Q, w, m, K, x) ==
  /\ K + Len(x.parts) <= w => ~ x.disabled /\ m + x.offset = EndOf(Q, K + Len(x.parts))
  /\ \A i \in 1 .. Len(x.parts) : K + i <= w => Len(x.parts[i]) = Len(Q[K + i])

LEMMA FitsNothing ==
  ASSUME NEW Q, NEW w \in Nat, NEW m \in Nat, NEW o \in Nat, NEW K \in Nat, m + o = EndOf(Q, K)
  PROVE  Fits(Q, w, m, K, [parts |-> <<>>, offset |-> o, disabled |-> FALSE])
<1> DEFINE y == [parts |-> <<>>, offset |-> o, disabled |-> FALSE]
<1>1. Len(y.parts) = 0 /\ y.offset = o /\ y.disabled = FALSE
  OBVIOUS
<1> HIDE DEF y
<1>2. K + Len(y.parts) = K
  BY <1>1
<1>3. Fits(Q, w, m, K, y)
  BY <1>1, <1>2 DEF Fits
<1> QED
  BY <1>3 DEF y

LEMMA FitsLate ==
  ASSUME NEW Q, NEW w \in Nat, NEW m \in Nat, NEW K \in Nat, NEW x, Len(x.parts) \in Nat,
         Len(x.parts) > 0, w <= K
  PROVE  Fits(Q, w, m, K, x)
<1>1. PICK l \in Nat : l = Len(x.parts)
  OBVIOUS
<1>2. ~ (K + l <= w) /\ \A i \in 1 .. l : ~ (K + i <= w)
  BY <1>1
<1> QED
  BY <1>1, <1>2 DEF Fits

LEMMA FitsMore ==
  ASSUME NEW Q, NEW w \in Nat, NEW m \in Nat, NEW K \in Nat, NEW x, NEW y, NEW s, Len(x.parts) \in Nat,
         Fits(Q, w, m, K + 1, x), Len(s) = Len(Q[K + 1]),
         Len(y.parts) = 1 + Len(x.parts), y.parts[1] = s,
         \A i \in 1 .. Len(x.parts) : y.parts[1 + i] = x.parts[i],
         y.disabled = x.disabled, y.offset = x.offset
  PROVE  Fits(Q, w, m, K, y)
<1>1. PICK l \in Nat : l = Len(x.parts) /\ Len(y.parts) = l + 1
  OBVIOUS
<1>2. (K + 1) + l = K + (l + 1)
  OBVIOUS
<1>3. K + (l + 1) <= w => ~ y.disabled /\ m + y.offset = EndOf(Q, K + (l + 1))
  BY <1>1, <1>2 DEF Fits
<1>4. ASSUME NEW i \in 1 .. (l + 1), K + i <= w PROVE Len(y.parts[i]) = Len(Q[K + i])
  <2>1. CASE i = 1
    BY <2>1
  <2>2. CASE i # 1
    <3>1. PICK j \in 1 .. l : j = i - 1 /\ 1 + j = i /\ (K + 1) + j = K + i
      BY <2>2
    <3>2. y.parts[i] = x.parts[j] /\ (K + 1) + j <= w
      BY <1>1, <1>4, <3>1
    <3>3. Len(x.parts[j]) = Len(Q[(K + 1) + j])
      BY <1>1, <3>2 DEF Fits
    <3> QED
      BY <3>1, <3>2, <3>3
  <2> QED
    BY <2>1, <2>2
<1> QED
  BY <1>1, <1>3, <1>4 DEF Fits

\* Nothing else is known of the speech here than where its packets end.
Speech3(proto, Q, w, S) ==
  \A K \in Nat : K < w =>
    /\ EndOf(Q, K) \in Nat
    /\ EndOf(Q, K + 1) = EndOf(Q, K) + Len(Q[K + 1])
    /\ Q[K + 1] \in Seq(Nat) /\ Sound(proto, Q[K + 1])
    /\ StandsAt(S, EndOf(Q, K), Q[K + 1])

LEMMA PutParts ==
  ASSUME NEW N \in Nat, NEW s \in Seq(Item), NEW x \in CutType(N)
  PROVE  /\ Len(x.parts) \in Nat /\ Len(Put(s, x).parts) = 1 + Len(x.parts) /\ Put(s, x).parts[1] = s
         /\ \A i \in 1 .. Len(x.parts) : Put(s, x).parts[1 + i] = x.parts[i]
<1>1. PICK q \in Seq(Seq(Item)) : q = x.parts
  BY DEF CutType
<1>2. PICK X : X = Seq(Item)
  OBVIOUS
<1>3. s \in X /\ q \in Seq(X)
  BY <1>1, <1>2
<1>4. /\ Len(<<s>> \o q) = 1 + Len(q) /\ (<<s>> \o q)[1] = s
      /\ \A i \in 1 .. Len(q) : (<<s>> \o q)[1 + i] = q[i]
  BY <1>3, OnePart
<1>5. Put(s, x).parts = <<s>> \o q
  BY <1>1, PutIs
<1> QED
  BY <1>1, <1>4, <1>5

LEMMA CutsFit ==
  ASSUME NEW proto \in {"abridged", "intermediate"}, NEW Q, NEW w \in Nat, NEW S \in Seq(Nat),
         Speech3(proto, Q, w, S), NEW m \in Nat, NEW p \in Seq(Nat), Stands(S, m, p),
         NEW c \in Seq(Item), Len(c) = Len(p), NEW f, Cuts(proto, c, p, f)
  PROVE  \A o \in 0 .. Len(c) : \A K \in 0 .. w : m + o = EndOf(Q, K) => Fits(Q, w, m, K, f[o])
<1> DEFINE n == Len(c)
           T == {o \in 0 .. n : \A K \in 0 .. w : m + o = EndOf(Q, K) => Fits(Q, w, m, K, f[o])}
<1>0. n \in Nat /\ n = Len(p)
  OBVIOUS
<1>1. ASSUME NEW o \in 0 .. n, \A j \in (o + 1) .. n : j \in T PROVE o \in T
  <2> SUFFICES ASSUME NEW K \in 0 .. w, m + o = EndOf(Q, K) PROVE Fits(Q, w, m, K, f[o])
    OBVIOUS
  <2> DEFINE a == NextAt(proto, p, o)
  <2>0. o \in Nat /\ o <= Len(c) /\ K \in Nat /\ o <= Len(p)
    BY <1>0
  <2>1. a = None \/ (a \in 0 .. (n - o) /\ o < n)
    BY <1>0, NextAtIs
  <2>2. f[o] = CutAt(proto, c, p, f, o)
    BY DEF Cuts
  <2>4. K < w => a = None \/ (a = Len(Q[K + 1]) /\ a > 0 /\ o + a <= Len(p))
    <3> SUFFICES ASSUME K < w PROVE a = None \/ (a = Len(Q[K + 1]) /\ a > 0 /\ o + a <= Len(p))
      OBVIOUS
    <3>1. PICK P \in Seq(Nat) : /\ P = Q[K + 1] /\ Sound(proto, P)
                                /\ StandsAt(S, EndOf(Q, K), P)
      BY <2>0 DEF Speech3
    <3>2. PICK e \in Nat : e = m + o /\ StandsAt(S, e, P)
      BY <2>0, <3>1
    <3>3. NextFits(proto, p, o, P)
      BY <2>0, <3>1, <3>2, NextAtPacket
    <3> QED
      BY <3>1, <3>3 DEF NextFits
  <2>5. CASE a = None
    <3>1. f[o] = [parts |-> <<>>, offset |-> o, disabled |-> FALSE]
      BY <2>2, <2>5 DEF CutAt
    <3> QED
      BY <2>0, <3>1, FitsNothing
  <2>6. CASE a # None /\ a = 0
    <3>1. f[o] = [parts |-> <<Drop(c, o)>>, offset |-> n, disabled |-> TRUE]
      BY <2>2, <2>6 DEF CutAt
    <3>2. w <= K
      BY <2>0, <2>4, <2>6
    <3> DEFINE y == [parts |-> <<Drop(c, o)>>, offset |-> n, disabled |-> TRUE]
    <3>3. Len(y.parts) \in Nat /\ Len(y.parts) > 0
      OBVIOUS
    <3> HIDE DEF y
    <3>4. Fits(Q, w, m, K, y)
      BY <2>0, <3>2, <3>3, FitsLate
    <3> QED
      BY <3>1, <3>4 DEF y
  <2>7. CASE a # None /\ a # 0
    <3>1. PICK k \in Nat : k = o + a /\ k \in (o + 1) .. n
      <4>1. PICK b \in Nat : b = a /\ b <= n - o /\ b # 0
        BY <1>0, <2>0, <2>1, <2>7
      <4>2. o + b \in (o + 1) .. n /\ o + b \in Nat
        BY <1>0, <2>0, <4>1
      <4> QED
        BY <4>1, <4>2
    <3>2. o <= k /\ k <= Len(c) /\ k \in 0 .. Len(c)
      BY <1>0, <2>0, <3>1
    <3>3. PICK s \in Seq(Item) : s = SubSeq(c, o + 1, k) /\ Len(s) = k - o
      <4>1. o \in Nat /\ o <= k /\ k <= Len(c)
        BY <2>0, <3>2
      <4>2. SubSeq(c, o + 1, k) \in Seq(Item) /\ Len(SubSeq(c, o + 1, k)) = k - o
        BY <4>1, SliceIs
      <4> QED
        BY <4>2, Zenon
    <3>4. f[o] = Put(s, f[k])
      BY <2>2, <2>7, <3>1, <3>3 DEF CutAt
    <3>5. PICK x \in CutType(n) : x = f[k]
      <4>1. Cut(c, k, f[k])
        BY <3>2, CutsJoin
      <4> QED
        BY <4>1 DEF Cut
    <3> DEFINE y == Put(s, x)
    <3>6. /\ Len(x.parts) \in Nat /\ Len(y.parts) = 1 + Len(x.parts) /\ y.parts[1] = s
          /\ \A i \in 1 .. Len(x.parts) : y.parts[1 + i] = x.parts[i]
      <4> HIDE DEF n
      <4> QED
        BY <1>0, PutParts
    <3>7. y.offset = x.offset /\ y.disabled = x.disabled
      <4> HIDE DEF n
      <4> QED
        BY <1>0, PutIs
    <3> HIDE DEF y
    <3>8. CASE K < w
      <4>1. a = Len(Q[K + 1]) /\ a > 0
        BY <2>4, <2>7, <3>8
      <4>2. PICK b \in Nat : b = a
        BY <2>1, <2>7
      <4>3. k = o + b /\ Len(Q[K + 1]) = b
        BY <3>1, <4>1, <4>2
      <4>4. EndOf(Q, K + 1) = EndOf(Q, K) + b
        BY <2>0, <3>8, <4>3 DEF Speech3
      <4>5. m + k = EndOf(Q, K + 1)
        <5>1. m + (o + b) = (m + o) + b
          BY <2>0
        <5> QED
          BY <4>3, <4>4, <5>1
      <4>6. K + 1 \in 0 .. w
        BY <2>0, <3>8
      <4>7. Fits(Q, w, m, K + 1, x)
        BY <1>1, <3>1, <3>5, <4>5, <4>6
      <4>8. Len(s) = Len(Q[K + 1])
        <5>1. (o + b) - o = b
          BY <2>0
        <5> QED
          BY <3>3, <4>3, <5>1
      <4>9. Fits(Q, w, m, K, y)
        BY <2>0, <3>6, <3>7, <4>7, <4>8, FitsMore
      <4> QED
        BY <3>4, <3>5, <4>9 DEF y
    <3>9. CASE ~ (K < w)
      <4>1. PICK l \in Nat : l = Len(x.parts) /\ Len(y.parts) = 1 + l
        BY <3>6
      <4>2. Len(y.parts) \in Nat /\ Len(y.parts) > 0 /\ w <= K
        BY <2>0, <3>9, <4>1
      <4>3. Fits(Q, w, m, K, y)
        BY <2>0, <4>2, FitsLate
      <4> QED
        BY <3>4, <3>5, <4>3 DEF y
    <3> QED
      BY <3>8, <3>9
  <2> QED
    BY <2>5, <2>6, <2>7
<1>2. 0 .. n \subseteq T
  <2> HIDE DEF T, n
  <2> QED
    BY <1>0, <1>1, Descend
<1> QED
  BY <1>2

\* What is said after place a and up to place b, enciphered.
Ciphered(key, S, a, b) == Encipher(key, a, SubSeq(S, a + 1, b))

LEMMA CipheredIs ==
  ASSUME NEW S \in Seq(Nat), NEW key \in Int, NEW a \in Nat, NEW b \in Nat, a <= b, b <= Len(S)
  PROVE  /\ Ciphered(key, S, a, b) = SubSeq(Encipher(key, 0, S), a + 1, b)
         /\ Ciphered(key, S, a, b) \in Seq(Item) /\ Len(Ciphered(key, S, a, b)) = b - a
         /\ Encipher(key, 0, S) \in Seq(Item) /\ Len(Encipher(key, 0, S)) = Len(S)
<1>1. Encipher(key, 0, S) \in Seq(Item) /\ Len(Encipher(key, 0, S)) = Len(S)
  BY EncipherIs
<1>2. SubSeq(Encipher(key, 0, S), a + 1, b) = Ciphered(key, S, a, b)
  BY EncipherSlice DEF Ciphered
<1> DEFINE E == Encipher(key, 0, S)
<1>3. E \in Seq(Item) /\ b <= Len(E)
  BY <1>1
<1> HIDE DEF E
<1>4. SubSeq(E, a + 1, b) \in Seq(Item) /\ Len(SubSeq(E, a + 1, b)) = b - a
  BY <1>3, SliceIs
<1> QED
  BY <1>1, <1>2, <1>4 DEF E

LEMMA CipheredJoin ==
  ASSUME NEW S \in Seq(Nat), NEW key \in Int, NEW a \in Nat, NEW b \in Nat, NEW c \in Nat,
         a <= b, b <= c, c <= Len(S)
  PROVE  Ciphered(key, S, a, b) \o Ciphered(key, S, b, c) = Ciphered(key, S, a, c)
<1>1. PICK E \in Seq(Item) : E = Encipher(key, 0, S) /\ Len(E) = Len(S)
  BY EncipherIs
<1>2. a <= c /\ b <= Len(S) /\ c <= Len(E) /\ Len(S) \in Nat
  BY <1>1
<1>3. SubSeq(E, a + 1, b) \o SubSeq(E, b + 1, c) = SubSeq(E, a + 1, c)
  BY <1>2, SliceJoin
<1>4. Ciphered(key, S, a, b) = SubSeq(E, a + 1, b)
  BY <1>1, <1>2, CipheredIs
<1>5. Ciphered(key, S, b, c) = SubSeq(E, b + 1, c)
  BY <1>1, <1>2, CipheredIs
<1>6. Ciphered(key, S, a, c) = SubSeq(E, a + 1, c)
  BY <1>1, <1>2, CipheredIs
<1> QED
  BY <1>3, <1>4, <1>5, <1>6

CutAsSaid(key, S, a, b, d, j) ==
  /\ Drop(Ciphered(key, S, a, b), j) = Ciphered(key, S, d, b)
  /\ SubSeq(Ciphered(key, S, a, b), 1, j) = Ciphered(key, S, a, d)

LEMMA CipheredCut ==
  ASSUME NEW S \in Seq(Nat), NEW key \in Int, NEW a \in Nat, NEW b \in Nat, a <= b, b <= Len(S),
         NEW j \in Nat, j <= b - a, NEW d \in Nat, d = a + j
  PROVE  CutAsSaid(key, S, a, b, d, j)
<1>1. PICK E \in Seq(Item) : E = Encipher(key, 0, S) /\ Len(E) = Len(S)
  BY EncipherIs
<1>3. Len(S) \in Nat /\ d <= b /\ a <= d /\ d <= Len(S) /\ b <= Len(E)
  BY <1>1
<1>4. /\ Drop(SubSeq(E, a + 1, b), j) = SubSeq(E, a + j + 1, b)
      /\ SubSeq(SubSeq(E, a + 1, b), 1, j) = SubSeq(E, a + 1, a + j)
  BY <1>3, DropSlice
<1>5. Ciphered(key, S, a, b) = SubSeq(E, a + 1, b)
  BY <1>1, CipheredIs
<1>6. Ciphered(key, S, d, b) = SubSeq(E, d + 1, b)
  BY <1>1, <1>3, CipheredIs
<1>7. Ciphered(key, S, a, d) = SubSeq(E, a + 1, d)
  BY <1>1, <1>3, CipheredIs
<1> QED
  BY <1>4, <1>5, <1>6, <1>7 DEF CutAsSaid

LEMMA CipheredNothing ==
  ASSUME NEW S \in Seq(Nat), NEW key \in Int, NEW a \in Nat
  PROVE  Ciphered(key, S, a, a) = <<>>
<1>1. SubSeq(S, a + 1, a) = <<>>
  BY SliceEmpty
<1>2. Encipher(key, a, <<>>) = <<>>
  BY DEF Encipher
<1> QED
  BY <1>1, <1>2 DEF Ciphered

\* Who reads with the key of the writer.
LEMMA CipheredRead ==
  ASSUME NEW S \in Seq(Nat), NEW key \in Int, NEW a \in Nat, NEW b \in Nat, a <= b, b <= Len(S)
  PROVE  /\ SubSeq(S, a + 1, b) \in Seq(Nat) /\ Len(SubSeq(S, a + 1, b)) = b - a
         /\ Decipher(key, a, Ciphered(key, S, a, b)) = SubSeq(S, a + 1, b)
<1>1. SubSeq(S, a + 1, b) \in Seq(Nat) /\ Len(SubSeq(S, a + 1, b)) = b - a
  BY SliceIs
<1>2. PICK P \in Seq(Nat) : P = SubSeq(S, a + 1, b)
  BY <1>1
<1>3. a \in Int
  OBVIOUS
<1>4. Decipher(key, a, Encipher(key, a, P)) = P
  BY <1>3, DecipherEncipher
<1> QED
  BY <1>1, <1>2, <1>4 DEF Ciphered

-----------------------------------------------------------------------------
(***************************************************************************)
(* A splitter holds what was read and not sent.                            *)
(***************************************************************************)
Holding(S, sp, m, e) ==
  /\ sp \in SplitterType
  /\ m \in Nat /\ e \in Nat /\ m <= e /\ e <= Len(S)
  /\ sp.plain = SubSeq(S, m + 1, e)
  /\ sp.cipher = Ciphered(TgUp, S, m, e)
  /\ sp.disabled => m = e

\* Packet K has ended at place m, unless the packets of a known length are over.
AtEndOf(Q, w, K, m, disabled) == K <= w => ~ disabled /\ m = EndOf(Q, K)
LengthsOf(Q, w, K, parts) == \A i \in 1 .. Len(parts) : K + i <= w => Len(parts[i]) = Len(Q[K + i])

SplitDone(S, Q, w, sp, m, e, r) ==
  \E m2 \in Nat :
    /\ m <= m2
    /\ r.parts \in Seq(Seq(Item))
    /\ FlattenSeq(r.parts) = Ciphered(TgUp, S, m, m2)
    /\ Holding(S, r.sp, m2, e)
    /\ r.sp.proto = sp.proto
    /\ \A K \in Nat : AtEndOf(Q, w, K, m, sp.disabled) =>
         /\ AtEndOf(Q, w, K + Len(r.parts), m2, r.sp.disabled)
         /\ LengthsOf(Q, w, K, r.parts)

LEMMA SplitDisabled ==
  ASSUME NEW S \in Seq(Nat), NEW Q, NEW w \in Nat, NEW sp \in SplitterType, NEW m \in Nat, NEW e \in Nat, Holding(S, sp, m, e), sp.disabled,
         NEW e2 \in Nat, e <= e2, e2 <= Len(S)
  PROVE  SplitDone(S, Q, w, sp, m, e2, Split(sp, Ciphered(TgUp, S, e, e2), SubSeq(S, e + 1, e2)))
<1>0. /\ sp \in SplitterType /\ m \in Nat /\ e = m /\ m <= e2 /\ TgUp \in Int
      /\ sp.plain = SubSeq(S, m + 1, m) /\ sp.cipher = Ciphered(TgUp, S, m, m)
  BY DEF Holding, TgUp
<1>1. PICK x \in Seq(Item) : x = Ciphered(TgUp, S, e, e2)
  BY <1>0, CipheredIs
<1> DEFINE r == Split(sp, Ciphered(TgUp, S, e, e2), SubSeq(S, e + 1, e2))
<1>2. r.parts = <<x>> /\ r.sp = sp
  BY <1>1 DEF Split
<1> HIDE DEF r
<1>3. r.parts \in Seq(Seq(Item)) /\ Len(r.parts) = 1
  BY <1>2
<1>4. FlattenSeq(r.parts) = Ciphered(TgUp, S, m, e2)
  <2>1. FlattenSeq(<<x>>) = x
    BY FlattenOne
  <2> QED
    BY <1>0, <1>1, <1>2, <2>1
<1>5. Holding(S, sp, e2, e2)
  <2>1. SubSeq(S, m + 1, m) = <<>> /\ SubSeq(S, e2 + 1, e2) = <<>>
    BY <1>0, SliceEmpty
  <2>2. Ciphered(TgUp, S, m, m) = <<>> /\ Ciphered(TgUp, S, e2, e2) = <<>>
    BY <1>0, CipheredNothing
  <2>3. sp.plain = SubSeq(S, e2 + 1, e2) /\ sp.cipher = Ciphered(TgUp, S, e2, e2)
    BY <1>0, <2>1, <2>2
  <2> QED
    BY <1>0, <2>3 DEF Holding
<1>6. ASSUME NEW K \in Nat, AtEndOf(Q, w, K, m, sp.disabled)
      PROVE  AtEndOf(Q, w, K + 1, e2, sp.disabled) /\ LengthsOf(Q, w, K, r.parts)
  <2>1. ~ (K <= w)
    BY <1>6 DEF AtEndOf
  <2>2. ~ (K + 1 <= w) /\ \A i \in 1 .. 1 : ~ (K + i <= w)
    BY <2>1
  <2> QED
    BY <1>3, <2>2 DEF AtEndOf, LengthsOf
<1>7. SplitDone(S, Q, w, sp, m, e2, r)
  BY <1>0, <1>2, <1>3, <1>4, <1>5, <1>6 DEF SplitDone
<1> QED
  BY <1>7 DEF r

LEMMA SplitEnabled ==
  ASSUME NEW S \in Seq(Nat), NEW Q, NEW w \in Nat, NEW sp \in SplitterType, NEW m \in Nat, NEW e \in Nat, Holding(S, sp, m, e), ~ sp.disabled,
         NEW proto, proto = sp.proto, Speech3(proto, Q, w, S), NEW e2 \in Nat, e <= e2, e2 <= Len(S)
  PROVE  SplitDone(S, Q, w, sp, m, e2, Split(sp, Ciphered(TgUp, S, e, e2), SubSeq(S, e + 1, e2)))
<1>a. m <= e /\ m <= e2 /\ sp.plain = SubSeq(S, m + 1, e) /\ sp.cipher = Ciphered(TgUp, S, m, e)
  BY DEF Holding
<1>0. m <= e /\ m <= e2
  BY <1>a
<1>k. TgUp \in Int
  BY DEF TgUp
<1>p. proto \in {"abridged", "intermediate"}
  BY DEF SplitterType
<1>1. PICK c \in Seq(Item) : c = Ciphered(TgUp, S, m, e2) /\ Len(c) = e2 - m
  <2>1. Ciphered(TgUp, S, m, e2) \in Seq(Item) /\ Len(Ciphered(TgUp, S, m, e2)) = e2 - m
    BY <1>0, <1>k, CipheredIs, ZenonT(60)
  <2> QED
    BY <2>1
<1>2. PICK p \in Seq(Nat) : p = SubSeq(S, m + 1, e2) /\ Len(p) = e2 - m
  <2>1. SubSeq(S, m + 1, e2) \in Seq(Nat) /\ Len(SubSeq(S, m + 1, e2)) = e2 - m
    BY <1>0, SliceIs, SMTT(30)
  <2> QED
    BY <2>1, Zenon
<1>3. c = sp.cipher \o Ciphered(TgUp, S, e, e2)
  <2>1. Ciphered(TgUp, S, m, e) \o Ciphered(TgUp, S, e, e2) = Ciphered(TgUp, S, m, e2)
    BY <1>0, <1>k, CipheredJoin, SMTT(30)
  <2> QED
    BY <1>a, <1>1, <2>1
<1>4. p = sp.plain \o SubSeq(S, e + 1, e2)
  <2>1. SubSeq(S, m + 1, e) \o SubSeq(S, e + 1, e2) = SubSeq(S, m + 1, e2)
    BY <1>0, SliceJoin
  <2> QED
    BY <1>a, <1>2, <2>1
<1>5. PICK f : /\ Cuts(proto, c, p, f)
               /\ Split(sp, Ciphered(TgUp, S, e, e2), SubSeq(S, e + 1, e2)) =
                    [parts |-> f[0].parts,
                     sp    |-> [sp EXCEPT !.cipher = Drop(c, f[0].offset), !.plain = Drop(p, f[0].offset),
                                          !.disabled = f[0].disabled]]
  <2>1. Len(c) = Len(p)
    BY <1>1, <1>2
  <2> QED
    <3>1. SplitBy(sp.proto, sp, Ciphered(TgUp, S, e, e2), SubSeq(S, e + 1, e2), c, p)
      BY <1>3, <1>4, <2>1, SplitIs
    <3> QED
      BY <3>1 DEF SplitBy
<1>6. PICK l \in Nat : l = e2 - m /\ l = Len(c) /\ l = Len(p)
  BY <1>0, <1>1, <1>2
<1>7. Cut(c, 0, f[0])
  <2>1. \A o \in 0 .. Len(c) : Cut(c, o, f[o])
    BY <1>p, <1>5, <1>6, CutsJoin
  <2>2. 0 \in 0 .. Len(c)
    BY <1>6
  <2> QED
    BY <2>1, <2>2
<1>8. PICK x \in CutType(l) : x = f[0] /\ FlattenSeq(x.parts) = SubSeq(c, 0 + 1, x.offset)
                              /\ (x.disabled => x.offset = l)
  BY <1>6, <1>7 DEF Cut
<1>9. PICK j \in Nat : j = x.offset /\ j <= l /\ j <= e2 - m
  BY <1>6 DEF CutType
<1>j. j <= e2 - m
  BY <1>9
<1>10. PICK m2 \in Nat : m2 = m + j /\ m <= m2 /\ m2 <= e2
  BY <1>0, <1>9
<1> DEFINE r == Split(sp, Ciphered(TgUp, S, e, e2), SubSeq(S, e + 1, e2))
<1>11. /\ r.parts = x.parts /\ r.sp = [sp EXCEPT !.cipher = Drop(c, j), !.plain = Drop(p, j), !.disabled = x.disabled]
  BY <1>5, <1>8, <1>9
<1> HIDE DEF r
<1>12. r.parts \in Seq(Seq(Item)) /\ x.disabled \in BOOLEAN
  BY <1>11 DEF CutType
<1>13. Drop(c, j) = Ciphered(TgUp, S, m2, e2) /\ SubSeq(c, 1, j) = Ciphered(TgUp, S, m, m2)
  <2>1. CutAsSaid(TgUp, S, m, e2, m2, j)
    BY <1>0, <1>k, <1>j, <1>10, CipheredCut
  <2> QED
    BY <1>1, <2>1 DEF CutAsSaid
<1>14. Drop(p, j) = SubSeq(S, m2 + 1, e2)
  <2>1. Drop(SubSeq(S, m + 1, e2), j) = SubSeq(S, m + j + 1, e2)
    BY <1>0, <1>j, DropSlice
  <2> QED
    BY <1>2, <1>10, <2>1
<1>15. FlattenSeq(r.parts) = Ciphered(TgUp, S, m, m2)
  <2>1. 0 + 1 = 1
    OBVIOUS
  <2> QED
    BY <1>8, <1>9, <1>11, <1>13, <2>1
<1>16. Drop(c, j) \in Seq(Item) /\ Drop(p, j) \in Seq(Nat)
  BY <1>6, <1>9, DropIs
<1>17. /\ r.sp \in SplitterType /\ r.sp.proto = sp.proto /\ r.sp.disabled = x.disabled
       /\ r.sp.cipher = Drop(c, j) /\ r.sp.plain = Drop(p, j)
  BY <1>p, <1>11, <1>12, <1>16 DEF SplitterType
<1>18. x.disabled => m2 = e2
  BY <1>0, <1>6, <1>8, <1>9, <1>10
<1>19. Holding(S, r.sp, m2, e2)
  BY <1>10, <1>13, <1>14, <1>17, <1>18 DEF Holding
<1>20. ASSUME NEW K \in Nat, AtEndOf(Q, w, K, m, sp.disabled)
       PROVE  /\ AtEndOf(Q, w, K + Len(r.parts), m2, r.sp.disabled)
              /\ LengthsOf(Q, w, K, r.parts)
  <2>0. Len(x.parts) \in Nat /\ r.parts = x.parts
    BY <1>11 DEF CutType
  <2>1. CASE K <= w
    <3>1. m + 0 = EndOf(Q, K) /\ K \in 0 .. w /\ 0 \in 0 .. Len(c)
      BY <1>0, <1>6, <1>20, <2>1 DEF AtEndOf
    <3>2. Stands(S, m, p)
      <4>1. m + (e2 - m) = e2
        BY <1>0
      <4>2. m + Len(p) = e2
        BY <1>2, <4>1
      <4> QED
        BY <1>2, <4>2 DEF Stands
    <3>3. \A o \in 0 .. Len(c) : \A k \in 0 .. w : m + o = EndOf(Q, k) => Fits(Q, w, m, k, f[o])
      BY <1>p, <1>5, <1>6, <3>2, CutsFit
    <3>4. Fits(Q, w, m, K, x)
      BY <1>8, <3>1, <3>3
    <3> QED
      BY <1>9, <1>10, <1>17, <2>0, <3>4 DEF Fits, AtEndOf, LengthsOf
  <2>2. CASE ~ (K <= w)
    <3>1. PICK n \in Nat : n = Len(x.parts)
      BY <2>0
    <3>2. ~ (K + n <= w) /\ \A i \in 1 .. n : ~ (K + i <= w)
      BY <2>2
    <3> QED
      BY <2>0, <3>1, <3>2 DEF AtEndOf, LengthsOf
  <2> QED
    BY <2>1, <2>2
<1>21. SplitDone(S, Q, w, sp, m, e2, r)
  BY <1>10, <1>12, <1>15, <1>17, <1>19, <1>20 DEF SplitDone
<1> QED
  BY <1>21 DEF r

-----------------------------------------------------------------------------
(***************************************************************************)
(* Frames: who reads what was built gets it back.                          *)
(***************************************************************************)
LEMMA Middle ==
  ASSUME NEW T, NEW h \in Seq(T), NEW d \in Seq(T), NEW w \in Seq(T)
  PROVE  /\ SubSeq((h \o d) \o w, Len(h) + 1, Len(h) + Len(d)) = d
         /\ Drop((h \o d) \o w, Len(h) + Len(d)) = w
<1>1. PICK u \in Seq(T) : /\ u = h \o d /\ Len(u) = Len(h) + Len(d) /\ Len(h) \in Nat /\ Len(d) \in Nat
                          /\ \A i \in 1 .. Len(d) : u[Len(h) + i] = d[i]
  <2>1. /\ h \o d \in Seq(T) /\ Len(h \o d) = Len(h) + Len(d) /\ Len(h) \in Nat /\ Len(d) \in Nat
        /\ \A i \in 1 .. Len(d) : (h \o d)[Len(h) + i] = d[i]
    BY ConcatFirst
  <2> QED
    BY <2>1
<1>2. PICK y \in Seq(T) : /\ y = u \o w /\ Len(y) = Len(u) + Len(w) /\ Len(w) \in Nat
                          /\ \A i \in 1 .. Len(u) : y[i] = u[i]
  <2>1. /\ u \o w \in Seq(T) /\ Len(u \o w) = Len(u) + Len(w) /\ Len(w) \in Nat
        /\ \A i \in 1 .. Len(u) : (u \o w)[i] = u[i]
    BY ConcatFirst
  <2> QED
    BY <2>1
<1>3. PICK a \in Nat, b \in Nat : a = Len(h) /\ b = Len(h) + Len(d) /\ b - a = Len(d) /\ a <= b /\ b = Len(u)
                                  /\ b <= Len(y)
  BY <1>1, <1>2
<1> DEFINE s == SubSeq(y, a + 1, b)
<1>4. s \in Seq(T) /\ Len(s) = b - a /\ \A i \in 1 .. (b - a) : s[i] = y[a + i]
  BY <1>2, <1>3, SliceIs
<1> HIDE DEF s
<1>5. \A i \in 1 .. Len(s) : s[i] = d[i]
  <2> SUFFICES ASSUME NEW i \in 1 .. Len(s) PROVE s[i] = d[i]
    OBVIOUS
  <2>1. i \in 1 .. Len(d) /\ i \in 1 .. (b - a) /\ a + i \in 1 .. Len(u)
    BY <1>1, <1>3, <1>4
  <2>2. s[i] = y[a + i] /\ y[a + i] = u[a + i] /\ u[a + i] = d[i]
    BY <1>1, <1>2, <1>3, <1>4, <2>1
  <2> QED
    BY <2>2
<1>6. s = d
  BY <1>3, <1>4, <1>5, SeqEqual
<1>7. Drop(u \o w, Len(u) + 0) = Drop(w, 0)
  <2>1. 0 \in Nat /\ 0 <= Len(w)
    BY <1>2
  <2> QED
    BY <2>1, DropConcat
<1>8. Drop(w, 0) = w
  BY DropNone
<1>9. Drop(y, b) = w
  <2>1. Len(u) + 0 = b
    BY <1>1, <1>3
  <2> QED
    BY <1>2, <1>7, <1>8, <2>1
<1> QED
  BY <1>1, <1>2, <1>3, <1>6, <1>9 DEF s

\* The head of a frame: the opcode, and the length in one of its three forms.
HeadOf(x, n) == <<Header(x)>> \o LengthField(n)

LEMMA HeadIs ==
  ASSUME NEW x \in Nat, NEW n \in Nat
  PROVE  /\ HeadOf(x, n) \in Seq(Item)
         /\ HeadOf(x, n)[1][1] = x
         /\ \/ /\ Len(HeadOf(x, n)) = 2 /\ HeadOf(x, n)[2][1] = n /\ n < Small
            \/ /\ Len(HeadOf(x, n)) = 3 /\ HeadOf(x, n)[2][1] >= Small /\ HeadOf(x, n)[3][1] = n
<1>1. Small \in Nat /\ Medium \in Nat
  BY LengthAssumption
<1>2. ASSUME NEW k \in Nat PROVE Header(k) \in Item /\ Header(k)[1] = k
  BY DEF Header, Item, Frame
<1>3. ASSUME NEW q \in Seq(Item)
      PROVE  LET g == <<Header(x)>> \o q
             IN /\ g \in Seq(Item) /\ Len(g) = 1 + Len(q) /\ g[1][1] = x
                /\ \A i \in 1 .. Len(q) : g[1 + i] = q[i]
  <2>1. PICK a \in Item : a = Header(x) /\ a[1] = x
    BY <1>2
  <2>2. /\ <<a>> \o q \in Seq(Item) /\ Len(<<a>> \o q) = 1 + Len(q) /\ (<<a>> \o q)[1] = a
        /\ \A i \in 1 .. Len(q) : (<<a>> \o q)[1 + i] = q[i]
    BY OnePart
  <2> QED
    BY <2>1, <2>2
<1>4. PICK q \in Seq(Item) :
        /\ q = LengthField(n)
        /\ \/ Len(q) = 1 /\ q[1][1] = n /\ n < Small
           \/ Len(q) = 2 /\ q[1][1] >= Small /\ q[2][1] = n
  <2>1. CASE n < Small
    <3>1. PICK a \in Item : a = Header(n) /\ a[1] = n
      BY <1>2
    <3>2. <<a>> \in Seq(Item) /\ Len(<<a>>) = 1 /\ <<a>>[1] = a
      OBVIOUS
    <3>3. LengthField(n) = <<a>>
      BY <2>1, <3>1 DEF LengthField
    <3> QED
      BY <2>1, <3>1, <3>2, <3>3
  <2>2. CASE ~ (n < Small)
    <3>1. PICK k \in Nat : k >= Small /\ LengthField(n) = <<Header(k), Header(n)>>
      <4>1. Small + 1 \in Nat /\ Small + 1 >= Small
        BY <1>1
      <4>2. LengthField(n) = IF n < Medium THEN <<Header(Small), Header(n)>>
                             ELSE <<Header(Small + 1), Header(n)>>
        BY <2>2 DEF LengthField
      <4> QED
        BY <1>1, <4>1, <4>2
    <3>2. PICK a \in Item, b \in Item : a = Header(k) /\ b = Header(n) /\ a[1] = k /\ b[1] = n
      BY <1>2
    <3>3. <<a, b>> \in Seq(Item) /\ Len(<<a, b>>) = 2 /\ <<a, b>>[1] = a /\ <<a, b>>[2] = b
      OBVIOUS
    <3> QED
      BY <3>1, <3>2, <3>3
  <2> QED
    BY <2>1, <2>2
<1> DEFINE g == HeadOf(x, n)
<1>5. /\ g \in Seq(Item) /\ Len(g) = 1 + Len(q) /\ g[1][1] = x
      /\ \A i \in 1 .. Len(q) : g[1 + i] = q[i]
  BY <1>3, <1>4 DEF HeadOf
<1> HIDE DEF g
<1>6. CASE Len(q) = 1 /\ q[1][1] = n /\ n < Small
  <2>1. Len(g) = 2 /\ g[1 + 1] = q[1]
    BY <1>5, <1>6
  <2>2. Len(g) = 2 /\ g[2][1] = n
    BY <1>6, <2>1
  <2> QED
    BY <1>5, <1>6, <2>2 DEF g
<1>7. CASE Len(q) = 2 /\ q[1][1] >= Small /\ q[2][1] = n
  <2>1. Len(g) = 3 /\ g[1 + 1] = q[1] /\ g[1 + 2] = q[2]
    BY <1>5, <1>7
  <2>2. Len(g) = 3 /\ g[2][1] >= Small /\ g[3][1] = n
    BY <1>7, <2>1
  <2> QED
    BY <1>5, <2>2 DEF g
<1> QED
  BY <1>4, <1>6, <1>7

\* What is read of a wire that begins with a frame.
Reads(op, fin, d, w) ==
  /\ EncodeFrame(op, fin, d) \in Seq(Item)
  /\ Len(EncodeFrame(op, fin, d)) > 0
  /\ ReadFrame(EncodeFrame(op, fin, d) \o w) =
       [op |-> op, fin |-> fin, len |-> Len(d), size |-> Len(EncodeFrame(op, fin, d)), data |-> d]
  /\ Drop(EncodeFrame(op, fin, d) \o w, Len(EncodeFrame(op, fin, d))) = w

LEMMA FrameRead ==
  ASSUME NEW op \in 0 .. (Fin - 1), NEW fin \in BOOLEAN, NEW d \in Seq(Item), NEW w \in Seq(Item)
  PROVE  Reads(op, fin, d, w)
<1>1. PICK x \in Nat : x = op + (IF fin THEN Fin ELSE 0) /\ x % Fin = op /\ (x >= Fin) = fin
  <2>1. op \in Nat /\ op + Fin \in Nat /\ op + 0 = op
    BY DEF Fin
  <2>2. op % Fin = op /\ ~ (op >= Fin) /\ (op + Fin) % Fin = op /\ op + Fin >= Fin
    BY DEF Fin
  <2>3. CASE fin
    BY <2>1, <2>2, <2>3
  <2>4. CASE ~ fin
    BY <2>1, <2>2, <2>4
  <2> QED
    BY <2>3, <2>4
<1>2. PICK n \in Nat : n = Len(d)
  OBVIOUS
<1>3. PICK h \in Seq(Item) : h = HeadOf(x, n)
  BY HeadIs
<1>4. /\ h[1][1] = x
      /\ (Len(h) = 2 /\ h[2][1] = n /\ n < Small) \/ (Len(h) = 3 /\ h[2][1] >= Small /\ h[3][1] = n)
  BY <1>3, HeadIs
<1> DEFINE f == EncodeFrame(op, fin, d)
<1>5. f = h \o d
  BY <1>1, <1>2, <1>3 DEF EncodeFrame, HeadOf
<1> HIDE DEF f
<1>6. f \in Seq(Item) /\ Len(f) = Len(h) + n /\ \A i \in 1 .. Len(h) : f[i] = h[i]
  BY <1>2, <1>5, ConcatFirst
<1>7. Len(h) \in Nat /\ Len(h) >= 2
  BY <1>4
<1> DEFINE y == f \o w
<1>8. /\ y \in Seq(Item) /\ \A i \in 1 .. Len(f) : y[i] = f[i]
  BY <1>6, ConcatFirst
<1>9. SubSeq(y, Len(h) + 1, Len(h) + n) = d /\ Drop(y, Len(h) + n) = w
  BY <1>2, <1>5, Middle
<1> HIDE DEF y
<1>10. \A i \in 1 .. Len(h) : y[i] = h[i]
  <2> SUFFICES ASSUME NEW i \in 1 .. Len(h) PROVE y[i] = h[i]
    OBVIOUS
  <2>1. i \in 1 .. Len(f)
    BY <1>6, <1>7
  <2> QED
    BY <1>6, <1>8, <2>1
<1>11. y[1] = h[1] /\ y[2] = h[2] /\ (Len(h) = 3 => y[3] = h[3])
  BY <1>7, <1>10
<1>12. Small \in Nat
  BY LengthAssumption
<1>13. ReadFrame(y) = [op |-> op, fin |-> fin, len |-> n, size |-> Len(h) + n, data |-> d]
  <2>1. CASE Len(h) = 2 /\ h[2][1] = n /\ n < Small
    <3>1. ~ (y[2][1] >= Small) /\ y[2][1] = n /\ y[1][1] = x
      BY <1>4, <1>11, <1>12, <2>1
    <3>2. ReadFrame(y) = [op |-> x % Fin, fin |-> x >= Fin, len |-> n, size |-> 2 + n, data |-> SubSeq(y, 2 + 1, 2 + n)]
      BY <3>1 DEF ReadFrame
    <3> QED
      BY <1>1, <1>9, <2>1, <3>2
  <2>2. CASE Len(h) = 3 /\ h[2][1] >= Small /\ h[3][1] = n
    <3>1. y[2][1] >= Small /\ y[3][1] = n /\ y[1][1] = x
      BY <1>4, <1>11, <2>2
    <3>2. ReadFrame(y) = [op |-> x % Fin, fin |-> x >= Fin, len |-> n, size |-> 3 + n, data |-> SubSeq(y, 3 + 1, 3 + n)]
      BY <3>1 DEF ReadFrame
    <3> QED
      BY <1>1, <1>9, <2>2, <3>2
  <2> QED
    BY <1>4, <2>1, <2>2
<1>14. Len(f) > 0 /\ Len(h) + n = Len(f)
  BY <1>6, <1>7
<1> QED
  BY <1>2, <1>6, <1>9, <1>13, <1>14 DEF Reads, f, y

\* The frames that are read from each place of a wire on.
NextFrame(w, i) == ReadFrame(Drop(w, i))
FramesAt(w, f) ==
  \A i \in 0 .. Len(w) :
    f[i] = IF i = Len(w) THEN <<>>
           ELSE <<NextFrame(w, i)>> \o
                  (IF NextFrame(w, i).size \in 1 .. (Len(w) - i) THEN f[i + NextFrame(w, i).size] ELSE <<>>)

LEMMA FramesOfIs ==
  ASSUME NEW w \in Seq(Item)
  PROVE  \E f : FramesAt(w, f) /\ FramesOf(w) = f[0]
<1> DEFINE n == Len(w)
           X == {NextFrame(w, i) : i \in 0 .. n}
           V == Seq(X)
           J == [i \in 0 .. n |-> IF NextFrame(w, i).size \in 1 .. (n - i) THEN i + NextFrame(w, i).size ELSE 0]
           K == [i \in 0 .. n |-> [x \in V |-> IF i = n THEN <<>> ELSE <<NextFrame(w, i)>> \o x]]
           B == [i \in 0 .. n |-> IF i = n THEN <<>> ELSE <<NextFrame(w, i)>>]
           F(e) == [i \in 0 .. n |->
                      IF i = n THEN <<>>
                      ELSE LET r == ReadFrame(Drop(w, i))
                           IN <<r>> \o (IF r.size \in 1 .. (n - i) THEN e[i + r.size] ELSE <<>>)]
           e == CHOOSE g : g = F(g)
<1>0. n \in Nat
  OBVIOUS
<1>1. PICK f \in [0 .. n -> V] : Backwards(f, n, J, K, B)
  <2>1. ASSUME NEW i \in 0 .. n, NEW x \in V PROVE (IF i = n THEN <<>> ELSE <<NextFrame(w, i)>> \o x) \in V
    <3>1. NextFrame(w, i) \in X
      OBVIOUS
    <3>2. PICK y \in X : y = NextFrame(w, i)
      BY <3>1
    <3> HIDE DEF X
    <3>3. <<y>> \o x \in V
      BY OnePart
    <3> QED
      BY <3>2, <3>3
  <2>2. ASSUME NEW i \in 0 .. n PROVE (IF i = n THEN <<>> ELSE <<NextFrame(w, i)>>) \in V
    <3>1. NextFrame(w, i) \in X
      OBVIOUS
    <3> HIDE DEF X
    <3> QED
      BY <3>1
  <2>3. K \in [0 .. n -> [V -> V]] /\ B \in [0 .. n -> V]
    <3> HIDE DEF V
    <3> QED
      BY <2>1, <2>2
  <2> HIDE DEF J, K, B, n, V
  <2>4. \E f \in [0 .. n -> V] : Backwards(f, n, J, K, B)
    BY <1>0, <2>3, BackwardsExists
  <2> QED
    BY <2>4
<1>2. ASSUME NEW i \in 0 .. n
      PROVE  f[i] = IF i = n THEN <<>>
                    ELSE LET r == ReadFrame(Drop(w, i))
                         IN <<r>> \o (IF r.size \in 1 .. (n - i) THEN f[i + r.size] ELSE <<>>)
  <2>1. f[i] = IF J[i] \in (i + 1) .. n THEN K[i][f[J[i]]] ELSE B[i]
    <3> HIDE DEF J, K, B, n
    <3> QED
      BY <1>1 DEF Backwards
  <2>2. J[i] = IF NextFrame(w, i).size \in 1 .. (n - i) THEN i + NextFrame(w, i).size ELSE 0
    OBVIOUS
  <2>3. B[i] = IF i = n THEN <<>> ELSE <<NextFrame(w, i)>>
    OBVIOUS
  <2>4. CASE J[i] \in (i + 1) .. n
    <3>1. i # n
      BY <1>0, <2>4
    <3>2. PICK j \in 0 .. n : j = J[i]
      BY <1>0, <2>4
    <3>3. f[j] \in V
      <4> HIDE DEF V
      <4> QED
        BY <1>1
    <3>4. K[i][f[j]] = <<NextFrame(w, i)>> \o f[j]
      <4> HIDE DEF V
      <4> QED
        BY <3>1, <3>3
    <3> HIDE DEF J, K, B, V, n
    <3>6. NextFrame(w, i).size \in 1 .. (n - i)
      BY <1>0, <2>2, <2>4
    <3>5. f[i] = <<NextFrame(w, i)>> \o f[i + NextFrame(w, i).size]
      BY <2>1, <2>2, <2>4, <3>2, <3>4, <3>6
    <3> QED
      BY <3>1, <3>5, <3>6 DEF NextFrame
  <2>5. CASE ~ (J[i] \in (i + 1) .. n)
    <3>1. PICK r : r = NextFrame(w, i)
      OBVIOUS
    <3>2. <<r>> \o <<>> = <<r>>
      OBVIOUS
    <3> HIDE DEF J, K, B, V, n
    <3>3. f[i] = IF i = n THEN <<>> ELSE <<r>>
      BY <2>1, <2>3, <2>5, <3>1
    <3>4. ~ (r.size \in 1 .. (n - i))
      BY <1>0, <2>2, <2>5, <3>1
    <3> QED
      BY <3>1, <3>2, <3>3, <3>4 DEF NextFrame
  <2> QED
    BY <2>4, <2>5
<1>3. f = F(f)
  <2> HIDE DEF V
  <2>1. f = [i \in 0 .. n |-> f[i]]
    BY <1>1
  <2> QED
    BY <1>2, <2>1
<1>4. e = F(e)
  <2> HIDE DEF F
  <2> QED
    BY <1>3
<1>5. FramesOf(w) = e[0]
  BY Zenon DEF FramesOf
<1>6. FramesAt(w, e)
  <2> HIDE DEF e
  <2>1. \A i \in 0 .. n : e[i] = IF i = n THEN <<>>
                                 ELSE LET r == ReadFrame(Drop(w, i))
                                      IN <<r>> \o (IF r.size \in 1 .. (n - i) THEN e[i + r.size] ELSE <<>>)
    BY <1>4, Zenon
  <2> QED
    BY <2>1 DEF FramesAt, NextFrame
<1> QED
  BY <1>5, <1>6

LEMMA FramesShift ==
  ASSUME NEW u \in Seq(Item), NEW w \in Seq(Item), NEW f, NEW g, FramesAt(u \o w, f), FramesAt(w, g)
  PROVE  \A i \in 0 .. Len(w) : f[Len(u) + i] = g[i]
<1>1. PICK y \in Seq(Item), m \in Nat, n \in Nat : y = u \o w /\ m = Len(u) /\ n = Len(w) /\ Len(y) = m + n
  <2>1. u \o w \in Seq(Item) /\ Len(u \o w) = Len(u) + Len(w) /\ Len(u) \in Nat /\ Len(w) \in Nat
    BY ConcatFirst
  <2> QED
    BY <2>1
<1> DEFINE S == {i \in 0 .. n : f[m + i] = g[i]}
<1>2. ASSUME NEW i \in 0 .. n, \A j \in (i + 1) .. n : j \in S PROVE i \in S
  <2>1. i \in Nat /\ m + i \in 0 .. (m + n) /\ (m + i = m + n <=> i = n)
    OBVIOUS
  <2>2. NextFrame(y, m + i) = NextFrame(w, i)
    <3>1. i <= Len(w)
      BY <1>1
    <3>2. Drop(u \o w, Len(u) + i) = Drop(w, i)
      BY <2>1, <3>1, DropConcat
    <3> QED
      BY <1>1, <3>2 DEF NextFrame
  <2>3. PICK r : r = NextFrame(w, i)
    OBVIOUS
  <2>4. f[m + i] = IF m + i = m + n THEN <<>>
                   ELSE <<r>> \o (IF r.size \in 1 .. ((m + n) - (m + i)) THEN f[(m + i) + r.size] ELSE <<>>)
    <3>1. FramesAt(y, f)
      BY <1>1
    <3> QED
      BY <1>1, <2>1, <2>2, <2>3, <3>1 DEF FramesAt
  <2>5. g[i] = IF i = n THEN <<>> ELSE <<r>> \o (IF r.size \in 1 .. (n - i) THEN g[i + r.size] ELSE <<>>)
    BY <1>1, <2>3 DEF FramesAt
  <2>6. CASE i = n
    BY <2>1, <2>4, <2>5, <2>6
  <2>7. CASE i # n /\ r.size \in 1 .. (n - i)
    <3>1. PICK z \in 1 .. (n - i) : z = r.size
      BY <2>7
    <3>2. PICK j \in (i + 1) .. n : j = i + z
      BY <2>1
    <3>3. (m + i) + z = m + j /\ (m + n) - (m + i) = n - i
      BY <2>1, <3>1, <3>2
    <3>4. f[m + i] = <<r>> \o f[m + j]
      BY <2>1, <2>4, <2>7, <3>1, <3>3
    <3>5. g[i] = <<r>> \o g[j]
      BY <2>5, <2>7, <3>1, <3>2
    <3>6. f[m + j] = g[j]
      BY <1>2, <3>2
    <3> QED
      BY <3>4, <3>5, <3>6
  <2>8. CASE i # n /\ ~ (r.size \in 1 .. (n - i))
    <3>1. (m + n) - (m + i) = n - i
      BY <2>1
    <3> QED
      BY <2>1, <2>4, <2>5, <2>8, <3>1
  <2> QED
    BY <2>6, <2>7, <2>8
<1>3. 0 .. n \subseteq S
  <2> HIDE DEF S
  <2> QED
    BY <1>2, Descend
<1> QED
  BY <1>1, <1>3

\* A frame that is whole is read before those behind it.
ReadRec(op, d) ==
  [op |-> op, fin |-> TRUE, len |-> Len(d), size |-> Len(BuildFrame(op, d)), data |-> d]

LEMMA FramesFirst ==
  ASSUME NEW op \in 0 .. (Fin - 1), NEW d \in Seq(Item), NEW w \in Seq(Item)
  PROVE  FramesOf(BuildFrame(op, d) \o w) = <<ReadRec(op, d)>> \o FramesOf(w)
<1>1. Reads(op, TRUE, d, w)
  BY FrameRead
<1>2. PICK u \in Seq(Item) : u = BuildFrame(op, d) /\ Len(u) > 0 /\ ReadFrame(u \o w) = ReadRec(op, d)
  BY <1>1 DEF Reads, BuildFrame, ReadRec
<1>3. PICK y \in Seq(Item), m \in Nat, n \in Nat : y = u \o w /\ m = Len(u) /\ n = Len(w) /\ Len(y) = m + n
  <2>1. u \o w \in Seq(Item) /\ Len(u \o w) = Len(u) + Len(w) /\ Len(u) \in Nat /\ Len(w) \in Nat
    BY ConcatFirst
  <2> QED
    BY <2>1
<1>4. PICK f : FramesAt(y, f) /\ FramesOf(y) = f[0]
  BY FramesOfIs
<1>5. PICK g : FramesAt(w, g) /\ FramesOf(w) = g[0]
  BY FramesOfIs
<1>6. f[m + 0] = g[0]
  <2>1. \A i \in 0 .. Len(w) : f[Len(u) + i] = g[i]
    BY <1>3, <1>4, <1>5, FramesShift
  <2>2. 0 \in 0 .. Len(w)
    BY <1>3
  <2> QED
    BY <1>3, <2>1, <2>2
<1>7. NextFrame(y, 0) = ReadRec(op, d)
  <2>1. Drop(y, 0) = y
    BY DropNone
  <2> QED
    BY <1>2, <1>3, <2>1 DEF NextFrame
<1>8. PICK r : r = ReadRec(op, d) /\ r.size = m
  BY <1>2, <1>3 DEF ReadRec
<1>9. f[0] = <<r>> \o f[m]
  <2>1. f[0] = IF 0 = m + n THEN <<>>
               ELSE <<r>> \o (IF r.size \in 1 .. ((m + n) - 0) THEN f[0 + r.size] ELSE <<>>)
    <3>1. 0 \in 0 .. Len(y)
      BY <1>3
    <3> QED
      BY <1>3, <1>4, <1>7, <1>8, <3>1 DEF FramesAt
  <2>2. m > 0 /\ 0 # m + n /\ 0 + m = m /\ m \in 1 .. ((m + n) - 0)
    BY <1>2, <1>3
  <2> QED
    BY <1>8, <2>1, <2>2
<1>10. m + 0 = m
  OBVIOUS
<1> QED
  BY <1>2, <1>3, <1>4, <1>5, <1>6, <1>8, <1>9, <1>10

LEMMA FramesNone == FramesOf(<<>>) = <<>>
<1>0. <<>> \in Seq(Item) /\ Len(<<>>) = 0
  OBVIOUS
<1>1. PICK w \in Seq(Item) : w = <<>> /\ Len(w) = 0
  BY <1>0
<1>2. PICK f : FramesAt(w, f) /\ FramesOf(w) = f[0]
  BY FramesOfIs
<1>3. f[0] = <<>>
  BY <1>1, <1>2 DEF FramesAt
<1> QED
  BY <1>1, <1>2, <1>3

\* A wire that holds the messages Q, read to its end; and one that puts P before what
\* the wire behind it holds.
Frame1 == [op : Nat, fin : BOOLEAN, len : Nat, size : Nat, data : Seq(Item)]
BinaryOf(fs) == [i \in DOMAIN fs |-> IF fs[i].op = OP_BINARY THEN <<fs[i].data>> ELSE <<>>]
Tells(v, Q) ==
  v \in Seq(Item) /\ Q \in Seq(Seq(Item)) /\ FramesOf(v) \in Seq(Frame1) /\ Messages(v) = Q
Carries(w, P) ==
  w \in Seq(Item) /\ P \in Seq(Seq(Item)) /\ \A v, Q : Tells(v, Q) => Tells(w \o v, P \o Q)
OneBinary(op, d) == IF op = OP_BINARY THEN <<d>> ELSE <<>>

LEMMA TellsNothing == Tells(<<>>, <<>>)
<1>1. FramesOf(<<>>) = <<>>
  BY FramesNone
<1>2. Messages(<<>>) = FlattenSeq(BinaryOf(<<>>))
  BY <1>1 DEF Messages, BinaryOf
<1>3. BinaryOf(<<>>) = <<>>
  BY DEF BinaryOf
<1>4. <<>> \in Seq(Item) /\ <<>> \in Seq(Frame1)
  OBVIOUS
<1>5. <<>> \in Seq(Seq(Item))
  OBVIOUS
<1> QED
  BY <1>1, <1>2, <1>3, <1>4, <1>5, FlattenEmpty DEF Tells

LEMMA BinaryType ==
  ASSUME NEW fs \in Seq(Frame1)
  PROVE  BinaryOf(fs) \in Seq(Seq(Seq(Item))) /\ Len(BinaryOf(fs)) = Len(fs)
<1>1. ASSUME NEW i \in 1 .. Len(fs)
      PROVE  (IF fs[i].op = OP_BINARY THEN <<fs[i].data>> ELSE <<>>) \in Seq(Seq(Item))
  <2>1. fs[i] \in Frame1
    OBVIOUS
  <2>2. PICK d \in Seq(Item) : d = fs[i].data
    BY <2>1 DEF Frame1
  <2>3. <<d>> \in Seq(Seq(Item)) /\ <<>> \in Seq(Seq(Item))
    OBVIOUS
  <2> QED
    BY <2>2, <2>3
<1>2. PICK X : X = Seq(Seq(Item))
  OBVIOUS
<1>3. ASSUME NEW i \in 1 .. Len(fs)
      PROVE  (IF fs[i].op = OP_BINARY THEN <<fs[i].data>> ELSE <<>>) \in X
  BY <1>1, <1>2
<1>4. DOMAIN fs = 1 .. Len(fs) /\ Len(fs) \in Nat
  OBVIOUS
<1>5. BinaryOf(fs) \in Seq(X) /\ Len(BinaryOf(fs)) = Len(fs)
  BY <1>3, <1>4 DEF BinaryOf
<1> QED
  BY <1>2, <1>5

LEMMA BinaryFirst ==
  ASSUME NEW r \in Frame1, NEW fs \in Seq(Frame1)
  PROVE  BinaryOf(<<r>> \o fs) = <<OneBinary(r.op, r.data)>> \o BinaryOf(fs)
<1>1. PICK gs \in Seq(Frame1) :
        gs = <<r>> \o fs /\ Len(gs) = 1 + Len(fs) /\ gs[1] = r /\ \A i \in 1 .. Len(fs) : gs[1 + i] = fs[i]
  <2>1. /\ <<r>> \o fs \in Seq(Frame1) /\ Len(<<r>> \o fs) = 1 + Len(fs) /\ (<<r>> \o fs)[1] = r
        /\ \A i \in 1 .. Len(fs) : (<<r>> \o fs)[1 + i] = fs[i]
    BY OnePart
  <2> QED
    BY <2>1
<1>2. PICK X, b, x, y :
        /\ X = Seq(Seq(Item)) /\ b = BinaryOf(gs) /\ b \in Seq(X) /\ Len(b) = Len(gs)
        /\ x = OneBinary(r.op, r.data) /\ x \in X
        /\ y = BinaryOf(fs) /\ y \in Seq(X) /\ Len(y) = Len(fs)
  <2>1. OneBinary(r.op, r.data) \in Seq(Seq(Item))
    <3>1. PICK d \in Seq(Item) : d = r.data
      BY DEF Frame1
    <3>2. <<d>> \in Seq(Seq(Item)) /\ <<>> \in Seq(Seq(Item))
      OBVIOUS
    <3> QED
      BY <3>1, <3>2 DEF OneBinary
  <2> QED
    BY <1>1, <2>1, BinaryType
<1>3. \A i \in 1 .. Len(gs) : b[i] = OneBinary(gs[i].op, gs[i].data)
  <2>1. DOMAIN gs = 1 .. Len(gs)
    OBVIOUS
  <2> QED
    BY <1>2, <2>1 DEF BinaryOf, OneBinary
<1>4. \A i \in 1 .. Len(fs) : y[i] = OneBinary(fs[i].op, fs[i].data)
  <2>1. DOMAIN fs = 1 .. Len(fs)
    OBVIOUS
  <2> QED
    BY <1>2, <2>1 DEF BinaryOf, OneBinary
<1>5. PICK z \in Seq(X) :
        z = <<x>> \o y /\ Len(z) = 1 + Len(y) /\ z[1] = x /\ \A i \in 1 .. Len(y) : z[1 + i] = y[i]
  <2>1. x \in X /\ y \in Seq(X)
    BY <1>2
  <2>2. /\ <<x>> \o y \in Seq(X) /\ Len(<<x>> \o y) = 1 + Len(y) /\ (<<x>> \o y)[1] = x
        /\ \A i \in 1 .. Len(y) : (<<x>> \o y)[1 + i] = y[i]
    BY <2>1, OnePart
  <2> QED
    BY <2>2
<1>6. PICK n \in Nat : n = Len(fs)
  OBVIOUS
<1>7. \A i \in 1 .. Len(b) : b[i] = z[i]
  <2> SUFFICES ASSUME NEW i \in 1 .. Len(b) PROVE b[i] = z[i]
    OBVIOUS
  <2>1. i \in 1 .. (1 + n)
    BY <1>1, <1>2, <1>6
  <2>2. CASE i = 1
    <3>1. b[i] = OneBinary(gs[i].op, gs[i].data)
      BY <1>2, <1>3
    <3>2. gs[i] = r /\ z[i] = x
      BY <1>1, <1>5, <2>2
    <3> QED
      BY <1>2, <3>1, <3>2
  <2>3. CASE i # 1
    <3>1. PICK j \in 1 .. n : i = 1 + j
      <4>1. i - 1 \in 1 .. n /\ i = 1 + (i - 1)
        BY <2>1, <2>3
      <4> QED
        BY <4>1
    <3>2. gs[i] = fs[j] /\ z[i] = y[j]
      BY <1>1, <1>2, <1>5, <1>6, <3>1
    <3>3. b[i] = OneBinary(gs[i].op, gs[i].data)
      BY <1>1, <1>3, <1>6, <2>1
    <3>4. y[j] = OneBinary(fs[j].op, fs[j].data)
      BY <1>4, <1>6, <3>1
    <3> QED
      BY <3>2, <3>3, <3>4
  <2> QED
    BY <2>2, <2>3
<1>8. Len(b) = Len(z)
  BY <1>1, <1>2, <1>5
<1>9. b = z
  <2>1. b \in Seq(X) /\ z \in Seq(X)
    BY <1>2, <1>5
  <2> QED
    BY <1>7, <1>8, <2>1, SeqEqual
<1> QED
  BY <1>1, <1>2, <1>5, <1>9

LEMMA CarriesFrame ==
  ASSUME NEW op \in 0 .. (Fin - 1), NEW d \in Seq(Item)
  PROVE  Carries(BuildFrame(op, d), OneBinary(op, d))
<1>1. PICK u \in Seq(Item) : u = BuildFrame(op, d)
  <2>1. Reads(op, TRUE, d, d)
    BY FrameRead
  <2> QED
    BY <2>1 DEF Reads, BuildFrame
<1>2. PICK X : X = Seq(Item)
  OBVIOUS
<1>3. PICK p \in Seq(X) : p = OneBinary(op, d)
  <2>1. PICK e \in X : e = d
    BY <1>2
  <2>2. <<e>> \in Seq(X) /\ <<>> \in Seq(X)
    OBVIOUS
  <2> QED
    BY <2>1, <2>2 DEF OneBinary
<1>4. PICK r \in Frame1 : r = ReadRec(op, d)
  <2>1. PICK m \in Nat, n \in Nat : m = Len(u) /\ n = Len(d)
    OBVIOUS
  <2>2. op \in Nat
    BY DEF Fin
  <2>3. [op |-> op, fin |-> TRUE, len |-> n, size |-> m, data |-> d] \in Frame1
    BY <2>2 DEF Frame1
  <2>4. ReadRec(op, d) = [op |-> op, fin |-> TRUE, len |-> n, size |-> m, data |-> d]
    BY <1>1, <2>1 DEF ReadRec
  <2> QED
    BY <2>3, <2>4
<1>5. ASSUME NEW v, NEW Q, Tells(v, Q) PROVE Tells(u \o v, p \o Q)
  <2>1. v \in Seq(Item) /\ Q \in Seq(X) /\ FramesOf(v) \in Seq(Frame1) /\ Messages(v) = Q
    BY <1>2, <1>5 DEF Tells
  <2>2. PICK fs \in Seq(Frame1) : fs = FramesOf(v)
    BY <2>1
  <2>3. FramesOf(u \o v) = <<r>> \o fs
    BY <1>1, <1>4, <2>1, <2>2, FramesFirst
  <2>4. <<r>> \o fs \in Seq(Frame1)
    BY OnePart
  <2>5. Messages(v) = FlattenSeq(BinaryOf(fs))
    BY <2>2 DEF Messages, BinaryOf
  <2>6. Messages(u \o v) = FlattenSeq(BinaryOf(<<r>> \o fs))
    BY <2>3 DEF Messages, BinaryOf
  <2>7. BinaryOf(<<r>> \o fs) = <<p>> \o BinaryOf(fs)
    <3>1. r.op = op /\ r.data = d
      BY <1>4 DEF ReadRec
    <3> QED
      BY <1>3, <3>1, BinaryFirst
  <2>8. BinaryOf(fs) \in Seq(Seq(X))
    BY <1>2, BinaryType
  <2>9. <<p>> \in Seq(Seq(X))
    OBVIOUS
  <2>10. FlattenSeq(<<p>> \o BinaryOf(fs)) = FlattenSeq(<<p>>) \o FlattenSeq(BinaryOf(fs))
    BY <2>8, <2>9, FlattenConcat
  <2>11. FlattenSeq(<<p>>) = p
    BY FlattenOne
  <2>12. u \o v \in Seq(Item) /\ p \o Q \in Seq(X)
    BY <2>1
  <2>13. Messages(u \o v) = p \o Q
    BY <2>1, <2>5, <2>6, <2>7, <2>10, <2>11
  <2> QED
    BY <1>2, <2>3, <2>4, <2>12, <2>13 DEF Tells
<1> QED
  BY <1>1, <1>2, <1>3, <1>5 DEF Carries

LEMMA CarriesNothing == Carries(<<>>, <<>>)
<1>1. ASSUME NEW v, NEW Q, Tells(v, Q) PROVE Tells(<<>> \o v, <<>> \o Q)
  <2>1. v \in Seq(Item) /\ Q \in Seq(Seq(Item))
    BY <1>1 DEF Tells
  <2>2. <<>> \o v = v
    BY <2>1
  <2>3. <<>> \o Q = Q
    BY <2>1
  <2> QED
    BY <1>1, <2>2, <2>3
<1>2. <<>> \in Seq(Item)
  OBVIOUS
<1>3. <<>> \in Seq(Seq(Item))
  OBVIOUS
<1> QED
  BY <1>1, <1>2, <1>3 DEF Carries

LEMMA CarriesBoth ==
  ASSUME NEW u, NEW P, NEW w, NEW R, Carries(u, P), Carries(w, R)
  PROVE  Carries(u \o w, P \o R)
<1>1. PICK X : X = Seq(Item)
  OBVIOUS
<1>2. u \in Seq(Item) /\ w \in Seq(Item) /\ P \in Seq(X) /\ R \in Seq(X)
  BY <1>1 DEF Carries
<1>3. ASSUME NEW v, NEW Q, Tells(v, Q) PROVE Tells((u \o w) \o v, (P \o R) \o Q)
  <2>1. v \in Seq(Item) /\ Q \in Seq(X)
    BY <1>1, <1>3 DEF Tells
  <2>2. Tells(u \o (w \o v), P \o (R \o Q))
    BY <1>3 DEF Carries
  <2>3. (u \o w) \o v = u \o (w \o v)
    BY <1>2, <2>1, ConcatAssociative, SMTT(30)
  <2>4. (P \o R) \o Q = P \o (R \o Q)
    BY <1>2, <2>1, ConcatAssociative
  <2> QED
    BY <2>2, <2>3, <2>4
<1>4. u \o w \in Seq(Item)
  BY <1>2
<1>5. P \o R \in Seq(X)
  BY <1>2
<1> QED
  BY <1>1, <1>3, <1>4, <1>5 DEF Carries

LEMMA CarriesMeans ==
  ASSUME NEW w, NEW P, Carries(w, P)
  PROVE  Messages(w) = P
<1>1. Tells(w \o <<>>, P \o <<>>)
  BY TellsNothing DEF Carries
<1>2. w \in Seq(Item) /\ P \in Seq(Seq(Item))
  BY DEF Carries
<1>3. w \o <<>> = w
  BY <1>2
<1>4. P \o <<>> = P
  BY <1>2
<1> QED
  BY <1>1, <1>3, <1>4 DEF Tells

Added(T, q, p, d, k) ==
  q \in Seq(T) /\ Len(q) = k + 1 /\ q[k + 1] = d /\ \A i \in 1 .. k : q[i] = p[i]

LEMMA AfterAll ==
  ASSUME NEW T, NEW p \in Seq(T), NEW d \in T, NEW k \in Nat, Len(p) = k
  PROVE  Added(T, p \o <<d>>, p, d, k)
<1>1. <<d>> \in Seq(T) /\ Len(<<d>>) = 1 /\ <<d>>[1] = d
  OBVIOUS
<1>2. PICK e \in Seq(T) : e = <<d>> /\ Len(e) = 1 /\ e[1] = d
  BY <1>1
<1>3. /\ p \o e \in Seq(T) /\ Len(p \o e) = Len(p) + Len(e) /\ Len(p) \in Nat /\ Len(e) \in Nat
      /\ \A i \in 1 .. Len(p) : (p \o e)[i] = p[i]
      /\ \A i \in 1 .. Len(e) : (p \o e)[Len(p) + i] = e[i]
  BY <1>2, ConcatFirst
<1>4. (p \o e)[k + 1] = d
  BY <1>2, <1>3
<1>5. Added(T, p \o e, p, d, k)
  BY <1>2, <1>3, <1>4 DEF Added
<1> QED
  BY <1>2, <1>5

LEMMA SliceOne ==
  ASSUME NEW T, NEW q \in Seq(T), NEW k \in Nat, k + 1 <= Len(q)
  PROVE  SubSeq(q, k + 1, k + 1) = <<q[k + 1]>>
<1>1. k + 1 \in Nat /\ k <= k + 1 /\ (k + 1) - k = 1
  OBVIOUS
<1>2. /\ SubSeq(q, k + 1, k + 1) \in Seq(T) /\ Len(SubSeq(q, k + 1, k + 1)) = (k + 1) - k
      /\ \A i \in 1 .. ((k + 1) - k) : SubSeq(q, k + 1, k + 1)[i] = q[k + i]
  BY <1>1, SliceIs
<1>3. PICK z : /\ z = SubSeq(q, k + 1, k + 1) /\ z \in Seq(T) /\ Len(z) = 1 /\ \A i \in 1 .. 1 : z[i] = q[k + i]
  BY <1>1, <1>2
<1>4. PICK d \in T : d = q[k + 1]
  OBVIOUS
<1>5. <<d>> \in Seq(T) /\ Len(<<d>>) = 1 /\ <<d>>[1] = d
  OBVIOUS
<1>6. \A i \in 1 .. Len(z) : z[i] = <<d>>[i]
  BY <1>3, <1>4, <1>5
<1>7. z = <<d>>
  BY <1>3, <1>5, <1>6, SeqEqual
<1> QED
  BY <1>3, <1>4, <1>7

LEMMA CarriesFrames ==
  ASSUME NEW parts \in Seq(Seq(Item))
  PROVE  Carries(Frames(parts), parts)
<1>1. PICK X : X = Seq(Item)
  OBVIOUS
<1>2. PICK q \in Seq(X), n \in Nat : q = parts /\ n = Len(q)
  BY <1>1
<1> DEFINE Built(p) == [i \in DOMAIN p |-> BuildFrame(OP_BINARY, p[i])]
<1>3. ASSUME NEW d \in X
      PROVE  BuildFrame(OP_BINARY, d) \in X /\ Carries(BuildFrame(OP_BINARY, d), <<d>>)
  <2>1. OP_BINARY \in 0 .. (Fin - 1)
    BY DEF OP_BINARY, Fin
  <2>2. Carries(BuildFrame(OP_BINARY, d), OneBinary(OP_BINARY, d))
    BY <1>1, <2>1, CarriesFrame
  <2> QED
    BY <1>1, <2>2 DEF Carries, OneBinary
<1>4. ASSUME NEW p \in Seq(X) PROVE Built(p) \in Seq(X) /\ Len(Built(p)) = Len(p)
  <2>1. \A i \in 1 .. Len(p) : p[i] \in X
    OBVIOUS
  <2>2. \A i \in 1 .. Len(p) : BuildFrame(OP_BINARY, p[i]) \in X
    BY <1>3, <2>1
  <2>3. Len(p) \in Nat /\ DOMAIN p = 1 .. Len(p)
    OBVIOUS
  <2>4. [i \in 1 .. Len(p) |-> BuildFrame(OP_BINARY, p[i])] \in Seq(X)
    BY <2>2, <2>3
  <2> QED
    BY <2>3, <2>4
<1> DEFINE S == {k \in Nat : k <= n => Carries(Frames(SubSeq(q, 1, k)), SubSeq(q, 1, k))}
<1>5. 0 \in S
  <2>1. SubSeq(q, 1, 0) = <<>>
    BY SliceEmpty
  <2>2. Built(<<>>) = <<>>
    OBVIOUS
  <2>3. Frames(<<>>) = <<>>
    BY <2>2, FlattenEmpty DEF Frames
  <2>4. Carries(Frames(SubSeq(q, 1, 0)), SubSeq(q, 1, 0))
    BY <2>1, <2>3, CarriesNothing
  <2> QED
    BY <2>4
<1>6. ASSUME NEW k \in Nat, k \in S PROVE k + 1 \in S
  <2>1. CASE k + 1 <= n
    <3> HIDE DEF Built
    <3>1. PICK p \in Seq(X) : p = SubSeq(q, 1, k) /\ Len(p) = k
      <4>1. k \in 0 .. Len(q)
        BY <1>2, <2>1
      <4>2. SubSeq(q, 1, k) \in Seq(X) /\ Len(SubSeq(q, 1, k)) = k
        BY <4>1, SeqCut
      <4> QED
        BY <4>2
    <3>2. PICK d \in X : d = q[k + 1]
      BY <1>2, <2>1
    <3>3. SubSeq(q, 1, k + 1) = p \o <<d>>
      <4>1. SubSeq(q, 1, k) \o SubSeq(q, k + 1, k + 1) = SubSeq(q, 1, k + 1)
        <5>1. SubSeq(q, 0 + 1, k) \o SubSeq(q, k + 1, k + 1) = SubSeq(q, 0 + 1, k + 1)
          BY <1>2, <2>1, SliceJoin
        <5> QED
          BY <5>1
      <4>2. SubSeq(q, k + 1, k + 1) = <<d>>
        BY <1>2, <2>1, <3>2, SliceOne
      <4> QED
        BY <3>1, <4>1, <4>2
    <3>4. Built(p \o <<d>>) = Built(p) \o <<BuildFrame(OP_BINARY, d)>>
      <4>1. PICK e \in X : e = BuildFrame(OP_BINARY, d)
        BY <1>3
      <4>2. PICK b \in Seq(X) : b = Built(p) /\ Len(b) = k
        BY <1>4, <3>1
      <4>3. PICK pd \in Seq(X) : pd = p \o <<d>> /\ Len(pd) = k + 1 /\ pd[k + 1] = d /\ \A i \in 1 .. k : pd[i] = p[i]
        <5>1. Added(X, p \o <<d>>, p, d, k)
          BY <3>1, <3>2, AfterAll
        <5> QED
          BY <5>1 DEF Added
      <4>4. PICK c \in Seq(X) : c = Built(pd) /\ Len(c) = k + 1
        BY <1>4, <4>3
      <4> USE DEF Built
      <4>5. PICK be \in Seq(X) : be = b \o <<e>> /\ Len(be) = k + 1 /\ be[k + 1] = e /\ \A i \in 1 .. k : be[i] = b[i]
        <5>1. Added(X, b \o <<e>>, b, e, k)
          BY <4>1, <4>2, AfterAll
        <5> QED
          BY <5>1 DEF Added
      <4>6. \A i \in 1 .. k : b[i] = BuildFrame(OP_BINARY, p[i])
        BY <3>1, <4>2
      <4>7. \A i \in 1 .. (k + 1) : c[i] = BuildFrame(OP_BINARY, pd[i])
        BY <4>3, <4>4
      <4>8. \A i \in 1 .. Len(c) : c[i] = be[i]
        <5> SUFFICES ASSUME NEW i \in 1 .. Len(c) PROVE c[i] = be[i]
          OBVIOUS
        <5>1. i = k + 1 \/ i \in 1 .. k
          BY <4>4
        <5>2. i \in 1 .. (k + 1)
          BY <4>4
        <5>3. c[i] = BuildFrame(OP_BINARY, pd[i])
          BY <4>7, <5>2
        <5>4. CASE i = k + 1
          BY <4>1, <4>3, <4>5, <5>3, <5>4
        <5>5. CASE i \in 1 .. k
          BY <4>3, <4>5, <4>6, <5>3, <5>5
        <5> QED
          BY <5>1, <5>4, <5>5
      <4>9. c = be
        BY <4>4, <4>5, <4>8, SeqEqual
      <4> QED
        BY <4>1, <4>2, <4>3, <4>4, <4>5, <4>9
    <3>5. FlattenSeq(Built(p) \o <<BuildFrame(OP_BINARY, d)>>) = FlattenSeq(Built(p)) \o BuildFrame(OP_BINARY, d)
      <4>1. PICK e \in Seq(Item) : e = BuildFrame(OP_BINARY, d)
        BY <1>1, <1>3
      <4>2. PICK b \in Seq(Seq(Item)) : b = Built(p)
        BY <1>1, <1>4
      <4>3. <<e>> \in Seq(Seq(Item))
        OBVIOUS
      <4>4. FlattenSeq(b \o <<e>>) = FlattenSeq(b) \o FlattenSeq(<<e>>)
        BY <4>3, FlattenConcat
      <4>5. FlattenSeq(<<e>>) = e
        BY FlattenOne
      <4> QED
        BY <4>1, <4>2, <4>4, <4>5
    <3>6. Frames(p \o <<d>>) = Frames(p) \o BuildFrame(OP_BINARY, d)
      BY <3>4, <3>5 DEF Frames, Built
    <3>7. Carries(Frames(p), p)
      BY <1>6, <2>1, <3>1
    <3>8. Carries(BuildFrame(OP_BINARY, d), <<d>>)
      BY <1>3
    <3>9. Carries(Frames(p) \o BuildFrame(OP_BINARY, d), p \o <<d>>)
      BY <3>7, <3>8, CarriesBoth
    <3>10. Carries(Frames(SubSeq(q, 1, k + 1)), SubSeq(q, 1, k + 1))
      BY <3>3, <3>6, <3>9
    <3> QED
      BY <3>10
  <2>2. CASE ~ (k + 1 <= n)
    BY <2>2
  <2> QED
    BY <2>1, <2>2
<1>7. n \in S
  <2> HIDE DEF S
  <2> QED
    BY <1>5, <1>6, Climb
<1>8. SubSeq(q, 1, n) = q
  BY <1>2
<1>9. Carries(Frames(SubSeq(q, 1, n)), SubSeq(q, 1, n))
  BY <1>7
<1> QED
  BY <1>2, <1>8, <1>9

-----------------------------------------------------------------------------
(***************************************************************************)
(* What a client reads in the records that it gets.                        *)
(***************************************************************************)
PayOf(w) == [i \in DOMAIN w |-> IF w[i][3] = Plain THEN <<>> ELSE <<w[i]>>]
IsHead(w, i) == i \in 1 .. Len(w) /\ w[i][3] = Plain
HeadFits(w, i) ==
  /\ w[i][1] \in 1 .. AppDataMax /\ w[i] = Record(APPDATA, w[i][1])
  /\ IsHead(w, i + 1 + w[i][1]) \/ i + 1 + w[i][1] = Len(w) + 1
  /\ \A j \in (i + 1) .. (i + w[i][1]) : ~ IsHead(w, j)

LEMMA InAppDataIs ==
  ASSUME NEW w \in Seq(Item)
  PROVE  InAppData(w) <=> (w = <<>> \/ IsHead(w, 1)) /\ \A i \in 1 .. Len(w) : IsHead(w, i) => HeadFits(w, i)
<1>1. DOMAIN w = 1 .. Len(w) /\ Len(w) \in Nat
  OBVIOUS
<1>2. ASSUME NEW i \in 1 .. Len(w) PROVE w[i][1] \in Nat /\ (i + 1 + w[i][1]) - 1 = i + w[i][1]
  <2>1. PICK x \in Nat : x = w[i][1]
    BY ItemAt
  <2>2. i \in Nat /\ (i + 1 + x) - 1 = i + x
    BY <1>1
  <2> QED
    BY <2>1, <2>2
<1>3. ASSUME NEW i \in 1 .. Len(w)
      PROVE  HeadFits(w, i) <=>
               /\ w[i][1] \in 1 .. AppDataMax /\ w[i] = Record(APPDATA, w[i][1])
               /\ i + 1 + w[i][1] \in {j \in DOMAIN w : w[j][3] = Plain} \cup {Len(w) + 1}
               /\ \A j \in (i + 1) .. ((i + 1 + w[i][1]) - 1) : j \notin {k \in DOMAIN w : w[k][3] = Plain}
  BY <1>1, <1>2 DEF HeadFits, IsHead
<1> QED
  BY <1>1, <1>3, Zenon DEF InAppData, IsHead

LEMMA HeadBoth ==
  ASSUME NEW u \in Seq(Item), NEW v \in Seq(Item)
  PROVE  /\ \A i \in 1 .. Len(u) : (u \o v)[i] = u[i] /\ (IsHead(u \o v, i) <=> IsHead(u, i))
         /\ \A i \in 1 .. Len(v) : (u \o v)[Len(u) + i] = v[i] /\ (IsHead(u \o v, Len(u) + i) <=> IsHead(v, i))
<1>1. /\ u \o v \in Seq(Item) /\ Len(u \o v) = Len(u) + Len(v) /\ Len(u) \in Nat /\ Len(v) \in Nat
      /\ \A i \in 1 .. Len(u) : (u \o v)[i] = u[i]
      /\ \A i \in 1 .. Len(v) : (u \o v)[Len(u) + i] = v[i]
  BY ConcatFirst
<1>2. PICK y \in Seq(Item), m \in Nat, n \in Nat :
        /\ y = u \o v /\ m = Len(u) /\ n = Len(v) /\ Len(y) = m + n
        /\ \A i \in 1 .. m : y[i] = u[i]
        /\ \A i \in 1 .. n : y[m + i] = v[i]
  BY <1>1
<1>3. \A i \in 1 .. m : y[i] = u[i] /\ (IsHead(y, i) <=> IsHead(u, i))
  BY <1>2 DEF IsHead
<1>4. \A i \in 1 .. n : y[m + i] = v[i] /\ (IsHead(y, m + i) <=> IsHead(v, i))
  BY <1>2 DEF IsHead
<1> QED
  BY <1>2, <1>3, <1>4

LEMMA FitsBoth ==
  ASSUME NEW u \in Seq(Item), NEW v \in Seq(Item), InAppData(u), InAppData(v)
  PROVE  InAppData(u \o v)
<1>1. PICK y \in Seq(Item), m \in Nat, n \in Nat :
        y = u \o v /\ m = Len(u) /\ n = Len(v) /\ Len(y) = m + n
  <2>1. u \o v \in Seq(Item) /\ Len(u \o v) = Len(u) + Len(v) /\ Len(u) \in Nat /\ Len(v) \in Nat
    BY ConcatFirst
  <2> QED
    BY <2>1
<1>2. /\ \A i \in 1 .. m : y[i] = u[i] /\ (IsHead(y, i) <=> IsHead(u, i))
      /\ \A i \in 1 .. n : y[m + i] = v[i] /\ (IsHead(y, m + i) <=> IsHead(v, i))
  BY <1>1, HeadBoth
<1>3. (u = <<>> \/ IsHead(u, 1)) /\ \A i \in 1 .. m : IsHead(u, i) => HeadFits(u, i)
  BY <1>1, InAppDataIs
<1>4. (v = <<>> \/ IsHead(v, 1)) /\ \A i \in 1 .. n : IsHead(v, i) => HeadFits(v, i)
  BY <1>1, InAppDataIs
<1>5. n = 0 \/ IsHead(y, m + 1)
  <2>1. n = 0 \/ (n > 0 /\ IsHead(v, 1))
    BY <1>1, <1>4
  <2> QED
    BY <1>2, <2>1
<1>6. y = <<>> \/ IsHead(y, 1)
  <2>1. CASE m = 0
    BY <1>1, <1>5, <2>1
  <2>2. CASE m > 0
    <3>1. u # <<>>
      BY <1>1, <2>2
    <3>2. 1 \in Nat /\ 1 \in 1 .. m
      BY <2>2
    <3> QED
      BY <1>2, <1>3, <3>1, <3>2
  <2> QED
    BY <2>1, <2>2
<1>7. ASSUME NEW i \in 1 .. m, IsHead(y, i) PROVE HeadFits(y, i)
  <2>0. i \in Nat /\ i \in 1 .. Len(u)
    BY <1>1
  <2>1. HeadFits(u, i) /\ y[i] = u[i]
    BY <1>2, <1>3, <1>7, <2>0
  <2>2. PICK k \in Nat : k = u[i][1] /\ k \in 1 .. AppDataMax
    BY <2>0, <2>1, ItemAt DEF HeadFits
  <2>3. IsHead(u, i + 1 + k) \/ i + 1 + k = m + 1
    BY <1>1, <2>1, <2>2 DEF HeadFits
  <2>4. IsHead(u, i + 1 + k) => i + 1 + k \in 1 .. m
    BY <1>1 DEF IsHead
  <2>5. IsHead(y, i + 1 + k) \/ i + 1 + k = Len(y) + 1
    <3>1. CASE IsHead(u, i + 1 + k)
      <4>1. i + 1 + k \in Nat
        BY <2>0
      <4> QED
        BY <1>2, <2>4, <3>1, <4>1
    <3>2. CASE i + 1 + k = m + 1
      BY <1>1, <1>5, <3>2
    <3> QED
      BY <2>3, <3>1, <3>2
  <2>6. ASSUME NEW j \in (i + 1) .. (i + k) PROVE ~ IsHead(y, j)
    <3>1. j \in 1 .. m /\ j \in Nat
      BY <2>0, <2>3, <2>4
    <3>2. ~ IsHead(u, j)
      BY <2>1, <2>2 DEF HeadFits
    <3> QED
      BY <1>2, <3>1, <3>2
  <2> QED
    BY <2>1, <2>2, <2>5, <2>6 DEF HeadFits
<1>8. ASSUME NEW i \in 1 .. n, IsHead(y, m + i) PROVE HeadFits(y, m + i)
  <2>0. i \in Nat /\ i \in 1 .. Len(v)
    BY <1>1
  <2>1. HeadFits(v, i) /\ y[m + i] = v[i]
    BY <1>2, <1>4, <1>8, <2>0
  <2>2. PICK k \in Nat : k = v[i][1] /\ k \in 1 .. AppDataMax
    BY <2>0, <2>1, ItemAt DEF HeadFits
  <2>3. IsHead(v, i + 1 + k) \/ i + 1 + k = n + 1
    BY <1>1, <2>1, <2>2 DEF HeadFits
  <2>4. IsHead(v, i + 1 + k) => i + 1 + k \in 1 .. n
    BY <1>1 DEF IsHead
  <2>5. IsHead(y, (m + i) + 1 + k) \/ (m + i) + 1 + k = Len(y) + 1
    <3>1. CASE IsHead(v, i + 1 + k)
      <4>1. PICK h \in Nat : h = i + 1 + k /\ (m + i) + 1 + k = m + h
        BY <2>0
      <4>2. h \in 1 .. n
        BY <2>4, <3>1, <4>1
      <4>3. IsHead(y, m + h)
        BY <1>2, <3>1, <4>1, <4>2
      <4> QED
        BY <4>1, <4>3
    <3>2. CASE i + 1 + k = n + 1
      <4>1. Len(y) = m + n
        BY <1>1
      <4>2. (m + i) + 1 + k = (m + n) + 1
        BY <3>2
      <4> QED
        BY <4>1, <4>2
    <3> QED
      BY <2>3, <3>1, <3>2
  <2>6. ASSUME NEW j \in ((m + i) + 1) .. ((m + i) + k) PROVE ~ IsHead(y, j)
    <3>1. PICK h \in (i + 1) .. (i + k) : j = m + h /\ h \in Nat
      <4>1. j - m \in (i + 1) .. (i + k) /\ j = m + (j - m) /\ j - m \in Nat
        BY <2>0
      <4> QED
        BY <4>1
    <3>2. h \in 1 .. n
      BY <2>0, <2>3, <2>4
    <3>3. ~ IsHead(v, h)
      BY <2>1, <2>2 DEF HeadFits
    <3> QED
      BY <1>2, <3>1, <3>2, <3>3
  <2> QED
    BY <2>1, <2>2, <2>5, <2>6 DEF HeadFits
<1>9. ASSUME NEW i \in 1 .. Len(y), IsHead(y, i) PROVE HeadFits(y, i)
  <2>1. CASE i \in 1 .. m
    BY <1>7, <1>9, <2>1
  <2>2. CASE ~ (i \in 1 .. m)
    <3>1. PICK h \in 1 .. n : i = m + h
      <4>1. i - m \in 1 .. n /\ i = m + (i - m)
        BY <1>1, <2>2
      <4> QED
        BY <4>1
    <3> QED
      BY <1>8, <1>9, <3>1
  <2> QED
    BY <2>1, <2>2
<1>10. InAppData(y)
  BY <1>6, <1>9, InAppDataIs
<1> QED
  BY <1>1, <1>10

LEMMA PayType ==
  ASSUME NEW w \in Seq(Item)
  PROVE  PayOf(w) \in Seq(Seq(Item)) /\ Len(PayOf(w)) = Len(w)
<1>1. ASSUME NEW i \in 1 .. Len(w) PROVE (IF w[i][3] = Plain THEN <<>> ELSE <<w[i]>>) \in Seq(Item)
  <2>1. PICK x \in Item : x = w[i]
    OBVIOUS
  <2>2. <<x>> \in Seq(Item) /\ <<>> \in Seq(Item)
    OBVIOUS
  <2> QED
    BY <2>1, <2>2
<1>2. DOMAIN w = 1 .. Len(w) /\ Len(w) \in Nat
  OBVIOUS
<1> QED
  BY <1>1, <1>2 DEF PayOf

LEMMA PayBoth ==
  ASSUME NEW u \in Seq(Item), NEW v \in Seq(Item)
  PROVE  Payload(u \o v) = Payload(u) \o Payload(v)
<1>1. PICK y \in Seq(Item), m \in Nat, n \in Nat :
        /\ y = u \o v /\ m = Len(u) /\ n = Len(v) /\ Len(y) = m + n
        /\ \A i \in 1 .. m : y[i] = u[i]
        /\ \A i \in 1 .. n : y[m + i] = v[i]
  <2>1. /\ u \o v \in Seq(Item) /\ Len(u \o v) = Len(u) + Len(v) /\ Len(u) \in Nat /\ Len(v) \in Nat
        /\ \A i \in 1 .. Len(u) : (u \o v)[i] = u[i]
        /\ \A i \in 1 .. Len(v) : (u \o v)[Len(u) + i] = v[i]
    BY ConcatFirst
  <2> QED
    BY <2>1
<1>2. PICK X : X = Seq(Item)
  OBVIOUS
<1>3. PICK a \in Seq(X), b \in Seq(X), c \in Seq(X) :
        /\ a = PayOf(u) /\ Len(a) = m /\ b = PayOf(v) /\ Len(b) = n /\ c = PayOf(y) /\ Len(c) = m + n
  BY <1>1, <1>2, PayType, ZenonT(60)
<1>4. /\ \A i \in 1 .. m : a[i] = IF u[i][3] = Plain THEN <<>> ELSE <<u[i]>>
      /\ \A i \in 1 .. n : b[i] = IF v[i][3] = Plain THEN <<>> ELSE <<v[i]>>
      /\ \A i \in 1 .. (m + n) : c[i] = IF y[i][3] = Plain THEN <<>> ELSE <<y[i]>>
  BY <1>1, <1>3 DEF PayOf
<1>5. PICK z \in Seq(X) :
        /\ z = a \o b /\ Len(z) = m + n
        /\ \A i \in 1 .. m : z[i] = a[i]
        /\ \A i \in 1 .. n : z[m + i] = b[i]
  <2>1. /\ a \o b \in Seq(X) /\ Len(a \o b) = Len(a) + Len(b)
        /\ \A i \in 1 .. Len(a) : (a \o b)[i] = a[i]
        /\ \A i \in 1 .. Len(b) : (a \o b)[Len(a) + i] = b[i]
    BY ConcatFirst
  <2> QED
    BY <1>3, <2>1
<1>6. \A i \in 1 .. Len(c) : c[i] = z[i]
  <2> SUFFICES ASSUME NEW i \in 1 .. (m + n) PROVE c[i] = z[i]
    BY <1>3
  <2>0. c[i] = IF y[i][3] = Plain THEN <<>> ELSE <<y[i]>>
    BY <1>4
  <2>1. CASE i \in 1 .. m
    <3>1. y[i] = u[i] /\ z[i] = a[i]
      BY <1>1, <1>5, <2>1
    <3>2. a[i] = IF u[i][3] = Plain THEN <<>> ELSE <<u[i]>>
      BY <1>4, <2>1
    <3> QED
      BY <2>0, <3>1, <3>2
  <2>2. CASE ~ (i \in 1 .. m)
    <3>1. PICK h \in 1 .. n : i = m + h
      <4>1. i - m \in 1 .. n /\ i = m + (i - m)
        BY <2>2
      <4> QED
        BY <4>1
    <3>2. y[m + h] = v[h] /\ z[m + h] = b[h]
      BY <1>1, <1>5
    <3>3. b[h] = IF v[h][3] = Plain THEN <<>> ELSE <<v[h]>>
      BY <1>4
    <3> QED
      BY <2>0, <3>1, <3>2, <3>3
  <2> QED
    BY <2>1, <2>2
<1>7. c = z
  <2>1. Len(c) = Len(z) /\ c \in Seq(X) /\ z \in Seq(X)
    BY <1>3, <1>5
  <2> QED
    BY <1>6, <2>1, SeqEqual
<1>8. FlattenSeq(a \o b) = FlattenSeq(a) \o FlattenSeq(b)
  <2>1. a \in Seq(Seq(Item)) /\ b \in Seq(Seq(Item))
    BY <1>2
  <2> QED
    BY <2>1, FlattenConcat
<1>9. Payload(u) = FlattenSeq(a) /\ Payload(v) = FlattenSeq(b) /\ Payload(y) = FlattenSeq(c)
  BY <1>3 DEF Payload, PayOf
<1> QED
  BY <1>1, <1>5, <1>7, <1>8, <1>9

LEMMA PrefixJoin ==
  ASSUME NEW T, NEW q \in Seq(T), NEW a \in Nat, NEW b \in Nat, a <= b, b <= Len(q)
  PROVE  SubSeq(q, 1, a) \o SubSeq(q, a + 1, b) = SubSeq(q, 1, b)
<1>1. SubSeq(q, 0 + 1, a) \o SubSeq(q, a + 1, b) = SubSeq(q, 0 + 1, b)
  BY SliceJoin
<1> QED
  BY <1>1

LEMMA PrefixNext ==
  ASSUME NEW T, NEW q \in Seq(T), NEW k \in Nat, k + 1 <= Len(q)
  PROVE  SubSeq(q, 1, k + 1) = SubSeq(q, 1, k) \o <<q[k + 1]>>
<1>1. k + 1 \in Nat /\ k <= k + 1
  OBVIOUS
<1>2. SubSeq(q, 1, k) \o SubSeq(q, k + 1, k + 1) = SubSeq(q, 1, k + 1)
  BY <1>1, PrefixJoin
<1>3. SubSeq(q, k + 1, k + 1) = <<q[k + 1]>>
  BY SliceOne
<1> QED
  BY <1>2, <1>3

LEMMA PayNothing == Payload(<<>>) = <<>>
<1>1. PayOf(<<>>) = <<>>
  BY DEF PayOf
<1> QED
  BY <1>1, FlattenEmpty DEF Payload, PayOf

LEMMA PayOne ==
  ASSUME NEW x \in Item
  PROVE  Payload(<<x>>) = IF x[3] = Plain THEN <<>> ELSE <<x>>
<1>1. PICK w \in Seq(Item) : w = <<x>> /\ Len(w) = 1 /\ w[1] = x
  <2>1. <<x>> \in Seq(Item) /\ Len(<<x>>) = 1 /\ <<x>>[1] = x
    OBVIOUS
  <2> QED
    BY <2>1
<1>2. PICK y \in Seq(Item) : y = IF x[3] = Plain THEN <<>> ELSE <<x>>
  <2>1. <<>> \in Seq(Item) /\ <<x>> \in Seq(Item)
    OBVIOUS
  <2> QED
    BY <2>1
<1>3. PICK X : X = Seq(Item)
  OBVIOUS
<1>4. PICK p \in Seq(X) : p = PayOf(w) /\ Len(p) = 1
  BY <1>1, <1>3, PayType
<1>5. p[1] = y
  <2>1. DOMAIN w = 1 .. 1
    BY <1>1
  <2> QED
    BY <1>1, <1>2, <1>4, <2>1 DEF PayOf
<1>6. p = <<y>>
  <2>1. <<y>> \in Seq(X) /\ Len(<<y>>) = 1 /\ <<y>>[1] = y
    BY <1>2, <1>3
  <2>2. \A i \in 1 .. Len(p) : p[i] = <<y>>[i]
    BY <1>4, <1>5, <2>1
  <2> QED
    BY <1>4, <2>1, <2>2, SeqEqual
<1>7. FlattenSeq(<<y>>) = y
  BY FlattenOne
<1> QED
  BY <1>1, <1>2, <1>4, <1>6, <1>7 DEF Payload, PayOf

\* Bytes, of which none is the header of a record.
Clean(d) == d \in Seq(Item) /\ \A i \in 1 .. Len(d) : d[i][3] # Plain

LEMMA CleanSlice ==
  ASSUME NEW d, Clean(d), NEW a \in Nat, NEW b \in Nat, a <= b, b <= Len(d)
  PROVE  Clean(SubSeq(d, a + 1, b))
<1>1. d \in Seq(Item) /\ \A i \in 1 .. Len(d) : d[i][3] # Plain
  BY DEF Clean
<1>2. /\ SubSeq(d, a + 1, b) \in Seq(Item) /\ Len(SubSeq(d, a + 1, b)) = b - a
      /\ \A i \in 1 .. (b - a) : SubSeq(d, a + 1, b)[i] = d[a + i]
  BY <1>1, SliceIs
<1>3. PICK n \in Nat : n = Len(d)
  BY <1>1
<1>4. \A i \in 1 .. (b - a) : a + i \in 1 .. n
  BY <1>3
<1> QED
  BY <1>1, <1>2, <1>3, <1>4 DEF Clean

LEMMA PayClean ==
  ASSUME NEW d, Clean(d)
  PROVE  Payload(d) = d
<1>1. d \in Seq(Item) /\ \A i \in 1 .. Len(d) : d[i][3] # Plain
  BY DEF Clean
<1>2. PICK n \in Nat : n = Len(d)
  BY <1>1
<1> DEFINE S == {k \in Nat : k <= n => Payload(SubSeq(d, 1, k)) = SubSeq(d, 1, k)}
<1>3. 0 \in S
  <2>1. SubSeq(d, 1, 0) = <<>>
    BY <1>1, SliceEmpty
  <2> QED
    BY <2>1, PayNothing
<1>4. ASSUME NEW k \in Nat, k \in S PROVE k + 1 \in S
  <2>1. CASE k + 1 <= n
    <3>1. PICK p \in Seq(Item) : p = SubSeq(d, 1, k) /\ Len(p) = k
      <4>1. k \in 0 .. Len(d)
        BY <1>2, <2>1
      <4>2. SubSeq(d, 1, k) \in Seq(Item) /\ Len(SubSeq(d, 1, k)) = k
        BY <1>1, <4>1, SeqCut
      <4> QED
        BY <4>2
    <3>2. PICK x \in Item : x = d[k + 1] /\ x[3] # Plain
      BY <1>1, <1>2, <2>1
    <3>3. SubSeq(d, 1, k + 1) = p \o <<x>>
      <4>1. SubSeq(d, 1, k + 1) = SubSeq(d, 1, k) \o <<d[k + 1]>>
        BY <1>1, <1>2, <2>1, PrefixNext
      <4> QED
        BY <3>1, <3>2, <4>1
    <3>4. Payload(p \o <<x>>) = Payload(p) \o Payload(<<x>>)
      <4>1. <<x>> \in Seq(Item)
        OBVIOUS
      <4> QED
        BY <4>1, PayBoth
    <3>5. Payload(<<x>>) = <<x>>
      BY <3>2, PayOne
    <3>6. Payload(p) = p
      BY <1>4, <2>1, <3>1
    <3>7. Payload(SubSeq(d, 1, k + 1)) = SubSeq(d, 1, k + 1)
      BY <3>3, <3>4, <3>5, <3>6
    <3> QED
      BY <3>7
  <2>2. CASE ~ (k + 1 <= n)
    BY <2>2
  <2> QED
    BY <2>1, <2>2
<1>5. n \in S
  <2> HIDE DEF S
  <2> QED
    BY <1>3, <1>4, Climb
<1>6. SubSeq(d, 1, n) = d
  BY <1>1, <1>2
<1>7. Payload(SubSeq(d, 1, n)) = SubSeq(d, 1, n)
  BY <1>5
<1> QED
  BY <1>6, <1>7

\* A wire of whole records, and what they hold.
Held(w, x) == w \in Seq(Item) /\ InAppData(w) /\ Payload(w) = x

LEMMA HeldNothing == Held(<<>>, <<>>)
<1>1. PICK w \in Seq(Item) : w = <<>> /\ Len(w) = 0
  <2>1. <<>> \in Seq(Item) /\ Len(<<>>) = 0
    OBVIOUS
  <2> QED
    BY <2>1
<1>2. InAppData(w)
  <2>1. \A i \in 1 .. Len(w) : IsHead(w, i) => HeadFits(w, i)
    BY <1>1
  <2> QED
    BY <1>1, <2>1, InAppDataIs
<1> QED
  BY <1>1, <1>2, PayNothing DEF Held

LEMMA HeldBoth ==
  ASSUME NEW u, NEW x, NEW v, NEW y, Held(u, x), Held(v, y)
  PROVE  Held(u \o v, x \o y)
<1>1. u \in Seq(Item) /\ v \in Seq(Item) /\ InAppData(u) /\ InAppData(v) /\ Payload(u) = x /\ Payload(v) = y
  BY DEF Held
<1>2. Payload(u \o v) = Payload(u) \o Payload(v)
  BY <1>1, PayBoth
<1>3. u \o v \in Seq(Item)
  BY <1>1
<1>4. InAppData(u \o v)
  BY <1>1, FitsBoth
<1> QED
  BY <1>1, <1>2, <1>3, <1>4 DEF Held

LEMMA HeldOne ==
  ASSUME NEW d, Clean(d), Len(d) \in 1 .. AppDataMax
  PROVE  Held(<<Record(APPDATA, Len(d))>> \o d, d)
<1>1. d \in Seq(Item) /\ \A i \in 1 .. Len(d) : d[i][3] # Plain
  BY DEF Clean
<1>2. PICK n \in Nat : n = Len(d) /\ n \in 1 .. AppDataMax
  BY <1>1
<1>3. PICK h \in Item : h = Record(APPDATA, n) /\ h[1] = n /\ h[3] = Plain
  <2>1. Record(APPDATA, n) \in Item /\ Record(APPDATA, n)[1] = n /\ Record(APPDATA, n)[3] = Plain
    BY DEF Record, APPDATA, Plain, Item
  <2> QED
    BY <2>1
<1>4. PICK w \in Seq(Item) :
        w = <<h>> \o d /\ Len(w) = 1 + n /\ w[1] = h /\ \A i \in 1 .. n : w[1 + i] = d[i]
  <2>1. /\ <<h>> \o d \in Seq(Item) /\ Len(<<h>> \o d) = 1 + Len(d) /\ (<<h>> \o d)[1] = h
        /\ \A i \in 1 .. Len(d) : (<<h>> \o d)[1 + i] = d[i]
    BY <1>1, OnePart
  <2> QED
    BY <1>2, <2>1
<1>5. \A i \in 2 .. (1 + n) : ~ IsHead(w, i)
  <2> SUFFICES ASSUME NEW i \in 2 .. (1 + n) PROVE w[i][3] # Plain
    BY DEF IsHead
  <2>1. PICK j \in 1 .. n : i = 1 + j
    <3>1. i - 1 \in 1 .. n /\ i = 1 + (i - 1)
      OBVIOUS
    <3> QED
      BY <3>1
  <2>2. w[i] = d[j]
    BY <1>4, <2>1
  <2> QED
    BY <1>1, <1>2, <2>2
<1>6. IsHead(w, 1)
  BY <1>2, <1>3, <1>4 DEF IsHead
<1>7. HeadFits(w, 1)
  <2>1. w[1][1] = n /\ w[1] = Record(APPDATA, w[1][1])
    BY <1>3, <1>4
  <2>2. 1 + 1 + n = Len(w) + 1
    BY <1>4
  <2>3. \A j \in (1 + 1) .. (1 + n) : ~ IsHead(w, j)
    BY <1>5
  <2> QED
    BY <1>2, <2>1, <2>2, <2>3 DEF HeadFits
<1>8. InAppData(w)
  <2>1. \A i \in 1 .. Len(w) : IsHead(w, i) => i = 1
    BY <1>4, <1>5
  <2> QED
    BY <1>6, <1>7, <2>1, InAppDataIs
<1>9. Payload(w) = d
  <2>1. <<h>> \in Seq(Item)
    OBVIOUS
  <2>2. Payload(<<h>> \o d) = Payload(<<h>>) \o Payload(d)
    BY <1>1, <2>1, PayBoth
  <2>3. Payload(<<h>>) = <<>>
    BY <1>3, PayOne
  <2>4. Payload(d) = d
    BY PayClean
  <2>5. <<>> \o d = d
    BY <1>1
  <2> QED
    BY <1>4, <2>2, <2>3, <2>4, <2>5
<1> QED
  BY <1>2, <1>3, <1>4, <1>8, <1>9 DEF Held

\* Where the parts of n bytes begin that have at most A bytes each.
LEMMA Divided ==
  ASSUME NEW A \in Nat, A > 0, NEW x \in Nat
  PROVE  \E q \in Nat, r \in 0 .. (A - 1) : q = x \div A /\ x = A * q + r
OBVIOUS

LEMMA Multiples ==
  ASSUME NEW A \in Nat, NEW x \in Nat
  PROVE  A * (x + 1) = A * x + A /\ A * x \in Nat /\ A * 0 = 0 /\ x * A = A * x
OBVIOUS

LEMMA Ordered ==
  ASSUME NEW A \in Nat, NEW x \in Nat, NEW y \in Nat, x <= y
  PROVE  A * x <= A * y
OBVIOUS

Parts(A, N, n, i) ==
  /\ (i - 1) * A \in Nat /\ (i - 1) * A < N
  /\ Min({i * A, N}) \in Nat /\ Min({i * A, N}) <= N
  /\ Min({i * A, N}) - (i - 1) * A \in 1 .. A
  /\ i = 1 => (i - 1) * A = 0
  /\ i < n => Min({i * A, N}) = ((i + 1) - 1) * A
  /\ i = n => Min({i * A, N}) = N

LEMMA PartsIs ==
  ASSUME NEW A \in Nat, A > 0, NEW N \in Nat
  PROVE  \E n \in Nat : /\ n = (N + A - 1) \div A
                        /\ n = 0 => N = 0
                        /\ \A i \in 1 .. n : Parts(A, N, n, i)
<1>1. PICK x \in Nat : x = N + A - 1
  OBVIOUS
<1>2. PICK n \in Nat, r \in 0 .. (A - 1) : n = x \div A /\ x = A * n + r
  BY Divided
<1>3. n = 0 => N = 0
  <2>1. n = 0 => A * n = 0
    BY Multiples
  <2> QED
    BY <1>1, <1>2, <2>1
<1>4. ASSUME NEW i \in 1 .. n PROVE Parts(A, N, n, i)
  <2>1. PICK j \in Nat : i = j + 1 /\ i - 1 = j /\ i \in Nat /\ j + 1 <= n /\ (i + 1) - 1 = i
    <3>1. i - 1 \in Nat /\ i = (i - 1) + 1
      OBVIOUS
    <3> QED
      BY <3>1
  <2>2. PICK a \in Nat : a = A * j /\ a = j * A
    BY Multiples
  <2>3. PICK b \in Nat : b = A * i /\ b = i * A /\ b = a + A
    BY <2>1, <2>2, Multiples
  <2>4. PICK d \in Nat : d = A * n
    BY Multiples
  <2>5. b <= d
    BY <2>1, <2>3, <2>4, Ordered
  <2>6. a < N
    BY <1>1, <1>2, <2>3, <2>4, <2>5
  <2>7. PICK z \in Nat : z = Min({b, N}) /\ z <= b /\ z <= N /\ (z = b \/ z = N)
    BY MinOfNats
  <2>8. z - a \in 1 .. A
    BY <2>3, <2>6, <2>7
  <2>9. i < n => z = b
    <3>1. SUFFICES ASSUME i < n PROVE b <= N
      BY <2>7
    <3>2. A * (i + 1) <= A * n
      BY <2>1, <3>1, Ordered
    <3>3. A * (i + 1) = b + A
      BY <2>1, <2>3, Multiples
    <3> QED
      BY <1>1, <1>2, <2>4, <3>2, <3>3
  <2>10. i = n => z = N
    <3>1. SUFFICES ASSUME i = n PROVE N <= b
      BY <2>7
    <3>2. b = d
      BY <2>3, <2>4, <3>1
    <3> QED
      BY <1>1, <1>2, <2>4, <3>2
  <2>11. i = 1 => a = 0
    BY <2>1, <2>2, Multiples
  <2> QED
    BY <2>1, <2>2, <2>3, <2>6, <2>7, <2>8, <2>9, <2>10, <2>11 DEF Parts
<1> QED
  BY <1>1, <1>2, <1>3, <1>4

LEMMA WrapIs ==
  ASSUME NEW d, Clean(d)
  PROVE  Held(WrapTlsRecord(d), d)
<1>0. d \in Seq(Item)
  BY DEF Clean
<1>1. PICK A \in Nat, N \in Nat : A = AppDataMax /\ A > 0 /\ N = Len(d)
  BY <1>0, ChunkAssumption
<1>2. PICK n \in Nat : n = (N + A - 1) \div A /\ (n = 0 => N = 0) /\ \A i \in 1 .. n : Parts(A, N, n, i)
  BY <1>1, PartsIs
<1> DEFINE Part(i) == SubSeq(d, (i - 1) * A + 1, Min({i * A, N}))
           One(i) == <<Record(APPDATA, Len(Part(i)))>> \o Part(i)
           Q == [i \in 1 .. n |-> One(i)]
           Edge(k) == IF k = 0 THEN 0 ELSE Min({k * A, N})
<1>3. WrapTlsRecord(d) = FlattenSeq(Q)
  BY <1>1, <1>2 DEF WrapTlsRecord
<1>4. ASSUME NEW i \in 1 .. n PROVE Held(One(i), Part(i)) /\ One(i) \in Seq(Item)
  <2>0. PICK a \in Nat, b \in Nat : a = (i - 1) * A /\ b = Min({i * A, N}) /\ b <= N /\ b - a \in 1 .. A
    BY <1>2 DEF Parts
  <2>1. a = (i - 1) * A /\ b = Min({i * A, N}) /\ a <= b /\ b <= N /\ b - a \in 1 .. A
    BY <2>0
  <2>2. Part(i) = SubSeq(d, a + 1, b)
    BY <2>1
  <2>3. Clean(SubSeq(d, a + 1, b))
    BY <1>1, <2>1, CleanSlice
  <2>4. Len(SubSeq(d, a + 1, b)) = b - a
    BY <1>0, <1>1, <2>1, SliceIs
  <2>5. Len(Part(i)) \in 1 .. AppDataMax
    BY <1>1, <2>1, <2>2, <2>4
  <2>6. Clean(Part(i))
    BY <2>2, <2>3
  <2> HIDE DEF Part
  <2>7. Held(One(i), Part(i))
    BY <2>5, <2>6, HeldOne
  <2> QED
    BY <2>7 DEF Held
<1>5. PICK X : X = Seq(Item)
  OBVIOUS
<1>6. PICK q \in Seq(X) : q = Q /\ Len(q) = n /\ \A i \in 1 .. n : q[i] = One(i)
  <2>1. \A i \in 1 .. n : One(i) \in X
    BY <1>4, <1>5
  <2> HIDE DEF One
  <2>2. Q \in Seq(X) /\ Len(Q) = n /\ \A i \in 1 .. n : Q[i] = One(i)
    BY <2>1
  <2> QED
    BY <2>2
<1> HIDE DEF Q
<1> DEFINE S == {k \in Nat : k <= n => Held(FlattenSeq(SubSeq(q, 1, k)), SubSeq(d, 1, Edge(k)))}
<1>7. 0 \in S
  <2>1. SubSeq(q, 1, 0) = <<>>
    BY SliceEmpty
  <2>2. SubSeq(d, 1, 0) = <<>>
    BY <1>0, SliceEmpty
  <2>3. Edge(0) = 0
    OBVIOUS
  <2>4. Held(FlattenSeq(SubSeq(q, 1, 0)), SubSeq(d, 1, Edge(0)))
    BY <2>1, <2>2, <2>3, FlattenEmpty, HeldNothing
  <2> QED
    BY <2>4
<1>8. ASSUME NEW k \in Nat, k \in S PROVE k + 1 \in S
  <2>1. CASE k + 1 <= n
    <3>1. k + 1 \in 1 .. n /\ (k + 1) - 1 = k /\ k <= n
      BY <2>1
    <3>2. Parts(A, N, n, k + 1)
      BY <1>2, <3>1
    <3>3. PICK a \in Nat, b \in Nat : a = k * A /\ b = Min({(k + 1) * A, N}) /\ a <= b /\ b <= N
      BY <3>1, <3>2 DEF Parts
    <3>4. Edge(k) = a
      <4>1. CASE k = 0
        BY <3>1, <3>2, <3>3, <4>1 DEF Parts
      <4>2. CASE k # 0
        <5>1. k \in 1 .. n /\ k < n
          BY <3>1, <4>2
        <5>2. Parts(A, N, n, k)
          BY <1>2, <5>1
        <5>3. Min({k * A, N}) = ((k + 1) - 1) * A
          BY <5>1, <5>2 DEF Parts
        <5> QED
          BY <3>1, <3>3, <4>2, <5>3
      <4> QED
        BY <4>1, <4>2
    <3>5. Edge(k + 1) = b
      BY <3>3
    <3>6. Part(k + 1) = SubSeq(d, a + 1, b)
      BY <3>1, <3>3
    <3>7. Held(One(k + 1), SubSeq(d, a + 1, b))
      BY <1>4, <3>1, <3>6
    <3>8. Held(FlattenSeq(SubSeq(q, 1, k)), SubSeq(d, 1, a))
      BY <1>8, <3>1, <3>4
    <3>9. FlattenSeq(SubSeq(q, 1, k + 1)) = FlattenSeq(SubSeq(q, 1, k)) \o One(k + 1)
      <4> HIDE DEF One
      <4>1. PICK p \in Seq(X) : p = SubSeq(q, 1, k)
        <5>1. k \in 0 .. Len(q)
          BY <1>6, <3>1
        <5>2. SubSeq(q, 1, k) \in Seq(X)
          BY <5>1, SeqCut
        <5> QED
          BY <5>2
      <4>2. PICK e \in X : e = One(k + 1) /\ e = q[k + 1]
        BY <1>6, <3>1
      <4>4. SubSeq(q, 1, k + 1) = SubSeq(q, 1, k) \o <<q[k + 1]>>
        BY <1>6, <2>1, PrefixNext
      <4>5. SubSeq(q, 1, k + 1) = p \o <<e>>
        BY <4>1, <4>2, <4>4
      <4>6. e \in Seq(Item) /\ p \in Seq(Seq(Item))
        BY <1>5
      <4>7. <<e>> \in Seq(Seq(Item))
        BY <4>6
      <4>8. FlattenSeq(p \o <<e>>) = FlattenSeq(p) \o FlattenSeq(<<e>>)
        BY <4>6, <4>7, FlattenConcat
      <4>9. FlattenSeq(<<e>>) = e
        BY <4>6, FlattenOne
      <4> QED
        BY <4>1, <4>2, <4>5, <4>8, <4>9
    <3>10. Held(FlattenSeq(SubSeq(q, 1, k)) \o One(k + 1), SubSeq(d, 1, a) \o SubSeq(d, a + 1, b))
      <4> HIDE DEF One
      <4> QED
        BY <3>7, <3>8, HeldBoth
    <3>11. SubSeq(d, 1, a) \o SubSeq(d, a + 1, b) = SubSeq(d, 1, b)
      BY <1>0, <1>1, <3>3, PrefixJoin
    <3>12. Held(FlattenSeq(SubSeq(q, 1, k + 1)), SubSeq(d, 1, Edge(k + 1)))
      <4> HIDE DEF One, Edge
      <4> QED
        BY <3>5, <3>9, <3>10, <3>11
    <3> QED
      BY <3>12
  <2>2. CASE ~ (k + 1 <= n)
    BY <2>2
  <2> QED
    BY <2>1, <2>2
<1>9. n \in S
  <2> HIDE DEF S
  <2> QED
    BY <1>7, <1>8, Climb
<1>10. Edge(n) = N
  <2>1. CASE n = 0
    BY <1>2, <2>1
  <2>2. CASE n # 0
    <3>1. n \in 1 .. n
      BY <2>2
    <3>2. Parts(A, N, n, n)
      BY <1>2, <3>1
    <3> QED
      BY <2>2, <3>2 DEF Parts
  <2> QED
    BY <2>1, <2>2
<1>11. Held(FlattenSeq(SubSeq(q, 1, n)), SubSeq(d, 1, Edge(n)))
  BY <1>9
<1>12. SubSeq(q, 1, n) = q
  BY <1>6
<1>13. SubSeq(d, 1, N) = d
  BY <1>0, <1>1
<1> HIDE DEF Edge
<1> QED
  BY <1>3, <1>6, <1>10, <1>11, <1>12, <1>13

-----------------------------------------------------------------------------
(***************************************************************************)
(* What a server sends.                                                    *)
(***************************************************************************)
LEMMA AfterIs ==
  ASSUME NEW S, NEW q \in Seq(Seq(S))
  PROVE  /\ \A k \in 0 .. Len(q) : FlattenSeq(Drop(q, k)) \in Seq(S)
         /\ FlattenSeq(Drop(q, Len(q))) = <<>>
         /\ \A k \in 0 .. (Len(q) - 1) : FlattenSeq(Drop(q, k)) = q[k + 1] \o FlattenSeq(Drop(q, k + 1))
<1>1. PICK V : V = Seq(S)
  OBVIOUS
<1>2. q \in Seq(V) /\ Len(q) \in Nat
  BY <1>1
<1>3. ASSUME NEW k \in 0 .. Len(q)
      PROVE  Drop(q, k) \in Seq(V) /\ Len(Drop(q, k)) = Len(q) - k
             /\ \A i \in 1 .. (Len(q) - k) : Drop(q, k)[i] = q[k + i]
  <2>1. k \in Nat /\ k <= Len(q)
    BY <1>2
  <2> QED
    BY <1>2, <2>1, DropIs
<1>4. ASSUME NEW k \in 0 .. Len(q) PROVE FlattenSeq(Drop(q, k)) \in Seq(S)
  <2>1. Drop(q, k) \in Seq(Seq(S))
    BY <1>1, <1>3
  <2> QED
    BY <2>1, FlattenType
<1>5. FlattenSeq(Drop(q, Len(q))) = <<>>
  <2>1. Drop(q, Len(q)) = <<>>
    BY <1>2, DropNone
  <2> QED
    BY <2>1, FlattenEmpty
<1>6. ASSUME NEW k \in 0 .. (Len(q) - 1)
      PROVE  FlattenSeq(Drop(q, k)) = q[k + 1] \o FlattenSeq(Drop(q, k + 1))
  <2> DEFINE d == Drop(q, k)
  <2>0. k \in 0 .. Len(q) /\ k \in Nat /\ k + 1 <= Len(q) /\ 1 \in 1 .. (Len(q) - k)
    BY <1>2
  <2>1. d \in Seq(V) /\ Len(d) = Len(q) - k /\ d[1] = q[k + 1]
    BY <1>3, <2>0
  <2>2. Drop(d, 1) = Drop(q, k + 1)
    <3>1. 1 \in Nat
      OBVIOUS
    <3> QED
      BY <1>2, <2>0, <3>1, DropDrop
  <2> HIDE DEF d
  <2>3. d # <<>>
    BY <2>0, <2>1
  <2>4. d \in Seq(Seq(S))
    BY <1>1, <2>1
  <2>5. FlattenSeq(d) = d[1] \o FlattenSeq(SubSeq(d, 2, Len(d)))
    BY <2>3, <2>4, FlattenFirst
  <2>6. SubSeq(d, 2, Len(d)) = Drop(d, 1)
    BY DEF Drop
  <2> QED
    BY <2>1, <2>2, <2>5, <2>6 DEF d
<1> QED
  BY <1>4, <1>5, <1>6

FrameType == [op : 0 .. (Fin - 1), fin : BOOLEAN, data : Seq(Byte)]
DatumOf(f) == IF Data(f) THEN f.data ELSE <<>>

LEMMA SeqWithin ==
  ASSUME NEW S, NEW T, S \subseteq T, NEW q \in Seq(S)
  PROVE  q \in Seq(T)
<1>1. \A i \in 1 .. Len(q) : q[i] \in S
  OBVIOUS
<1>2. \A i \in 1 .. Len(q) : q[i] \in T
  BY <1>1
<1>3. q = [i \in 1 .. Len(q) |-> q[i]] /\ Len(q) \in Nat
  OBVIOUS
<1>4. [i \in 1 .. Len(q) |-> q[i]] \in Seq(T)
  BY <1>2, <1>3
<1> QED
  BY <1>3, <1>4

LEMMA BytesAreNats ==
  ASSUME NEW q \in Seq(Byte)
  PROVE  q \in Seq(Nat)
<1>1. Byte \subseteq Nat
  BY HighIs
<1> QED
  BY <1>1, SeqWithin

LEMMA DatumIs ==
  ASSUME NEW f \in FrameType
  PROVE  f.data \in Seq(Nat) /\ DatumOf(f) \in Seq(Nat)
<1>2. f.data \in Seq(Byte)
  BY DEF FrameType
<1>3. f.data \in Seq(Nat)
  BY <1>2, BytesAreNats
<1>4. <<>> \in Seq(Nat)
  OBVIOUS
<1> QED
  BY <1>3, <1>4 DEF DatumOf

LEMMA DataStep ==
  ASSUME NEW F \in Seq(FrameType), NEW i \in Nat, NEW j \in Nat, i <= j, j <= Len(F)
  PROVE  /\ DataOf(F, i, j) \in Seq(Nat)
         /\ i = j => DataOf(F, i, j) = <<>>
         /\ j < Len(F) => DataOf(F, i, j + 1) = DataOf(F, i, j) \o DatumOf(F[j + 1])
<1>1. PICK X : X = Seq(Nat)
  OBVIOUS
<1> DEFINE Q(n) == [k \in 1 .. n |-> DatumOf(F[i + k])]
<1>2. ASSUME NEW k \in 1 .. Len(F) PROVE DatumOf(F[k]) \in X
  BY <1>1, DatumIs
<1>3. ASSUME NEW n \in Nat, i + n <= Len(F)
      PROVE  Q(n) \in Seq(X) /\ Len(Q(n)) = n /\ \A k \in 1 .. n : Q(n)[k] = DatumOf(F[i + k])
  <2>1. \A k \in 1 .. n : i + k \in 1 .. Len(F)
    BY <1>3
  <2>2. \A k \in 1 .. n : DatumOf(F[i + k]) \in X
    BY <1>2, <2>1
  <2> QED
    BY <2>2
<1>4. \A n \in Nat : n \in Nat => DataOf(F, i, i + n) = FlattenSeq(Q(n))
  <2> SUFFICES ASSUME NEW n \in Nat PROVE DataOf(F, i, i + n) = FlattenSeq(Q(n))
    OBVIOUS
  <2>1. (i + n) - i = n
    OBVIOUS
  <2> QED
    BY <2>1 DEF DataOf, DatumOf
<1> HIDE DEF Q
<1>5. PICK n \in Nat : j = i + n
  <2>1. j - i \in Nat /\ j = i + (j - i)
    OBVIOUS
  <2> QED
    BY <2>1
<1>6. PICK p \in Seq(X) : p = Q(n) /\ Len(p) = n /\ \A k \in 1 .. n : p[k] = DatumOf(F[i + k])
  BY <1>3, <1>5
<1>7. DataOf(F, i, j) = FlattenSeq(p)
  BY <1>4, <1>5, <1>6
<1>8. DataOf(F, i, j) \in Seq(Nat)
  BY <1>1, <1>7, FlattenType
<1>9. ASSUME i = j PROVE DataOf(F, i, j) = <<>>
  <2>1. n = 0
    BY <1>5, <1>9
  <2>2. p = <<>>
    BY <1>6, <2>1
  <2> QED
    BY <1>7, <2>2, FlattenEmpty
<1>10. ASSUME j < Len(F) PROVE DataOf(F, i, j + 1) = DataOf(F, i, j) \o DatumOf(F[j + 1])
  <2>1. j + 1 = i + (n + 1) /\ n + 1 \in Nat /\ i + (n + 1) <= Len(F) /\ j + 1 \in 1 .. Len(F)
    BY <1>5, <1>10
  <2>2. PICK r \in Seq(X) : r = Q(n + 1) /\ Len(r) = n + 1 /\ \A k \in 1 .. (n + 1) : r[k] = DatumOf(F[i + k])
    BY <1>3, <2>1
  <2>3. PICK d \in X : d = DatumOf(F[j + 1])
    BY <1>2, <2>1
  <2>4. r[n + 1] = d
    BY <2>1, <2>2, <2>3
  <2>5. r = p \o <<d>>
    <3>1. Added(X, p \o <<d>>, p, d, n)
      BY <1>6, AfterAll
    <3>2. PICK z \in Seq(X) : z = p \o <<d>> /\ Len(z) = n + 1 /\ z[n + 1] = d /\ \A k \in 1 .. n : z[k] = p[k]
      BY <3>1 DEF Added
    <3>3. ASSUME NEW k \in 1 .. Len(r) PROVE r[k] = z[k]
      <4>1. k = n + 1 \/ k \in 1 .. n
        BY <2>2
      <4>2. CASE k = n + 1
        BY <2>4, <3>2, <4>2
      <4>3. CASE k \in 1 .. n
        <5>1. r[k] = DatumOf(F[i + k])
          BY <2>2, <4>3
        <5>2. p[k] = DatumOf(F[i + k]) /\ z[k] = p[k]
          BY <1>6, <3>2, <4>3
        <5> QED
          BY <5>1, <5>2
      <4> QED
        BY <4>1, <4>2, <4>3
    <3>4. r = z
      BY <2>2, <3>2, <3>3, SeqEqual
    <3> QED
      BY <3>2, <3>4
  <2>6. DataOf(F, i, j + 1) = FlattenSeq(r)
    BY <1>4, <2>1, <2>2
  <2>7. FlattenSeq(p \o <<d>>) = FlattenSeq(p) \o FlattenSeq(<<d>>)
    <3>1. <<d>> \in Seq(X)
      OBVIOUS
    <3> QED
      BY <1>1, <3>1, FlattenConcat
  <2>8. FlattenSeq(<<d>>) = d
    BY <1>1, FlattenOne
  <2> QED
    BY <1>7, <2>3, <2>5, <2>6, <2>7, <2>8
<1> QED
  BY <1>8, <1>9, <1>10

LEMMA DataJoin ==
  ASSUME NEW F \in Seq(FrameType), NEW i \in Nat, NEW j \in Nat, NEW k \in Nat, i <= j, j <= k, k <= Len(F)
  PROVE  DataOf(F, i, k) = DataOf(F, i, j) \o DataOf(F, j, k)
<1> DEFINE S == {n \in Nat : j + n <= Len(F) => DataOf(F, i, j + n) = DataOf(F, i, j) \o DataOf(F, j, j + n)}
<1>0. PICK a \in Seq(Nat), N \in Nat : a = DataOf(F, i, j) /\ N = Len(F)
  <2>1. j <= Len(F) /\ Len(F) \in Nat
    OBVIOUS
  <2> QED
    BY <2>1, DataStep
<1>1. 0 \in S
  <2>1. DataOf(F, j, j) = <<>>
    BY DataStep
  <2>2. a \o <<>> = a /\ j + 0 = j
    OBVIOUS
  <2> QED
    BY <1>0, <2>1, <2>2
<1>2. ASSUME NEW n \in Nat, n \in S PROVE n + 1 \in S
  <2>1. CASE j + (n + 1) <= N
    <3>1. PICK h \in Nat : h = j + n /\ h + 1 = j + (n + 1) /\ j <= h /\ i <= h /\ h < N /\ h <= N
      BY <2>1
    <3>2. PICK b \in Seq(Nat) : b = DataOf(F, j, h)
      BY <1>0, <3>1, DataStep
    <3>3. PICK d \in Seq(Nat) : d = DatumOf(F[h + 1])
      <4>1. h + 1 \in 1 .. Len(F)
        BY <1>0, <3>1
      <4>2. F[h + 1] \in FrameType
        BY <4>1
      <4> QED
        BY <4>2, DatumIs
    <3>4. DataOf(F, j, h + 1) = b \o d
      BY <1>0, <3>1, <3>2, <3>3, DataStep
    <3>5. DataOf(F, i, h + 1) = DataOf(F, i, h) \o d
      BY <1>0, <3>1, <3>3, DataStep
    <3>6. DataOf(F, i, h) = a \o b
      BY <1>0, <1>2, <3>1, <3>2
    <3>7. (a \o b) \o d = a \o (b \o d)
      BY JoinThree, SMTT(30)
    <3>8. DataOf(F, i, h + 1) = a \o DataOf(F, j, h + 1)
      BY <3>4, <3>5, <3>6, <3>7
    <3> QED
      BY <1>0, <3>1, <3>8
  <2>2. CASE ~ (j + (n + 1) <= N)
    BY <1>0, <2>2
  <2> QED
    BY <2>1, <2>2
<1>3. PICK n \in Nat : k = j + n
  <2>1. k - j \in Nat /\ k = j + (k - j)
    OBVIOUS
  <2> QED
    BY <2>1
<1>4. n \in S
  <2> HIDE DEF S
  <2> QED
    BY <1>1, <1>2, Climb
<1> QED
  BY <1>3, <1>4

\* The frames after the first k, as they are sent.
PlaceOf(F, i) == IF Data(F[i]) THEN Len(DataOf(F, 0, i - 1)) ELSE 0
SentFrame(F, i) == EncodeFrame(F[i].op, F[i].fin, Encipher(TgDown, PlaceOf(F, i), F[i].data))
SentFrames(F) == [i \in 1 .. Len(F) |-> SentFrame(F, i)]
ServedAfter(F, k) == FlattenSeq(Drop(SentFrames(F), k))

LEMMA SentFrameIs ==
  ASSUME NEW F \in Seq(FrameType), NEW i \in 1 .. Len(F)
  PROVE  /\ PlaceOf(F, i) \in Nat
         /\ F[i] \in FrameType
         /\ Encipher(TgDown, PlaceOf(F, i), F[i].data) \in Seq(Item)
         /\ SentFrame(F, i) \in Seq(Item) /\ SentFrame(F, i) # <<>>
<1>1. F[i] \in FrameType
  OBVIOUS
<1>2. PICK p \in Nat : p = PlaceOf(F, i)
  <2>1. 0 \in Nat /\ i - 1 \in Nat /\ 0 <= i - 1 /\ i - 1 <= Len(F)
    OBVIOUS
  <2>2. DataOf(F, 0, i - 1) \in Seq(Nat)
    BY <2>1, DataStep
  <2>3. Len(DataOf(F, 0, i - 1)) \in Nat
    BY <2>2
  <2> QED
    BY <2>3 DEF PlaceOf
<1>3. PICK d \in Seq(Nat) : d = F[i].data
  BY <1>1, DatumIs
<1>4. TgDown \in Int /\ p \in Int
  BY DEF TgDown
<1>5. PICK x \in Seq(Item) : x = Encipher(TgDown, p, d)
  BY <1>4, EncipherIs
<1>6. PICK op \in 0 .. (Fin - 1), fin \in BOOLEAN : op = F[i].op /\ fin = F[i].fin
  BY <1>1 DEF FrameType
<1>7. Reads(op, fin, x, x)
  BY FrameRead
<1>8. PICK e \in Seq(Item) : e = EncodeFrame(op, fin, x) /\ Len(e) > 0
  BY <1>7 DEF Reads
<1>9. e # <<>>
  BY <1>8
<1> QED
  BY <1>1, <1>2, <1>3, <1>5, <1>6, <1>8, <1>9 DEF SentFrame

LEMMA ServedIs ==
  ASSUME NEW F \in Seq(FrameType)
  PROVE  /\ \A k \in 0 .. Len(F) : ServedAfter(F, k) \in Seq(Item)
         /\ ServedAfter(F, Len(F)) = <<>>
         /\ \A k \in 0 .. (Len(F) - 1) : ServedAfter(F, k) = SentFrame(F, k + 1) \o ServedAfter(F, k + 1)
<1>1. \A i \in 1 .. Len(F) : SentFrame(F, i) \in Seq(Item)
  BY SentFrameIs
<1>2. PICK V : V = Seq(Item)
  OBVIOUS
<1>3. \A i \in 1 .. Len(F) : SentFrame(F, i) \in V
  BY <1>1, <1>2
<1>4. Len(F) \in Nat
  OBVIOUS
<1>5. PICK q \in Seq(V) : q = SentFrames(F) /\ Len(q) = Len(F) /\ \A i \in 1 .. Len(F) : q[i] = SentFrame(F, i)
  <2>1. SentFrames(F) \in Seq(V) /\ Len(SentFrames(F)) = Len(F)
        /\ \A i \in 1 .. Len(F) : SentFrames(F)[i] = SentFrame(F, i)
    BY <1>3, <1>4 DEF SentFrames
  <2> QED
    BY <2>1
<1>6. q \in Seq(Seq(Item))
  BY <1>2
<1>7. /\ \A k \in 0 .. Len(q) : FlattenSeq(Drop(q, k)) \in Seq(Item)
      /\ FlattenSeq(Drop(q, Len(q))) = <<>>
      /\ \A k \in 0 .. (Len(q) - 1) : FlattenSeq(Drop(q, k)) = q[k + 1] \o FlattenSeq(Drop(q, k + 1))
  BY <1>6, AfterIs
<1>8. \A k \in 0 .. (Len(F) - 1) : k + 1 \in 1 .. Len(F)
  BY <1>4
<1>9. \A k \in 0 .. (Len(F) - 1) : q[k + 1] = SentFrame(F, k + 1)
  BY <1>5, <1>8
<1> QED
  BY <1>5, <1>7, <1>9 DEF ServedAfter

LEMMA ServerWireIs ==
  ASSUME NEW s, s.frames \in Seq(FrameType)
  PROVE  ServerWire(s) = ServedAfter(s.frames, 0)
<1>1. PICK F \in Seq(FrameType) : F = s.frames
  OBVIOUS
<1>2. \A i \in 1 .. Len(F) : SentFrame(F, i) \in Seq(Item)
  BY SentFrameIs
<1>3. PICK V : V = Seq(Item)
  OBVIOUS
<1>4. \A i \in 1 .. Len(F) : SentFrame(F, i) \in V
  BY <1>2, <1>3
<1>5. SentFrames(F) \in Seq(V)
  BY <1>4 DEF SentFrames
<1>6. Drop(SentFrames(F), 0) = SentFrames(F)
  BY <1>5, DropNone
<1>7. ServerWire(s) = FlattenSeq(SentFrames(s.frames))
  BY Zenon DEF ServerWire, SentFrames, SentFrame, PlaceOf
<1> QED
  BY <1>1, <1>6, <1>7 DEF ServedAfter

-----------------------------------------------------------------------------
(***************************************************************************)
(* RawWebSocket.recv, frame by frame, among the messages that frames are.  *)
(***************************************************************************)
\* Where the messages end among the frames, see Conveys.
WholeAt(F, j) == Data(F[j]) /\ F[j].fin
StopsAt(F, i, j) ==
  \/ F[j].op = OP_CLOSE
  \/ MaxMessage < Len(F[j].data)
  \/ Data(F[j]) /\ MaxMessage < Len(DataOf(F, i, j))
EndsAt(F, M, ends) ==
  /\ ends \in [0 .. Len(M) -> 0 .. Len(F)]
  /\ ends[0] = 0
  /\ \A m \in 1 .. Len(M) :
       /\ ends[m - 1] < ends[m]
       /\ M[m] = DataOf(F, ends[m - 1], ends[m])
       /\ WholeAt(F, ends[m])
       /\ \A j \in (ends[m - 1] + 1) .. ends[m] :
            ~ StopsAt(F, ends[m - 1], j) /\ (WholeAt(F, j) => j = ends[m])
  /\ \A j \in (ends[Len(M)] + 1) .. Len(F) :
       WholeAt(F, j) => \E i \in (ends[Len(M)] + 1) .. j : StopsAt(F, ends[Len(M)], i)

LEMMA ConveysIs ==
  ASSUME NEW F, NEW M, Conveys(F, M)
  PROVE  \E ends : EndsAt(F, M, ends)
BY Zenon DEF Conveys, EndsAt, WholeAt, StopsAt

\* m messages have been received, and the frames after their end up to frame k.
Receiving(F, ends, m, k, served, frag, place) ==
  /\ served = ServedAfter(F, k)
  /\ ends[m] <= k
  /\ \A j \in (ends[m] + 1) .. k : ~ WholeAt(F, j) /\ ~ StopsAt(F, ends[m], j)
  /\ place = Len(DataOf(F, 0, ends[m]))
  /\ frag = Encipher(TgDown, place, DataOf(F, ends[m], k))

\* What the next frame is, behind m messages, if it is not the end of all.
NextIs(F, M, ends, m, k) ==
  /\ F[k + 1].op = OP_CLOSE => m = Len(M)
  /\ WholeAt(F, k + 1) /\ ~ StopsAt(F, ends[m], k + 1) =>
       /\ m < Len(M) /\ ends[m + 1] = k + 1 /\ M[m + 1] = DataOf(F, ends[m], k + 1)

LEMMA NextMessage ==
  ASSUME NEW F \in Seq(FrameType), NEW M, Len(M) \in Nat, NEW ends, EndsAt(F, M, ends),
         NEW m \in 0 .. Len(M), NEW k \in Nat, k < Len(F), NEW served, NEW frag, NEW place,
         Receiving(F, ends, m, k, served, frag, place)
  PROVE  NextIs(F, M, ends, m, k)
<1>1. PICK e \in Nat, N \in Nat, C \in Nat : e = ends[m] /\ N = Len(F) /\ C = Len(M) /\ e <= k
  BY DEF EndsAt, Receiving
<1>2. \A j \in (e + 1) .. k : ~ WholeAt(F, j) /\ ~ StopsAt(F, e, j)
  BY <1>1 DEF Receiving
<1>3. k + 1 \in (e + 1) .. N /\ k + 1 \in (e + 1) .. (k + 1)
  BY <1>1
<1>4. ASSUME m < C
      PROVE  /\ ~ StopsAt(F, e, k + 1) /\ (WholeAt(F, k + 1) => k + 1 = ends[m + 1])
             /\ M[m + 1] = DataOf(F, e, ends[m + 1])
  <2>1. m + 1 \in 1 .. Len(M) /\ (m + 1) - 1 = m
    BY <1>1, <1>4
  <2>2. PICK e2 \in Nat : e2 = ends[m + 1] /\ e < e2
    <3>1. ends \in [0 .. Len(M) -> 0 .. Len(F)] /\ ends[(m + 1) - 1] < ends[m + 1]
      BY <2>1 DEF EndsAt
    <3>2. ends[m + 1] \in Nat
      BY <2>1, <3>1
    <3> QED
      BY <1>1, <2>1, <3>1, <3>2
  <2>3. /\ M[m + 1] = DataOf(F, e, e2) /\ WholeAt(F, e2)
        /\ \A j \in (e + 1) .. e2 : ~ StopsAt(F, e, j) /\ (WholeAt(F, j) => j = e2)
    BY <1>1, <2>1, <2>2 DEF EndsAt
  <2>4. k + 1 \in (e + 1) .. e2
    <3>1. ~ (e2 \in (e + 1) .. k)
      BY <1>2, <2>3
    <3> QED
      BY <1>1, <2>2, <3>1
  <2> QED
    BY <2>2, <2>3, <2>4
<1>5. ASSUME m = C, WholeAt(F, k + 1) PROVE StopsAt(F, e, k + 1)
  <2>1. PICK i \in (e + 1) .. (k + 1) : StopsAt(F, e, i)
    BY <1>1, <1>3, <1>5 DEF EndsAt
  <2>2. i = k + 1 \/ i \in (e + 1) .. k
    BY <1>1
  <2> QED
    BY <1>2, <2>1, <2>2
<1>6. m = C \/ m < C
  BY <1>1
<1>7. F[k + 1].op = OP_CLOSE => StopsAt(F, e, k + 1)
  BY DEF StopsAt
<1>8. F[k + 1].op = OP_CLOSE => m = Len(M)
  BY <1>1, <1>4, <1>6, <1>7
<1>9. WholeAt(F, k + 1) /\ ~ StopsAt(F, e, k + 1) =>
       /\ m < Len(M) /\ ends[m + 1] = k + 1 /\ M[m + 1] = DataOf(F, e, k + 1)
  BY <1>1, <1>4, <1>5, <1>6
<1> QED
  BY <1>1, <1>8, <1>9 DEF NextIs

\* All messages up to the m-th are the data up to its end.
LEMMA MessagesAre ==
  ASSUME NEW F \in Seq(FrameType), NEW M \in Seq(Seq(Nat)), NEW ends, EndsAt(F, M, ends), NEW m \in 0 .. Len(M)
  PROVE  ends[m] \in 0 .. Len(F) /\ FlattenSeq(SubSeq(M, 1, m)) = DataOf(F, 0, ends[m])
<1>1. PICK X : X = Seq(Nat)
  OBVIOUS
<1>2. PICK q \in Seq(X), C \in Nat, N \in Nat : q = M /\ C = Len(M) /\ N = Len(F)
  BY <1>1
<1>3. \A n \in 0 .. C : ends[n] \in 0 .. N
  BY <1>2 DEF EndsAt
<1> DEFINE S == {n \in Nat : n <= C => FlattenSeq(SubSeq(q, 1, n)) = DataOf(F, 0, ends[n])}
<1>4. 0 \in S
  <2>1. SubSeq(q, 1, 0) = <<>>
    BY SliceEmpty
  <2>2. ends[0] = 0
    BY DEF EndsAt
  <2>3. 0 <= Len(F) /\ 0 \in Nat /\ 0 <= 0
    OBVIOUS
  <2>4. DataOf(F, 0, 0) = <<>>
    BY <2>3, DataStep
  <2> QED
    BY <2>1, <2>2, <2>4, FlattenEmpty
<1>5. ASSUME NEW n \in Nat, n \in S PROVE n + 1 \in S
  <2>1. CASE n + 1 <= C
    <3>1. n + 1 \in 1 .. Len(M) /\ (n + 1) - 1 = n /\ n \in 0 .. C /\ n + 1 \in 0 .. C
      BY <1>2, <2>1
    <3>2. PICK a \in Nat, b \in Nat : a = ends[n] /\ b = ends[n + 1] /\ a <= b /\ b <= N
      <4>1. ends[(n + 1) - 1] < ends[n + 1]
        BY <3>1 DEF EndsAt
      <4> QED
        BY <1>3, <3>1, <4>1
    <3>3. M[n + 1] = DataOf(F, a, b)
      BY <3>1, <3>2 DEF EndsAt
    <3>4. DataOf(F, 0, b) = DataOf(F, 0, a) \o DataOf(F, a, b)
      <4>1. 0 \in Nat /\ 0 <= a /\ a <= b
        BY <3>2
      <4>2. b <= Len(F)
        BY <1>2, <3>2
      <4> QED
        BY <4>1, <4>2, DataJoin
    <3>5. PICK p \in Seq(X) : p = SubSeq(q, 1, n)
      <4>1. n \in 0 .. Len(q)
        BY <1>2, <3>1
      <4>2. SubSeq(q, 1, n) \in Seq(X)
        BY <4>1, SeqCut
      <4> QED
        BY <4>2
    <3>6. PICK x \in X : x = q[n + 1]
      BY <1>2, <3>1
    <3>7. SubSeq(q, 1, n + 1) = p \o <<x>>
      <4>1. SubSeq(q, 1, n + 1) = SubSeq(q, 1, n) \o <<q[n + 1]>>
        BY <1>2, <2>1, PrefixNext
      <4> QED
        BY <3>5, <3>6, <4>1
    <3>8. FlattenSeq(p \o <<x>>) = FlattenSeq(p) \o FlattenSeq(<<x>>)
      <4>1. <<x>> \in Seq(X)
        OBVIOUS
      <4> QED
        BY <1>1, <4>1, FlattenConcat
    <3>9. FlattenSeq(<<x>>) = x
      BY <1>1, FlattenOne
    <3>10. FlattenSeq(p) = DataOf(F, 0, a)
      BY <1>5, <3>1, <3>2, <3>5
    <3>11. FlattenSeq(SubSeq(q, 1, n + 1)) = DataOf(F, 0, ends[n + 1])
      BY <1>2, <3>2, <3>3, <3>4, <3>6, <3>7, <3>8, <3>9, <3>10
    <3> QED
      BY <3>11
  <2>2. CASE ~ (n + 1 <= C)
    BY <2>2
  <2> QED
    BY <2>1, <2>2
<1>6. m \in S
  <2>1. m \in Nat
    BY <1>2
  <2> HIDE DEF S
  <2>2. Nat \subseteq S
    BY <1>4, <1>5, Climb
  <2> QED
    BY <2>1, <2>2
<1>7. ends[m] \in 0 .. Len(F)
  BY <1>2, <1>3
<1>8. FlattenSeq(SubSeq(q, 1, m)) = DataOf(F, 0, ends[m])
  BY <1>2, <1>6
<1> QED
  BY <1>2, <1>7, <1>8

\* How far a receiver is after a step of recv(), whose result is r.
Received(F, M, ends, m, k, place, r, rest) ==
  \/ /\ r.does = "deliver" /\ m < Len(M) /\ r.data = Encipher(TgDown, place, M[m + 1]) /\ r.frag = <<>>
     /\ Receiving(F, ends, m + 1, k + 1, rest, <<>>, place + Len(M[m + 1]))
  \/ /\ r.does \in {"skip", "pong"}
     /\ Receiving(F, ends, m, k + 1, rest, r.frag, place)
  \/ r.does = "raise"
  \/ r.does = "close" /\ m = Len(M)

ReceivingIn(F, e, k, served, frag, place) ==
  /\ served \in Seq(Item) /\ frag \in Seq(Item) /\ place \in Nat
  /\ DataOf(F, e, k) \in Seq(Nat) /\ Len(frag) = Len(DataOf(F, e, k))
  /\ Len(DataOf(F, 0, k)) = place + Len(frag)

LEMMA ReceivingType ==
  ASSUME NEW F \in Seq(FrameType), NEW ends, NEW m, NEW k \in 0 .. Len(F), NEW e \in Nat, e = ends[m],
         NEW served, NEW frag, NEW place, Receiving(F, ends, m, k, served, frag, place)
  PROVE  ReceivingIn(F, e, k, served, frag, place)
<1>1. e = ends[m] /\ e <= k /\ k \in Nat /\ k <= Len(F)
  BY DEF Receiving
<1>2. served \in Seq(Item)
  BY ServedIs DEF Receiving
<1>3. PICK d \in Seq(Nat) : d = DataOf(F, e, k)
  BY <1>1, DataStep
<1>4. PICK a \in Seq(Nat) : a = DataOf(F, 0, e)
  <2>1. 0 \in Nat /\ 0 <= e /\ e <= Len(F)
    BY <1>1
  <2> QED
    BY <2>1, DataStep
<1>5. place = Len(a) /\ frag = Encipher(TgDown, place, d) /\ place \in Nat
  BY <1>1, <1>3, <1>4 DEF Receiving
<1>6. frag \in Seq(Item) /\ Len(frag) = Len(d)
  <2>1. TgDown \in Int /\ place \in Int
    BY <1>5 DEF TgDown
  <2> QED
    BY <1>5, <2>1, EncipherIs
<1>7. DataOf(F, 0, k) = a \o d
  <2>1. 0 \in Nat /\ 0 <= e
    OBVIOUS
  <2> QED
    BY <1>1, <1>3, <1>4, <2>1, DataJoin
<1>8. Len(a \o d) = Len(a) + Len(d)
  OBVIOUS
<1> QED
  BY <1>1, <1>2, <1>3, <1>5, <1>6, <1>7, <1>8 DEF ReceivingIn

LEMMA RecvStep ==
  ASSUME NEW F \in Seq(FrameType), NEW M \in Seq(Seq(Nat)), NEW ends, EndsAt(F, M, ends),
         NEW m \in 0 .. Len(M), NEW k \in 0 .. Len(F), NEW served, NEW frag, NEW place,
         Receiving(F, ends, m, k, served, frag, place), served # <<>>
  PROVE  /\ k < Len(F)
         /\ Received(F, M, ends, m, k, place, Recv(frag, served), Drop(served, ReadFrame(served).size))
         /\ Recv(frag, served).data \in Seq(Item) /\ Recv(frag, served).frag \in Seq(Item)
         /\ Drop(served, ReadFrame(served).size) \in Seq(Item)
<1>1. PICK N \in Nat, C \in Nat : N = Len(F) /\ C = Len(M)
  OBVIOUS
<1>2. k \in Nat /\ k < N
  <2>1. k = N => served = <<>>
    BY <1>1, ServedIs DEF Receiving
  <2> QED
    BY <1>1, <2>1
<1>3. PICK e \in Nat : e = ends[m] /\ e <= k
  <2>1. ends[m] \in 0 .. Len(F)
    BY DEF EndsAt
  <2>2. ends[m] <= k
    BY DEF Receiving
  <2> QED
    BY <1>1, <2>1, <2>2
<1>4. /\ served \in Seq(Item) /\ frag \in Seq(Item) /\ place \in Nat
      /\ Len(frag) = Len(DataOf(F, e, k)) /\ DataOf(F, e, k) \in Seq(Nat) /\ Len(DataOf(F, 0, k)) = place + Len(frag)
  <2>1. ReceivingIn(F, e, k, served, frag, place)
    BY <1>3, ReceivingType
  <2> QED
    BY <2>1 DEF ReceivingIn
<1>5. PICK d \in Seq(Nat) : d = DataOf(F, e, k)
  BY <1>4
<1>6. PICK f \in FrameType : f = F[k + 1]
  BY <1>1, <1>2
<1>7. PICK x \in Seq(Item) : x = Encipher(TgDown, PlaceOf(F, k + 1), f.data)
  <2>1. k + 1 \in 1 .. Len(F)
    BY <1>1, <1>2
  <2> QED
    BY <1>6, <2>1, SentFrameIs
<1>8. PICK b \in Seq(Nat) : b = f.data /\ Len(x) = Len(b)
  <2>1. f.data \in Seq(Nat)
    BY DatumIs
  <2>2. PlaceOf(F, k + 1) \in Int
    <3>1. k + 1 \in 1 .. Len(F)
      BY <1>1, <1>2
    <3>2. PlaceOf(F, k + 1) \in Nat
      BY <3>1, SentFrameIs
    <3> QED
      BY <3>2
  <2>3. TgDown \in Int
    BY DEF TgDown
  <2> QED
    BY <1>7, <2>1, <2>2, <2>3, EncipherIs
<1>9. PICK op \in 0 .. (Fin - 1), fin \in BOOLEAN : op = f.op /\ fin = f.fin
  BY DEF FrameType
<1>10. PICK rest \in Seq(Item) : rest = ServedAfter(F, k + 1) /\ served = SentFrame(F, k + 1) \o rest
  <2>1. k \in 0 .. (Len(F) - 1) /\ k + 1 \in 0 .. Len(F)
    BY <1>1, <1>2
  <2>2. served = ServedAfter(F, k)
    BY DEF Receiving
  <2> QED
    BY <2>1, <2>2, ServedIs
<1>11. Reads(op, fin, x, rest)
  BY FrameRead
<1>12. SentFrame(F, k + 1) = EncodeFrame(op, fin, x)
  BY <1>6, <1>7, <1>9 DEF SentFrame
<1>13. PICK t : /\ t = ReadFrame(served) /\ t.op = op /\ t.fin = fin /\ t.len = Len(x) /\ t.data = x
                /\ Drop(served, t.size) = rest
  BY <1>10, <1>11, <1>12 DEF Reads
<1>14. NextIs(F, M, ends, m, k)
  BY <1>1, <1>2, NextMessage
<1>15. PICK j \in Seq(Item) : j = frag \o x /\ Len(j) = Len(d) + Len(b)
  <2>1. PICK g \in Seq(Item) : g = frag
    BY <1>4
  <2>2. g \o x \in Seq(Item) /\ Len(g \o x) = Len(g) + Len(x)
    BY ConcatFirst
  <2> QED
    BY <1>4, <1>5, <1>8, <2>1, <2>2
<1>16. PICK d2 \in Seq(Nat) : d2 = DataOf(F, e, k + 1) /\ d2 = d \o DatumOf(f)
  <2>1. k + 1 \in Nat /\ e <= k + 1 /\ k + 1 <= Len(F) /\ k <= Len(F) /\ k < Len(F)
    BY <1>1, <1>2, <1>3
  <2>2. DataOf(F, e, k + 1) \in Seq(Nat)
    BY <2>1, DataStep
  <2>3. DataOf(F, e, k + 1) = DataOf(F, e, k) \o DatumOf(F[k + 1])
    BY <1>2, <1>3, <2>1, DataStep
  <2> QED
    BY <1>5, <1>6, <2>2, <2>3
<1>17. frag = Encipher(TgDown, place, d) /\ place = Len(DataOf(F, 0, e))
  BY <1>3, <1>5 DEF Receiving
<1>18. ASSUME Data(f) PROVE j = Encipher(TgDown, place, d2) /\ Len(j) = Len(d2)
  <2>1. PlaceOf(F, k + 1) = place + Len(d)
    <3>1. (k + 1) - 1 = k
      BY <1>2
    <3> QED
      BY <1>4, <1>5, <1>6, <1>18, <3>1 DEF PlaceOf
  <2>2. DatumOf(f) = b
    BY <1>8, <1>18 DEF DatumOf
  <2>3. Encipher(TgDown, place, d \o b) = Encipher(TgDown, place, d) \o Encipher(TgDown, place + Len(d), b)
    <3>1. TgDown \in Int
      BY DEF TgDown
    <3> QED
      BY <1>4, <3>1, EncipherConcat, ZenonT(60)
  <2>4. Len(d \o b) = Len(d) + Len(b)
    OBVIOUS
  <2> QED
    BY <1>7, <1>8, <1>15, <1>16, <1>17, <2>1, <2>2, <2>3, <2>4
<1>19. MaxMessage \in Nat
  BY LengthAssumption
<1>20. StopsAt(F, e, k + 1) <=> op = OP_CLOSE \/ MaxMessage < Len(x) \/ (Data(f) /\ MaxMessage < Len(d2))
  BY <1>6, <1>8, <1>9, <1>16 DEF StopsAt
<1>21. ASSUME ~ WholeAt(F, k + 1), ~ StopsAt(F, e, k + 1)
       PROVE  Receiving(F, ends, m, k + 1, rest, Encipher(TgDown, place, d2), place)
  <2>1. \A i \in (e + 1) .. (k + 1) : ~ WholeAt(F, i) /\ ~ StopsAt(F, e, i)
    <3> SUFFICES ASSUME NEW i \in (e + 1) .. (k + 1) PROVE ~ WholeAt(F, i) /\ ~ StopsAt(F, e, i)
      OBVIOUS
    <3>1. i = k + 1 \/ i \in (e + 1) .. k
      BY <1>2
    <3>2. CASE i = k + 1
      BY <1>21, <3>2
    <3>3. CASE i \in (e + 1) .. k
      BY <1>3, <3>3 DEF Receiving
    <3> QED
      BY <3>1, <3>2, <3>3
  <2>2. e <= k + 1
    BY <1>2, <1>3
  <2> QED
    BY <1>3, <1>10, <1>16, <1>17, <2>1, <2>2 DEF Receiving
<1>22. ASSUME WholeAt(F, k + 1), ~ StopsAt(F, e, k + 1)
       PROVE  /\ m < Len(M) /\ M[m + 1] = d2
              /\ Receiving(F, ends, m + 1, k + 1, rest, <<>>, place + Len(M[m + 1]))
  <2>1. m < Len(M) /\ ends[m + 1] = k + 1 /\ M[m + 1] = d2
    BY <1>3, <1>14, <1>16, <1>22 DEF NextIs
  <2>2. k + 1 \in Nat /\ k + 1 <= k + 1 /\ k + 1 <= Len(F)
    BY <1>1, <1>2
  <2>3. DataOf(F, k + 1, k + 1) = <<>>
    BY <2>2, DataStep
  <2>4. Encipher(TgDown, place + Len(d2), <<>>) = <<>>
    BY DEF Encipher
  <2>5. Len(DataOf(F, 0, k + 1)) = place + Len(d2)
    <3>1. 0 \in Nat /\ 0 <= e /\ e <= k + 1 /\ e <= Len(F)
      BY <1>1, <1>2, <1>3
    <3>2. PICK a \in Seq(Nat) : a = DataOf(F, 0, e)
      BY <3>1, DataStep
    <3>3. DataOf(F, 0, k + 1) = DataOf(F, 0, e) \o DataOf(F, e, k + 1)
      BY <2>2, <3>1, DataJoin, ZenonT(60)
    <3>4. Len(a \o d2) = Len(a) + Len(d2)
      OBVIOUS
    <3> QED
      BY <1>16, <1>17, <3>2, <3>3, <3>4
  <2>6. \A i \in ((k + 1) + 1) .. (k + 1) : FALSE
    BY <1>2
  <2> QED
    BY <1>10, <2>1, <2>2, <2>3, <2>4, <2>5, <2>6 DEF Receiving
<1>23. WholeAt(F, k + 1) <=> Data(f) /\ fin
  BY <1>6, <1>9 DEF WholeAt
<1>24. Data(f) <=> op \in {OP_CONT, OP_TEXT, OP_BINARY}
  BY <1>9 DEF Data
<1> DEFINE r == Recv(frag, served)
           Result(what, kept, message) == [does |-> what, frag |-> kept, data |-> message]
           Good(v) == Received(F, M, ends, m, k, place, v, rest) /\ v.data \in Seq(Item) /\ v.frag \in Seq(Item)
<1>25. <<>> \in Seq(Item)
  OBVIOUS
<1>26. ASSUME Len(x) > MaxMessage PROVE Good(r)
  <2>1. r = Result("raise", frag, <<>>)
    BY <1>13, <1>26 DEF Recv
  <2>2. r.does = "raise" /\ r.frag = frag /\ r.data = <<>>
    BY <2>1
  <2> HIDE DEF r
  <2> QED
    BY <1>4, <1>25, <2>2 DEF Received
<1>27. ASSUME ~ (Len(x) > MaxMessage), op = OP_CLOSE PROVE Good(r)
  <2>2. m = Len(M)
    BY <1>6, <1>9, <1>14, <1>27 DEF NextIs
  <2>3. PICK y \in Seq(Item) : y = SubSeq(x, 1, Min({2, Len(x)}))
    <3>1. PICK z \in Nat : z = Min({2, Len(x)}) /\ z <= Len(x)
      <4>1. 2 \in Nat /\ Len(x) \in Nat
        OBVIOUS
      <4> QED
        BY <4>1, MinOfNats
    <3>2. z \in 0 .. Len(x)
      BY <3>1
    <3>3. SubSeq(x, 1, z) \in Seq(Item)
      BY <3>2, SeqCut
    <3> QED
      BY <3>1, <3>3
  <2>0. op # OP_PING /\ op \in {OP_CONT, OP_TEXT, OP_BINARY, OP_CLOSE, OP_PING} /\ op \notin {OP_CONT, OP_TEXT, OP_BINARY}
    BY <1>27 DEF OP_CONT, OP_TEXT, OP_BINARY, OP_CLOSE, OP_PING
  <2>1. r = Result("close", frag, y)
    BY <1>13, <1>27, <2>0, <2>3 DEF Recv
  <2>4. r.does = "close" /\ r.frag = frag /\ r.data = y
    BY <2>1
  <2> HIDE DEF r
  <2> QED
    BY <1>4, <2>2, <2>3, <2>4 DEF Received
<1>28. ASSUME ~ (Len(x) > MaxMessage), op \notin {OP_CONT, OP_TEXT, OP_BINARY, OP_CLOSE} PROVE Good(r)
  <2>1. r = Result("pong", frag, x) \/ r = Result("skip", frag, <<>>)
    <3>1. CASE op = OP_PING
      <4>1. r = Result("pong", frag, x)
        BY <1>13, <1>28, <3>1 DEF Recv
      <4> QED
        BY <4>1
    <3>2. CASE op # OP_PING
      <4>1. op \notin {OP_CONT, OP_TEXT, OP_BINARY, OP_CLOSE, OP_PING}
        BY <1>28, <3>2
      <4>2. r = Result("skip", frag, <<>>)
        BY <1>13, <1>28, <4>1 DEF Recv
      <4> QED
        BY <4>2
    <3> QED
      BY <3>1, <3>2
  <2>2. ~ Data(f)
    BY <1>24, <1>28
  <2>3. ~ WholeAt(F, k + 1) /\ ~ StopsAt(F, e, k + 1)
    <3>1. ~ (MaxMessage < Len(x)) /\ op # OP_CLOSE
      BY <1>28
    <3> QED
      BY <1>20, <1>23, <2>2, <3>1
  <2>4. d2 = d
    <3>1. d \o <<>> = d
      OBVIOUS
    <3> QED
      BY <1>16, <2>2, <3>1 DEF DatumOf
  <2>5. Receiving(F, ends, m, k + 1, rest, frag, place)
    BY <1>17, <1>21, <2>3, <2>4
  <2>6. r.does \in {"skip", "pong"} /\ r.frag = frag /\ r.data \in Seq(Item)
    <3>1. CASE r = Result("pong", frag, x)
      <4>1. r.does = "pong" /\ r.frag = frag /\ r.data = x
        BY <3>1
      <4> QED
        BY <4>1
    <3>2. CASE r = Result("skip", frag, <<>>)
      <4>1. r.does = "skip" /\ r.frag = frag /\ r.data = <<>>
        BY <3>2
      <4> QED
        BY <1>25, <4>1
    <3> QED
      BY <2>1, <3>1, <3>2
  <2> HIDE DEF r
  <2> QED
    BY <1>4, <2>5, <2>6 DEF Received
<1>29. ASSUME ~ (Len(x) > MaxMessage), op \in {OP_CONT, OP_TEXT, OP_BINARY} PROVE Good(r)
  <2>0. op # OP_CLOSE /\ op # OP_PING
    BY <1>29 DEF OP_CONT, OP_TEXT, OP_BINARY, OP_CLOSE, OP_PING
  <2>1. Data(f) /\ j = Encipher(TgDown, place, d2) /\ Len(j) = Len(d2)
    BY <1>18, <1>24, <1>29
  <2>2. StopsAt(F, e, k + 1) <=> MaxMessage < Len(j)
    <3>1. ~ (MaxMessage < Len(x))
      BY <1>29
    <3> QED
      BY <1>20, <2>0, <2>1, <3>1
  <2>3. r = IF fin /\ frag = <<>> THEN Result("deliver", <<>>, x)
            ELSE IF Len(j) > MaxMessage THEN Result("raise", frag, <<>>)
            ELSE IF ~ fin THEN Result("skip", j, <<>>)
            ELSE Result("deliver", <<>>, j)
    BY <1>13, <1>15, <1>29, <2>0 DEF Recv
  <2>4. ASSUME fin, ~ (MaxMessage < Len(j)), r = Result("deliver", <<>>, j)
        PROVE  Good(r)
    <3>1. m < Len(M) /\ M[m + 1] = d2 /\ Receiving(F, ends, m + 1, k + 1, rest, <<>>, place + Len(M[m + 1]))
      BY <1>22, <1>23, <2>1, <2>2, <2>4
    <3>2. r.does = "deliver" /\ r.frag = <<>> /\ r.data = j
      BY <2>4
    <3> HIDE DEF r
    <3> QED
      BY <1>25, <2>1, <3>1, <3>2 DEF Received
  <2>5. CASE fin /\ frag = <<>>
    <3>1. j = x
      BY <1>15, <2>5
    <3>2. r = Result("deliver", <<>>, j)
      BY <2>3, <2>5, <3>1
    <3>3. ~ (MaxMessage < Len(j))
      BY <1>29, <3>1
    <3> HIDE DEF Good, r
    <3> QED
      BY <2>4, <2>5, <3>2, <3>3
  <2>6. CASE ~ (fin /\ frag = <<>>) /\ Len(j) > MaxMessage
    <3>1. r = Result("raise", frag, <<>>)
      BY <2>3, <2>6
    <3>2. r.does = "raise" /\ r.frag = frag /\ r.data = <<>>
      BY <3>1
    <3> HIDE DEF r
    <3> QED
      BY <1>4, <1>25, <3>2 DEF Received
  <2>7. CASE ~ (fin /\ frag = <<>>) /\ ~ (Len(j) > MaxMessage) /\ ~ fin
    <3>1. r = Result("skip", j, <<>>)
      BY <2>3, <2>7
    <3>2. Receiving(F, ends, m, k + 1, rest, j, place)
      BY <1>21, <1>23, <2>1, <2>2, <2>7
    <3>3. r.does = "skip" /\ r.frag = j /\ r.data = <<>>
      BY <3>1
    <3> HIDE DEF r
    <3> QED
      BY <1>25, <3>2, <3>3 DEF Received
  <2>8. CASE ~ (fin /\ frag = <<>>) /\ ~ (Len(j) > MaxMessage) /\ fin
    <3>1. r = Result("deliver", <<>>, j)
      BY <2>3, <2>8
    <3>2. fin /\ ~ (MaxMessage < Len(j))
      BY <2>8
    <3> HIDE DEF Good, r
    <3> QED
      BY <2>4, <3>1, <3>2
  <2> HIDE DEF Good
  <2> QED
    BY <2>5, <2>6, <2>7, <2>8
<1>30. Good(r)
  <2> HIDE DEF Good, r
  <2> QED
    BY <1>26, <1>27, <1>28, <1>29
<1> HIDE DEF r
<1> QED
  BY <1>1, <1>2, <1>10, <1>13, <1>30 DEF r

-----------------------------------------------------------------------------
(***************************************************************************)
(* The way down: what the client has of what the server said.              *)
(***************************************************************************)
\* The client has the data D, whose places are the first of the key stream.
GotIs(tls, got, place, D) ==
  /\ D \in Seq(Nat) /\ place = Len(D) /\ got \in Seq(Item)
  /\ tls => Held(got, Encipher(CltDown, 0, D))
  /\ ~ tls => got = Encipher(CltDown, 0, D)

GotThen(c, x, r, D) ==
  \E g \in Seq(Item) :
    /\ r = [c EXCEPT !.tgDec = @ + Len(x), !.cltEnc = @ + Len(x), !.got = g]
    /\ GotIs(c.tls, g, c.cltEnc + Len(x), D \o x)

LEMMA EncipherClean ==
  ASSUME NEW P \in Seq(Nat), NEW key \in Nat, NEW a \in Nat
  PROVE  Clean(Encipher(key, a, P))
<1>1. key \in Int /\ a \in Int
  OBVIOUS
<1>2. PICK e \in Seq(Item) : e = Encipher(key, a, P)
  BY <1>1, EncipherIs
<1>3. Len(e) = Len(P) /\ \A i \in 1 .. Len(P) : e[i] = <<P[i], a + i - 1, key>>
  BY <1>1, <1>2, EncipherIs
<1>4. key # Plain
  BY DEF Plain
<1>5. \A i \in 1 .. Len(e) : e[i][3] = key
  BY <1>3
<1> QED
  BY <1>2, <1>4, <1>5 DEF Clean

LEMMA ToClientIs ==
  ASSUME NEW c \in ConnType, NEW x \in Seq(Nat), NEW D, GotIs(c.tls, c.got, c.cltEnc, D),
         NEW data, data = Encipher(TgDown, c.tgDec, x)
  PROVE  GotThen(c, x, ToClient(c, data), D)
<1>1. c.tgDec \in Int /\ c.cltEnc \in Nat /\ TgDown \in Int /\ CltDown \in Int /\ CltDown \in Nat /\ c.cltEnc \in Int
      /\ c.tls \in BOOLEAN /\ c.got \in Seq(Item)
  BY DEF ConnType, TgDown, CltDown
<1>2. Len(data) = Len(x) /\ Decipher(TgDown, c.tgDec, data) = x
  BY <1>1, EncipherIs, DecipherEncipher
<1>3. PICK y \in Seq(Item) : y = Encipher(CltDown, c.cltEnc, x) /\ Clean(y)
  <2>1. Encipher(CltDown, c.cltEnc, x) \in Seq(Item)
    BY <1>1, EncipherIs
  <2>2. Clean(Encipher(CltDown, c.cltEnc, x))
    BY <1>1, EncipherClean
  <2> QED
    BY <2>1, <2>2
<1>4. PICK z : z = IF c.tls THEN WrapTlsRecord(y) ELSE y
  OBVIOUS
<1>5. ToClient(c, data) = [c EXCEPT !.tgDec = @ + Len(x), !.cltEnc = @ + Len(x), !.got = @ \o z]
  BY <1>2, <1>3, <1>4 DEF ToClient
<1>6. D \in Seq(Nat) /\ c.cltEnc = Len(D)
  BY DEF GotIs
<1>7. PICK E \in Seq(Item) : E = Encipher(CltDown, 0, D)
  <2>1. 0 \in Int
    OBVIOUS
  <2>2. Encipher(CltDown, 0, D) \in Seq(Item)
    BY <1>1, <1>6, <2>1, EncipherIs
  <2> QED
    BY <2>2
<1>8. Encipher(CltDown, 0, D \o x) = E \o y
  <2>1. Encipher(CltDown, 0, D \o x) = Encipher(CltDown, 0, D) \o Encipher(CltDown, 0 + Len(D), x)
    <3>1. 0 \in Nat
      OBVIOUS
    <3> QED
      BY <1>1, <1>6, <3>1, EncipherConcat, ZenonT(60)
  <2>2. 0 + Len(D) = c.cltEnc
    BY <1>1, <1>6
  <2> QED
    BY <1>3, <1>7, <2>1, <2>2
<1>9. D \o x \in Seq(Nat) /\ Len(D \o x) = c.cltEnc + Len(x)
  BY <1>6
<1>10. CASE c.tls
  <2>1. Held(c.got, E)
    BY <1>7, <1>10 DEF GotIs
  <2>2. Held(z, y)
    BY <1>3, <1>4, <1>10, WrapIs
  <2>3. Held(c.got \o z, E \o y)
    BY <2>1, <2>2, HeldBoth
  <2>4. c.got \o z \in Seq(Item)
    BY <2>3 DEF Held
  <2>5. GotIs(c.tls, c.got \o z, c.cltEnc + Len(x), D \o x)
    BY <1>8, <1>9, <1>10, <2>3, <2>4 DEF GotIs
  <2> QED
    BY <1>5, <2>4, <2>5 DEF GotThen
<1>11. CASE ~ c.tls
  <2>1. c.got = E /\ z = y
    BY <1>4, <1>7, <1>11 DEF GotIs
  <2>2. c.got \o z \in Seq(Item)
    BY <1>1, <1>3, <2>1
  <2>3. GotIs(c.tls, c.got \o z, c.cltEnc + Len(x), D \o x)
    BY <1>8, <1>9, <1>11, <2>1, <2>2 DEF GotIs
  <2> QED
    BY <1>5, <2>2, <2>3 DEF GotThen
<1> QED
  BY <1>10, <1>11

\* What the client reads of it.
LEMMA GotMeans ==
  ASSUME NEW tls \in BOOLEAN, NEW got, NEW place, NEW D, GotIs(tls, got, place, D)
  PROVE  /\ Decipher(CltDown, 0, IF tls THEN Payload(got) ELSE got) = D
         /\ tls => InAppData(got)
<1>1. D \in Seq(Nat) /\ 0 \in Int /\ CltDown \in Int
  BY DEF GotIs, CltDown
<1>2. (IF tls THEN Payload(got) ELSE got) = Encipher(CltDown, 0, D)
  BY DEF GotIs, Held
<1>3. tls => InAppData(got)
  BY DEF GotIs, Held
<1>4. Decipher(CltDown, 0, Encipher(CltDown, 0, D)) = D
  BY <1>1, DecipherEncipher
<1> QED
  BY <1>2, <1>3, <1>4

LEMMA GotNothing ==
  ASSUME NEW tls \in BOOLEAN
  PROVE  GotIs(tls, <<>>, 0, <<>>)
<1>1. Encipher(CltDown, 0, <<>>) = <<>>
  BY DEF Encipher
<1> QED
  BY <1>1, HeldNothing DEF GotIs

LEMMA PrefixOf ==
  ASSUME NEW T, NEW u \in Seq(T), NEW v \in Seq(T)
  PROVE  IsPrefix(u, u \o v)
<1>1. SubSeq(u \o v, 1, Len(u)) = SubSeq(u, 1, Len(u))
  <2>1. Len(u) \in Nat /\ Len(u) <= Len(u)
    OBVIOUS
  <2> QED
    BY <2>1, CutConcat
<1>2. Len(u) <= Len(u \o v)
  BY ConcatFirst
<1> QED
  BY <1>1, <1>2 DEF IsPrefix

LEMMA PrefixOfSelf ==
  ASSUME NEW T, NEW u \in Seq(T)
  PROVE  IsPrefix(u, u)
BY DEF IsPrefix

LEMMA PrefixCut ==
  ASSUME NEW T, NEW u \in Seq(T), NEW k \in 0 .. Len(u)
  PROVE  IsPrefix(SubSeq(u, 1, k), u) /\ Len(SubSeq(u, 1, k)) = k
<1>1. SubSeq(u, 1, k) \in Seq(T) /\ SubSeq(u, k + 1, Len(u)) \in Seq(T)
      /\ u = SubSeq(u, 1, k) \o SubSeq(u, k + 1, Len(u)) /\ Len(SubSeq(u, 1, k)) = k
  BY SeqCut
<1>2. IsPrefix(SubSeq(u, 1, k), SubSeq(u, 1, k) \o SubSeq(u, k + 1, Len(u)))
  BY <1>1, PrefixOf
<1> QED
  BY <1>1, <1>2

Good(sc) == ScriptType(sc) /\ WellFormed(sc)

LEMMA GoodIs ==
  ASSUME NEW sc, Good(sc)
  PROVE  /\ sc.frames \in Seq(FrameType) /\ sc.messages \in Seq(Seq(Nat))
         /\ sc.packets \in Seq(Seq(Nat)) /\ sc.records \in Seq(Nat)
         /\ sc.whole \in Nat /\ sc.whole <= Len(sc.packets)
         /\ sc.proto \in {"abridged", "intermediate"}
         /\ \E ends : EndsAt(sc.frames, sc.messages, ends)
<1>1. Seq(Byte) \subseteq Seq(Nat)
  BY BytesAreNats
<1>2. sc.messages \in Seq(Seq(Byte)) /\ sc.packets \in Seq(Seq(Byte))
  BY DEF Good, ScriptType
<1>3. sc.messages \in Seq(Seq(Nat)) /\ sc.packets \in Seq(Seq(Nat))
  BY <1>1, <1>2, SeqWithin
<1>4. sc.frames \in Seq(FrameType) /\ sc.records \in Seq(Nat) /\ sc.proto \in {"abridged", "intermediate"}
      /\ sc.whole \in 0 .. Len(sc.packets)
  BY DEF Good, ScriptType, FrameType
<1>5. Conveys(sc.frames, sc.messages)
  BY DEF Good, WellFormed
<1>6. \E ends : EndsAt(sc.frames, sc.messages, ends)
  BY <1>5, ConveysIs
<1>7. sc.whole \in Nat /\ sc.whole <= Len(sc.packets)
  <2>1. Len(sc.packets) \in Nat
    BY <1>3
  <2> QED
    BY <1>4, <2>1
<1> QED
  BY <1>3, <1>4, <1>6, <1>7

\* How far a download over a WebSocket is: m messages are with the client, and frame k
\* is the last that was read.
DownAt(F, M, ends, m, k, c, closed, running) ==
  /\ EndsAt(F, M, ends)
  /\ m \in 0 .. Len(M) /\ k \in 0 .. Len(F)
  /\ GotIs(c.tls, c.got, c.cltEnc, DataOf(F, 0, ends[m]))
  /\ running => Receiving(F, ends, m, k, c.served, c.frag, c.tgDec)
  /\ closed => m = Len(M)

DownWs(sc, c, closed, running) ==
  \E ends, m, k : DownAt(sc.frames, sc.messages, ends, m, k, c, closed, running)

SameDown(c, d) ==
  d.tls = c.tls /\ d.got = c.got /\ d.cltEnc = c.cltEnc /\ d.tgDec = c.tgDec /\ d.served = c.served /\ d.frag = c.frag

LEMMA DownSame ==
  ASSUME NEW sc, NEW c, NEW d, SameDown(c, d), NEW closed \in BOOLEAN, NEW running, DownWs(sc, c, closed, running),
         NEW running2 \in BOOLEAN, running2 => running
  PROVE  DownWs(sc, d, closed, running2)
<1>1. PICK ends, m, k : DownAt(sc.frames, sc.messages, ends, m, k, c, closed, running)
  BY DEF DownWs
<1>2. DownAt(sc.frames, sc.messages, ends, m, k, d, closed, running2)
  BY <1>1 DEF DownAt, SameDown
<1> QED
  BY <1>2 DEF DownWs

LEMMA DownStarts ==
  ASSUME NEW sc, Good(sc), NEW c \in ConnType, c.got = <<>>, c.cltEnc = 0, c.tgDec = 0, c.frag = <<>>,
         c.served = ServerWire(sc)
  PROVE  DownWs(sc, c, FALSE, TRUE) /\ ServerWire(sc) \in Seq(Item)
<1>1. PICK F \in Seq(FrameType), M \in Seq(Seq(Nat)) : F = sc.frames /\ M = sc.messages
  BY GoodIs
<1>2. PICK ends : EndsAt(F, M, ends)
  BY <1>1, GoodIs
<1>3. ends[0] = 0 /\ 0 \in 0 .. Len(M) /\ 0 \in 0 .. Len(F) /\ 0 \in Nat /\ 0 <= 0
  BY <1>2 DEF EndsAt
<1>4. DataOf(F, 0, 0) = <<>>
  <2>1. 0 \in Nat /\ 0 <= 0 /\ 0 <= Len(F)
    OBVIOUS
  <2> QED
    BY <2>1, DataStep
<1>5. GotIs(c.tls, c.got, c.cltEnc, DataOf(F, 0, ends[0]))
  <2>1. c.tls \in BOOLEAN
    BY DEF ConnType
  <2> QED
    BY <1>3, <1>4, <2>1, GotNothing
<1>6. c.served = ServedAfter(F, 0)
  BY <1>1, ServerWireIs
<1>7. Encipher(TgDown, 0, <<>>) = <<>>
  BY DEF Encipher
<1>8. \A j \in (0 + 1) .. 0 : FALSE
  OBVIOUS
<1>9. Receiving(F, ends, 0, 0, c.served, c.frag, c.tgDec)
  <2>1. Len(<<>>) = 0
    OBVIOUS
  <2> QED
    BY <1>3, <1>4, <1>6, <1>7, <1>8, <2>1 DEF Receiving
<1>10. DownAt(F, M, ends, 0, 0, c, FALSE, TRUE)
  BY <1>2, <1>3, <1>5, <1>9 DEF DownAt
<1>11. ServedAfter(F, 0) \in Seq(Item)
  BY <1>3, ServedIs
<1> QED
  BY <1>1, <1>6, <1>10, <1>11 DEF DownWs

\* The connection after a frame whose result is r.
AfterFrame(c) ==
  [c EXCEPT !.served = Drop(c.served, ReadFrame(c.served).size), !.frag = Recv(c.frag, c.served).frag]

\* What a frame of the server does to the download.
FrameDone(sc, c, r, closed) ==
  /\ r.data \in Seq(Item)
  /\ AfterFrame(c) \in ConnType
  /\ r.does = "deliver" =>
       /\ DownWs(sc, ToClient(AfterFrame(c), r.data), closed, TRUE)
       /\ ToClient(AfterFrame(c), r.data) \in ConnType
  /\ r.does \in {"skip", "pong"} => DownWs(sc, AfterFrame(c), closed, TRUE)
  /\ r.does = "raise" => DownWs(sc, AfterFrame(c), closed, FALSE)
  /\ r.does = "close" => DownWs(sc, AfterFrame(c), TRUE, FALSE)

LEMMA Delivered ==
  ASSUME NEW F \in Seq(FrameType), NEW M \in Seq(Seq(Nat)), NEW ends, EndsAt(F, M, ends),
         NEW m \in 0 .. Len(M), m < Len(M)
  PROVE  /\ m + 1 \in 0 .. Len(M) /\ M[m + 1] \in Seq(Nat)
         /\ DataOf(F, 0, ends[m + 1]) = DataOf(F, 0, ends[m]) \o M[m + 1]
<1>1. m + 1 \in 1 .. Len(M) /\ (m + 1) - 1 = m /\ m + 1 \in 0 .. Len(M)
  OBVIOUS
<1>2. PICK a \in Nat, b \in Nat : a = ends[m] /\ b = ends[m + 1] /\ a < b /\ b <= Len(F)
  <2>1. ends[(m + 1) - 1] < ends[m + 1]
    BY <1>1 DEF EndsAt
  <2>2. ends[m] \in 0 .. Len(F) /\ ends[m + 1] \in 0 .. Len(F)
    BY <1>1 DEF EndsAt
  <2> QED
    BY <1>1, <2>1, <2>2
<1>3. M[m + 1] = DataOf(F, a, b)
  BY <1>1, <1>2 DEF EndsAt
<1>4. DataOf(F, 0, b) = DataOf(F, 0, a) \o DataOf(F, a, b)
  <2>1. 0 \in Nat /\ 0 <= a /\ a <= b
    BY <1>2
  <2> QED
    BY <1>2, <2>1, DataJoin, ZenonT(60)
<1>5. M[m + 1] \in Seq(Nat)
  <2>1. PICK X : X = Seq(Nat)
    OBVIOUS
  <2>2. PICK q \in Seq(X) : q = M
    BY <2>1
  <2> QED
    BY <1>1, <2>1, <2>2
<1> QED
  BY <1>1, <1>2, <1>3, <1>4, <1>5

LEMMA FrameDoneIs ==
  ASSUME NEW sc, Good(sc), NEW c \in ConnType, NEW closed \in BOOLEAN, DownWs(sc, c, closed, TRUE), c.served # <<>>
  PROVE  FrameDone(sc, c, Recv(c.frag, c.served), closed)
<1>1. PICK F \in Seq(FrameType), M \in Seq(Seq(Nat)) : F = sc.frames /\ M = sc.messages
  BY GoodIs
<1>2. PICK ends, m, k : DownAt(F, M, ends, m, k, c, closed, TRUE)
  BY <1>1 DEF DownWs
<1>3. EndsAt(F, M, ends) /\ m \in 0 .. Len(M) /\ k \in 0 .. Len(F)
      /\ GotIs(c.tls, c.got, c.cltEnc, DataOf(F, 0, ends[m]))
      /\ Receiving(F, ends, m, k, c.served, c.frag, c.tgDec)
      /\ (closed => m = Len(M))
  BY <1>2 DEF DownAt
<1>4. /\ k < Len(F)
      /\ Received(F, M, ends, m, k, c.tgDec, Recv(c.frag, c.served), Drop(c.served, ReadFrame(c.served).size))
      /\ Recv(c.frag, c.served).data \in Seq(Item) /\ Recv(c.frag, c.served).frag \in Seq(Item)
      /\ Drop(c.served, ReadFrame(c.served).size) \in Seq(Item)
  BY <1>3, RecvStep
<1>5. PICK r, rest : r = Recv(c.frag, c.served) /\ rest = Drop(c.served, ReadFrame(c.served).size)
  OBVIOUS
<1>6. /\ Received(F, M, ends, m, k, c.tgDec, r, rest) /\ r.data \in Seq(Item) /\ r.frag \in Seq(Item) /\ rest \in Seq(Item)
  BY <1>4, <1>5
<1>7. PICK d \in ConnType : d = AfterFrame(c) /\ d = [c EXCEPT !.served = rest, !.frag = r.frag]
  <2>1. AfterFrame(c) = [c EXCEPT !.served = rest, !.frag = r.frag]
    BY <1>5 DEF AfterFrame
  <2>2. [c EXCEPT !.served = rest, !.frag = r.frag] \in ConnType
    BY <1>6 DEF ConnType
  <2> QED
    BY <2>1, <2>2
<1>8. d.tls = c.tls /\ d.got = c.got /\ d.cltEnc = c.cltEnc /\ d.tgDec = c.tgDec /\ d.served = rest /\ d.frag = r.frag
  BY <1>7 DEF ConnType
<1>9. k + 1 \in 0 .. Len(F)
  BY <1>3, <1>4
<1>10. ASSUME r.does = "deliver"
       PROVE  DownWs(sc, ToClient(d, r.data), closed, TRUE) /\ ToClient(d, r.data) \in ConnType
  <2>1. /\ m < Len(M) /\ r.data = Encipher(TgDown, c.tgDec, M[m + 1]) /\ r.frag = <<>>
        /\ Receiving(F, ends, m + 1, k + 1, rest, <<>>, c.tgDec + Len(M[m + 1]))
    BY <1>6, <1>10 DEF Received
  <2>2. /\ m + 1 \in 0 .. Len(M) /\ M[m + 1] \in Seq(Nat)
        /\ DataOf(F, 0, ends[m + 1]) = DataOf(F, 0, ends[m]) \o M[m + 1]
    BY <1>3, <2>1, Delivered
  <2>3. PICK x \in Seq(Nat) : x = M[m + 1]
    BY <2>2
  <2>4. PICK D : D = DataOf(F, 0, ends[m])
    OBVIOUS
  <2>5. GotIs(d.tls, d.got, d.cltEnc, D)
    BY <1>3, <1>8, <2>4
  <2>6. GotThen(d, x, ToClient(d, r.data), D)
    BY <1>8, <2>1, <2>3, <2>5, ToClientIs
  <2>7. PICK g \in Seq(Item) :
          /\ ToClient(d, r.data) = [d EXCEPT !.tgDec = @ + Len(x), !.cltEnc = @ + Len(x), !.got = g]
          /\ GotIs(d.tls, g, d.cltEnc + Len(x), D \o x)
    BY <2>6 DEF GotThen
  <2>8. PICK e : e = ToClient(d, r.data) /\ e = [d EXCEPT !.tgDec = @ + Len(x), !.cltEnc = @ + Len(x), !.got = g]
    BY <2>7
  <2>9. Len(x) \in Nat
    OBVIOUS
  <2>10. e \in ConnType
    <3>1. PICK a \in Nat, b \in Nat : a = d.tgDec + Len(x) /\ b = d.cltEnc + Len(x)
      <4>1. d.tgDec \in Nat /\ d.cltEnc \in Nat
        BY DEF ConnType
      <4> QED
        BY <2>9, <4>1
    <3>2. e = [d EXCEPT !.tgDec = a, !.cltEnc = b, !.got = g]
      BY <2>8, <3>1
    <3> QED
      BY <3>2 DEF ConnType
  <2>11. /\ e.tls = d.tls /\ e.got = g /\ e.cltEnc = d.cltEnc + Len(x) /\ e.tgDec = d.tgDec + Len(x)
         /\ e.served = d.served /\ e.frag = d.frag
    BY <2>8 DEF ConnType
  <2>12. GotIs(e.tls, e.got, e.cltEnc, DataOf(F, 0, ends[m + 1]))
    BY <2>2, <2>3, <2>4, <2>7, <2>11
  <2>13. Receiving(F, ends, m + 1, k + 1, e.served, e.frag, e.tgDec)
    BY <1>8, <2>1, <2>3, <2>11
  <2>14. ~ closed
    BY <1>3, <2>1
  <2>15. DownAt(F, M, ends, m + 1, k + 1, e, closed, TRUE)
    BY <1>3, <1>9, <2>2, <2>12, <2>13, <2>14 DEF DownAt
  <2>16. DownWs(sc, e, closed, TRUE)
    BY <1>1, <2>15 DEF DownWs
  <2> QED
    BY <2>8, <2>10, <2>16
<1>11. ASSUME r.does \in {"skip", "pong"} PROVE DownWs(sc, d, closed, TRUE)
  <2>1. Receiving(F, ends, m, k + 1, rest, r.frag, c.tgDec)
    BY <1>6, <1>11 DEF Received
  <2>2. DownAt(F, M, ends, m, k + 1, d, closed, TRUE)
    BY <1>3, <1>8, <1>9, <2>1 DEF DownAt
  <2> QED
    BY <1>1, <2>2 DEF DownWs
<1>12. DownWs(sc, d, closed, FALSE)
  <2>1. DownAt(F, M, ends, m, k, d, closed, FALSE)
    BY <1>3, <1>8 DEF DownAt
  <2> QED
    BY <1>1, <2>1 DEF DownWs
<1>13. ASSUME r.does = "close" PROVE DownWs(sc, d, TRUE, FALSE)
  <2>1. m = Len(M)
    BY <1>6, <1>13 DEF Received
  <2>2. DownAt(F, M, ends, m, k, d, TRUE, FALSE)
    BY <1>3, <1>8, <2>1 DEF DownAt
  <2> QED
    BY <1>1, <2>2 DEF DownWs
<1> QED
  BY <1>5, <1>6, <1>7, <1>10, <1>11, <1>12, <1>13 DEF FrameDone

\* What DownloadIntact says of a session's bridge over a WebSocket.
DownMeans(c, said, closed) ==
  LET plain == Decipher(CltDown, 0, IF c.tls THEN Payload(c.got) ELSE c.got)
  IN IsPrefix(plain, said) /\ (c.tls => InAppData(c.got)) /\ (closed => plain = said)

LEMMA DownWsMeans ==
  ASSUME NEW sc, Good(sc), NEW c \in ConnType, NEW closed \in BOOLEAN, NEW running, DownWs(sc, c, closed, running)
  PROVE  DownMeans(c, FlattenSeq(sc.messages), closed)
<1>1. PICK F \in Seq(FrameType), M \in Seq(Seq(Nat)) : F = sc.frames /\ M = sc.messages
  BY GoodIs
<1>2. PICK ends, m, k : DownAt(F, M, ends, m, k, c, closed, running)
  BY <1>1 DEF DownWs
<1>3. PICK D : D = DataOf(F, 0, ends[m])
  OBVIOUS
<1>4. /\ EndsAt(F, M, ends) /\ m \in 0 .. Len(M) /\ GotIs(c.tls, c.got, c.cltEnc, D) /\ (closed => m = Len(M))
  BY <1>2, <1>3 DEF DownAt
<1>5. c.tls \in BOOLEAN
  BY DEF ConnType
<1>6. /\ Decipher(CltDown, 0, IF c.tls THEN Payload(c.got) ELSE c.got) = D
      /\ c.tls => InAppData(c.got)
  BY <1>4, <1>5, GotMeans
<1>7. FlattenSeq(SubSeq(M, 1, m)) = D
  BY <1>3, <1>4, MessagesAre
<1>8. FlattenSeq(M) = FlattenSeq(SubSeq(M, 1, m)) \o FlattenSeq(SubSeq(M, m + 1, Len(M)))
  BY <1>4, FlattenCut
<1>9. FlattenSeq(SubSeq(M, 1, m)) \in Seq(Nat) /\ FlattenSeq(SubSeq(M, m + 1, Len(M))) \in Seq(Nat)
  <2>1. PICK X : X = Seq(Nat)
    OBVIOUS
  <2>2. PICK q \in Seq(X) : q = M
    BY <2>1
  <2>3. SubSeq(q, 1, m) \in Seq(X) /\ SubSeq(q, m + 1, Len(q)) \in Seq(X)
    BY <1>4, <2>2, SeqCut
  <2>4. SubSeq(M, 1, m) \in Seq(Seq(Nat)) /\ SubSeq(M, m + 1, Len(M)) \in Seq(Seq(Nat))
    BY <2>1, <2>2, <2>3
  <2> QED
    BY <2>4, FlattenType
<1>10. IsPrefix(D, FlattenSeq(M))
  BY <1>7, <1>8, <1>9, PrefixOf
<1>11. m = Len(M) => D = FlattenSeq(M)
  <2>1. SubSeq(M, 1, Len(M)) = M
    <3>1. PICK X : X = Seq(Nat)
      OBVIOUS
    <3>2. PICK q \in Seq(X) : q = M
      BY <3>1
    <3>3. SubSeq(q, 1, Len(q)) = q
      OBVIOUS
    <3> QED
      BY <3>2, <3>3
  <2> QED
    BY <1>7, <2>1
<1>12. closed => D = FlattenSeq(M)
  BY <1>4, <1>11
<1> QED
  BY <1>1, <1>6, <1>10, <1>12 DEF DownMeans

\* All that a server sends over TCP.
AllData(F) == FlattenSeq([i \in 1 .. Len(F) |-> F[i].data])

LEMMA AllDataIs ==
  ASSUME NEW F \in Seq(FrameType)
  PROVE  AllData(F) \in Seq(Nat) /\ DOMAIN F = 1 .. Len(F)
<1>1. PICK q : q = [i \in 1 .. Len(F) |-> F[i].data]
  OBVIOUS
<1>2. \A i \in 1 .. Len(F) : F[i].data \in Seq(Nat)
  BY DatumIs
<1>3. Len(F) \in Nat
  OBVIOUS
<1>4. q \in Seq(Seq(Nat))
  <2>1. PICK X : X = Seq(Nat)
    OBVIOUS
  <2>2. q \in [1 .. Len(F) -> X]
    BY <1>1, <1>2, <2>1
  <2>3. q \in Seq(X)
    BY <1>3, <2>2
  <2> QED
    BY <2>1, <2>3
<1>5. FlattenSeq(q) \in Seq(Nat)
  BY <1>4, FlattenType
<1> QED
  BY <1>1, <1>5 DEF AllData

\* How far a download over TCP is.
DownTcp(sc, c) ==
  LET X == AllData(sc.frames)
  IN /\ c.cltEnc <= Len(X)
     /\ GotIs(c.tls, c.got, c.cltEnc, SubSeq(X, 1, c.cltEnc))
     /\ c.tgDec = c.cltEnc
     /\ c.served = Drop(Encipher(TgDown, 0, X), c.tgDec)

LEMMA DownTcpSame ==
  ASSUME NEW sc, NEW c, NEW d, SameDown(c, d), DownTcp(sc, c)
  PROVE  DownTcp(sc, d)
BY DEF DownTcp, SameDown

LEMMA DownTcpStarts ==
  ASSUME NEW sc, Good(sc), NEW c \in ConnType, c.got = <<>>, c.cltEnc = 0, c.tgDec = 0,
         c.served = ServerBytes(sc)
  PROVE  DownTcp(sc, c) /\ ServerBytes(sc) \in Seq(Item)
<1>1. PICK F \in Seq(FrameType) : F = sc.frames
  BY GoodIs
<1>2. PICK X \in Seq(Nat) : X = AllData(F)
  BY AllDataIs
<1>3. c.served = Encipher(TgDown, 0, X)
  BY <1>1, <1>2 DEF ServerBytes, AllData
<1>4. Encipher(TgDown, 0, X) \in Seq(Item)
  <2>1. TgDown \in Int /\ 0 \in Int
    BY DEF TgDown
  <2> QED
    BY <2>1, EncipherIs
<1>5. c.served = Drop(Encipher(TgDown, 0, X), 0)
  BY <1>3, <1>4, DropNone
<1>6. SubSeq(X, 1, 0) = <<>>
  OBVIOUS
<1>7. GotIs(c.tls, c.got, c.cltEnc, SubSeq(X, 1, 0))
  <2>1. c.tls \in BOOLEAN
    BY DEF ConnType
  <2> QED
    BY <1>6, <2>1, GotNothing
<1>8. DownTcp(sc, c)
  <2>1. 0 <= Len(X)
    OBVIOUS
  <2> QED
    BY <1>1, <1>2, <1>5, <1>7, <2>1 DEF DownTcp
<1> QED
  BY <1>3, <1>4, <1>8

BytesDone(sc, c, k) ==
  LET d == ToClient([c EXCEPT !.served = Drop(@, k)], SubSeq(c.served, 1, k))
  IN d \in ConnType /\ DownTcp(sc, d)

LEMMA BytesDoneIs ==
  ASSUME NEW sc, Good(sc), NEW c \in ConnType, DownTcp(sc, c), NEW k \in 1 .. Min({ReadSize, Len(c.served)})
  PROVE  BytesDone(sc, c, k)
<1>1. PICK F \in Seq(FrameType) : F = sc.frames
  BY GoodIs
<1>2. PICK X \in Seq(Nat) : X = AllData(F)
  BY AllDataIs
<1>3. PICK p \in Nat : p = c.cltEnc /\ p = c.tgDec /\ p <= Len(X)
  BY <1>1, <1>2 DEF ConnType, DownTcp
<1>4. PICK E \in Seq(Item) : E = Encipher(TgDown, 0, X) /\ Len(E) = Len(X)
  <2>1. TgDown \in Int /\ 0 \in Int
    BY DEF TgDown
  <2> QED
    BY <2>1, EncipherIs
<1>5. c.served = Drop(E, p) /\ GotIs(c.tls, c.got, c.cltEnc, SubSeq(X, 1, p))
  BY <1>1, <1>2, <1>3, <1>4 DEF DownTcp
<1>6. Drop(E, p) \in Seq(Item) /\ Len(Drop(E, p)) = Len(X) - p
  BY <1>3, <1>4, DropIs
<1>7. PICK n \in Nat : n = k /\ n > 0 /\ p + n <= Len(X)
  <2>1. PICK a \in Nat, b \in Nat : a = ReadSize /\ b = Len(c.served) /\ b = Len(X) - p
    <3>1. ReadSize \in Nat /\ Len(X) \in Nat
      BY SessionAssumption
    <3>2. Len(X) - p \in Nat
      BY <1>3, <3>1
    <3> QED
      BY <1>5, <1>6, <3>1, <3>2
  <2>2. Min({a, b}) \in Nat /\ Min({a, b}) <= b
    BY MinOfNats
  <2>3. k \in Nat /\ k > 0 /\ k <= Min({a, b})
    BY <2>1, <2>2
  <2> QED
    BY <1>3, <2>1, <2>2, <2>3
<1>8. PICK e \in Nat : e = p + n /\ p <= e /\ e <= Len(X) /\ e - p = n
  <2>1. p + n \in Nat /\ p <= p + n /\ p + n <= Len(X) /\ (p + n) - p = n
    BY <1>7
  <2> QED
    BY <2>1
<1>9. PICK x \in Seq(Nat) : x = SubSeq(X, p + 1, e) /\ Len(x) = n
  <2>1. SubSeq(X, p + 1, e) \in Seq(Nat) /\ Len(SubSeq(X, p + 1, e)) = e - p
    <3>1. p \in Nat /\ e \in Nat /\ p <= e /\ e <= Len(X)
      BY <1>8
    <3> QED
      BY <3>1, SliceIs
  <2> QED
    BY <1>8, <2>1
<1>10. Drop(Drop(E, p), n) = Drop(E, p + n)
  <2>1. p + n <= Len(E)
    BY <1>4, <1>7
  <2> QED
    BY <2>1, DropDrop
<1>11. SubSeq(c.served, 1, n) = Encipher(TgDown, p, x)
  <2>1. Drop(E, p) = SubSeq(E, p + 1, Len(E))
    BY DEF Drop
  <2>2. SubSeq(SubSeq(E, p + 1, Len(E)), 1, n) = SubSeq(E, p + 1, p + n)
    <3>1. Len(E) \in Nat /\ p <= Len(E) /\ Len(E) <= Len(E) /\ n <= Len(E) - p
      BY <1>3, <1>4, <1>7
    <3> QED
      BY <3>1, DropSlice
  <2>3. SubSeq(E, p + 1, e) = Encipher(TgDown, p, SubSeq(X, p + 1, e))
    <3>1. TgDown \in Int
      BY DEF TgDown
    <3> QED
      BY <1>4, <1>8, <3>1, EncipherSlice, ZenonT(60)
  <2> QED
    BY <1>5, <1>8, <1>9, <2>1, <2>2, <2>3
<1>12. PICK c1 \in ConnType : c1 = [c EXCEPT !.served = Drop(@, k)] /\ c1 = [c EXCEPT !.served = Drop(E, e)]
  <2>1. [c EXCEPT !.served = Drop(@, k)] = [c EXCEPT !.served = Drop(E, e)]
    BY <1>5, <1>7, <1>8, <1>10
  <2>2. Drop(E, e) \in Seq(Item)
    BY <1>4, <1>8, DropIs
  <2>3. [c EXCEPT !.served = Drop(E, e)] \in ConnType
    BY <2>2 DEF ConnType
  <2> QED
    BY <2>1, <2>3
<1>13. c1.tls = c.tls /\ c1.got = c.got /\ c1.cltEnc = p /\ c1.tgDec = p /\ c1.served = Drop(E, e)
  BY <1>3, <1>12 DEF ConnType
<1>14. PICK D : D = SubSeq(X, 1, p)
  OBVIOUS
<1>15. PICK data : data = SubSeq(c.served, 1, k)
  OBVIOUS
<1>16. GotThen(c1, x, ToClient(c1, data), D)
  <2>1. GotIs(c1.tls, c1.got, c1.cltEnc, D)
    BY <1>3, <1>5, <1>13, <1>14
  <2>2. data = Encipher(TgDown, c1.tgDec, x)
    BY <1>7, <1>11, <1>13, <1>15
  <2> QED
    BY <2>1, <2>2, ToClientIs
<1>17. PICK g \in Seq(Item) :
         /\ ToClient(c1, data) = [c1 EXCEPT !.tgDec = @ + Len(x), !.cltEnc = @ + Len(x), !.got = g]
         /\ GotIs(c1.tls, g, c1.cltEnc + Len(x), D \o x)
  BY <1>16 DEF GotThen
<1>18. PICK d : d = ToClient(c1, data) /\ d = [c1 EXCEPT !.tgDec = e, !.cltEnc = e, !.got = g]
  BY <1>8, <1>9, <1>13, <1>17
<1>19. d \in ConnType /\ d.tls = c1.tls /\ d.got = g /\ d.tgDec = e /\ d.cltEnc = e /\ d.served = c1.served
  BY <1>18 DEF ConnType
<1>20. D \o x = SubSeq(X, 1, e)
  BY <1>3, <1>8, <1>9, <1>14, PrefixJoin
<1>21. GotIs(d.tls, d.got, d.cltEnc, SubSeq(X, 1, e))
  BY <1>8, <1>9, <1>13, <1>17, <1>19, <1>20
<1>22. d.served = Drop(Encipher(TgDown, 0, X), d.tgDec)
  BY <1>4, <1>13, <1>19
<1>23. DownTcp(sc, d)
  BY <1>1, <1>2, <1>8, <1>19, <1>21, <1>22 DEF DownTcp
<1> QED
  BY <1>12, <1>15, <1>18, <1>19, <1>23 DEF BytesDone

LEMMA DownTcpMeans ==
  ASSUME NEW sc, Good(sc), NEW c \in ConnType, DownTcp(sc, c)
  PROVE  DownMeans(c, FlattenSeq([i \in DOMAIN sc.frames |-> sc.frames[i].data]), FALSE)
<1>1. PICK F \in Seq(FrameType) : F = sc.frames
  BY GoodIs
<1>2. PICK X \in Seq(Nat) : X = AllData(F)
  BY AllDataIs
<1>3. FlattenSeq([i \in DOMAIN sc.frames |-> sc.frames[i].data]) = X
  BY <1>1, <1>2, AllDataIs DEF AllData
<1>4. PICK p \in Nat : p = c.cltEnc /\ p <= Len(X)
  BY <1>1, <1>2 DEF ConnType, DownTcp
<1>5. GotIs(c.tls, c.got, c.cltEnc, SubSeq(X, 1, p)) /\ c.tls \in BOOLEAN
  BY <1>1, <1>2, <1>4 DEF DownTcp, ConnType
<1>6. /\ Decipher(CltDown, 0, IF c.tls THEN Payload(c.got) ELSE c.got) = SubSeq(X, 1, p)
      /\ c.tls => InAppData(c.got)
  BY <1>5, GotMeans
<1>7. IsPrefix(SubSeq(X, 1, p), X)
  <2>1. p \in 0 .. Len(X)
    BY <1>4
  <2> QED
    BY <2>1, PrefixCut
<1> QED
  BY <1>3, <1>6, <1>7 DEF DownMeans

-----------------------------------------------------------------------------
(***************************************************************************)
(* The way up: what the server has of what the client said.                *)
(***************************************************************************)
\* What a client says, and how it enciphers it.
SpeechOf(sc) == Speech(sc.packets)
CipherOf(sc) == Encipher(CltUp, 0, SpeechOf(sc))

LEMMA SpeechIs ==
  ASSUME NEW sc, Good(sc)
  PROVE  /\ SpeechOf(sc) \in Seq(Nat) /\ CipherOf(sc) \in Seq(Item) /\ Len(CipherOf(sc)) = Len(SpeechOf(sc))
         /\ InitLen <= Len(SpeechOf(sc)) /\ SubSeq(SpeechOf(sc), 1, InitLen) = InitBytes
         /\ EndOf(sc.packets, 0) = InitLen
         /\ Begins(sc.records, Len(CipherOf(sc)))
         /\ Speech3(sc.proto, sc.packets, sc.whole, SpeechOf(sc))
<1>1. PICK Q \in Seq(Seq(Nat)), L \in Seq(Nat), w \in Nat, proto \in {"abridged", "intermediate"} :
        Q = sc.packets /\ L = sc.records /\ w = sc.whole /\ proto = sc.proto /\ w <= Len(Q)
  BY GoodIs
<1>2. PICK S \in Seq(Nat) : S = Speech(Q)
  BY EndsIs
<1>3. PICK C \in Seq(Item) : C = Encipher(CltUp, 0, S) /\ Len(C) = Len(S)
  <2>1. CltUp \in Int /\ 0 \in Int
    BY DEF CltUp
  <2> QED
    BY <2>1, EncipherIs
<1>4. InitBytes \in Seq(Nat) /\ Len(InitBytes) = InitLen /\ InitLen \in Nat
  BY InitBytesIs
<1>5. PICK T \in Seq(Nat) : T = FlattenSeq(Q)
  BY FlattenType
<1>6. S = InitBytes \o T
  BY <1>2, <1>5 DEF Speech
<1>7. Len(S) = InitLen + Len(T)
  BY <1>4, <1>6, ConcatFirst
<1>8. InitLen <= Len(S)
  BY <1>4, <1>7
<1>9. SubSeq(S, 1, InitLen) = InitBytes
  <2>1. PICK I \in Seq(Nat) : I = InitBytes /\ Len(I) = InitLen
    BY <1>4
  <2>2. SubSeq(I \o T, 1, Len(I)) = SubSeq(I, 1, Len(I))
    <3>1. Len(I) \in Nat /\ Len(I) <= Len(I)
      OBVIOUS
    <3> QED
      BY <3>1, CutConcat
  <2>3. SubSeq(I, 1, Len(I)) = I
    OBVIOUS
  <2> QED
    BY <1>6, <2>1, <2>2, <2>3
<1>10. EndOf(Q, 0) = InitLen
  BY EndsIs
<1>11. WellFormed(sc)
  BY DEF Good
<1>12. Begins(L, Len(C))
  <2>1. \A i \in DOMAIN L : Starts(L)[i] <= InitLen + Len(T)
    BY <1>1, <1>5, <1>11 DEF WellFormed
  <2>2. DOMAIN L = 1 .. Len(L)
    OBVIOUS
  <2>3. Len(C) = InitLen + Len(T)
    BY <1>3, <1>7
  <2> QED
    BY <2>1, <2>2, <2>3 DEF Begins
<1>13. ASSUME NEW K \in Nat, K < w
       PROVE  /\ EndOf(Q, K) \in Nat
              /\ EndOf(Q, K + 1) = EndOf(Q, K) + Len(Q[K + 1])
              /\ Q[K + 1] \in Seq(Nat) /\ Sound(proto, Q[K + 1])
              /\ StandsAt(S, EndOf(Q, K), Q[K + 1])
  <2>1. PICK n \in Nat : n = Len(Q) /\ w <= n
    BY <1>1
  <2>2. K \in 0 .. n /\ K \in 0 .. (n - 1) /\ K + 1 \in 1 .. n /\ K + 1 \in 1 .. w
    BY <1>13, <2>1
  <2>3. EndOf(Q, K) \in Nat
    BY <2>1, <2>2, EndsIs
  <2>4. /\ EndOf(Q, K + 1) = EndOf(Q, K) + Len(Q[K + 1])
        /\ \A i \in 1 .. Len(Q[K + 1]) : Speech(Q)[EndOf(Q, K) + i] = Q[K + 1][i]
    BY <2>1, <2>2, EndsIs
  <2>5. Q[K + 1] \in Seq(Nat)
    <3>1. PICK X : X = Seq(Nat)
      OBVIOUS
    <3>2. PICK q \in Seq(X) : q = Q
      BY <3>1
    <3>3. q[K + 1] \in X
      BY <2>1, <2>2, <3>2
    <3> QED
      BY <3>1, <3>2, <3>3
  <2>6. Q[K + 1] # <<>> /\ NextPacketLen(proto, Q[K + 1]) = Len(Q[K + 1])
    BY <1>1, <1>11, <2>2 DEF WellFormed
  <2>7. Sound(proto, Q[K + 1])
    BY <2>6 DEF Sound
  <2>8. StandsAt(S, EndOf(Q, K), Q[K + 1])
    BY <1>2, <2>4 DEF StandsAt
  <2> QED
    BY <2>3, <2>4, <2>5, <2>7, <2>8
<1>14. Speech3(proto, Q, w, S)
  BY <1>13 DEF Speech3
<1> QED
  BY <1>1, <1>2, <1>3, <1>8, <1>9, <1>10, <1>12, <1>14 DEF SpeechOf, CipherOf

\* The handler has read the first p bytes of the client, and holds some more.
ReadsAt(sc, c, p) ==
  ReaderAt(sc.records, CipherOf(sc), c.tls, c.left, c.wire, c.buf, p)

LEMMA WireStarts ==
  ASSUME NEW sc, Good(sc), NEW c \in ConnType, c.left = 0, c.buf = <<>>, c.wire = ClientWire(sc, c.tls)
  PROVE  ReadsAt(sc, c, 0)
<1>1. PICK L \in Seq(Nat), C \in Seq(Item) : L = sc.records /\ C = CipherOf(sc) /\ Begins(L, Len(C))
  BY GoodIs, SpeechIs
<1>2. C = Encipher(CltUp, 0, InitBytes \o FlattenSeq(sc.packets))
  BY <1>1 DEF CipherOf, SpeechOf, Speech
<1>3. Holds(C, 0, <<>>)
  <2>1. 0 \in Nat /\ 0 <= 0 /\ 0 <= Len(C)
    OBVIOUS
  <2>2. SubSeq(C, 0 + 1, 0) = <<>>
    BY <2>1, SliceEmpty
  <2>3. Holds(C, 0, SubSeq(C, 0 + 1, 0))
    BY <2>1, HoldsIs
  <2> QED
    BY <2>2, <2>3
<1>4. ASSUME c.tls PROVE TlsAt(L, C, c.left, c.wire, 0 + Len(c.buf))
  <2>1. c.wire = InRecords(L, C)
    BY <1>1, <1>2, <1>4 DEF ClientWire
  <2>2. c.wire = RecordsAfter(L, C, 0)
    BY <1>1, <2>1, InRecordsIs
  <2>3. Past(L, Len(C), 0) = 0
    BY DEF Past
  <2>4. Between(L, C, c.left, c.wire, 0, 0)
    BY <2>2, <2>3 DEF Between
  <2>5. 0 \in 0 .. Len(L) /\ 0 \in 0 .. Len(C) /\ 0 \in Nat
    OBVIOUS
  <2>6. TlsAt(L, C, c.left, c.wire, 0)
    BY <2>4, <2>5 DEF TlsAt
  <2>7. 0 + Len(c.buf) = 0
    OBVIOUS
  <2> QED
    BY <2>6, <2>7
<1>5. ASSUME ~ c.tls PROVE c.buf = <<>> /\ c.wire = Drop(C, 0)
  <2>1. c.wire = C
    BY <1>1, <1>2, <1>5 DEF ClientWire
  <2> QED
    BY <2>1, DropNone
<1>6. ReaderAt(L, C, c.tls, c.left, c.wire, c.buf, 0)
  BY <1>3, <1>4, <1>5 DEF ReaderAt
<1> QED
  BY <1>1, <1>6 DEF ReadsAt

LEMMA WireType ==
  ASSUME NEW sc, Good(sc), NEW tls \in BOOLEAN
  PROVE  ClientWire(sc, tls) \in Seq(Item)
<1>1. PICK L \in Seq(Nat), C \in Seq(Item) : L = sc.records /\ C = CipherOf(sc) /\ Begins(L, Len(C))
  BY GoodIs, SpeechIs
<1>2. C = Encipher(CltUp, 0, InitBytes \o FlattenSeq(sc.packets))
  BY <1>1 DEF CipherOf, SpeechOf, Speech
<1>3. CASE tls
  <2>1. InRecords(L, C) = RecordsAfter(L, C, 0)
    BY <1>1, InRecordsIs
  <2>2. 0 \in 0 .. Len(L)
    OBVIOUS
  <2>3. RecordsAfter(L, C, 0) \in Seq(Item)
    BY <1>1, <2>2, RecordsAfterIs
  <2> QED
    BY <1>1, <1>2, <1>3, <2>1, <2>3 DEF ClientWire
<1>4. CASE ~ tls
  BY <1>1, <1>2, <1>4 DEF ClientWire
<1> QED
  BY <1>3, <1>4

\* The relay that reads the client is at the same place of both key streams.
UpRun(sc, c) == c.dec = c.enc /\ c.enc <= Len(SpeechOf(sc)) /\ ReadsAt(sc, c, c.enc)

Advanced(c, l, v, b, e) == [c EXCEPT !.left = l, !.wire = v, !.buf = b, !.dec = e, !.enc = e]

Advances(c, d, l, v, b, e) ==
  /\ d \in ConnType /\ d.left = l /\ d.wire = v /\ d.buf = b /\ d.dec = e /\ d.enc = e
  /\ d.tls = c.tls /\ d.split = c.split /\ d.sp = c.sp /\ d.eof = c.eof /\ d.sent = c.sent /\ SameDown(c, d)

LEMMA AdvancedIs ==
  ASSUME NEW c \in ConnType, NEW l \in Nat, NEW v \in Seq(Item), NEW b \in Seq(Item), NEW e \in Nat
  PROVE  Advances(c, Advanced(c, l, v, b, e), l, v, b, e)
<1>1. PICK d : d = Advanced(c, l, v, b, e)
  OBVIOUS
<1>2. Advances(c, d, l, v, b, e)
  BY <1>1 DEF ConnType, Advanced, SameDown, Advances
<1> QED
  BY <1>1, <1>2

\* What a read of the client is, as the relay deciphers it.
UploadRead(sc, c, r) ==
  \E e \in Nat, l \in Nat, v \in Seq(Item), b \in Seq(Item) :
    /\ c.enc <= e /\ e <= Len(SpeechOf(sc))
    /\ Decipher(CltUp, r.c.dec, r.data) = SubSeq(SpeechOf(sc), c.enc + 1, e)
    /\ r.c.enc = c.enc /\ r.c.sp = c.sp /\ r.c.split = c.split
    /\ [r.c EXCEPT !.dec = @ + Len(r.data), !.enc = @ + Len(r.data)] = Advanced(c, l, v, b, e)
    /\ ReaderAt(sc.records, CipherOf(sc), c.tls, l, v, b, e)

LEMMA UploadReadIs ==
  ASSUME NEW sc, Good(sc), NEW c \in ConnType, UpRun(sc, c), NEW r \in ReadClient(c)
  PROVE  UploadRead(sc, c, r)
<1>1. PICK L \in Seq(Nat), C \in Seq(Item), S \in Seq(Nat) :
        L = sc.records /\ C = CipherOf(sc) /\ S = SpeechOf(sc) /\ Begins(L, Len(C)) /\ Len(C) = Len(S)
  BY GoodIs, SpeechIs
<1>2. PICK p \in Nat : p = c.enc /\ p = c.dec
  BY DEF ConnType, UpRun
<1>3. ReaderAt(L, C, c.tls, c.left, c.wire, c.buf, p)
  BY <1>1, <1>2 DEF UpRun, ReadsAt
<1>4. /\ Holds(C, p, r.data)
      /\ ReaderAt(L, C, c.tls, r.c.left, r.c.wire, r.c.buf, p + Len(r.data))
      /\ r.c.left \in Nat /\ r.c.wire \in Seq(Item)
      /\ r.c = [c EXCEPT !.left = r.c.left, !.wire = r.c.wire, !.buf = r.c.buf]
  <2>1. ReadDone(L, C, c, p, r)
    BY <1>1, <1>3, ReadClientIs
  <2> QED
    BY <2>1 DEF ReadDone
<1>5. PICK l \in Nat, v \in Seq(Item) : l = r.c.left /\ v = r.c.wire
  BY <1>4
<1>5a. PICK b : b = r.c.buf
  OBVIOUS
<1>6. PICK d \in Seq(Item), n \in Nat : d = r.data /\ n = Len(d) /\ p + n <= Len(C) /\ d = SubSeq(C, p + 1, p + n)
  <2>1. r.data \in Seq(Item) /\ p + Len(r.data) <= Len(C) /\ r.data = SubSeq(C, p + 1, p + Len(r.data))
    BY <1>4 DEF Holds
  <2>2. Len(r.data) \in Nat
    BY <2>1
  <2> QED
    BY <2>1, <2>2
<1>7. PICK e \in Nat : e = p + n /\ p <= e /\ e <= Len(S)
  <2>1. p + n \in Nat /\ p <= p + n /\ p + n <= Len(S)
    BY <1>1, <1>6
  <2> QED
    BY <2>1
<1>8. ReaderAt(L, C, c.tls, l, v, b, e)
  BY <1>4, <1>5, <1>5a, <1>6, <1>7
<1>9. b \in Seq(Item)
  BY <1>8 DEF ReaderAt, Holds
<1>10. PICK k : k = r.c /\ k = [c EXCEPT !.left = l, !.wire = v, !.buf = b]
  BY <1>4, <1>5, <1>5a
<1>11. k.dec = p /\ k.enc = p /\ k.sp = c.sp /\ k.split = c.split
  BY <1>2, <1>10 DEF ConnType
<1>12. [k EXCEPT !.dec = @ + n, !.enc = @ + n] = Advanced(c, l, v, b, e)
  <2>1. [k EXCEPT !.dec = @ + n, !.enc = @ + n] = [k EXCEPT !.dec = e, !.enc = e]
    BY <1>7, <1>11
  <2>2. [k EXCEPT !.dec = e, !.enc = e] = Advanced(c, l, v, b, e)
    BY <1>10 DEF Advanced, ConnType
  <2> QED
    BY <2>1, <2>2
<1>13. Decipher(CltUp, p, d) = SubSeq(S, p + 1, e)
  <2>1. CltUp \in Int
    BY DEF CltUp
  <2>2. d = Ciphered(CltUp, S, p, e)
    <3>1. Ciphered(CltUp, S, p, e) = SubSeq(Encipher(CltUp, 0, S), p + 1, e)
      BY <1>7, <2>1, CipheredIs, ZenonT(60)
    <3>2. C = Encipher(CltUp, 0, S)
      BY <1>1 DEF CipherOf
    <3> QED
      BY <1>6, <1>7, <3>1, <3>2
  <2>3. Decipher(CltUp, p, Ciphered(CltUp, S, p, e)) = SubSeq(S, p + 1, e)
    BY <1>7, <2>1, CipheredRead
  <2> QED
    BY <2>2, <2>3
<1>14. /\ c.enc <= e /\ e <= Len(SpeechOf(sc))
       /\ Decipher(CltUp, r.c.dec, r.data) = SubSeq(SpeechOf(sc), c.enc + 1, e)
       /\ r.c.enc = c.enc /\ r.c.sp = c.sp /\ r.c.split = c.split
       /\ [r.c EXCEPT !.dec = @ + Len(r.data), !.enc = @ + Len(r.data)] = Advanced(c, l, v, b, e)
       /\ ReaderAt(sc.records, CipherOf(sc), c.tls, l, v, b, e)
  BY <1>1, <1>2, <1>6, <1>7, <1>8, <1>10, <1>11, <1>12, <1>13
<1> QED
  BY <1>9, <1>14 DEF UploadRead

\* A part that went out is a packet, but for the tail of an upload that ended.
LengthsBut(Q, w, P, eof) ==
  \A i \in 1 .. (Len(P) - 1) : i <= w => Len(P[i + 1]) = Len(Q[i]) \/ (eof /\ i = Len(P) - 1)

\* The splitter holds the bytes from m on and has cut one packet per part.
SplitHolds(sc, c, P, m) ==
  /\ Holding(SpeechOf(sc), c.sp, m, c.enc)
  /\ c.sp.proto = sc.proto
  /\ AtEndOf(sc.packets, sc.whole, Len(P) - 1, m, c.sp.disabled)

\* What went out over a WebSocket are the first m bytes of the client, in the parts P.
WentOut(sc, sent, P, m) ==
  /\ Carries(sent, P) /\ P # <<>> /\ P[1] = InitToServer
  /\ m \in Nat /\ m <= Len(SpeechOf(sc))
  /\ FlattenSeq(P) = Ciphered(TgUp, SpeechOf(sc), 0, m)

\* How far an upload over a WebSocket is, while it runs and after.
Sending(sc, c, P, m, up) ==
  /\ WentOut(sc, c.sent, P, m)
  /\ c.eof => m = c.enc
  /\ c.split => LengthsBut(sc.packets, sc.whole, P, c.eof)
  /\ up => /\ ~ c.eof /\ UpRun(sc, c)
           /\ ~ c.split => m = c.enc
           /\ c.split => SplitHolds(sc, c, P, m)

UpWs(sc, c, up) == \E P, m : Sending(sc, c, P, m, up)

\* How far an upload over TCP is.
UpTcp(sc, c, up) ==
  /\ c.enc <= Len(SpeechOf(sc)) /\ c.sent = Ciphered(TgUp, SpeechOf(sc), 0, c.enc)
  /\ ~ c.split
  /\ up => UpRun(sc, c)

SameUp(c, d) ==
  /\ d.tls = c.tls /\ d.left = c.left /\ d.wire = c.wire /\ d.buf = c.buf /\ d.dec = c.dec /\ d.enc = c.enc
  /\ d.split = c.split /\ d.sp = c.sp /\ d.eof = c.eof

LEMMA UpSame ==
  ASSUME NEW sc, NEW c, NEW d, SameUp(c, d), NEW up \in BOOLEAN, NEW up2 \in BOOLEAN, up2 => up
  PROVE  /\ UpTcp(sc, c, up) /\ d.sent = c.sent => UpTcp(sc, d, up2)
         /\ \A P, m : Sending(sc, c, P, m, up) /\ WentOut(sc, d.sent, P, m) => Sending(sc, d, P, m, up2)
         /\ UpWs(sc, c, up) /\ d.sent = c.sent => UpWs(sc, d, up2)
<1>1. UpRun(sc, c) => UpRun(sc, d)
  BY DEF SameUp, UpRun, ReadsAt
<1>2. ASSUME NEW P, NEW m, Sending(sc, c, P, m, up), WentOut(sc, d.sent, P, m) PROVE Sending(sc, d, P, m, up2)
  <2>1. SplitHolds(sc, c, P, m) => SplitHolds(sc, d, P, m)
    BY DEF SameUp, SplitHolds
  <2> QED
    BY <1>1, <1>2, <2>1 DEF Sending, SameUp
<1>3. UpTcp(sc, c, up) /\ d.sent = c.sent => UpTcp(sc, d, up2)
  BY <1>1 DEF UpTcp, SameUp
<1>4. ASSUME UpWs(sc, c, up), d.sent = c.sent PROVE UpWs(sc, d, up2)
  <2>1. PICK P, m : Sending(sc, c, P, m, up)
    BY <1>4 DEF UpWs
  <2>2. WentOut(sc, d.sent, P, m)
    BY <1>4, <2>1 DEF Sending
  <2>3. Sending(sc, d, P, m, up2)
    BY <1>2, <2>1, <2>2
  <2> QED
    BY <2>3 DEF UpWs
<1> QED
  BY <1>2, <1>3, <1>4

\* A pong or a close frame is not a message.
LEMMA WentOutMore ==
  ASSUME NEW sc, NEW sent, NEW P, NEW m, WentOut(sc, sent, P, m), NEW op \in {OP_PONG, OP_CLOSE}, NEW d \in Seq(Item)
  PROVE  WentOut(sc, sent \o BuildFrame(op, d), P, m)
<1>1. Carries(sent, P)
  BY DEF WentOut
<1>2. op \in 0 .. (Fin - 1) /\ OneBinary(op, d) = <<>>
  BY DEF Fin, OP_PONG, OP_CLOSE, OP_BINARY, OneBinary
<1>3. Carries(BuildFrame(op, d), <<>>)
  BY <1>2, CarriesFrame
<1>4. Carries(sent \o BuildFrame(op, d), P \o <<>>)
  BY <1>1, <1>3, CarriesBoth
<1>5. P \o <<>> = P
  <2>1. PICK X : X = Seq(Item)
    OBVIOUS
  <2>2. PICK q \in Seq(X) : q = P
    BY <1>1, <2>1 DEF Carries
  <2>3. q \o <<>> = q
    OBVIOUS
  <2> QED
    BY <2>2, <2>3
<1> QED
  BY <1>4, <1>5 DEF WentOut

MoreWent(sc, sent, P, parts, n) ==
  /\ WentOut(sc, sent \o Frames(parts), P \o parts, n)
  /\ P \in Seq(Seq(Item)) /\ Len(P \o parts) = Len(P) + Len(parts) /\ Len(P) \in Nat /\ Len(P) > 0
  /\ \A i \in 1 .. Len(P) : (P \o parts)[i] = P[i]
  /\ \A i \in 1 .. Len(parts) : (P \o parts)[Len(P) + i] = parts[i]

LEMMA WentOutParts ==
  ASSUME NEW sc, Good(sc), NEW sent, NEW P, NEW m, WentOut(sc, sent, P, m),
         NEW parts \in Seq(Seq(Item)), NEW n \in Nat, m <= n, n <= Len(SpeechOf(sc)),
         FlattenSeq(parts) = Ciphered(TgUp, SpeechOf(sc), m, n)
  PROVE  MoreWent(sc, sent, P, parts, n)
<1>1. PICK S \in Seq(Nat) : S = SpeechOf(sc)
  BY SpeechIs
<1>2. /\ Carries(sent, P) /\ P # <<>> /\ P[1] = InitToServer
      /\ m \in Nat /\ m <= Len(S) /\ FlattenSeq(P) = Ciphered(TgUp, S, 0, m)
  BY <1>1 DEF WentOut
<1>3. PICK X : X = Seq(Item)
  OBVIOUS
<1>4. PICK q \in Seq(X), t \in Seq(X) : q = P /\ t = parts
  BY <1>2, <1>3 DEF Carries
<1>5. Len(q) \in Nat /\ Len(q) > 0
  BY <1>2, <1>4
<1>6. /\ Len(q \o t) = Len(q) + Len(t) /\ \A i \in 1 .. Len(q) : (q \o t)[i] = q[i]
      /\ \A i \in 1 .. Len(t) : (q \o t)[Len(q) + i] = t[i]
  BY ConcatFirst
<1>7. Carries(sent \o Frames(parts), P \o parts)
  BY <1>2, CarriesBoth, CarriesFrames
<1>8. (q \o t)[1] = q[1] /\ q \o t # <<>>
  <2>1. 1 \in 1 .. Len(q)
    BY <1>5
  <2>2. Len(q \o t) > 0
    BY <1>5, <1>6
  <2>3. q \o t # <<>>
    BY <2>2
  <2> QED
    BY <1>6, <2>1, <2>3
<1>9. FlattenSeq(P \o parts) = Ciphered(TgUp, S, 0, n)
  <2>1. FlattenSeq(P \o parts) = FlattenSeq(P) \o FlattenSeq(parts)
    <3>1. P \in Seq(Seq(Item))
      BY <1>2 DEF Carries
    <3> QED
      BY <3>1, FlattenConcat
  <2>2. 0 \in Nat /\ 0 <= m /\ TgUp \in Int
    BY <1>2 DEF TgUp
  <2>3. Ciphered(TgUp, S, 0, m) \o Ciphered(TgUp, S, m, n) = Ciphered(TgUp, S, 0, n)
    BY <1>1, <1>2, <2>2, CipheredJoin, ZenonT(60)
  <2> QED
    BY <1>1, <1>2, <2>1, <2>3
<1>10. WentOut(sc, sent \o Frames(parts), P \o parts, n)
  BY <1>1, <1>2, <1>4, <1>7, <1>8, <1>9 DEF WentOut
<1>11. P \in Seq(Seq(Item))
  BY <1>2 DEF Carries
<1>12. /\ Len(P \o parts) = Len(P) + Len(parts) /\ Len(P) \in Nat /\ Len(P) > 0
       /\ \A i \in 1 .. Len(P) : (P \o parts)[i] = P[i]
       /\ \A i \in 1 .. Len(parts) : (P \o parts)[Len(P) + i] = parts[i]
  BY <1>4, <1>5, <1>6
<1> QED
  BY <1>10, <1>11, <1>12 DEF MoreWent

LEMMA LengthsJoin ==
  ASSUME NEW Q, NEW w \in Nat, NEW P, NEW parts, NEW R, NEW a \in Nat, NEW b \in Nat, a > 0,
         Len(P) = a, Len(parts) = b, Len(R) = a + b,
         \A i \in 1 .. a : R[i] = P[i], \A i \in 1 .. b : R[a + i] = parts[i],
         LengthsBut(Q, w, P, FALSE)
  PROVE  /\ LengthsOf(Q, w, a - 1, parts) => LengthsBut(Q, w, R, FALSE)
         /\ b = 1 => LengthsBut(Q, w, R, TRUE)
         /\ LengthsBut(Q, w, P, TRUE)
<1>1. \A i \in 1 .. (a - 1) : i <= w => Len(R[i + 1]) = Len(Q[i])
  <2>1. \A i \in 1 .. (a - 1) : i <= w => Len(P[i + 1]) = Len(Q[i])
    BY DEF LengthsBut
  <2>2. \A i \in 1 .. (a - 1) : i + 1 \in 1 .. a
    OBVIOUS
  <2> QED
    BY <2>1, <2>2
<1>2. ASSUME LengthsOf(Q, w, a - 1, parts) PROVE LengthsBut(Q, w, R, FALSE)
  <2> SUFFICES ASSUME NEW i \in 1 .. ((a + b) - 1), i <= w PROVE Len(R[i + 1]) = Len(Q[i])
    BY DEF LengthsBut
  <2>1. CASE i \in 1 .. (a - 1)
    BY <1>1, <2>1
  <2>2. CASE ~ (i \in 1 .. (a - 1))
    <3>1. PICK j \in 1 .. b : i + 1 = a + j /\ (a - 1) + j = i
      <4>1. (i + 1) - a \in 1 .. b /\ i + 1 = a + ((i + 1) - a) /\ (a - 1) + ((i + 1) - a) = i
        BY <2>2
      <4> QED
        BY <4>1
    <3>2. (a - 1) + j <= w
      BY <3>1
    <3>3. Len(parts[j]) = Len(Q[(a - 1) + j])
      BY <1>2, <3>1, <3>2 DEF LengthsOf
    <3> QED
      BY <3>1, <3>3
  <2> QED
    BY <2>1, <2>2
<1>3. ASSUME b = 1 PROVE LengthsBut(Q, w, R, TRUE)
  <2>1. Len(R) - 1 = a
    BY <1>3
  <2>2. \A i \in 1 .. a : i \in 1 .. (a - 1) \/ i = a
    OBVIOUS
  <2> QED
    BY <1>1, <2>1, <2>2 DEF LengthsBut
<1>4. LengthsBut(Q, w, P, TRUE)
  BY DEF LengthsBut
<1> QED
  BY <1>2, <1>3, <1>4

\* What the relay has read and enciphered for the server.
UpCipher(r) == Encipher(TgUp, r.c.enc, Decipher(CltUp, r.c.dec, r.data))
UpConn(r) == [r.c EXCEPT !.dec = @ + Len(r.data), !.enc = @ + Len(r.data)]

\* Up to place e, what it is and what the connection is then.
ReadTo(sc, c, r, e) ==
  /\ e \in Nat /\ c.enc <= e /\ e <= Len(SpeechOf(sc))
  /\ Decipher(CltUp, r.c.dec, r.data) = SubSeq(SpeechOf(sc), c.enc + 1, e)
  /\ UpCipher(r) = Ciphered(TgUp, SpeechOf(sc), c.enc, e)
  /\ Ciphered(TgUp, SpeechOf(sc), c.enc, e) \in Seq(Item)
  /\ UpConn(r) \in ConnType /\ UpConn(r).enc = e /\ UpRun(sc, UpConn(r))
  /\ UpConn(r).split = c.split /\ UpConn(r).sp = c.sp /\ r.c.sp = c.sp /\ r.c.split = c.split
  /\ UpConn(r).eof = c.eof /\ UpConn(r).sent = c.sent /\ SameDown(c, UpConn(r))

LEMMA ReadToIs ==
  ASSUME NEW sc, Good(sc), NEW c \in ConnType, UpRun(sc, c), NEW r \in ReadClient(c)
  PROVE  \E e : ReadTo(sc, c, r, e)
<1>1. UploadRead(sc, c, r)
  BY UploadReadIs
<1>2. PICK e \in Nat, l \in Nat, v \in Seq(Item), b \in Seq(Item) :
        /\ c.enc <= e /\ e <= Len(SpeechOf(sc))
        /\ Decipher(CltUp, r.c.dec, r.data) = SubSeq(SpeechOf(sc), c.enc + 1, e)
        /\ r.c.enc = c.enc /\ r.c.sp = c.sp /\ r.c.split = c.split
        /\ [r.c EXCEPT !.dec = @ + Len(r.data), !.enc = @ + Len(r.data)] = Advanced(c, l, v, b, e)
        /\ ReaderAt(sc.records, CipherOf(sc), c.tls, l, v, b, e)
  BY <1>1 DEF UploadRead
<1>3. PICK d : d = UpConn(r) /\ d = Advanced(c, l, v, b, e)
  BY <1>2 DEF UpConn
<1>4. /\ d \in ConnType /\ d.left = l /\ d.wire = v /\ d.buf = b /\ d.dec = e /\ d.enc = e /\ d.tls = c.tls /\ d.split = c.split
      /\ d.sp = c.sp /\ d.eof = c.eof /\ d.sent = c.sent /\ SameDown(c, d)
  <2>1. Advances(c, Advanced(c, l, v, b, e), l, v, b, e)
    BY AdvancedIs
  <2>2. Advances(c, d, l, v, b, e)
    BY <1>3, <2>1
  <2> QED
    BY <2>2 DEF Advances
<1>5. ReadsAt(sc, d, d.enc)
  BY <1>2, <1>4 DEF ReadsAt
<1>6. UpRun(sc, d)
  BY <1>2, <1>4, <1>5 DEF UpRun
<1>7. UpCipher(r) = Ciphered(TgUp, SpeechOf(sc), c.enc, e)
  BY <1>2 DEF UpCipher, Ciphered
<1>8. Ciphered(TgUp, SpeechOf(sc), c.enc, e) \in Seq(Item)
  <2>1. SpeechOf(sc) \in Seq(Nat) /\ c.enc \in Nat /\ TgUp \in Int
    BY SpeechIs DEF ConnType, TgUp
  <2> QED
    BY <1>2, <2>1, CipheredIs
<1>9. ReadTo(sc, c, r, e)
  BY <1>2, <1>3, <1>4, <1>6, <1>7, <1>8 DEF ReadTo
<1> QED
  BY <1>9

Sends(c, x) == [c EXCEPT !.sent = @ \o x]

LEMMA SendsIs ==
  ASSUME NEW c \in ConnType, NEW x \in Seq(Item)
  PROVE  /\ Sends(c, x) \in ConnType /\ Sends(c, x).sent = c.sent \o x
         /\ SameUp(c, Sends(c, x)) /\ SameDown(c, Sends(c, x))
<1>1. c.sent \o x \in Seq(Item)
  <2>1. c.sent \in Seq(Item)
    BY DEF ConnType
  <2> QED
    BY <2>1, ConcatFirst
<1>2. PICK t \in Seq(Item) : t = c.sent \o x
  BY <1>1
<1>3. Sends(c, x) = [c EXCEPT !.sent = t]
  BY <1>2 DEF Sends
<1>4. PICK d : d = [c EXCEPT !.sent = t]
  OBVIOUS
<1>5. d \in ConnType /\ d.sent = t /\ SameUp(c, d) /\ SameDown(c, d)
  BY <1>4 DEF ConnType, SameUp, SameDown
<1> QED
  BY <1>2, <1>3, <1>4, <1>5

LEMMA SentMore ==
  ASSUME NEW S \in Seq(Nat), NEW a \in Nat, NEW b \in Nat, a <= b, b <= Len(S)
  PROVE  Ciphered(TgUp, S, 0, a) \o Ciphered(TgUp, S, a, b) = Ciphered(TgUp, S, 0, b)
<1>1. 0 \in Nat /\ 0 <= a /\ TgUp \in Int
  BY DEF TgUp
<1> QED
  BY <1>1, CipheredJoin

\* An upload over TCP.
LEMMA UploadTcpDone ==
  ASSUME NEW sc, Good(sc), NEW c \in ConnType, UpTcp(sc, c, TRUE), NEW r \in ReadClient(c)
  PROVE  /\ Sends(UpConn(r), UpCipher(r)) \in ConnType /\ UpTcp(sc, Sends(UpConn(r), UpCipher(r)), TRUE)
         /\ SameDown(c, Sends(UpConn(r), UpCipher(r)))
<1>1. UpRun(sc, c)
  BY DEF UpTcp
<1>2. PICK e : ReadTo(sc, c, r, e)
  BY <1>1, ReadToIs
<1>3. PICK S \in Seq(Nat) : S = SpeechOf(sc)
  BY SpeechIs
<1>4. PICK k \in ConnType : k = UpConn(r)
  BY <1>2 DEF ReadTo
<1>5. PICK x \in Seq(Item) : x = UpCipher(r) /\ x = Ciphered(TgUp, S, c.enc, e)
  BY <1>2, <1>3 DEF ReadTo
<1>6. PICK d \in ConnType : d = Sends(k, x)
  BY SendsIs
<1>7. d.sent = k.sent \o x /\ SameUp(k, d) /\ SameDown(k, d)
  BY <1>6, SendsIs
<1>8. e \in Nat /\ c.enc \in Nat /\ c.enc <= e /\ e <= Len(S) /\ 0 \in Nat /\ 0 <= c.enc /\ TgUp \in Int
  BY <1>2, <1>3 DEF ReadTo, ConnType, TgUp
<1>9. k.sent = Ciphered(TgUp, S, 0, c.enc) /\ k.enc = e /\ ~ k.split /\ UpRun(sc, k) /\ SameDown(c, k)
  BY <1>2, <1>3, <1>4 DEF ReadTo, UpTcp
<1>10. k.sent \o x = Ciphered(TgUp, S, 0, e)
  <2>1. PICK a \in Nat, b \in Nat : a = c.enc /\ b = e /\ a <= b /\ b <= Len(S)
    BY <1>8
  <2>2. Ciphered(TgUp, S, 0, a) \o Ciphered(TgUp, S, a, b) = Ciphered(TgUp, S, 0, b)
    BY <2>1, SentMore
  <2> QED
    BY <1>5, <1>9, <2>1, <2>2
<1>11. d.enc = e /\ ~ d.split /\ UpRun(sc, d)
  BY <1>7, <1>9 DEF SameUp, UpRun, ReadsAt
<1>12. UpTcp(sc, d, TRUE)
  BY <1>3, <1>7, <1>8, <1>10, <1>11 DEF UpTcp
<1>13. SameDown(c, d)
  BY <1>7, <1>9 DEF SameDown
<1> QED
  BY <1>4, <1>5, <1>6, <1>12, <1>13

\* The outcomes of SendParts: the parts go out, or the socket is closed.
SentAll(sc, c, d, parts) ==
  /\ parts \in Seq(Seq(Item))
  /\ d \in ConnType /\ Sends(d, Frames(parts)) \in ConnType
  /\ UpWs(sc, d, FALSE) /\ SameDown(c, d)
  /\ UpWs(sc, Sends(d, Frames(parts)), TRUE) /\ SameDown(c, Sends(d, Frames(parts)))

LEMMA UploadWhole ==
  ASSUME NEW sc, Good(sc), NEW c \in ConnType, UpWs(sc, c, TRUE), ~ c.split, NEW r \in ReadClient(c)
  PROVE  SentAll(sc, c, UpConn(r), <<UpCipher(r)>>)
<1>1. PICK P, m : Sending(sc, c, P, m, TRUE)
  BY DEF UpWs
<1>2. WentOut(sc, c.sent, P, m) /\ ~ c.eof /\ UpRun(sc, c) /\ m = c.enc
  BY <1>1 DEF Sending
<1>3. PICK e : ReadTo(sc, c, r, e)
  BY <1>2, ReadToIs
<1>4. PICK S \in Seq(Nat) : S = SpeechOf(sc)
  BY SpeechIs
<1>5. PICK k \in ConnType : k = UpConn(r)
  BY <1>3 DEF ReadTo
<1>6. PICK x \in Seq(Item) : x = UpCipher(r) /\ x = Ciphered(TgUp, S, m, e)
  BY <1>2, <1>3, <1>4 DEF ReadTo
<1>7. PICK parts \in Seq(Seq(Item)) : parts = <<x>> /\ FlattenSeq(parts) = x
  <2>1. <<x>> \in Seq(Seq(Item))
    OBVIOUS
  <2> QED
    BY <2>1, FlattenOne
<1>8. Frames(parts) \in Seq(Item)
  <2>1. Carries(Frames(parts), parts)
    BY CarriesFrames
  <2> QED
    BY <2>1 DEF Carries
<1>9. e \in Nat /\ m <= e /\ e <= Len(SpeechOf(sc))
  BY <1>2, <1>3 DEF ReadTo
<1>10. WentOut(sc, c.sent \o Frames(parts), P \o parts, e)
  <2>1. MoreWent(sc, c.sent, P, parts, e)
    BY <1>2, <1>4, <1>6, <1>7, <1>9, WentOutParts
  <2> QED
    BY <2>1 DEF MoreWent
<1>11. PICK d \in ConnType : d = Sends(k, Frames(parts))
  BY <1>8, SendsIs
<1>12. d.sent = k.sent \o Frames(parts) /\ SameUp(k, d) /\ SameDown(k, d)
  BY <1>8, <1>11, SendsIs
<1>13. k.enc = e /\ UpRun(sc, k) /\ ~ k.split /\ ~ k.eof /\ k.sent = c.sent /\ SameDown(c, k)
  BY <1>2, <1>3, <1>5 DEF ReadTo
<1>14. UpRun(sc, d) /\ d.enc = e /\ ~ d.split /\ ~ d.eof
  BY <1>12, <1>13 DEF SameUp, UpRun, ReadsAt
<1>15. Sending(sc, d, P \o parts, e, TRUE)
  BY <1>10, <1>12, <1>13, <1>14 DEF Sending
<1>16. Sending(sc, k, P, m, FALSE)
  BY <1>2, <1>13 DEF Sending
<1>17. SameDown(c, d)
  BY <1>12, <1>13 DEF SameDown
<1> QED
  BY <1>5, <1>6, <1>7, <1>11, <1>13, <1>15, <1>16, <1>17 DEF SentAll, UpWs

UpCut(r) == Split(UpConn(r).sp, UpCipher(r), Decipher(CltUp, r.c.dec, r.data))

LEMMA UploadSplit ==
  ASSUME NEW sc, Good(sc), NEW c \in ConnType, UpWs(sc, c, TRUE), c.split, NEW r \in ReadClient(c)
  PROVE  SentAll(sc, c, [UpConn(r) EXCEPT !.sp = UpCut(r).sp], UpCut(r).parts)
<1>1. PICK P, m : Sending(sc, c, P, m, TRUE)
  BY DEF UpWs
<1>2. /\ WentOut(sc, c.sent, P, m) /\ ~ c.eof /\ UpRun(sc, c)
      /\ LengthsBut(sc.packets, sc.whole, P, FALSE) /\ SplitHolds(sc, c, P, m)
  <2>1. WentOut(sc, c.sent, P, m) /\ ~ c.eof /\ UpRun(sc, c) /\ SplitHolds(sc, c, P, m)
    BY <1>1 DEF Sending
  <2>2. c.eof = FALSE
    BY <2>1 DEF ConnType
  <2>3. LengthsBut(sc.packets, sc.whole, P, c.eof)
    BY <1>1 DEF Sending
  <2> QED
    BY <2>1, <2>2, <2>3
<1>3. PICK e : ReadTo(sc, c, r, e)
  BY <1>2, ReadToIs
<1>4. PICK S \in Seq(Nat), w \in Nat : S = SpeechOf(sc) /\ w = sc.whole
  BY SpeechIs, GoodIs
<1>4a. PICK Q : Q = sc.packets /\ Speech3(sc.proto, Q, w, S)
  BY <1>4, SpeechIs, GoodIs
<1>5. PICK k \in ConnType : k = UpConn(r)
  BY <1>3 DEF ReadTo
<1>6. PICK sp \in SplitterType : sp = c.sp
  BY DEF ConnType
<1>7. PICK a \in Nat, b \in Nat : a = c.enc /\ b = e /\ a <= b /\ b <= Len(S)
  BY <1>3, <1>4 DEF ReadTo, ConnType
<1>8. Holding(S, sp, m, a) /\ sp.proto = sc.proto /\ AtEndOf(Q, w, Len(P) - 1, m, sp.disabled) /\ m \in Nat
  BY <1>2, <1>4, <1>4a, <1>6, <1>7 DEF SplitHolds, Holding
<1>9. PICK cut : cut = UpCut(r) /\ cut = Split(sp, Ciphered(TgUp, S, a, b), SubSeq(S, a + 1, b))
  BY <1>3, <1>4, <1>6, <1>7 DEF ReadTo, UpCut
<1>10. SplitDone(S, Q, w, sp, m, b, cut)
  <2>1. CASE sp.disabled
    BY <1>7, <1>8, <1>9, <2>1, SplitDisabled
  <2>2. CASE ~ sp.disabled
    BY <1>4, <1>4a, <1>7, <1>8, <1>9, <2>2, SplitEnabled
  <2> QED
    BY <2>1, <2>2
<1>11. PICK n \in Nat :
         /\ m <= n
         /\ cut.parts \in Seq(Seq(Item))
         /\ FlattenSeq(cut.parts) = Ciphered(TgUp, S, m, n)
         /\ Holding(S, cut.sp, n, b)
         /\ cut.sp.proto = sp.proto
         /\ \A K \in Nat : AtEndOf(Q, w, K, m, sp.disabled) =>
              /\ AtEndOf(Q, w, K + Len(cut.parts), n, cut.sp.disabled)
              /\ LengthsOf(Q, w, K, cut.parts)
  BY <1>10 DEF SplitDone
<1>12. PICK parts \in Seq(Seq(Item)), sp2 \in SplitterType : parts = cut.parts /\ sp2 = cut.sp
  BY <1>11 DEF Holding
<1>13. n <= Len(SpeechOf(sc)) /\ FlattenSeq(parts) = Ciphered(TgUp, SpeechOf(sc), m, n)
  <2>1. n <= b
    BY <1>11 DEF Holding
  <2>2. n <= Len(S)
    BY <1>7, <2>1
  <2> QED
    BY <1>4, <1>11, <1>12, <2>2
<1>14. /\ WentOut(sc, c.sent \o Frames(parts), P \o parts, n)
       /\ P \in Seq(Seq(Item)) /\ Len(P \o parts) = Len(P) + Len(parts) /\ Len(P) \in Nat /\ Len(P) > 0
       /\ \A i \in 1 .. Len(P) : (P \o parts)[i] = P[i]
       /\ \A i \in 1 .. Len(parts) : (P \o parts)[Len(P) + i] = parts[i]
  <2>1. MoreWent(sc, c.sent, P, parts, n)
    BY <1>2, <1>11, <1>13, WentOutParts
  <2> QED
    BY <2>1 DEF MoreWent
<1>15a. PICK R : R = P \o parts
  OBVIOUS
<1>15. PICK x \in Nat, y \in Nat : x = Len(P) /\ y = Len(parts) /\ x > 0
  <2>1. Len(parts) \in Nat
    BY <1>12
  <2> QED
    BY <1>14, <2>1
<1>16. x - 1 \in Nat
  BY <1>15
<1>17. AtEndOf(Q, w, (x - 1) + y, n, sp2.disabled) /\ LengthsOf(Q, w, x - 1, parts)
  BY <1>8, <1>11, <1>12, <1>15, <1>16
<1>18. LengthsBut(Q, w, R, FALSE)
  <2>1. /\ Len(R) = x + y /\ \A i \in 1 .. x : R[i] = P[i]
        /\ \A i \in 1 .. y : R[x + i] = parts[i]
    BY <1>14, <1>15, <1>15a
  <2>2. LengthsBut(Q, w, P, FALSE)
    BY <1>2, <1>4, <1>4a
  <2>3. LengthsOf(Q, w, x - 1, parts) => LengthsBut(Q, w, R, FALSE)
    BY <1>15, <2>1, <2>2, LengthsJoin, ZenonT(60)
  <2> QED
    BY <1>17, <2>3
<1>19. AtEndOf(Q, w, Len(R) - 1, n, sp2.disabled)
  <2>1. Len(R) - 1 = (x - 1) + y
    BY <1>14, <1>15, <1>15a
  <2> QED
    BY <1>17, <2>1
<1>20. PICK d \in ConnType : d = [k EXCEPT !.sp = sp2]
  <2>1. [k EXCEPT !.sp = sp2] \in ConnType
    BY DEF ConnType
  <2> QED
    BY <2>1
<1>21. /\ d.sp = sp2 /\ d.tls = k.tls /\ d.left = k.left /\ d.wire = k.wire /\ d.buf = k.buf /\ d.dec = k.dec /\ d.enc = k.enc
       /\ d.split = k.split /\ d.eof = k.eof /\ d.sent = k.sent /\ SameDown(k, d)
  BY <1>20 DEF ConnType, SameDown
<1>22. k.enc = b /\ UpRun(sc, k) /\ k.split /\ ~ k.eof /\ k.sent = c.sent /\ SameDown(c, k)
  BY <1>2, <1>3, <1>5, <1>7 DEF ReadTo
<1>23. Frames(parts) \in Seq(Item)
  <2>1. Carries(Frames(parts), parts)
    BY CarriesFrames
  <2> QED
    BY <2>1 DEF Carries
<1>24. PICK g \in ConnType : g = Sends(d, Frames(parts))
  BY <1>23, SendsIs
<1>25. g.sent = d.sent \o Frames(parts) /\ SameUp(d, g) /\ SameDown(d, g)
  BY <1>23, <1>24, SendsIs
<1>26. UpRun(sc, d) /\ d.enc = b /\ d.split /\ ~ d.eof /\ d.sent = c.sent
  BY <1>21, <1>22 DEF UpRun, ReadsAt
<1>27. UpRun(sc, g) /\ g.enc = b /\ g.split /\ ~ g.eof /\ g.sp = sp2
  BY <1>21, <1>25, <1>26 DEF SameUp, UpRun, ReadsAt
<1>28. SplitHolds(sc, g, R, n)
  <2>1. Holding(S, sp2, n, b) /\ sp2.proto = sc.proto
    BY <1>8, <1>11, <1>12
  <2> QED
    BY <1>4, <1>4a, <1>19, <1>27, <2>1 DEF SplitHolds
<1>33. d.eof = FALSE /\ g.eof = FALSE
  BY <1>26, <1>27 DEF ConnType
<1>29. Sending(sc, g, R, n, TRUE)
  BY <1>33, <1>4, <1>4a, <1>14, <1>15, <1>15a, <1>18, <1>25, <1>26, <1>27, <1>28 DEF Sending
<1>30. Sending(sc, d, P, m, FALSE)
  <2>1. LengthsBut(sc.packets, sc.whole, P, d.eof)
    BY <1>2, <1>33
  <2> QED
    BY <1>2, <1>26, <2>1 DEF Sending
<1>31. SameDown(c, d) /\ SameDown(c, g)
  BY <1>21, <1>22, <1>25 DEF SameDown
<1>32. SentAll(sc, c, d, parts)
  BY <1>24, <1>29, <1>30, <1>31 DEF SentAll, UpWs
<1> QED
  BY <1>5, <1>9, <1>12, <1>20, <1>32

\* The connection when the client has ended: what the splitter holds goes out, if it can.
Tail1(c) == IF c.split THEN Flush(c.sp).parts ELSE <<>>
UpEnded(c, closed) ==
  [c EXCEPT !.sp = IF c.split THEN Flush(@).sp ELSE @,
            !.eof = Tail1(c) = <<>> \/ ~ closed,
            !.sent = IF closed THEN @ ELSE @ \o Frames(Tail1(c))]

Ended(c, d, sp, eof, sent) ==
  /\ d \in ConnType /\ d.sp = sp /\ d.eof = eof /\ d.sent = sent /\ d.split = c.split /\ d.enc = c.enc
  /\ SameDown(c, d)

LEMMA EndedIs ==
  ASSUME NEW c \in ConnType, NEW sp \in SplitterType, NEW eof \in BOOLEAN, NEW sent \in Seq(Item)
  PROVE  Ended(c, [c EXCEPT !.sp = sp, !.eof = eof, !.sent = sent], sp, eof, sent)
<1>1. PICK d : d = [c EXCEPT !.sp = sp, !.eof = eof, !.sent = sent]
  OBVIOUS
<1>2. Ended(c, d, sp, eof, sent)
  BY <1>1 DEF ConnType, Ended, SameDown
<1> QED
  BY <1>1, <1>2

LEMMA FramesOfNothing == Frames(<<>>) = <<>>
<1>1. [i \in DOMAIN <<>> |-> BuildFrame(OP_BINARY, <<>>[i])] = <<>>
  OBVIOUS
<1> QED
  BY <1>1, FlattenEmpty DEF Frames

LEMMA FlushIs ==
  ASSUME NEW sp \in SplitterType
  PROVE  /\ Flush(sp).sp \in SplitterType
         /\ Flush(sp).parts = IF sp.cipher = <<>> THEN <<>> ELSE <<sp.cipher>>
         /\ Flush(sp).parts \in Seq(Seq(Item))
<1>1. sp.cipher \in Seq(Item)
  BY DEF SplitterType
<1>2. Flush(sp).parts = IF sp.cipher = <<>> THEN <<>> ELSE <<sp.cipher>>
  BY DEF Flush
<1>3. Flush(sp).sp = [sp EXCEPT !.cipher = <<>>, !.plain = <<>>]
  BY DEF Flush
<1>4. [sp EXCEPT !.cipher = <<>>, !.plain = <<>>] \in SplitterType
  <2>1. PICK x \in Seq(Item), y \in Seq(Nat) : x = <<>> /\ y = <<>>
    <3>1. <<>> \in Seq(Item) /\ <<>> \in Seq(Nat)
      OBVIOUS
    <3> QED
      BY <3>1
  <2>2. [sp EXCEPT !.cipher = x, !.plain = y] \in SplitterType
    BY DEF SplitterType
  <2> QED
    BY <2>1, <2>2
<1>5. Flush(sp).parts \in Seq(Seq(Item))
  <2>1. CASE sp.cipher = <<>>
    BY <1>2, <2>1
  <2>2. CASE sp.cipher # <<>>
    <3>1. <<sp.cipher>> \in Seq(Seq(Item))
      BY <1>1
    <3> QED
      BY <1>2, <2>2, <3>1
  <2> QED
    BY <2>1, <2>2
<1> QED
  BY <1>2, <1>3, <1>4, <1>5

CipheredLen(S, a, b) == Ciphered(TgUp, S, a, b) \in Seq(Item) /\ Len(Ciphered(TgUp, S, a, b)) = b - a

LEMMA CipheredLenIs ==
  ASSUME NEW S \in Seq(Nat), NEW a \in Nat, NEW b \in Nat, a <= b, b <= Len(S)
  PROVE  CipheredLen(S, a, b)
<1>1. TgUp \in Int
  BY DEF TgUp
<1> QED
  BY <1>1, CipheredIs DEF CipheredLen

LEMMA UploadEndedWs ==
  ASSUME NEW sc, Good(sc), NEW c \in ConnType, UpWs(sc, c, TRUE), NEW closed \in BOOLEAN
  PROVE  /\ UpEnded(c, closed) \in ConnType /\ UpWs(sc, UpEnded(c, closed), FALSE)
         /\ SameDown(c, UpEnded(c, closed))
<1>1. PICK P, m : Sending(sc, c, P, m, TRUE)
  BY DEF UpWs
<1>2. /\ WentOut(sc, c.sent, P, m) /\ UpRun(sc, c)
      /\ ~ c.split => m = c.enc
      /\ c.split => SplitHolds(sc, c, P, m)
  BY <1>1 DEF Sending
<1>3. c.split => LengthsBut(sc.packets, sc.whole, P, FALSE)
  <2>1. c.eof = FALSE
    BY <1>1 DEF Sending, ConnType
  <2>2. c.split => LengthsBut(sc.packets, sc.whole, P, c.eof)
    BY <1>1 DEF Sending
  <2> QED
    BY <2>1, <2>2
<1>4. PICK S \in Seq(Nat), w \in Nat : S = SpeechOf(sc) /\ w = sc.whole
  BY SpeechIs, GoodIs
<1>4a. PICK Q : Q = sc.packets
  OBVIOUS
<1>5. c.sp \in SplitterType /\ c.split \in BOOLEAN /\ c.enc \in Nat /\ c.sent \in Seq(Item)
  BY DEF ConnType
<1>6. PICK tail \in Seq(Seq(Item)) : tail = Tail1(c)
  <2>1. CASE c.split
    BY <1>5, <2>1, FlushIs DEF Tail1
  <2>2. CASE ~ c.split
    <3>1. <<>> \in Seq(Seq(Item))
      OBVIOUS
    <3> QED
      BY <2>2, <3>1 DEF Tail1
  <2> QED
    BY <2>1, <2>2
<1>7. PICK sp \in SplitterType : sp = IF c.split THEN Flush(c.sp).sp ELSE c.sp
  BY <1>5, FlushIs
<1>8. PICK n \in Nat : n = c.enc /\ n <= Len(SpeechOf(sc)) /\ m \in Nat
  BY <1>2, <1>5 DEF UpRun, WentOut
<1>9. \/ tail = <<>> /\ m = n
      \/ /\ c.split /\ Len(tail) = 1 /\ tail # <<>> /\ m <= n
         /\ FlattenSeq(tail) = Ciphered(TgUp, SpeechOf(sc), m, n)
  <2>1. CASE ~ c.split
    BY <1>2, <1>6, <1>8, <2>1 DEF Tail1
  <2>2. CASE c.split
    <3>1. Holding(S, c.sp, m, n)
      BY <1>2, <1>4, <1>4a, <1>8, <2>2 DEF SplitHolds
    <3>2. m <= n /\ n <= Len(S) /\ c.sp.cipher = Ciphered(TgUp, S, m, n)
      BY <3>1 DEF Holding
    <3>3. PICK x \in Seq(Item) : x = c.sp.cipher /\ Len(x) = n - m
      <4>2. PICK k \in Nat : k = m /\ k <= n /\ n <= Len(S)
        BY <1>8, <3>2
      <4>3. Ciphered(TgUp, S, k, n) \in Seq(Item) /\ Len(Ciphered(TgUp, S, k, n)) = n - k
        <5>1. CipheredLen(S, k, n)
          BY <4>2, CipheredLenIs
        <5> QED
          BY <5>1 DEF CipheredLen
      <4> QED
        BY <3>2, <4>2, <4>3
    <3>4. tail = IF x = <<>> THEN <<>> ELSE <<x>>
      BY <1>5, <1>6, <2>2, <3>3, FlushIs DEF Tail1
    <3>5. CASE x = <<>>
      <4>1. n - m = 0
        BY <3>3, <3>5
      <4> QED
        BY <1>8, <3>4, <3>5, <4>1
    <3>6. CASE x # <<>>
      <4>1. FlattenSeq(<<x>>) = x
        BY FlattenOne
      <4>2. Len(<<x>>) = 1 /\ <<x>> # <<>>
        OBVIOUS
      <4> QED
        BY <1>4, <1>4a, <2>2, <3>2, <3>3, <3>4, <3>6, <4>1, <4>2
    <3> QED
      BY <3>5, <3>6
  <2> QED
    BY <1>5, <2>1, <2>2
<1>10. Frames(tail) \in Seq(Item)
  <2>1. Carries(Frames(tail), tail)
    BY CarriesFrames
  <2> QED
    BY <2>1 DEF Carries
<1>11. PICK sent \in Seq(Item) : sent = IF closed THEN c.sent ELSE c.sent \o Frames(tail)
  <2>1. c.sent \o Frames(tail) \in Seq(Item)
    BY <1>5, <1>10, ConcatFirst
  <2> QED
    BY <1>5, <2>1
<1>12. PICK eof \in BOOLEAN : eof <=> (tail = <<>> \/ ~ closed)
  OBVIOUS
<1>13. UpEnded(c, closed) = [c EXCEPT !.sp = sp, !.eof = eof, !.sent = sent]
  <2>1. eof = (tail = <<>> \/ ~ closed)
    BY <1>12
  <2> QED
    BY <1>6, <1>7, <1>11, <2>1 DEF UpEnded
<1>14. PICK d : d = UpEnded(c, closed) /\ d = [c EXCEPT !.sp = sp, !.eof = eof, !.sent = sent]
  BY <1>13
<1>15. Ended(c, d, sp, eof, sent)
  <2>1. Ended(c, [c EXCEPT !.sp = sp, !.eof = eof, !.sent = sent], sp, eof, sent)
    BY EndedIs, Zenon
  <2> QED
    BY <1>14, <2>1, Zenon
<1>16. d \in ConnType /\ d.eof = eof /\ d.sent = sent /\ d.split = c.split /\ d.enc = n /\ SameDown(c, d)
  BY <1>8, <1>15 DEF Ended
<1>17. CASE tail = <<>>
  <2>1. Frames(tail) = <<>> /\ c.sent \o <<>> = c.sent
    BY <1>5, <1>17, FramesOfNothing
  <2>2. sent = c.sent /\ eof = TRUE /\ m = n
    BY <1>9, <1>11, <1>12, <1>17, <2>1
  <2>3. c.split => LengthsBut(sc.packets, sc.whole, P, TRUE)
    BY <1>3 DEF LengthsBut
  <2>4. Sending(sc, d, P, m, FALSE)
    BY <1>2, <1>16, <2>2, <2>3 DEF Sending
  <2> QED
    BY <1>14, <1>16, <2>4 DEF UpWs
<1>18. CASE tail # <<>> /\ closed
  <2>1. sent = c.sent /\ eof = FALSE
    BY <1>11, <1>12, <1>18
  <2>2. Sending(sc, d, P, m, FALSE)
    BY <1>2, <1>3, <1>16, <2>1 DEF Sending
  <2> QED
    BY <1>14, <1>16, <2>2 DEF UpWs
<1>19. CASE tail # <<>> /\ ~ closed
  <2>1. sent = c.sent \o Frames(tail) /\ eof = TRUE
    BY <1>11, <1>12, <1>19
  <2>2. c.split /\ Len(tail) = 1 /\ m <= n /\ FlattenSeq(tail) = Ciphered(TgUp, SpeechOf(sc), m, n)
    BY <1>9, <1>19
  <2>3. /\ WentOut(sc, c.sent \o Frames(tail), P \o tail, n)
        /\ P \in Seq(Seq(Item)) /\ Len(P \o tail) = Len(P) + Len(tail) /\ Len(P) \in Nat /\ Len(P) > 0
        /\ \A i \in 1 .. Len(P) : (P \o tail)[i] = P[i]
        /\ \A i \in 1 .. Len(tail) : (P \o tail)[Len(P) + i] = tail[i]
    <3>1. WentOut(sc, c.sent, P, m)
      BY <1>2
    <3>2. MoreWent(sc, c.sent, P, tail, n)
      BY <1>8, <2>2, <3>1, WentOutParts
    <3> QED
      BY <3>2 DEF MoreWent
  <2>4. PICK x \in Nat : x = Len(P) /\ x > 0
    BY <2>3
  <2>4a. PICK R : R = P \o tail
    OBVIOUS
  <2>5. LengthsBut(Q, w, R, TRUE)
    <3>1. /\ Len(R) = x + 1 /\ \A i \in 1 .. x : R[i] = P[i]
          /\ \A i \in 1 .. 1 : R[x + i] = tail[i]
      BY <2>2, <2>3, <2>4, <2>4a
    <3>2. LengthsBut(Q, w, P, FALSE)
      BY <1>3, <1>4, <1>4a, <2>2
    <3>3. 1 \in Nat
      OBVIOUS
    <3> QED
      BY <2>2, <2>4, <2>4a, <3>1, <3>2, <3>3, LengthsJoin
  <2>6. Sending(sc, d, R, n, FALSE)
    BY <1>4, <1>4a, <1>16, <2>1, <2>3, <2>4, <2>4a, <2>5 DEF Sending
  <2> QED
    BY <1>14, <1>16, <2>6 DEF UpWs
<1> QED
  BY <1>17, <1>18, <1>19

LEMMA UploadEndedTcp ==
  ASSUME NEW sc, Good(sc), NEW c \in ConnType, UpTcp(sc, c, TRUE), NEW closed \in BOOLEAN
  PROVE  /\ UpEnded(c, closed) \in ConnType /\ UpTcp(sc, UpEnded(c, closed), FALSE)
         /\ SameDown(c, UpEnded(c, closed))
<1>1. /\ ~ c.split /\ c.enc <= Len(SpeechOf(sc)) /\ c.sent = Ciphered(TgUp, SpeechOf(sc), 0, c.enc)
  BY DEF UpTcp
<1>2. PICK sp \in SplitterType, sent \in Seq(Item) : sp = c.sp /\ sent = c.sent
  BY DEF ConnType
<1>3. Tail1(c) = <<>> /\ sent \o <<>> = sent
  BY <1>1 DEF Tail1
<1>4. UpEnded(c, closed) = [c EXCEPT !.sp = sp, !.eof = TRUE, !.sent = sent]
  BY <1>1, <1>2, <1>3, FramesOfNothing DEF UpEnded
<1>5. PICK d : d = UpEnded(c, closed) /\ d = [c EXCEPT !.sp = sp, !.eof = TRUE, !.sent = sent]
  BY <1>4
<1>6. Ended(c, d, sp, TRUE, sent)
  BY <1>5, EndedIs, ZenonT(60)
<1>7. d \in ConnType /\ d.sent = c.sent /\ d.split = c.split /\ d.enc = c.enc /\ SameDown(c, d)
  BY <1>2, <1>6 DEF Ended
<1>8. UpTcp(sc, d, FALSE)
  BY <1>1, <1>7 DEF UpTcp
<1> QED
  BY <1>5, <1>7, <1>8

-----------------------------------------------------------------------------
(***************************************************************************)
(* The bridges begin; what stands at them is what the properties say.      *)
(***************************************************************************)
\* A connection whose handshake has succeeded, before it is bridged.
Fresh(sc, c) ==
  /\ c.dec = InitLen /\ c.enc = InitLen /\ c.sp = NewSplitter(sc.proto)
  /\ c.eof = FALSE /\ c.sent = <<>> /\ c.frag = <<>> /\ c.got = <<>> /\ c.tgDec = 0 /\ c.cltEnc = 0
  /\ ReadsAt(sc, c, InitLen)

LEMMA InitSent ==
  ASSUME NEW sc, Good(sc)
  PROVE  /\ InitToServer = Ciphered(TgUp, SpeechOf(sc), 0, InitLen) /\ InitToServer \in Seq(Item)
         /\ InitLen \in Nat /\ InitLen <= Len(SpeechOf(sc))
<1>1. PICK S \in Seq(Nat) : S = SpeechOf(sc) /\ InitLen <= Len(S) /\ SubSeq(S, 1, InitLen) = InitBytes
  BY SpeechIs
<1>2. PICK n \in Nat : n = InitLen
  BY InitBytesIs
<1>3. 0 + 1 = 1 /\ 0 \in Nat /\ TgUp \in Int /\ 0 <= n
  BY DEF TgUp
<1>4. Ciphered(TgUp, S, 0, n) = InitToServer
  BY <1>1, <1>2, <1>3 DEF Ciphered, InitToServer
<1>5. Ciphered(TgUp, S, 0, n) \in Seq(Item)
  BY <1>1, <1>2, <1>3, CipheredIs
<1> QED
  BY <1>1, <1>2, <1>4, <1>5

LEMMA FreshRuns ==
  ASSUME NEW sc, Good(sc), NEW c \in ConnType, Fresh(sc, c)
  PROVE  UpRun(sc, c)
BY InitSent DEF Fresh, UpRun

Bridged(c, sent, served) == [c EXCEPT !.sent = sent, !.served = served]

BridgedTo(c, d, sent, served) ==
  /\ d \in ConnType /\ d.sent = sent /\ d.served = served /\ SameUp(c, d)
  /\ d.frag = c.frag /\ d.got = c.got /\ d.tgDec = c.tgDec /\ d.cltEnc = c.cltEnc

LEMMA BridgedIs ==
  ASSUME NEW c \in ConnType, NEW sent \in Seq(Item), NEW served \in Seq(Item)
  PROVE  BridgedTo(c, Bridged(c, sent, served), sent, served)
<1>1. PICK d : d = Bridged(c, sent, served)
  OBVIOUS
<1>2. BridgedTo(c, d, sent, served)
  BY <1>1 DEF ConnType, Bridged, BridgedTo, SameUp
<1> QED
  BY <1>1, <1>2

LEMMA WireServed ==
  ASSUME NEW sc, Good(sc)
  PROVE  ServerWire(sc) \in Seq(Item) /\ ServerBytes(sc) \in Seq(Item)
<1>1. PICK F \in Seq(FrameType) : F = sc.frames
  BY GoodIs
<1>2. ServerWire(sc) \in Seq(Item)
  <2>1. 0 \in 0 .. Len(F)
    OBVIOUS
  <2>2. ServedAfter(F, 0) \in Seq(Item)
    BY <2>1, ServedIs
  <2> QED
    BY <1>1, <2>2, ServerWireIs
<1>3. ServerBytes(sc) \in Seq(Item)
  <2>1. PICK X \in Seq(Nat) : X = AllData(F)
    BY AllDataIs
  <2>2. ServerBytes(sc) = Encipher(TgDown, 0, X)
    BY <1>1, <2>1 DEF ServerBytes, AllData
  <2>3. TgDown \in Int /\ 0 \in Int
    BY DEF TgDown
  <2> QED
    BY <2>1, <2>2, <2>3, EncipherIs
<1> QED
  BY <1>2, <1>3

LEMMA StartsWs ==
  ASSUME NEW sc, Good(sc), NEW c \in ConnType, Fresh(sc, c),
         NEW d, d = Bridged(c, BuildFrame(OP_BINARY, InitToServer), ServerWire(sc))
  PROVE  d \in ConnType /\ UpWs(sc, d, TRUE) /\ DownWs(sc, d, FALSE, TRUE)
<1>1. PICK x \in Seq(Item), n \in Nat, S \in Seq(Nat) :
        x = InitToServer /\ n = InitLen /\ S = SpeechOf(sc) /\ x = Ciphered(TgUp, S, 0, n) /\ n <= Len(S)
  BY InitSent, SpeechIs
<1>2. OP_BINARY \in 0 .. (Fin - 1) /\ OneBinary(OP_BINARY, x) = <<x>>
  BY DEF Fin, OP_BINARY, OneBinary
<1>3. PICK P : P = <<x>>
  OBVIOUS
<1>4. Carries(BuildFrame(OP_BINARY, x), P)
  BY <1>2, <1>3, CarriesFrame
<1>5. P # <<>> /\ P[1] = x /\ Len(P) - 1 = 0 /\ FlattenSeq(P) = x
  BY <1>3, FlattenOne
<1>6. PICK sent \in Seq(Item), served \in Seq(Item) : sent = BuildFrame(OP_BINARY, x) /\ served = ServerWire(sc)
  BY <1>4, WireServed DEF Carries
<1>7. BridgedTo(c, d, sent, served)
  BY <1>1, <1>6, BridgedIs
<1>8. WentOut(sc, sent, P, n)
  BY <1>1, <1>4, <1>5, <1>6 DEF WentOut
<1>9. /\ d \in ConnType /\ d.sent = sent /\ d.served = served /\ SameUp(c, d)
      /\ d.frag = c.frag /\ d.got = c.got /\ d.tgDec = c.tgDec /\ d.cltEnc = c.cltEnc
  BY <1>7 DEF BridgedTo
<1>10. c.enc = n /\ c.eof = FALSE /\ c.sp = NewSplitter(sc.proto) /\ UpRun(sc, c)
  BY <1>1, FreshRuns DEF Fresh
<1>11. UpRun(sc, d) /\ d.enc = n /\ d.eof = FALSE /\ d.sp = NewSplitter(sc.proto)
  BY <1>9, <1>10 DEF SameUp, UpRun, ReadsAt
<1>12. Holding(S, d.sp, n, n)
  <2>1. d.sp.plain = <<>> /\ d.sp.cipher = <<>>
    BY <1>11 DEF NewSplitter
  <2>4. d.sp \in SplitterType
    BY <1>9 DEF ConnType
  <2>2. SubSeq(S, n + 1, n) = <<>>
    BY SliceEmpty
  <2>3. Ciphered(TgUp, S, n, n) = <<>>
    <3>1. TgUp \in Int
      BY DEF TgUp
    <3> QED
      BY <3>1, CipheredNothing
  <2>5. n \in Nat /\ n <= n /\ n <= Len(S)
    BY <1>1
  <2> QED
    BY <2>1, <2>2, <2>3, <2>4, <2>5, Zenon DEF Holding
<1>13. d.sp.proto = sc.proto /\ d.sp.disabled = FALSE
  BY <1>11 DEF NewSplitter
<1>14. AtEndOf(sc.packets, sc.whole, 0, n, d.sp.disabled)
  BY <1>1, <1>13, SpeechIs DEF AtEndOf
<1>15. SplitHolds(sc, d, P, n)
  BY <1>1, <1>5, <1>11, <1>12, <1>13, <1>14 DEF SplitHolds
<1>16. LengthsBut(sc.packets, sc.whole, P, d.eof)
  <2>1. \A i \in 1 .. 0 : FALSE
    OBVIOUS
  <2> QED
    BY <1>5, <2>1 DEF LengthsBut
<1>17. Sending(sc, d, P, n, TRUE)
  BY <1>8, <1>9, <1>11, <1>15, <1>16 DEF Sending
<1>18. UpWs(sc, d, TRUE)
  BY <1>17 DEF UpWs
<1>19. DownWs(sc, d, FALSE, TRUE)
  <2>1. d.got = <<>> /\ d.cltEnc = 0 /\ d.tgDec = 0 /\ d.frag = <<>> /\ d.served = ServerWire(sc)
    BY <1>6, <1>9 DEF Fresh
  <2> QED
    BY <1>9, <2>1, DownStarts
<1> QED
  BY <1>9, <1>18, <1>19

LEMMA StartsTcp ==
  ASSUME NEW sc, Good(sc), NEW c \in ConnType, Fresh(sc, c), ~ c.split,
         NEW d, d = Bridged(c, InitToServer, ServerBytes(sc))
  PROVE  d \in ConnType /\ UpTcp(sc, d, TRUE) /\ DownTcp(sc, d)
<1>1. PICK x \in Seq(Item), n \in Nat, S \in Seq(Nat) :
        x = InitToServer /\ n = InitLen /\ S = SpeechOf(sc) /\ x = Ciphered(TgUp, S, 0, n) /\ n <= Len(S)
  BY InitSent, SpeechIs
<1>2. PICK served \in Seq(Item) : served = ServerBytes(sc)
  BY WireServed
<1>3. BridgedTo(c, d, x, served)
  BY <1>1, <1>2, BridgedIs
<1>4. /\ d \in ConnType /\ d.sent = x /\ d.served = served /\ SameUp(c, d)
      /\ d.frag = c.frag /\ d.got = c.got /\ d.tgDec = c.tgDec /\ d.cltEnc = c.cltEnc
  BY <1>3 DEF BridgedTo
<1>5. c.enc = n /\ UpRun(sc, c)
  BY <1>1, FreshRuns DEF Fresh
<1>6. UpRun(sc, d) /\ d.enc = n /\ ~ d.split
  BY <1>4, <1>5 DEF SameUp, UpRun, ReadsAt
<1>7. UpTcp(sc, d, TRUE)
  BY <1>1, <1>4, <1>6 DEF UpTcp
<1>8. DownTcp(sc, d)
  <2>1. d.got = <<>> /\ d.cltEnc = 0 /\ d.tgDec = 0 /\ d.served = ServerBytes(sc)
    BY <1>2, <1>4 DEF Fresh
  <2> QED
    BY <1>4, <2>1, DownTcpStarts
<1> QED
  BY <1>4, <1>7, <1>8

\* What UploadIntact says of a session's bridge over a WebSocket, and over TCP.
UpMeansWs(sc, c) ==
  LET parts == Messages(c.sent)
      plain == Decipher(TgUp, 0, FlattenSeq(parts))
  IN /\ IsPrefix(plain, SpeechOf(sc))
     /\ c.eof => Len(plain) = c.enc
     /\ parts[1] = InitToServer
     /\ c.split => \A i \in 1 .. Min({Len(parts) - 1, sc.whole}) :
                      Len(parts[i + 1]) = Len(sc.packets[i]) \/ (c.eof /\ i = Len(parts) - 1)

UpMeansTcp(sc, c) ==
  LET plain == Decipher(TgUp, 0, c.sent)
  IN IsPrefix(plain, SpeechOf(sc)) /\ (c.eof => Len(plain) = c.enc)

CipherMeans(S, a) ==
  LET plain == Decipher(TgUp, 0, Ciphered(TgUp, S, 0, a))
  IN IsPrefix(plain, S) /\ Len(plain) = a

LEMMA CipherMeansIs ==
  ASSUME NEW S \in Seq(Nat), NEW a \in Nat, a <= Len(S)
  PROVE  CipherMeans(S, a)
<1>1. 0 \in Nat /\ 0 <= a /\ TgUp \in Int /\ 0 + 1 = 1
  BY DEF TgUp
<1>2. Decipher(TgUp, 0, Ciphered(TgUp, S, 0, a)) = SubSeq(S, 0 + 1, a)
  BY <1>1, CipheredRead
<1>3. a \in 0 .. Len(S)
  OBVIOUS
<1>4. IsPrefix(SubSeq(S, 1, a), S) /\ Len(SubSeq(S, 1, a)) = a
  BY <1>3, PrefixCut
<1> QED
  BY <1>1, <1>2, <1>4 DEF CipherMeans

LEMMA UpWsMeans ==
  ASSUME NEW sc, Good(sc), NEW c \in ConnType, NEW up \in BOOLEAN, UpWs(sc, c, up)
  PROVE  UpMeansWs(sc, c)
<1>1. PICK P, m : Sending(sc, c, P, m, up)
  BY DEF UpWs
<1>2. /\ WentOut(sc, c.sent, P, m) /\ (c.eof => m = c.enc)
      /\ c.split => LengthsBut(sc.packets, sc.whole, P, c.eof)
  BY <1>1 DEF Sending
<1>3. PICK S \in Seq(Nat) : S = SpeechOf(sc)
  BY SpeechIs
<1>4. PICK a \in Nat : a = m /\ a <= Len(S)
  BY <1>2, <1>3 DEF WentOut
<1>5. Messages(c.sent) = P /\ P[1] = InitToServer /\ FlattenSeq(P) = Ciphered(TgUp, S, 0, a) /\ P \in Seq(Seq(Item)) /\ P # <<>>
  BY <1>2, <1>3, <1>4, CarriesMeans DEF WentOut, Carries
<1>6. PICK plain : plain = Decipher(TgUp, 0, FlattenSeq(P))
  OBVIOUS
<1>7. IsPrefix(plain, S) /\ Len(plain) = a
  <2>1. CipherMeans(S, a)
    BY <1>4, CipherMeansIs
  <2> QED
    BY <1>5, <1>6, <2>1 DEF CipherMeans
<1>8. ASSUME c.split, NEW i \in 1 .. Min({Len(P) - 1, sc.whole})
      PROVE  Len(P[i + 1]) = Len(sc.packets[i]) \/ (c.eof /\ i = Len(P) - 1)
  <2>1. PICK n \in Nat, w \in Nat : n = Len(P) - 1 /\ w = sc.whole
    <3>1. Len(P) \in Nat /\ Len(P) > 0
      <4>1. PICK X : X = Seq(Item)
        OBVIOUS
      <4>2. PICK q \in Seq(X) : q = P
        BY <1>5, <4>1
      <4> QED
        BY <1>5, <4>2
    <3>2. Len(P) - 1 \in Nat
      BY <3>1
    <3> QED
      BY <3>2, GoodIs
  <2>2. Min({n, w}) \in Nat /\ Min({n, w}) <= n /\ Min({n, w}) <= w
    BY MinOfNats
  <2>3. i \in 1 .. n /\ i <= w
    BY <2>1, <2>2
  <2>4. LengthsBut(sc.packets, sc.whole, P, c.eof)
    BY <1>2, <1>8
  <2> QED
    BY <2>1, <2>3, <2>4 DEF LengthsBut
<1> QED
  BY <1>2, <1>3, <1>4, <1>5, <1>6, <1>7, <1>8 DEF UpMeansWs

LEMMA UpTcpMeans ==
  ASSUME NEW sc, Good(sc), NEW c \in ConnType, NEW up \in BOOLEAN, UpTcp(sc, c, up)
  PROVE  UpMeansTcp(sc, c)
<1>1. PICK S \in Seq(Nat), a \in Nat : S = SpeechOf(sc) /\ a = c.enc /\ a <= Len(S)
  BY SpeechIs DEF UpTcp, ConnType
<1>2. CipherMeans(S, a)
  BY <1>1, CipherMeansIs
<1>3. c.sent = Ciphered(TgUp, S, 0, a)
  BY <1>1 DEF UpTcp
<1> QED
  BY <1>1, <1>2, <1>3 DEF UpMeansTcp, CipherMeans

-----------------------------------------------------------------------------
\* The handshake: what comes after the first InitLen bytes is left to the relays.
LEMMA HoldsJoin ==
  ASSUME NEW C \in Seq(Item), NEW b, NEW d, Holds(C, 0, b), Holds(C, Len(b), d)
  PROVE  Holds(C, 0, b \o d) /\ Len(b \o d) = Len(b) + Len(d) /\ b \o d \in Seq(Item)
<1>1. PICK u \in Seq(Item), v \in Seq(Item), j \in Nat, k \in Nat :
        /\ u = b /\ v = d /\ j = Len(u) /\ k = j + Len(v) /\ j <= k /\ k <= Len(C)
        /\ u = SubSeq(C, 1, j) /\ v = SubSeq(C, j + 1, k)
  <2>1. b \in Seq(Item) /\ d \in Seq(Item) /\ Len(b) + Len(d) <= Len(C) /\ d = SubSeq(C, Len(b) + 1, Len(b) + Len(d))
    BY DEF Holds
  <2>2. b = SubSeq(C, 0 + 1, 0 + Len(b))
    BY DEF Holds
  <2>3. Len(b) \in Nat /\ Len(d) \in Nat
    BY <2>1
  <2>4. 0 + 1 = 1 /\ 0 + Len(b) = Len(b) /\ Len(b) + Len(d) \in Nat /\ Len(b) <= Len(b) + Len(d)
    BY <2>3
  <2>5. b = SubSeq(C, 1, Len(b))
    BY <2>2, <2>4
  <2> QED
    BY <2>1, <2>3, <2>4, <2>5
<1>2. u \o v = SubSeq(C, 1, k)
  <2>1. j <= k /\ k <= Len(C)
    BY <1>1
  <2>2. SubSeq(C, 1, j) \o SubSeq(C, j + 1, k) = SubSeq(C, 1, k)
    BY <2>1, PrefixJoin
  <2> QED
    BY <1>1, <2>2
<1>3. u \o v \in Seq(Item) /\ Len(u \o v) = k
  BY <1>1, ConcatFirst
<1>4. Holds(C, 0, u \o v)
  <2>1. 0 + 1 = 1 /\ 0 + k = k /\ 0 \in Nat
    OBVIOUS
  <2> QED
    BY <1>1, <1>2, <1>3, <2>1 DEF Holds
<1> QED
  BY <1>1, <1>3, <1>4

LEMMA DropPrefix ==
  ASSUME NEW T, NEW q \in Seq(T), NEW k \in Nat, NEW n \in Nat, n <= k, k <= Len(q)
  PROVE  Drop(SubSeq(q, 1, k), n) = SubSeq(q, n + 1, k)
<1>1. PICK a \in Nat : a = 0
  OBVIOUS
<1>2. a <= k /\ n <= k - a
  BY <1>1
<1>3. Drop(SubSeq(q, a + 1, k), n) = SubSeq(q, a + n + 1, k)
  BY <1>2, DropSlice
<1>4. a + 1 = 1 /\ a + n + 1 = n + 1
  BY <1>1
<1> QED
  BY <1>3, <1>4

LEMMA ReaderDrop ==
  ASSUME NEW L, NEW C \in Seq(Item), NEW left, NEW wire, NEW buf, ReaderAt(L, C, TRUE, left, wire, buf, 0),
         NEW n \in Nat, n <= Len(buf)
  PROVE  ReaderAt(L, C, TRUE, left, wire, Drop(buf, n), n) /\ Drop(buf, n) \in Seq(Item)
<1>1. Holds(C, 0, buf) /\ TlsAt(L, C, left, wire, 0 + Len(buf))
  BY DEF ReaderAt
<1>2. PICK b \in Seq(Item), k \in Nat : b = buf /\ k = Len(b) /\ n <= k /\ k <= Len(C) /\ b = SubSeq(C, 0 + 1, k)
  <2>1. buf \in Seq(Item) /\ 0 + Len(buf) <= Len(C) /\ buf = SubSeq(C, 0 + 1, 0 + Len(buf))
    BY <1>1 DEF Holds
  <2>2. Len(buf) \in Nat
    BY <2>1
  <2>3. 0 + Len(buf) = Len(buf)
    BY <2>2
  <2> QED
    BY <2>1, <2>2, <2>3
<1>3. Drop(b, n) = SubSeq(C, n + 1, k)
  <2>1. Drop(SubSeq(C, 1, k), n) = SubSeq(C, n + 1, k)
    BY <1>2, DropPrefix
  <2>2. b = SubSeq(C, 1, k)
    BY <1>2
  <2> QED
    BY <2>1, <2>2
<1>4. Holds(C, n, Drop(b, n)) /\ Len(Drop(b, n)) = k - n
  <2>1. Holds(C, n, SubSeq(C, n + 1, k)) /\ Len(SubSeq(C, n + 1, k)) = k - n
    <3>1. n <= k /\ k <= Len(C)
      BY <1>2
    <3> QED
      BY <3>1, HoldsIs
  <2> QED
    BY <1>3, <2>1
<1>5. n + Len(Drop(b, n)) = 0 + Len(b)
  BY <1>2, <1>4
<1>6. TlsAt(L, C, left, wire, n + Len(Drop(b, n)))
  BY <1>1, <1>2, <1>5
<1>7. Drop(b, n) \in Seq(Item)
  BY <1>4 DEF Holds
<1> QED
  BY <1>2, <1>4, <1>6, <1>7 DEF ReaderAt

\* One read of the records while the init is not complete.
TlsInitRead(sc, c, t) ==
  /\ t.left \in Nat /\ t.wire \in Seq(Item) /\ c.buf \o t.data \in Seq(Item)
  /\ ReaderAt(sc.records, CipherOf(sc), TRUE, t.left, t.wire, c.buf \o t.data, 0)
  /\ InitLen <= Len(c.buf \o t.data) =>
       /\ ReaderAt(sc.records, CipherOf(sc), TRUE, t.left, t.wire, Drop(c.buf \o t.data, InitLen), InitLen)
       /\ Drop(c.buf \o t.data, InitLen) \in Seq(Item)

LEMMA TlsInitReadIs ==
  ASSUME NEW sc, Good(sc), NEW c \in ConnType, c.tls = TRUE, ReadsAt(sc, c, 0), NEW t \in Payloads(c.left, c.wire)
  PROVE  TlsInitRead(sc, c, t)
<1>1. PICK L \in Seq(Nat), C \in Seq(Item) : L = sc.records /\ C = CipherOf(sc) /\ Begins(L, Len(C))
  BY GoodIs, SpeechIs
<1>2. Holds(C, 0, c.buf) /\ TlsAt(L, C, c.left, c.wire, 0 + Len(c.buf))
  BY <1>1 DEF ReadsAt, ReaderAt
<1>3. PICK b \in Seq(Item), j \in Nat : b = c.buf /\ j = Len(b) /\ 0 + Len(c.buf) = j
  <2>1. c.buf \in Seq(Item)
    BY DEF ConnType
  <2>2. Len(c.buf) \in Nat
    BY <2>1
  <2>3. 0 + Len(c.buf) = Len(c.buf)
    BY <2>2
  <2> QED
    BY <2>1, <2>2, <2>3
<1>4. TlsAt(L, C, c.left, c.wire, j)
  BY <1>2, <1>3
<1>5. Got(L, C, j, t)
  BY <1>1, <1>4, TlsRead
<1>6. PICK d : d = t.data
  OBVIOUS
<1>7. Holds(C, j, d) /\ TlsAt(L, C, t.left, t.wire, j + Len(d))
  <2>1. /\ j + Len(d) <= Len(C) /\ d = SubSeq(C, j + 1, j + Len(d)) /\ Len(d) \in Nat
        /\ TlsAt(L, C, t.left, t.wire, j + Len(d))
    BY <1>5, <1>6 DEF Got
  <2>2. PICK e \in Nat : e = j + Len(d) /\ j <= e /\ e <= Len(C)
    <3>1. j + Len(d) \in Nat /\ j <= j + Len(d)
      BY <2>1
    <3> QED
      BY <2>1, <3>1
  <2>3. Holds(C, j, SubSeq(C, j + 1, e))
    BY <2>2, HoldsIs
  <2> QED
    BY <2>1, <2>2, <2>3
<1>8. Holds(C, 0, b \o d) /\ Len(b \o d) = j + Len(d) /\ b \o d \in Seq(Item)
  BY <1>2, <1>3, <1>7, HoldsJoin
<1>9. t.left \in Nat /\ t.wire \in Seq(Item)
  BY <1>1, <1>7, TlsAtWire
<1>10. ReaderAt(L, C, TRUE, t.left, t.wire, b \o d, 0)
  <2>1. 0 + Len(b \o d) = j + Len(d)
    <3>1. Len(b \o d) \in Nat
      BY <1>8
    <3> QED
      BY <1>8, <3>1
  <2> QED
    BY <1>7, <1>8, <2>1 DEF ReaderAt
<1>11. ASSUME InitLen <= Len(b \o d)
       PROVE  ReaderAt(L, C, TRUE, t.left, t.wire, Drop(b \o d, InitLen), InitLen) /\ Drop(b \o d, InitLen) \in Seq(Item)
  <2>1. InitLen \in Nat
    BY InitBytesIs
  <2> QED
    BY <1>10, <1>11, <2>1, ReaderDrop
<1> QED
  BY <1>1, <1>3, <1>6, <1>8, <1>9, <1>10, <1>11 DEF TlsInitRead

\* A client without TLS.
LEMMA InitRead ==
  ASSUME NEW sc, Good(sc), InitLen <= Len(ClientWire(sc, FALSE))
  PROVE  /\ Drop(ClientWire(sc, FALSE), InitLen) \in Seq(Item)
         /\ ReaderAt(sc.records, CipherOf(sc), FALSE, 0, Drop(ClientWire(sc, FALSE), InitLen), <<>>, InitLen)
<1>1. PICK C \in Seq(Item), n \in Nat : C = CipherOf(sc) /\ n = InitLen
  BY SpeechIs, InitBytesIs
<1>2. C = ClientWire(sc, FALSE)
  BY <1>1 DEF CipherOf, SpeechOf, Speech, ClientWire
<1>3. n <= Len(C)
  BY <1>1, <1>2
<1>4. Drop(C, n) \in Seq(Item)
  BY <1>3, DropIs
<1>5. Holds(C, n, <<>>)
  <2>1. SubSeq(C, n + 1, n) = <<>>
    BY SliceEmpty
  <2>2. n <= n
    OBVIOUS
  <2>3. Holds(C, n, SubSeq(C, n + 1, n))
    BY <1>3, <2>2, HoldsIs
  <2> QED
    BY <2>1, <2>3
<1> QED
  BY <1>1, <1>2, <1>4, <1>5 DEF ReaderAt

-----------------------------------------------------------------------------
(***************************************************************************)
(* The types of the state, and what the dials account for.                 *)
(***************************************************************************)
AnyScript == (UNION {Scripts[s] : s \in Sessions}) \cup {Blank}

\* Only for a method that has an address to dial is one kept to try, and nothing
\* of a session that has ended.
MethodTypes ==
  /\ methods \in [Sessions -> Seq({"worker", "cf", "tcp"})]
  /\ \A s \in Sessions : \A i \in 1 .. Len(methods[s]) :
       methods[s][i] = "tcp" => script[s].dst # None
  /\ \A s \in Sessions : at[s] \in {"free", "closing"} => methods[s] = <<>>

PlaceTypes ==
  /\ cfg \in Configs
  /\ at \in [Sessions -> Places]
  /\ script \in [Sessions -> AnyScript]
  /\ client \in [Sessions -> BOOLEAN]
  /\ upstream \in [Sessions -> UpstreamStates]
  /\ wsClosed \in [Sessions -> BOOLEAN]
  /\ relays \in [Sessions -> SUBSET {"up", "down"}]

BackoffTypes ==
  /\ connecting \in SUBSET Dsts
  /\ failures \in [Dsts -> 0 .. (BackoffSteps + 1)]
  /\ retryIn \in [Dsts -> 0 .. BackoffMax]

\* Who dials knows what.
DialTypes == \A s \in Sessions : at[s] = "tcp" => script[s].dst \in Dsts

\* The types that are inductive.
Types == PlaceTypes /\ MethodTypes /\ BackoffTypes /\ DialTypes

\* What the dials account for.
Dialling == {s \in Sessions : at[s] = "tcp"}
DialInv ==
  /\ connecting = {script[s].dst : s \in Dialling}
  /\ \A s, t \in Dialling : script[s].dst = script[t].dst => s = t
  /\ \A s \in Dialling : retryIn[script[s].dst] = 0

SocketInv == \A s \in Sessions : at[s] \in {"free", "closing"} => upstream[s] # "open"

-----------------------------------------------------------------------------
(***************************************************************************)
(* Helpers.                                                                *)
(***************************************************************************)
\* A delay is never longer than the limit.
LEMMA TcpDelayType ==
  ASSUME NEW n \in 1 .. (BackoffSteps + 1)
  PROVE  TcpDelay(n) \in 0 .. BackoffMax
<1>0. BackoffSteps \in Nat /\ BackoffInitial \in Nat /\ BackoffMax \in Nat
  BY SessionAssumption
<1>1. PICK a \in Int, b \in Int : a = n - 1 /\ b = BackoffSteps /\ 0 <= a /\ 0 <= b
  BY <1>0
<1> DEFINE k == Min({a, b})
<1>2. k \in 0 .. BackoffSteps
  <2>1. k \in {a, b} /\ k <= b
    BY MinOfTwo
  <2> QED
    BY <1>1, <2>1
<1> HIDE DEF k
<1> DEFINE m == BackoffInitial * 2 ^ k
<1>3. m \in Nat
  BY <1>0, <1>2, LadderAssumption
<1>4. TcpDelay(n) = Min({m, BackoffMax})
  BY <1>1 DEF TcpDelay, k
<1> HIDE DEF m
<1>5. Min({m, BackoffMax}) \in {m, BackoffMax} /\ Min({m, BackoffMax}) <= BackoffMax
  BY <1>0, <1>3, MinOfTwo
<1> QED
  BY <1>0, <1>3, <1>4, <1>5

LEMMA FailuresType ==
  ASSUME BackoffTypes, NEW d \in Dsts
  PROVE  Min({failures[d] + 1, BackoffSteps + 1}) \in 1 .. (BackoffSteps + 1)
<1>1. BackoffSteps \in Nat /\ failures[d] \in 0 .. (BackoffSteps + 1)
  BY SessionAssumption DEF BackoffTypes
<1>2. PICK a \in Int, b \in Int : a = failures[d] + 1 /\ b = BackoffSteps + 1 /\ 1 <= a /\ 1 <= b
  BY <1>1
<1>3. Min({a, b}) \in {a, b} /\ Min({a, b}) <= b
  BY MinOfTwo
<1> QED
  BY <1>2, <1>3

\* No frames are no messages.
LEMMA NothingConveyed == Conveys(<<>>, <<>>)
<1> DEFINE ends == [i \in 0 .. 0 |-> 0]
<1>1. Len(<<>>) = 0
  OBVIOUS
<1>2. ends \in [0 .. 0 -> 0 .. 0] /\ ends[0] = 0
  OBVIOUS
<1>3. 1 .. 0 = {} /\ (0 + 1) .. 0 = {}
  OBVIOUS
<1> HIDE DEF ends
<1> QED
  BY <1>1, <1>2, <1>3 DEF Conveys

LEMMA BlankGood == Good(Blank)
<1>1. ScriptType(Blank)
  BY DEF ScriptType, Blank
<1>2. /\ Blank.whole = 0 /\ Blank.records = <<>> /\ Blank.frames = <<>> /\ Blank.messages = <<>>
      /\ 1 .. 0 = {} /\ DOMAIN <<>> = {}
  BY DEF Blank
<1>3. WellFormed(Blank)
  BY <1>2, NothingConveyed DEF WellFormed
<1> QED
  BY <1>1, <1>3 DEF Good

\* Every script is one that ScriptAssumption is about, and so is none at all.
LEMMA ScriptsGood == \A c \in AnyScript : Good(c)
<1> SUFFICES ASSUME NEW c \in AnyScript PROVE Good(c)
  OBVIOUS
<1>2. CASE c = Blank
  BY <1>2, BlankGood
<1>3. CASE c # Blank
  <2>1. \E S \in {Scripts[s] : s \in Sessions} : c \in S
    BY <1>3 DEF AnyScript
  <2>2. PICK s \in Sessions : c \in Scripts[s]
    BY <2>1
  <2> QED
    BY <2>2, ScriptAssumption DEF Good
<1> QED
  BY <1>2, <1>3

LEMMA ScriptsTyped == \A c \in AnyScript : ScriptType(c)
BY ScriptsGood DEF Good

LEMMA TypesGiveTypeOK == Types => TypeOK
BY ScriptsTyped DEF Types, PlaceTypes, BackoffTypes, TypeOK

\* Methods ends with tcp only if there is an address.
LEMMA MethodsType ==
  ASSUME NEW s \in Sessions
  PROVE  /\ Methods(s) \in Seq({"worker", "cf", "tcp"})
         /\ \A i \in 1 .. Len(Methods(s)) : Methods(s)[i] = "tcp" => script[s].dst # None
<1> DEFINE w == IF cfg.worker /\ script[s].dst # None THEN <<"worker">> ELSE <<>>
           f == IF cfg.cf /\ ~script[s].test THEN <<"cf">> ELSE <<>>
           t == IF script[s].dst # None THEN <<"tcp">> ELSE <<>>
<1>1. w \in Seq({"worker", "cf", "tcp"}) /\ \A i \in 1 .. Len(w) : w[i] # "tcp"
  <2>1. w = <<>> \/ w = <<"worker">>
    OBVIOUS
  <2> HIDE DEF w
  <2>2. CASE w = <<>>
    BY <2>2
  <2>3. CASE w = <<"worker">>
    BY <2>3
  <2> QED
    BY <2>1, <2>2, <2>3
<1>2. f \in Seq({"worker", "cf", "tcp"}) /\ \A i \in 1 .. Len(f) : f[i] # "tcp"
  <2>1. f = <<>> \/ f = <<"cf">>
    OBVIOUS
  <2> HIDE DEF f
  <2>2. CASE f = <<>>
    BY <2>2
  <2>3. CASE f = <<"cf">>
    BY <2>3
  <2> QED
    BY <2>1, <2>2, <2>3
<1>3. t \in Seq({"worker", "cf", "tcp"}) /\ (Len(t) > 0 => script[s].dst # None)
  <2>1. (t = <<>>) \/ (t = <<"tcp">> /\ script[s].dst # None)
    OBVIOUS
  <2> HIDE DEF t
  <2>2. CASE t = <<>>
    BY <2>2
  <2>3. CASE t = <<"tcp">> /\ script[s].dst # None
    BY <2>3
  <2> QED
    BY <2>1, <2>2, <2>3
<1>4. Methods(s) = w \o f \o t
  BY DEF Methods
<1> HIDE DEF w, f, t
<1> DEFINE v == w \o f
<1>5. v \in Seq({"worker", "cf", "tcp"}) /\ \A i \in 1 .. Len(v) : v[i] # "tcp"
  BY <1>1, <1>2
<1>6. Methods(s) = v \o t
  BY <1>4
<1> HIDE DEF v
<1>7. v \o t \in Seq({"worker", "cf", "tcp"})
      /\ \A i \in 1 .. Len(v \o t) : (v \o t)[i] = "tcp" => Len(t) > 0
  BY <1>3, <1>5
<1> QED
  BY <1>3, <1>6, <1>7

\* What is left to try once the first method is tried.
LEMMA DropType ==
  ASSUME NEW T, NEW q \in Seq(T), q # <<>>
  PROVE  /\ Drop(q, 1) \in Seq(T)
         /\ \A i \in 1 .. Len(Drop(q, 1)) : i + 1 \in 1 .. Len(q) /\ Drop(q, 1)[i] = q[i + 1]
BY DEF Drop

-----------------------------------------------------------------------------
(***************************************************************************)
(* Types, and what a session leaves behind.                                *)
(***************************************************************************)
SessionTypes == PlaceTypes /\ MethodTypes /\ DialTypes

LEMMA LeavesTypes ==
  ASSUME SessionTypes, NEW s \in Sessions, NEW up \in UpstreamStates, Leaves(s, up), UNCHANGED cfg
  PROVE  SessionTypes'
<1>0. "closing" \in Places /\ Blank \in AnyScript /\ <<>> \in Seq({"worker", "cf", "tcp"}) /\ Len(<<>>) = 0
  BY DEF Places, AnyScript
<1>1. /\ at' = [at EXCEPT ![s] = "closing"]
      /\ script' = [script EXCEPT ![s] = Blank]
      /\ client' = [client EXCEPT ![s] = FALSE]
      /\ upstream' = [upstream EXCEPT ![s] = up]
      /\ wsClosed' = [wsClosed EXCEPT ![s] = FALSE]
      /\ methods' = [methods EXCEPT ![s] = <<>>]
      /\ relays' = [relays EXCEPT ![s] = {}]
  BY DEF Leaves, Goes
<1>2. PlaceTypes'
  BY <1>0, <1>1 DEF SessionTypes, PlaceTypes
<1>3. MethodTypes'
  BY <1>0, <1>1 DEF SessionTypes, PlaceTypes, MethodTypes
<1>4. DialTypes'
  BY <1>1 DEF SessionTypes, PlaceTypes, DialTypes
<1> QED
  BY <1>2, <1>3, <1>4 DEF SessionTypes

\* A step of a session that stays, and neither drops its script nor gets another.
LEMMA StaysTypes ==
  ASSUME SessionTypes, NEW s \in Sessions, NEW place \in Places \ {"free", "closing", "tcp"},
         at' = [at EXCEPT ![s] = place], UNCHANGED <<cfg, script, methods>>,
         client' \in [Sessions -> BOOLEAN],
         upstream' \in [Sessions -> UpstreamStates],
         wsClosed' \in [Sessions -> BOOLEAN],
         relays' \in [Sessions -> SUBSET {"up", "down"}]
  PROVE  SessionTypes'
<1>1. PlaceTypes'
  BY DEF SessionTypes, PlaceTypes
<1>2. MethodTypes'
  BY DEF SessionTypes, PlaceTypes, MethodTypes
<1>3. DialTypes'
  BY DEF SessionTypes, PlaceTypes, DialTypes
<1> QED
  BY <1>1, <1>2, <1>3 DEF SessionTypes

\* The same where the session goes nowhere.
LEMMA RestsTypes ==
  ASSUME SessionTypes, UNCHANGED <<cfg, at, script, methods>>,
         client' \in [Sessions -> BOOLEAN],
         upstream' \in [Sessions -> UpstreamStates],
         wsClosed' \in [Sessions -> BOOLEAN],
         relays' \in [Sessions -> SUBSET {"up", "down"}]
  PROVE  SessionTypes'
BY DEF SessionTypes, PlaceTypes, MethodTypes, DialTypes

LEMMA HandshakesTypes ==
  ASSUME SessionTypes, NEW s \in Sessions, Handshakes(s)
  PROVE  SessionTypes'
<1>0. PlaceTypes /\ MethodTypes /\ DialTypes
  BY DEF SessionTypes
<1>1. /\ client \in [Sessions -> BOOLEAN] /\ upstream \in [Sessions -> UpstreamStates]
      /\ wsClosed \in [Sessions -> BOOLEAN] /\ relays \in [Sessions -> SUBSET {"up", "down"}]
  BY <1>0 DEF PlaceTypes
<1>2. {"none", "closed", "open"} \subseteq UpstreamStates
  BY DEF UpstreamStates
<1>3. {"line", "first", "hello", "tlsinit", "init", "maskdial", "draining", "masked", "pool"}
        \subseteq Places \ {"free", "closing", "tcp"}
  BY DEF Places, Handshake
<1>4. CASE Accept(s)
  <2>1. PICK c \in Scripts[s] : script' = [script EXCEPT ![s] = c]
    BY <1>4 DEF Accept
  <2>2. PICK place \in {"line", "first"} : at' = [at EXCEPT ![s] = place]
    BY <1>4 DEF Accept, Goes
  <2>3. /\ at[s] = "free"
        /\ client' = [client EXCEPT ![s] = TRUE]
        /\ UNCHANGED <<cfg, upstream, wsClosed, methods, relays>>
    BY <1>4 DEF Accept
  <2>4. c \in AnyScript
    BY <2>1 DEF AnyScript
  <2>5. PlaceTypes'
    BY <1>0, <1>3, <2>1, <2>2, <2>3, <2>4 DEF PlaceTypes
  <2>6. MethodTypes'
    BY <1>0, <2>1, <2>2, <2>3 DEF PlaceTypes, MethodTypes
  <2>7. DialTypes'
    BY <1>0, <2>1, <2>2 DEF PlaceTypes, DialTypes
  <2> QED
    BY <2>5, <2>6, <2>7 DEF SessionTypes
<1>5. CASE ReadLine(s)
  BY <1>1, <1>3, <1>5, StaysTypes DEF ReadLine, Goes, control
<1>6. CASE ReadFirst(s)
  <2>1. CASE Leaves(s, "none")
    BY <1>2, <1>6, <2>1, LeavesTypes DEF ReadFirst
  <2>2. CASE \E place \in {"init", "hello", "maskdial"} : Goes(s, place) /\ UNCHANGED <<script, control>>
    <3>1. PICK place \in {"init", "hello", "maskdial"} : Goes(s, place) /\ UNCHANGED <<script, control>>
      BY <2>2
    <3> QED
      BY <1>1, <1>3, <1>6, <3>1, StaysTypes DEF ReadFirst, Goes, control
  <2> QED
    BY <1>6, <2>1, <2>2 DEF ReadFirst
<1>7. CASE SendHello(s)
  BY <1>1, <1>3, <1>7, StaysTypes DEF SendHello, Goes, control
<1>8. CASE \E place \in {"pool", "draining"} : Goes(s, place) /\ UNCHANGED <<cfg, script, control>>
  <2>1. PICK place \in {"pool", "draining"} : Goes(s, place) /\ UNCHANGED <<cfg, script, control>>
    BY <1>8
  <2> QED
    BY <1>1, <1>3, <2>1, StaysTypes DEF Goes, control
<1>9. CASE ReadInit(s)
  BY <1>8, <1>9 DEF ReadInit, TryHandshake
<1>10. CASE ReadTlsInit(s)
  <2>1. CASE Leaves(s, "none")
    BY <1>2, <1>10, <2>1, LeavesTypes DEF ReadTlsInit
  <2>2. CASE UNCHANGED <<cfg, at, script, control>>
    BY <1>1, <2>2, RestsTypes DEF control
  <2> QED
    BY <1>8, <1>10, <2>1, <2>2 DEF ReadTlsInit, TryHandshake
<1>11. CASE HandshakeEnds(s)
  BY <1>2, <1>11, LeavesTypes DEF HandshakeEnds
<1>12. CASE MaskDials(s)
  <2>1. CASE Leaves(s, "none")
    BY <1>2, <1>12, <2>1, LeavesTypes DEF MaskDials
  <2>2. CASE /\ Goes(s, "masked")
             /\ upstream' = [upstream EXCEPT ![s] = "open"]
             /\ relays' = [relays EXCEPT ![s] = {"up", "down"}]
             /\ UNCHANGED <<script, client, wsClosed, methods, conn>>
    <3>1. upstream' \in [Sessions -> UpstreamStates] /\ relays' \in [Sessions -> SUBSET {"up", "down"}]
      BY <1>1, <1>2, <2>2
    <3> QED
      BY <1>1, <1>3, <1>12, <2>2, <3>1, StaysTypes DEF MaskDials, Goes
  <2> QED
    BY <1>12, <2>1, <2>2 DEF MaskDials
<1>13. CASE \E r \in {"up", "down"} : MaskRelayEnds(s, r)
  <2>1. PICK r \in {"up", "down"} : MaskRelayEnds(s, r)
    BY <1>13
  <2>2. CASE Leaves(s, "closed")
    BY <1>2, <2>1, <2>2, LeavesTypes DEF MaskRelayEnds
  <2>3. CASE /\ relays' = [relays EXCEPT ![s] = @ \ {r}]
             /\ client' = [client EXCEPT ![s] = r = "up"]
             /\ upstream' = [upstream EXCEPT ![s] = IF r = "up" THEN "closed" ELSE "open"]
             /\ UNCHANGED <<at, script, wsClosed, methods, conn>>
    <3>1. relays' \in [Sessions -> SUBSET {"up", "down"}]
      BY <1>1, <2>3
    <3>2. client' \in [Sessions -> BOOLEAN]
      BY <1>1, <2>3
    <3>3. upstream' \in [Sessions -> UpstreamStates]
      BY <1>1, <1>2, <2>3
    <3> QED
      BY <1>1, <2>1, <2>3, <3>1, <3>2, <3>3, RestsTypes DEF MaskRelayEnds
  <2> QED
    BY <2>1, <2>2, <2>3 DEF MaskRelayEnds
<1> QED
  BY <1>4, <1>5, <1>6, <1>7, <1>9, <1>10, <1>11, <1>12, <1>13 DEF Handshakes

\* Where do_fallback goes from here: out, or to a method; to tcp only if it may.
LEMMA TriesCases ==
  ASSUME NEW s \in Sessions, NEW todo \in Seq({"worker", "cf", "tcp"}), Tries(s, todo)
  PROVE  /\ UNCHANGED <<cfg, failures, retryIn>>
         /\ \/ Leaves(s, "none") /\ UNCHANGED connecting
            \/ /\ todo # <<>>
               /\ methods' = [methods EXCEPT ![s] = Drop(todo, 1)]
               /\ UNCHANGED <<script, client, upstream, wsClosed, relays>>
               /\ \/ /\ \E place \in {"worker", "h2open", "front"} : Goes(s, place)
                     /\ UNCHANGED connecting
                  \/ /\ todo[1] = "tcp" /\ ~TcpBlocked(script[s].dst)
                     /\ Goes(s, "tcp")
                     /\ connecting' = connecting \cup {script[s].dst}
<1>1. CASE todo = <<>>
  BY <1>1 DEF Tries
<1>2. CASE todo # <<>> /\ todo[1] = "worker"
  BY <1>2 DEF Tries
<1>3. CASE todo # <<>> /\ todo[1] = "cf"
  BY <1>3 DEF Tries
<1>4. CASE todo # <<>> /\ todo[1] = "tcp"
  BY <1>4 DEF Tries
<1>5. todo # <<>> => todo[1] \in {"worker", "cf", "tcp"}
  OBVIOUS
<1> QED
  BY <1>1, <1>2, <1>3, <1>4, <1>5

LEMMA AddressType ==
  ASSUME SessionTypes, NEW s \in Sessions
  PROVE  script[s].dst \in Dsts \cup {None}
<1>1. script[s] \in AnyScript
  BY DEF SessionTypes, PlaceTypes
<1> QED
  BY <1>1, ScriptsTyped DEF ScriptType

LEMMA TriesTypes ==
  ASSUME SessionTypes, connecting \in SUBSET Dsts,
         NEW s \in Sessions, NEW todo \in Seq({"worker", "cf", "tcp"}), Tries(s, todo),
         \A i \in 1 .. Len(todo) : todo[i] = "tcp" => script[s].dst # None
  PROVE  SessionTypes' /\ connecting' \in SUBSET Dsts
<1>0. PlaceTypes /\ MethodTypes /\ DialTypes
  BY DEF SessionTypes
<1>1. CASE Leaves(s, "none") /\ UNCHANGED <<cfg, connecting>>
  BY <1>1, LeavesTypes DEF UpstreamStates
<1>2. CASE /\ todo # <<>>
           /\ methods' = [methods EXCEPT ![s] = Drop(todo, 1)]
           /\ UNCHANGED <<cfg, script, client, upstream, wsClosed, relays>>
           /\ \/ /\ \E place \in {"worker", "h2open", "front"} : Goes(s, place)
                 /\ UNCHANGED connecting
              \/ /\ todo[1] = "tcp" /\ Goes(s, "tcp")
                 /\ connecting' = connecting \cup {script[s].dst}
  <2>1. PICK place \in {"worker", "h2open", "front", "tcp"} :
          /\ at' = [at EXCEPT ![s] = place]
          /\ place = "tcp" => todo[1] = "tcp"
          /\ place # "tcp" => UNCHANGED connecting
          /\ place = "tcp" => connecting' = connecting \cup {script[s].dst}
    BY <1>2 DEF Goes
  <2>2. place \in Places
    BY DEF Places, Fallback
  <2>3. place = "tcp" => script[s].dst \in Dsts
    <3>1. 1 \in 1 .. Len(todo)
      BY <1>2
    <3> QED
      BY <2>1, <3>1, AddressType
  <2>4. PlaceTypes'
    BY <1>0, <1>2, <2>1, <2>2 DEF PlaceTypes
  <2>5. MethodTypes'
    <3> DEFINE rest == Drop(todo, 1)
    <3>1. rest \in Seq({"worker", "cf", "tcp"})
          /\ \A i \in 1 .. Len(rest) : rest[i] = "tcp" => script[s].dst # None
      BY <1>2, DropType
    <3>2. methods' = [methods EXCEPT ![s] = rest]
      BY <1>2
    <3> HIDE DEF rest
    <3>3. methods' \in [Sessions -> Seq({"worker", "cf", "tcp"})]
      BY <1>0, <3>1, <3>2 DEF MethodTypes
    <3>4. \A r \in Sessions : \A i \in 1 .. Len(methods'[r]) :
            methods'[r][i] = "tcp" => script'[r].dst # None
      BY <1>0, <1>2, <3>1, <3>2 DEF MethodTypes
    <3>5. \A r \in Sessions : at'[r] \in {"free", "closing"} => methods'[r] = <<>>
      BY <1>0, <2>1, <3>2 DEF PlaceTypes, MethodTypes
    <3> QED
      BY <3>3, <3>4, <3>5 DEF MethodTypes
  <2>6. DialTypes'
    BY <1>0, <1>2, <2>1, <2>3 DEF PlaceTypes, DialTypes
  <2> QED
    BY <2>1, <2>3, <2>4, <2>5, <2>6 DEF SessionTypes
<1> QED
  BY <1>1, <1>2, TriesCases

LEMMA FallsTypes ==
  ASSUME Types, NEW s \in Sessions, Falls(s)
  PROVE  Types'
<1>0. SessionTypes /\ PlaceTypes /\ MethodTypes /\ DialTypes /\ BackoffTypes
  BY DEF Types, SessionTypes
<1>1. /\ client \in [Sessions -> BOOLEAN] /\ upstream \in [Sessions -> UpstreamStates]
      /\ wsClosed \in [Sessions -> BOOLEAN] /\ relays \in [Sessions -> SUBSET {"up", "down"}]
  BY <1>0 DEF PlaceTypes
<1>2. {"none", "open", "lost"} \subseteq UpstreamStates
  BY DEF UpstreamStates
<1>3. {"worker", "front", "send", "h2", "ws", "tcpbridge"} \subseteq Places \ {"free", "closing", "tcp"}
  BY DEF Places, Fallback, Bridges
<1>4. CASE PoolMiss(s)
  <2>1. SessionTypes' /\ connecting' \in SUBSET Dsts
    BY <1>0, <1>4, MethodsType, TriesTypes DEF PoolMiss, BackoffTypes
  <2>2. UNCHANGED <<failures, retryIn>>
    BY <1>4 DEF PoolMiss, Tries
  <2> QED
    BY <1>0, <2>1, <2>2 DEF Types, SessionTypes, BackoffTypes
<1>5. CASE MethodFails(s)
  <2>1. SessionTypes' /\ connecting' \in SUBSET Dsts
    <3>1. methods[s] \in Seq({"worker", "cf", "tcp"})
          /\ \A i \in 1 .. Len(methods[s]) : methods[s][i] = "tcp" => script[s].dst # None
      BY <1>0 DEF MethodTypes
    <3> QED
      BY <1>0, <1>5, <3>1, TriesTypes DEF MethodFails, BackoffTypes
  <2>2. UNCHANGED <<failures, retryIn>>
    BY <1>5 DEF MethodFails, Tries
  <2> QED
    BY <1>0, <2>1, <2>2 DEF Types, SessionTypes, BackoffTypes
<1>6. CASE SessionTypes' /\ UNCHANGED backoff
  BY <1>0, <1>6 DEF Types, SessionTypes, BackoffTypes, backoff
<1>7. CASE Dials(s) \/ UpgradeFails(s)
  <2>1. upstream' \in [Sessions -> UpstreamStates]
    BY <1>1, <1>2, <1>7 DEF Dials, UpgradeFails
  <2>2. SessionTypes'
    BY <1>0, <1>1, <1>7, <2>1, RestsTypes DEF Dials, UpgradeFails
  <2> QED
    BY <1>6, <1>7, <2>2 DEF Dials, UpgradeFails, backoff
<1>8. CASE Connects(s)
  <2>1. upstream' \in [Sessions -> UpstreamStates]
    BY <1>1, <1>2, <1>8 DEF Connects
  <2>2. SessionTypes'
    BY <1>0, <1>1, <1>3, <1>8, <2>1, StaysTypes DEF Connects, Goes
  <2> QED
    BY <1>6, <1>8, <2>2 DEF Connects, backoff
<1>9. CASE H2Opens(s)
  <2>1. CASE Leaves(s, "none")
    BY <1>0, <1>2, <1>6, <1>9, <2>1, LeavesTypes DEF H2Opens, backoff
  <2>2. CASE (\E place \in {"h2", "front"} : Goes(s, place)) /\ UNCHANGED <<script, control, conn>>
    <3>1. PICK place \in {"h2", "front"} : Goes(s, place)
      BY <2>2
    <3>2. SessionTypes'
      BY <1>0, <1>1, <1>3, <1>9, <2>2, <3>1, StaysTypes DEF H2Opens, Goes, control
    <3> QED
      BY <1>6, <1>9, <3>2 DEF H2Opens, backoff
  <2> QED
    BY <1>9, <2>1, <2>2 DEF H2Opens
<1>10. CASE H2Ends(s) \/ SendInitFails(s)
  <2>1. SessionTypes'
    BY <1>0, <1>2, <1>10, LeavesTypes DEF H2Ends, SendInitFails
  <2> QED
    BY <1>6, <1>10, <2>1 DEF H2Ends, SendInitFails, backoff
<1>11. CASE SendInit(s)
  <2>1. relays' \in [Sessions -> SUBSET {"up", "down"}]
    BY <1>1, <1>11 DEF SendInit
  <2>2. SessionTypes'
    BY <1>0, <1>1, <1>3, <1>11, <2>1, StaysTypes DEF SendInit, Goes
  <2> QED
    BY <1>6, <1>11, <2>2 DEF SendInit, backoff
<1>12. CASE TcpConnects(s)
  <2>1. relays' \in [Sessions -> SUBSET {"up", "down"}] /\ upstream' \in [Sessions -> UpstreamStates]
    BY <1>1, <1>2, <1>12 DEF TcpConnects
  <2>2. SessionTypes'
    BY <1>0, <1>1, <1>3, <1>12, <2>1, StaysTypes DEF TcpConnects, Goes
  <2>3. BackoffTypes'
    <3>1. PICK e : /\ connecting' = connecting \ {e}
                   /\ failures' = [failures EXCEPT ![e] = 0]
                   /\ retryIn' = [retryIn EXCEPT ![e] = 0]
      BY <1>12 DEF TcpConnects
    <3>2. 0 \in 0 .. (BackoffSteps + 1) /\ 0 \in 0 .. BackoffMax
      BY SessionAssumption
    <3> QED
      BY <1>0, <3>1, <3>2 DEF BackoffTypes
  <2> QED
    BY <2>2, <2>3 DEF Types, SessionTypes
<1>13. CASE TcpFails(s)
  <2>1. SessionTypes'
    BY <1>0, <1>2, <1>13, LeavesTypes DEF TcpFails
  <2> DEFINE e == script[s].dst
             n == Min({failures[e] + 1, BackoffSteps + 1})
  <2>2. e \in Dsts
    BY <1>0, <1>13 DEF TcpFails, DialTypes
  <2>3. n \in 1 .. (BackoffSteps + 1)
    BY <1>0, <2>2, FailuresType
  <2>4. /\ connecting' = connecting \ {e}
        /\ failures' = [failures EXCEPT ![e] = n]
        /\ retryIn' = [retryIn EXCEPT ![e] = TcpDelay(n)]
    BY <1>13 DEF TcpFails
  <2> HIDE DEF e, n
  <2>5. TcpDelay(n) \in 0 .. BackoffMax
    BY <2>3, TcpDelayType
  <2>6. n \in 0 .. (BackoffSteps + 1)
    BY <2>3
  <2>7. BackoffTypes'
    BY <1>0, <2>4, <2>5, <2>6 DEF BackoffTypes
  <2> QED
    BY <2>1, <2>7 DEF Types, SessionTypes
<1> QED
  BY <1>4, <1>5, <1>7, <1>8, <1>9, <1>10, <1>11, <1>12, <1>13 DEF Falls

LEMMA RelaysTypes ==
  ASSUME SessionTypes, NEW s \in Sessions, Relays(s)
  PROVE  SessionTypes'
<1>1. /\ client \in [Sessions -> BOOLEAN] /\ upstream \in [Sessions -> UpstreamStates]
      /\ wsClosed \in [Sessions -> BOOLEAN] /\ relays \in [Sessions -> SUBSET {"up", "down"}]
  BY DEF SessionTypes, PlaceTypes
<1>2. UNCHANGED <<cfg, at, script, client, upstream, methods>>
  BY DEF Relays, Upload, UploadEnds, RelayBreaks, Download, DownloadTcp, control
<1>3. relays' = relays \/ \E r \in {"up", "down"} : RelayEnds(s, r)
  BY DEF Relays, Upload, UploadEnds, RelayBreaks, Download, DownloadTcp, SendParts, control
<1>4. wsClosed' = wsClosed \/ wsClosed' = [wsClosed EXCEPT ![s] = TRUE]
  BY DEF Relays, Upload, UploadEnds, RelayBreaks, Download, DownloadTcp, control
<1>5. relays' \in [Sessions -> SUBSET {"up", "down"}]
  BY <1>1, <1>3 DEF RelayEnds
<1>6. wsClosed' \in [Sessions -> BOOLEAN]
  BY <1>1, <1>4
<1> QED
  BY <1>1, <1>2, <1>5, <1>6, RestsTypes

LEMMA EndsTypes ==
  ASSUME Types, NEW s \in Sessions, Ends(s)
  PROVE  Types'
<1>0. SessionTypes /\ PlaceTypes /\ MethodTypes /\ DialTypes /\ BackoffTypes
  BY DEF Types, SessionTypes
<1>1. /\ client \in [Sessions -> BOOLEAN] /\ upstream \in [Sessions -> UpstreamStates]
      /\ wsClosed \in [Sessions -> BOOLEAN] /\ relays \in [Sessions -> SUBSET {"up", "down"}]
  BY <1>0 DEF PlaceTypes
<1>2. {"none", "closed", "lost"} \subseteq UpstreamStates
  BY DEF UpstreamStates
<1>3. CASE SessionTypes' /\ connecting' \subseteq connecting /\ UNCHANGED <<failures, retryIn>>
  BY <1>0, <1>3 DEF Types, SessionTypes, BackoffTypes
<1>4. ASSUME UNCHANGED cfg, \E up \in {"none", "closed", "lost"} : Leaves(s, up)
      PROVE  SessionTypes'
  BY <1>0, <1>2, <1>4, LeavesTypes
<1>5. ASSUME /\ Goes(s, "unbridge")
             /\ relays' = [relays EXCEPT ![s] = {}]
             /\ UNCHANGED <<cfg, script, client, upstream, wsClosed, methods>>
      PROVE  SessionTypes'
  <2>1. "unbridge" \in Places \ {"free", "closing", "tcp"}
    BY DEF Places
  <2>2. relays' \in [Sessions -> SUBSET {"up", "down"}]
    BY <1>1, <1>5
  <2> QED
    BY <1>0, <1>1, <1>5, <2>1, <2>2, StaysTypes DEF Goes
<1>10. ASSUME LetsClientGo(s), UNCHANGED cfg PROVE SessionTypes'
  <2>1. /\ relays' \in [Sessions -> SUBSET {"up", "down"}] /\ client' \in [Sessions -> BOOLEAN]
        /\ UNCHANGED <<cfg, at, script, upstream, wsClosed, methods>>
    BY <1>1, <1>10 DEF LetsClientGo
  <2> QED
    BY <1>0, <1>1, <2>1, RestsTypes
<1>6. CASE EndRelays(s)
  <2>1. SessionTypes'
    BY <1>5, <1>6, <1>10 DEF EndRelays, LetsServerGo
  <2> QED
    BY <1>3, <1>6, <2>1 DEF EndRelays, backoff
<1>7. CASE Unbridge(s) \/ UnbridgeTcp(s)
  <2>1. SessionTypes'
    BY <1>4, <1>7 DEF Unbridge, UnbridgeTcp
  <2> QED
    BY <1>3, <1>7, <2>1 DEF Unbridge, UnbridgeTcp, backoff
<1>8. CASE Close(s)
  <2>1. /\ at[s] = "closing"
        /\ at' = [at EXCEPT ![s] = "free"]
        /\ upstream' = [upstream EXCEPT ![s] = "none"]
        /\ UNCHANGED <<cfg, script, client, wsClosed, methods, relays, backoff>>
    BY <1>8 DEF Close, Goes
  <2>2. "free" \in Places
    BY DEF Places
  <2>3. PlaceTypes'
    BY <1>0, <1>2, <2>1, <2>2 DEF PlaceTypes
  <2>4. MethodTypes' /\ DialTypes'
    BY <1>0, <2>1 DEF PlaceTypes, MethodTypes, DialTypes
  <2> QED
    BY <1>3, <2>1, <2>3, <2>4 DEF SessionTypes, backoff
<1>9. CASE Cancel(s)
  <2>1. SessionTypes'
    BY <1>4, <1>5, <1>9, <1>10 DEF Cancel, LetsServerGo
  <2> QED
    BY <1>3, <1>9, <2>1 DEF Cancel
<1> QED
  BY <1>6, <1>7, <1>8, <1>9 DEF Ends

LEMMA InitTypes == Init => Types
<1> SUFFICES ASSUME Init PROVE Types
  OBVIOUS
<1>1. /\ "free" \in Places /\ "none" \in UpstreamStates /\ Blank \in AnyScript
      /\ <<>> \in Seq({"worker", "cf", "tcp"}) /\ Len(<<>>) = 0
  BY DEF Places, UpstreamStates, AnyScript
<1>2. 0 \in 0 .. (BackoffSteps + 1) /\ 0 \in 0 .. BackoffMax
  BY SessionAssumption
<1>3. PlaceTypes
  BY <1>1 DEF Init, PlaceTypes
<1>4. MethodTypes /\ DialTypes
  BY <1>1 DEF Init, MethodTypes, DialTypes
<1>5. BackoffTypes
  BY <1>2 DEF Init, BackoffTypes
<1> QED
  BY <1>3, <1>4, <1>5 DEF Types

LEMMA NextTypes == Types /\ [Next]_vars => Types'
<1> SUFFICES ASSUME Types, [Next]_vars PROVE Types'
  OBVIOUS
<1>0. SessionTypes /\ BackoffTypes
  BY DEF Types, SessionTypes
<1>1. CASE \E s \in Sessions : Handshakes(s)
  <2>1. UNCHANGED backoff
    BY <1>1 DEF Handshakes, Accept, ReadLine, ReadFirst, SendHello, ReadInit, ReadTlsInit,
                HandshakeEnds, MaskDials, MaskRelayEnds
  <2> QED
    BY <1>0, <1>1, <2>1, HandshakesTypes DEF Types, SessionTypes, BackoffTypes, backoff
<1>2. CASE \E s \in Sessions : Falls(s)
  BY <1>2, FallsTypes
<1>3. CASE \E s \in Sessions : Relays(s)
  <2>1. UNCHANGED backoff
    BY <1>3 DEF Relays, Upload, UploadEnds, RelayBreaks, Download, DownloadTcp
  <2> QED
    BY <1>0, <1>3, <2>1, RelaysTypes DEF Types, SessionTypes, BackoffTypes, backoff
<1>4. CASE \E s \in Sessions : Ends(s)
  BY <1>4, EndsTypes
<1>5. CASE Tick
  <2>1. retryIn' \in [Dsts -> 0 .. BackoffMax]
    BY <1>0, <1>5, SessionAssumption DEF Tick, BackoffTypes
  <2>2. SessionTypes'
    BY <1>0, <1>5 DEF Tick, SessionTypes, PlaceTypes, MethodTypes, DialTypes, control
  <2> QED
    BY <1>0, <1>5, <2>1, <2>2 DEF Tick, Types, SessionTypes, BackoffTypes
<1>6. CASE Restart
  <2>1. 0 \in 0 .. (BackoffSteps + 1) /\ 0 \in 0 .. BackoffMax
    BY SessionAssumption
  <2>2. BackoffTypes'
    BY <1>6, <2>1 DEF Restart, BackoffTypes
  <2>3. SessionTypes'
    BY <1>0, <1>6 DEF Restart, SessionTypes, PlaceTypes, MethodTypes, DialTypes, control
  <2> QED
    BY <2>2, <2>3 DEF Types, SessionTypes
<1>7. CASE UNCHANGED vars
  BY <1>7 DEF vars, control, backoff, Types, PlaceTypes, MethodTypes, BackoffTypes, DialTypes
<1> QED
  BY <1>1, <1>2, <1>3, <1>4, <1>5, <1>6, <1>7 DEF Next

-----------------------------------------------------------------------------
(***************************************************************************)
(* The marks of the dials, and the sockets of who has ended.               *)
(***************************************************************************)
SessionInv == DialInv /\ SocketInv

LEMMA QuietDials ==
  ASSUME DialInv, Dialling' = Dialling, \A r \in Dialling : script'[r] = script[r],
         UNCHANGED <<connecting, retryIn>>
  PROVE  DialInv'
<1>1. {script'[r].dst : r \in Dialling'} = {script[r].dst : r \in Dialling}
  OBVIOUS
<1> QED
  BY <1>1 DEF DialInv

\* Nobody else dials what a session dials: its mark is taken off for good.
LEMMA DialEnds ==
  ASSUME Types, DialInv, NEW s \in Dialling, Dialling' = Dialling \ {s},
         \A r \in Dialling \ {s} : script'[r] = script[r],
         connecting' = connecting \ {script[s].dst},
         \A e \in Dsts \ {script[s].dst} : retryIn'[e] = retryIn[e]
  PROVE  DialInv'
<1>1. \A r \in Dialling : script[r].dst \in Dsts
  BY DEF Types, DialTypes, Dialling
<1>2. \A r \in Dialling \ {s} : script[r].dst # script[s].dst
  BY DEF DialInv
<1>3. connecting' = {script'[r].dst : r \in Dialling'}
  BY <1>2 DEF DialInv
<1>4. \A r \in Dialling' : retryIn'[script'[r].dst] = 0
  BY <1>1, <1>2 DEF DialInv
<1>5. \A r, t \in Dialling' : script'[r].dst = script'[t].dst => r = t
  BY DEF DialInv
<1> QED
  BY <1>3, <1>4, <1>5 DEF DialInv

LEMMA DialBegins ==
  ASSUME Types, DialInv, NEW s \in Sessions, Dialling' = Dialling \cup {s},
         ~TcpBlocked(script[s].dst), script[s].dst \in Dsts,
         connecting' = connecting \cup {script[s].dst},
         UNCHANGED <<script, retryIn>>
  PROVE  DialInv'
<1>1. script[s].dst \notin connecting
  BY DEF TcpBlocked
<1>2. retryIn[script[s].dst] = 0
  <2>1. retryIn[script[s].dst] \in 0 .. BackoffMax /\ ~(0 < retryIn[script[s].dst])
    BY DEF TcpBlocked, Types, BackoffTypes
  <2> QED
    BY <2>1, SessionAssumption
<1>3. \A r \in Dialling : script[r].dst # script[s].dst
  BY <1>1 DEF DialInv
<1>4. connecting' = {script'[r].dst : r \in Dialling'}
  BY DEF DialInv
<1>5. \A r, t \in Dialling' : script'[r].dst = script'[t].dst => r = t
  BY <1>3 DEF DialInv
<1>6. \A r \in Dialling' : retryIn'[script'[r].dst] = 0
  BY <1>2 DEF DialInv
<1> QED
  BY <1>4, <1>5, <1>6 DEF DialInv

LEMMA LeavesSockets ==
  ASSUME Types, SocketInv, NEW s \in Sessions, NEW up \in UpstreamStates \ {"open"}, Leaves(s, up)
  PROVE  SocketInv'
BY DEF Types, PlaceTypes, SocketInv, Leaves, Goes

\* The three ways of a session that does not dial: it leaves, it goes on, it
\* stays where it is.
LEMMA LeavesInv ==
  ASSUME Types, SessionInv, NEW s \in Sessions, at[s] # "tcp",
         NEW up \in UpstreamStates \ {"open"}, Leaves(s, up), UNCHANGED <<connecting, retryIn>>
  PROVE  SessionInv'
<1>1. Dialling' = Dialling /\ \A r \in Dialling : script'[r] = script[r]
  BY DEF Types, PlaceTypes, Dialling, Leaves, Goes
<1> QED
  BY <1>1, QuietDials, LeavesSockets DEF SessionInv

LEMMA GoesInv ==
  ASSUME Types, SessionInv, NEW s \in Sessions, at[s] # "tcp",
         NEW place \in Places \ {"tcp", "free", "closing"}, Goes(s, place),
         \A r \in Sessions \ {s} : script'[r] = script[r] /\ upstream'[r] = upstream[r],
         UNCHANGED <<connecting, retryIn>>
  PROVE  SessionInv'
<1>1. Dialling' = Dialling /\ \A r \in Dialling : script'[r] = script[r]
  BY DEF Types, PlaceTypes, Dialling, Goes
<1>2. SocketInv'
  BY DEF SessionInv, SocketInv, Types, PlaceTypes, Goes
<1> QED
  BY <1>1, <1>2, QuietDials DEF SessionInv

LEMMA RestsInv ==
  ASSUME SessionInv, UNCHANGED <<at, script, connecting, retryIn>>,
         \A r \in Sessions : at[r] \in {"free", "closing"} => upstream'[r] = upstream[r]
  PROVE  SessionInv'
<1>1. Dialling' = Dialling
  BY DEF Dialling
<1>2. SocketInv'
  BY DEF SessionInv, SocketInv
<1> QED
  BY <1>1, <1>2, QuietDials DEF SessionInv

LEMMA HandshakesInv ==
  ASSUME Types, SessionInv, NEW s \in Sessions, Handshakes(s)
  PROVE  SessionInv'
<1>0. UNCHANGED <<connecting, retryIn>> /\ at[s] # "tcp"
  BY DEF Handshakes, Accept, ReadLine, ReadFirst, SendHello, ReadInit, ReadTlsInit,
         HandshakeEnds, MaskDials, MaskRelayEnds, Handshake, backoff
<1>1. {"line", "first", "hello", "tlsinit", "init", "maskdial", "draining", "masked", "pool"}
        \subseteq Places \ {"tcp", "free", "closing"}
  BY DEF Places, Handshake
<1>2. CASE \E up \in {"none", "closed"} : Leaves(s, up)
  BY <1>0, <1>2, LeavesInv DEF UpstreamStates
<1>3. CASE /\ UNCHANGED <<at, script>> /\ at[s] \notin {"free", "closing"}
           /\ \A r \in Sessions \ {s} : upstream'[r] = upstream[r]
  BY <1>0, <1>3, RestsInv
<1>4. CASE /\ \E place \in {"line", "first", "hello", "tlsinit", "init", "maskdial",
                            "draining", "masked", "pool"} : Goes(s, place)
           /\ \A r \in Sessions \ {s} : script'[r] = script[r] /\ upstream'[r] = upstream[r]
  BY <1>0, <1>1, <1>4, GoesInv
<1>5. CASE Accept(s)
  BY <1>4, <1>5 DEF Accept, Types, PlaceTypes
<1>6. CASE ReadLine(s) \/ ReadFirst(s) \/ SendHello(s)
  BY <1>2, <1>4, <1>6 DEF ReadLine, ReadFirst, SendHello, control
<1>7. CASE ReadInit(s)
  BY <1>4, <1>7 DEF ReadInit, TryHandshake, control
<1>8. CASE ReadTlsInit(s)
  BY <1>2, <1>3, <1>4, <1>8 DEF ReadTlsInit, TryHandshake, control
<1>9. CASE HandshakeEnds(s)
  BY <1>2, <1>9 DEF HandshakeEnds
<1>10. CASE MaskDials(s)
  BY <1>2, <1>4, <1>10 DEF MaskDials, Types, PlaceTypes
<1>11. CASE \E r \in {"up", "down"} : MaskRelayEnds(s, r)
  BY <1>2, <1>3, <1>11 DEF MaskRelayEnds, Types, PlaceTypes
<1> QED
  BY <1>5, <1>6, <1>7, <1>8, <1>9, <1>10, <1>11 DEF Handshakes

LEMMA TriesInv ==
  ASSUME Types, SessionInv, NEW s \in Sessions, at[s] # "tcp",
         NEW todo \in Seq({"worker", "cf", "tcp"}), Tries(s, todo),
         \A i \in 1 .. Len(todo) : todo[i] = "tcp" => script[s].dst # None
  PROVE  SessionInv'
<1>1. CASE Leaves(s, "none") /\ UNCHANGED <<connecting, retryIn>>
  BY <1>1, LeavesInv DEF UpstreamStates
<1>2. CASE /\ \E place \in {"worker", "h2open", "front"} : Goes(s, place)
           /\ UNCHANGED <<script, upstream, connecting, retryIn>>
  <2>1. {"worker", "h2open", "front"} \subseteq Places \ {"tcp", "free", "closing"}
    BY DEF Places, Fallback
  <2> QED
    BY <1>2, <2>1, GoesInv
<1>3. CASE /\ todo # <<>> /\ todo[1] = "tcp" /\ ~TcpBlocked(script[s].dst)
           /\ Goes(s, "tcp")
           /\ connecting' = connecting \cup {script[s].dst}
           /\ UNCHANGED <<script, upstream, retryIn>>
  <2>1. 1 \in 1 .. Len(todo)
    BY <1>3
  <2>2. script[s].dst \in Dsts
    BY <1>3, <2>1, AddressType DEF Types, SessionTypes
  <2>3. Dialling' = Dialling \cup {s}
    BY <1>3 DEF Types, PlaceTypes, Dialling, Goes
  <2>4. DialInv'
    BY <1>3, <2>2, <2>3, DialBegins DEF SessionInv
  <2>5. SocketInv'
    BY <1>3 DEF SessionInv, SocketInv, Types, PlaceTypes, Goes
  <2> QED
    BY <2>4, <2>5 DEF SessionInv
<1> QED
  BY <1>1, <1>2, <1>3, TriesCases

LEMMA FallsInv ==
  ASSUME Types, SessionInv, NEW s \in Sessions, Falls(s)
  PROVE  SessionInv'
<1>0. upstream \in [Sessions -> UpstreamStates] /\ at \in [Sessions -> Places]
  BY DEF Types, PlaceTypes
<1>1. CASE PoolMiss(s)
  BY <1>1, MethodsType, TriesInv DEF PoolMiss
<1>2. CASE MethodFails(s)
  <2>1. methods[s] \in Seq({"worker", "cf", "tcp"})
        /\ \A i \in 1 .. Len(methods[s]) : methods[s][i] = "tcp" => script[s].dst # None
    BY DEF Types, MethodTypes
  <2> QED
    BY <1>2, <2>1, TriesInv DEF MethodFails
<1>3. CASE Dials(s) \/ UpgradeFails(s)
  <2>1. /\ UNCHANGED <<at, script, connecting, retryIn>>
        /\ at[s] \notin {"free", "closing"}
        /\ \E up \in UpstreamStates : upstream' = [upstream EXCEPT ![s] = up]
    BY <1>3 DEF Dials, UpgradeFails, Upgrading, UpstreamStates, backoff
  <2> QED
    BY <1>0, <2>1, RestsInv
<1>4. CASE Connects(s) \/ SendInit(s)
  <2>1. /\ at[s] # "tcp"
        /\ UNCHANGED <<script, connecting, retryIn>>
        /\ \E place \in {"send", "ws"} : Goes(s, place)
        /\ \A r \in Sessions \ {s} : upstream'[r] = upstream[r]
    BY <1>0, <1>4 DEF Connects, SendInit, Upgrading, backoff
  <2>2. {"send", "ws"} \subseteq Places \ {"tcp", "free", "closing"}
    BY DEF Places, Bridges
  <2> QED
    BY <2>1, <2>2, GoesInv
<1>5. CASE H2Opens(s) /\ \E place \in {"h2", "front"} : Goes(s, place) /\ UNCHANGED <<script, control, conn>>
  <2>1. {"h2", "front"} \subseteq Places \ {"tcp", "free", "closing"}
    BY DEF Places, Fallback
  <2> QED
    BY <1>5, <2>1, GoesInv DEF H2Opens, control, backoff
<1>6. CASE /\ at[s] # "tcp" /\ UNCHANGED <<connecting, retryIn>>
           /\ \E up \in {"none", "lost"} : Leaves(s, up)
  BY <1>6, LeavesInv DEF UpstreamStates
<1>7. CASE H2Opens(s) /\ Leaves(s, "none")
  BY <1>6, <1>7 DEF H2Opens, backoff
<1>8. CASE H2Ends(s) \/ SendInitFails(s)
  BY <1>6, <1>8 DEF H2Ends, SendInitFails, backoff
<1>9. ASSUME s \in Dialling, Dialling' = Dialling \ {s},
             \A r \in Dialling \ {s} : script'[r] = script[r],
             connecting' = connecting \ {script[s].dst},
             \E n : retryIn' = [retryIn EXCEPT ![script[s].dst] = n],
             SocketInv'
      PROVE  SessionInv'
  <2>1. \A e \in Dsts \ {script[s].dst} : retryIn'[e] = retryIn[e]
    BY <1>9 DEF Types, BackoffTypes
  <2> QED
    BY <1>9, <2>1, DialEnds DEF SessionInv
<1>10. CASE TcpConnects(s)
  <2>1. s \in Dialling /\ Dialling' = Dialling \ {s}
    BY <1>0, <1>10 DEF TcpConnects, Goes, Dialling
  <2>2. SocketInv'
    BY <1>0, <1>10 DEF TcpConnects, Goes, SessionInv, SocketInv
  <2>3. /\ UNCHANGED script
        /\ connecting' = connecting \ {script[s].dst}
        /\ \E n : retryIn' = [retryIn EXCEPT ![script[s].dst] = n]
    BY <1>10 DEF TcpConnects
  <2> QED
    BY <1>9, <2>1, <2>2, <2>3
<1>11. CASE TcpFails(s)
  <2>1. s \in Dialling /\ Dialling' = Dialling \ {s} /\ \A r \in Dialling \ {s} : script'[r] = script[r]
    BY <1>0, <1>11 DEF TcpFails, Leaves, Goes, Dialling, Types, PlaceTypes
  <2>2. SocketInv'
    <3>1. Leaves(s, "none") /\ "none" \in UpstreamStates \ {"open"}
      BY <1>11 DEF TcpFails, UpstreamStates
    <3> QED
      BY <3>1, LeavesSockets DEF SessionInv
  <2>3. /\ connecting' = connecting \ {script[s].dst}
        /\ \E n : retryIn' = [retryIn EXCEPT ![script[s].dst] = n]
    BY <1>11 DEF TcpFails
  <2> QED
    BY <1>9, <2>1, <2>2, <2>3
<1> QED
  BY <1>1, <1>2, <1>3, <1>4, <1>5, <1>7, <1>8, <1>10, <1>11 DEF Falls, H2Opens

LEMMA RelaysInv ==
  ASSUME SessionInv, NEW s \in Sessions, Relays(s)
  PROVE  SessionInv'
<1>1. UNCHANGED <<at, script, upstream, connecting, retryIn>>
  BY DEF Relays, Upload, UploadEnds, RelayBreaks, Download, DownloadTcp, control, backoff
<1> QED
  BY <1>1, RestsInv

LEMMA EndsInv ==
  ASSUME Types, SessionInv, NEW s \in Sessions, Ends(s)
  PROVE  SessionInv'
<1>0. upstream \in [Sessions -> UpstreamStates] /\ at \in [Sessions -> Places]
  BY DEF Types, PlaceTypes
<1>1. CASE /\ at[s] # "tcp" /\ UNCHANGED <<connecting, retryIn>>
           /\ \E up \in {"none", "closed", "lost"} : Leaves(s, up)
  BY <1>1, LeavesInv DEF UpstreamStates
<1>2. CASE /\ at[s] # "tcp" /\ UNCHANGED <<script, upstream, connecting, retryIn>>
           /\ Goes(s, "unbridge")
  <2>1. "unbridge" \in Places \ {"tcp", "free", "closing"}
    BY DEF Places
  <2> QED
    BY <1>2, <2>1, GoesInv
<1>8. CASE at[s] # "tcp" /\ UNCHANGED <<connecting, retryIn>> /\ LetsClientGo(s)
  BY <1>8, RestsInv DEF LetsClientGo
<1>3. CASE EndRelays(s)
  BY <1>2, <1>3, <1>8 DEF EndRelays, LetsServerGo, LetsClientGo, backoff
<1>4. CASE Unbridge(s) \/ UnbridgeTcp(s)
  BY <1>1, <1>4 DEF Unbridge, UnbridgeTcp, backoff
<1>5. CASE Close(s)
  <2>1. Dialling' = Dialling /\ UNCHANGED <<script, connecting, retryIn>>
    BY <1>0, <1>5 DEF Close, Goes, Dialling, backoff
  <2>2. SocketInv'
    BY <1>0, <1>5 DEF Close, Goes, SessionInv, SocketInv
  <2> QED
    BY <2>1, <2>2, QuietDials DEF SessionInv
<1>6. CASE Cancel(s) /\ at[s] # "tcp"
  BY <1>1, <1>2, <1>6, <1>8 DEF Cancel, LetsServerGo
<1>7. CASE Cancel(s) /\ at[s] = "tcp"
  <2>1. /\ \E up \in {"none", "closed"} : Leaves(s, up)
        /\ connecting' = connecting \ {script[s].dst}
        /\ UNCHANGED retryIn
    BY <1>7 DEF Cancel, LetsServerGo, LetsClientGo
  <2>2. s \in Dialling /\ Dialling' = Dialling \ {s} /\ \A r \in Dialling \ {s} : script'[r] = script[r]
    BY <1>0, <1>7, <2>1 DEF Leaves, Goes, Dialling, Types, PlaceTypes
  <2>3. DialInv'
    BY <2>1, <2>2, DialEnds DEF SessionInv
  <2>4. SocketInv'
    BY <2>1, LeavesSockets DEF SessionInv, UpstreamStates
  <2> QED
    BY <2>3, <2>4 DEF SessionInv
<1> QED
  BY <1>3, <1>4, <1>5, <1>6, <1>7 DEF Ends

LEMMA InvInit == Init => SessionInv
BY DEF Init, SessionInv, DialInv, SocketInv, Dialling

LEMMA InvSteps == Types /\ SessionInv /\ [Next]_vars => SessionInv'
<1> SUFFICES ASSUME Types, SessionInv, [Next]_vars PROVE SessionInv'
  OBVIOUS
<1>1. CASE \E s \in Sessions : Handshakes(s) \/ Falls(s) \/ Relays(s) \/ Ends(s)
  BY <1>1, HandshakesInv, FallsInv, RelaysInv, EndsInv
<1>2. CASE Tick
  <2>1. Dialling' = Dialling /\ UNCHANGED <<at, script, upstream, connecting>>
    BY <1>2 DEF Tick, Dialling, control
  <2>2. \A r \in Dialling : retryIn'[script[r].dst] = 0
    BY <1>2 DEF Tick, SessionInv, DialInv, Types, DialTypes, Dialling
  <2> QED
    BY <2>1, <2>2 DEF SessionInv, DialInv, SocketInv
<1>3. CASE Restart
  <2>1. Dialling' = {} /\ connecting' = {} /\ UNCHANGED <<at, upstream>>
    BY <1>3 DEF Restart, Dialling, control
  <2> QED
    BY <2>1 DEF SessionInv, DialInv, SocketInv
<1>4. CASE UNCHANGED vars
  BY <1>4, RestsInv DEF vars, control, backoff
<1> QED
  BY <1>1, <1>2, <1>3, <1>4 DEF Next

LEMMA InvIsAccounted == Types /\ SessionInv => DialsAccounted
<1> SUFFICES ASSUME Types, SessionInv PROVE DialsAccounted
  OBVIOUS
<1>1. connecting = {script[s].dst : s \in {t \in Sessions : at[t] = "tcp"}}
  BY DEF SessionInv, DialInv, Dialling
<1>2. \A s, t \in Sessions :
        at[s] = "tcp" /\ at[t] = "tcp" /\ script[s].dst = script[t].dst => s = t
  BY DEF SessionInv, DialInv, Dialling
<1>3. \A s \in Sessions : at[s] = "tcp" => retryIn[script[s].dst] = 0
  BY DEF SessionInv, DialInv, Dialling
<1> QED
  BY <1>1, <1>2, <1>3, TypesGiveTypeOK DEF SessionInv, SocketInv, DialsAccounted

\* For any constants: a data centre is dialled by one session at a time and never
\* while it rests, its mark goes with that session however it ends, and a session
\* that has ended leaves no connection open.
THEOREM DialsCorrect == Spec => []DialsAccounted
<1>1. Spec => []Types
  BY InitTypes, NextTypes, PTL DEF Spec
<1>2. Spec => []SessionInv
  BY <1>1, InvInit, InvSteps, PTL DEF Spec
<1> QED
  BY <1>1, <1>2, InvIsAccounted, PTL

-----------------------------------------------------------------------------
(***************************************************************************)
(* A session, place by place: Conducts is inductive, and what stands at the*)
(* bridges is what UploadIntact and DownloadIntact say.                    *)
(***************************************************************************)
\* Nothing has been sent either way, and no bridge chosen.
Unused(c) ==
  /\ c.split = FALSE /\ c.eof = FALSE /\ c.sent = <<>> /\ c.frag = <<>> /\ c.got = <<>>
  /\ c.tgDec = 0 /\ c.cltEnc = 0

Opening(sc, c) == c.tls = TRUE /\ Unused(c) /\ ReadsAt(sc, c, 0)

\* The init has been read.
Heard(sc, c) == c \in ConnType /\ Unused(c) /\ ReadsAt(sc, c, InitLen)

Quiet == {"free", "line", "first", "hello", "closing", "maskdial", "masked"}
Seeking == {"pool", "worker", "h2open", "front", "tcp"}

\* What a session's connection is where its handler stands.
Standing(place, sc, c, closed, run) ==
  /\ place \in Quiet => c = NewConn
  /\ place = "init" => c = [NewConn EXCEPT !.wire = ClientWire(sc, FALSE)]
  /\ place = "tlsinit" => Opening(sc, c)
  /\ place \in Seeking => Fresh(sc, c) /\ ~ c.split
  /\ place = "send" => Fresh(sc, c)
  /\ place = "ws" => UpWs(sc, c, "up" \in run) /\ DownWs(sc, c, closed, "down" \in run)
  /\ place = "unbridge" => UpWs(sc, c, FALSE) /\ DownWs(sc, c, closed, FALSE)
  /\ place = "tcpbridge" => UpTcp(sc, c, "up" \in run) /\ DownTcp(sc, c)
  /\ closed => place \in {"ws", "unbridge"}

LEMMA NewSplitterType ==
  ASSUME NEW p \in {"abridged", "intermediate"}
  PROVE  NewSplitter(p) \in SplitterType
BY DEF NewSplitter, SplitterType

LEMMA NewConnIs == NewConn \in ConnType /\ Unused(NewConn) /\ NewConn.tls = FALSE /\ NewConn.left = 0 /\ NewConn.buf = <<>>
<1>1. NewSplitter("abridged") \in SplitterType
  BY NewSplitterType
<1>2. <<>> \in Seq(Item)
  OBVIOUS
<1>3. NewConn \in ConnType
  BY <1>1, <1>2 DEF NewConn, ConnType
<1> QED
  BY <1>3 DEF NewConn, Unused

\* Another wire, and perhaps TLS; what else is read of the client.
Rewired(c, tls, l, v, b) == [c EXCEPT !.tls = tls, !.left = l, !.wire = v, !.buf = b]
RewiredTo(c, d, tls, l, v, b) ==
  /\ d \in ConnType /\ d.tls = tls /\ d.left = l /\ d.wire = v /\ d.buf = b
  /\ Unused(c) => Unused(d)

LEMMA RewiredIs ==
  ASSUME NEW c \in ConnType, NEW tls \in BOOLEAN, NEW l \in Nat, NEW v \in Seq(Item), NEW b \in Seq(Item)
  PROVE  RewiredTo(c, Rewired(c, tls, l, v, b), tls, l, v, b)
<1>1. PICK d : d = Rewired(c, tls, l, v, b)
  OBVIOUS
<1>2. d \in ConnType
  BY <1>1, ZenonT(60) DEF Rewired, ConnType
<1>3. d.tls = tls /\ d.left = l /\ d.wire = v /\ d.buf = b
  BY <1>1, ZenonT(60) DEF Rewired, ConnType
<1>4. /\ d.split = c.split /\ d.eof = c.eof /\ d.sent = c.sent /\ d.frag = c.frag /\ d.got = c.got
      /\ d.tgDec = c.tgDec /\ d.cltEnc = c.cltEnc
  BY <1>1, ZenonT(60) DEF Rewired, ConnType
<1> QED
  BY <1>1, <1>2, <1>3, <1>4 DEF RewiredTo, Unused

\* The same where less is set.
LEMMA RewiredLess ==
  ASSUME NEW c \in ConnType, NEW tls \in BOOLEAN, NEW v \in Seq(Item)
  PROVE  /\ RewiredTo(c, [c EXCEPT !.wire = v], c.tls, c.left, v, c.buf)
         /\ RewiredTo(c, [c EXCEPT !.tls = tls, !.wire = v], tls, c.left, v, c.buf)
<1>1. ASSUME NEW d, d = [c EXCEPT !.wire = v]
      PROVE  RewiredTo(c, d, c.tls, c.left, v, c.buf)
  <2>1. d \in ConnType
    BY <1>1, ZenonT(60) DEF ConnType
  <2>2. d.tls = c.tls /\ d.left = c.left /\ d.wire = v /\ d.buf = c.buf
    BY <1>1, ZenonT(60) DEF ConnType
  <2>3. /\ d.split = c.split /\ d.eof = c.eof /\ d.sent = c.sent /\ d.frag = c.frag /\ d.got = c.got
        /\ d.tgDec = c.tgDec /\ d.cltEnc = c.cltEnc
    BY <1>1, ZenonT(60) DEF ConnType
  <2> QED
    BY <2>1, <2>2, <2>3 DEF RewiredTo, Unused
<1>2. ASSUME NEW d, d = [c EXCEPT !.tls = tls, !.wire = v]
      PROVE  RewiredTo(c, d, tls, c.left, v, c.buf)
  <2>1. d \in ConnType
    BY <1>2, ZenonT(60) DEF ConnType
  <2>2. d.tls = tls /\ d.left = c.left /\ d.wire = v /\ d.buf = c.buf
    BY <1>2, ZenonT(60) DEF ConnType
  <2>3. /\ d.split = c.split /\ d.eof = c.eof /\ d.sent = c.sent /\ d.frag = c.frag /\ d.got = c.got
        /\ d.tgDec = c.tgDec /\ d.cltEnc = c.cltEnc
    BY <1>2, ZenonT(60) DEF ConnType
  <2> QED
    BY <2>1, <2>2, <2>3 DEF RewiredTo, Unused
<1> QED
  BY <1>1, <1>2

\* The contexts are built.
Keyed(c, proto) == [c EXCEPT !.dec = InitLen, !.enc = InitLen, !.sp = NewSplitter(proto)]

LEMMA KeyedIs ==
  ASSUME NEW sc, Good(sc), NEW c, Heard(sc, c)
  PROVE  Keyed(c, sc.proto) \in ConnType /\ Fresh(sc, Keyed(c, sc.proto)) /\ ~ Keyed(c, sc.proto).split
<1>1. PICK d : d = Keyed(c, sc.proto)
  OBVIOUS
<1>2. PICK sp \in SplitterType : sp = NewSplitter(sc.proto)
  BY GoodIs, NewSplitterType
<1>3. PICK n \in Nat : n = InitLen
  BY InitBytesIs
<1>4. c \in ConnType
  BY DEF Heard
<1>5. d = [c EXCEPT !.dec = n, !.enc = n, !.sp = sp]
  BY <1>1, <1>2, <1>3 DEF Keyed
<1>6. d \in ConnType
  BY <1>4, <1>5, ZenonT(60) DEF ConnType
<1>7. d.dec = n /\ d.enc = n /\ d.sp = sp
  BY <1>4, <1>5, ZenonT(60) DEF ConnType
<1>8. /\ d.split = c.split /\ d.eof = c.eof /\ d.sent = c.sent /\ d.frag = c.frag /\ d.got = c.got
      /\ d.tgDec = c.tgDec /\ d.cltEnc = c.cltEnc
  BY <1>4, <1>5, ZenonT(60) DEF ConnType
<1>9. d.tls = c.tls /\ d.left = c.left /\ d.wire = c.wire /\ d.buf = c.buf
  BY <1>4, <1>5, ZenonT(60) DEF ConnType
<1>10. ReadsAt(sc, d, InitLen)
  BY <1>9 DEF Heard, ReadsAt
<1>11. d.eof = FALSE /\ d.split = FALSE /\ d.sent = <<>> /\ d.frag = <<>> /\ d.got = <<>> /\ d.tgDec = 0 /\ d.cltEnc = 0
  BY <1>8 DEF Heard, Unused
<1> QED
  BY <1>1, <1>2, <1>3, <1>6, <1>7, <1>10, <1>11 DEF Fresh

\* The client's bytes as its hello lets them come.
LEMMA PlainBegins ==
  ASSUME NEW sc, Good(sc)
  PROVE  [NewConn EXCEPT !.wire = ClientWire(sc, FALSE)] \in ConnType
<1>1. PICK v \in Seq(Item) : v = ClientWire(sc, FALSE)
  BY WireType
<1>2. NewConn \in ConnType
  BY NewConnIs
<1>3. [NewConn EXCEPT !.wire = v] \in ConnType
  BY <1>2 DEF ConnType
<1> QED
  BY <1>1, <1>3

LEMMA TlsBegins ==
  ASSUME NEW sc, Good(sc)
  PROVE  /\ [NewConn EXCEPT !.tls = TRUE, !.wire = ClientWire(sc, TRUE)] \in ConnType
         /\ Opening(sc, [NewConn EXCEPT !.tls = TRUE, !.wire = ClientWire(sc, TRUE)])
<1>1. PICK v \in Seq(Item) : v = ClientWire(sc, TRUE)
  BY WireType
<1>2. PICK d : d = [NewConn EXCEPT !.tls = TRUE, !.wire = v]
  OBVIOUS
<1>3. PICK x \in ConnType, tls \in BOOLEAN : x = NewConn /\ tls = TRUE
  BY NewConnIs
<1>4. RewiredTo(x, [x EXCEPT !.tls = tls, !.wire = v], tls, x.left, v, x.buf)
  BY RewiredLess
<1>5. RewiredTo(x, d, tls, x.left, v, x.buf) /\ d = [NewConn EXCEPT !.tls = TRUE, !.wire = ClientWire(sc, TRUE)]
  BY <1>1, <1>2, <1>3, <1>4
<1>6. d \in ConnType /\ Unused(d) /\ d.tls = TRUE /\ d.left = 0 /\ d.buf = <<>> /\ d.wire = ClientWire(sc, TRUE)
  BY <1>1, <1>3, <1>5, NewConnIs DEF RewiredTo
<1>7. d.wire = ClientWire(sc, d.tls)
  BY <1>6
<1>8. ReadsAt(sc, d, 0)
  BY <1>6, <1>7, WireStarts
<1> QED
  BY <1>5, <1>6, <1>8 DEF Opening

LEMMA PlainHeard ==
  ASSUME NEW sc, Good(sc), NEW c, c = [NewConn EXCEPT !.wire = ClientWire(sc, FALSE)], InitLen <= Len(c.wire)
  PROVE  Heard(sc, [c EXCEPT !.wire = Drop(@, InitLen)])
<1>1. PICK v \in Seq(Item) : v = ClientWire(sc, FALSE)
  BY WireType
<1>2. c.wire = v /\ c = [NewConn EXCEPT !.wire = v]
  BY <1>1 DEF NewConn
<1>3. /\ Drop(v, InitLen) \in Seq(Item)
      /\ ReaderAt(sc.records, CipherOf(sc), FALSE, 0, Drop(v, InitLen), <<>>, InitLen)
  BY <1>1, <1>2, InitRead
<1>4. PICK w \in Seq(Item) : w = Drop(v, InitLen)
  BY <1>3
<1>5. [c EXCEPT !.wire = Drop(@, InitLen)] = [NewConn EXCEPT !.wire = w]
  <2>1. [c EXCEPT !.wire = Drop(@, InitLen)] = [c EXCEPT !.wire = w]
    BY <1>2, <1>4
  <2>2. [c EXCEPT !.wire = w] = [NewConn EXCEPT !.wire = w]
    BY <1>2 DEF NewConn
  <2> QED
    BY <2>1, <2>2
<1>6. PICK d : d = [NewConn EXCEPT !.wire = w]
  OBVIOUS
<1>7. PICK x \in ConnType : x = NewConn
  BY NewConnIs
<1>8. RewiredTo(x, [x EXCEPT !.wire = w], x.tls, x.left, w, x.buf)
  BY RewiredLess
<1>9. d \in ConnType /\ Unused(d) /\ d.tls = FALSE /\ d.left = 0 /\ d.buf = <<>> /\ d.wire = w
  <2>1. RewiredTo(x, d, x.tls, x.left, w, x.buf)
    BY <1>6, <1>7, <1>8
  <2> QED
    BY <1>7, <2>1, NewConnIs DEF RewiredTo
<1>10. ReadsAt(sc, d, InitLen)
  BY <1>3, <1>4, <1>9 DEF ReadsAt
<1> QED
  BY <1>5, <1>6, <1>9, <1>10 DEF Heard

\* One read of the records, before the init is complete and when it is.
LEMMA TlsHeard ==
  ASSUME NEW sc, Good(sc), NEW c \in ConnType, Opening(sc, c), NEW t \in Payloads(c.left, c.wire),
         NEW d, d = [c EXCEPT !.left = t.left, !.wire = t.wire, !.buf = c.buf \o t.data]
  PROVE  /\ d \in ConnType /\ Opening(sc, d)
         /\ InitLen <= Len(c.buf \o t.data) => Heard(sc, [d EXCEPT !.buf = Drop(c.buf \o t.data, InitLen)])
<1>1. c.tls = TRUE /\ Unused(c) /\ ReadsAt(sc, c, 0)
  BY DEF Opening
<1>2. TlsInitRead(sc, c, t)
  BY <1>1, TlsInitReadIs
<1>3. PICK l \in Nat, v \in Seq(Item), b \in Seq(Item) : l = t.left /\ v = t.wire /\ b = c.buf \o t.data
  BY <1>2 DEF TlsInitRead
<1>4. ReaderAt(sc.records, CipherOf(sc), TRUE, l, v, b, 0)
  BY <1>2, <1>3 DEF TlsInitRead
<1>5. d = [c EXCEPT !.left = l, !.wire = v, !.buf = b]
  BY <1>3
<1>6. d = Rewired(c, TRUE, l, v, b)
  BY <1>1, <1>5 DEF Rewired, ConnType
<1>7. TRUE \in BOOLEAN
  OBVIOUS
<1>8. RewiredTo(c, d, TRUE, l, v, b)
  <2>1. PICK tls \in BOOLEAN : tls = TRUE
    BY <1>7
  <2>2. RewiredTo(c, Rewired(c, tls, l, v, b), tls, l, v, b)
    BY RewiredIs
  <2> QED
    BY <1>6, <2>1, <2>2
<1>9. d \in ConnType /\ Unused(d) /\ d.tls = TRUE /\ d.left = l /\ d.buf = b /\ d.wire = v
  BY <1>1, <1>8 DEF RewiredTo
<1>10. Opening(sc, d)
  BY <1>4, <1>9 DEF Opening, ReadsAt
<1>11. ASSUME InitLen <= Len(b)
       PROVE  Heard(sc, [d EXCEPT !.buf = Drop(b, InitLen)])
  <2>1. PICK w \in Seq(Item) : w = Drop(b, InitLen) /\ ReaderAt(sc.records, CipherOf(sc), TRUE, l, v, w, InitLen)
    BY <1>2, <1>3, <1>11 DEF TlsInitRead
  <2>2. PICK e : e = [d EXCEPT !.buf = w]
    OBVIOUS
  <2>3. e = Rewired(d, TRUE, l, v, w)
    BY <1>9, <2>2 DEF Rewired, ConnType
  <2>4. RewiredTo(d, e, TRUE, l, v, w)
    BY <1>7, <1>9, <2>3, RewiredIs
  <2>5. e \in ConnType /\ Unused(e) /\ e.tls = TRUE /\ e.left = l /\ e.buf = w /\ e.wire = v
    BY <1>9, <2>4 DEF RewiredTo
  <2>6. ReadsAt(sc, e, InitLen)
    BY <2>1, <2>5 DEF ReadsAt
  <2> QED
    BY <2>1, <2>2, <2>5, <2>6 DEF Heard
<1> QED
  BY <1>3, <1>9, <1>10, <1>11

\* The inductive invariant: every session stands as its place says.
Conducts ==
  /\ conn \in [Sessions -> ConnType]
  /\ \A s \in Sessions : Standing(at[s], script[s], conn[s], wsClosed[s], relays[s])

LEMMA Here ==
  ASSUME PlaceTypes, Conducts, NEW s \in Sessions
  PROVE  /\ conn[s] \in ConnType /\ script[s] \in AnyScript /\ Good(script[s])
         /\ wsClosed[s] \in BOOLEAN /\ relays[s] \in SUBSET {"up", "down"}
         /\ Standing(at[s], script[s], conn[s], wsClosed[s], relays[s])
         /\ at[s] \notin {"ws", "unbridge"} => wsClosed[s] = FALSE
<1>1. script[s] \in AnyScript /\ wsClosed[s] \in BOOLEAN /\ relays[s] \in SUBSET {"up", "down"}
  BY DEF PlaceTypes
<1>2. Good(script[s])
  BY <1>1, ScriptsGood
<1>3. conn[s] \in ConnType /\ Standing(at[s], script[s], conn[s], wsClosed[s], relays[s])
  BY DEF Conducts
<1>4. wsClosed[s] => at[s] \in {"ws", "unbridge"}
  BY <1>3 DEF Standing
<1> QED
  BY <1>1, <1>2, <1>3, <1>4

LEMMA StandsQuiet ==
  ASSUME NEW place \in Quiet, NEW sc, NEW run
  PROVE  Standing(place, sc, NewConn, FALSE, run)
BY DEF Standing, Quiet, Seeking

LEMMA StandsSeeking ==
  ASSUME NEW place \in Seeking, NEW sc, NEW c, Fresh(sc, c), ~ c.split, NEW run
  PROVE  Standing(place, sc, c, FALSE, run)
BY DEF Standing, Quiet, Seeking

LEMMA StandsLoose ==
  ASSUME NEW place \in {"draining", "h2"}, NEW sc, NEW c, NEW run
  PROVE  Standing(place, sc, c, FALSE, run)
BY DEF Standing, Quiet, Seeking

LEMMA StandsWs ==
  ASSUME NEW sc, NEW c, NEW closed, NEW run, UpWs(sc, c, "up" \in run), DownWs(sc, c, closed, "down" \in run)
  PROVE  Standing("ws", sc, c, closed, run)
BY DEF Standing, Quiet, Seeking

LEMMA StandsTcp ==
  ASSUME NEW sc, NEW c, NEW run, UpTcp(sc, c, "up" \in run), DownTcp(sc, c)
  PROVE  Standing("tcpbridge", sc, c, FALSE, run)
BY DEF Standing, Quiet, Seeking

LEMMA StandsUnbridge ==
  ASSUME NEW sc, NEW c, NEW closed, NEW run, UpWs(sc, c, FALSE), DownWs(sc, c, closed, FALSE)
  PROVE  Standing("unbridge", sc, c, closed, run)
BY DEF Standing, Quiet, Seeking

\* A step of one session.
Others(s) ==
  \A r \in Sessions \ {s} :
    at'[r] = at[r] /\ script'[r] = script[r] /\ wsClosed'[r] = wsClosed[r] /\ relays'[r] = relays[r]

LEMMA Turned ==
  ASSUME Conducts, NEW s \in Sessions, Others(s), NEW d \in ConnType, conn' = [conn EXCEPT ![s] = d],
         Standing(at'[s], script'[s], d, wsClosed'[s], relays'[s])
  PROVE  Conducts'
<1>1. conn' \in [Sessions -> ConnType]
  BY DEF Conducts
<1>2. ASSUME NEW r \in Sessions
      PROVE  Standing(at'[r], script'[r], conn'[r], wsClosed'[r], relays'[r])
  <2>1. CASE r = s
    <3>1. conn'[s] = d
      BY DEF Conducts
    <3> QED
      BY <2>1, <3>1
  <2>2. CASE r # s
    <3>1. conn'[r] = conn[r]
      BY <2>2 DEF Conducts
    <3>2. Standing(at[r], script[r], conn[r], wsClosed[r], relays[r])
      BY DEF Conducts
    <3> QED
      BY <2>2, <3>1, <3>2 DEF Others
  <2> QED
    BY <2>1, <2>2
<1> QED
  BY <1>1, <1>2 DEF Conducts

\* The connection stays as it is.
LEMMA Kept ==
  ASSUME Conducts, NEW s \in Sessions, Others(s), UNCHANGED conn,
         Standing(at'[s], script'[s], conn[s], wsClosed'[s], relays'[s])
  PROVE  Conducts'
<1>1. PICK d \in ConnType : d = conn[s]
  BY DEF Conducts
<1>2. conn' = [conn EXCEPT ![s] = d]
  BY <1>1 DEF Conducts
<1> QED
  BY <1>1, <1>2, Turned

LEMMA LeavesConducts ==
  ASSUME PlaceTypes, Conducts, NEW s \in Sessions, NEW up, Leaves(s, up)
  PROVE  Conducts'
<1>1. Others(s) /\ at'[s] = "closing" /\ wsClosed'[s] = FALSE
  BY DEF Leaves, Goes, Others, PlaceTypes
<1>2. conn' = [conn EXCEPT ![s] = NewConn]
  BY DEF Leaves, Set
<1>3. Standing("closing", script'[s], NewConn, FALSE, relays'[s])
  BY StandsQuiet DEF Quiet
<1> QED
  BY <1>1, <1>2, <1>3, NewConnIs, Turned

\* The session goes where it has nothing yet, or where it is only read until it ends.
LEMMA GoesConducts ==
  ASSUME PlaceTypes, Conducts, NEW s \in Sessions, NEW place, Goes(s, place), UNCHANGED <<wsClosed, conn>>,
         \A r \in Sessions \ {s} : script'[r] = script[r] /\ relays'[r] = relays[r],
         Standing(place, script'[s], conn[s], wsClosed[s], relays'[s])
  PROVE  Conducts'
<1>1. Others(s) /\ at'[s] = place /\ wsClosed'[s] = wsClosed[s]
  BY DEF Goes, Others, PlaceTypes
<1> QED
  BY <1>1, Kept

\* The same with another connection and nothing else.
LEMMA SetConducts ==
  ASSUME PlaceTypes, Conducts, NEW s \in Sessions, NEW d \in ConnType, Set(s, d),
         NEW place, at' = [at EXCEPT ![s] = place], UNCHANGED <<script, wsClosed>>,
         \A r \in Sessions \ {s} : relays'[r] = relays[r],
         Standing(place, script[s], d, wsClosed[s], relays'[s])
  PROVE  Conducts'
<1>1. Others(s) /\ at'[s] = place /\ wsClosed'[s] = wsClosed[s] /\ script'[s] = script[s]
  BY DEF Others, PlaceTypes
<1>2. conn' = [conn EXCEPT ![s] = d]
  BY DEF Set
<1> QED
  BY <1>1, <1>2, Turned

-----------------------------------------------------------------------------
\* The init read: to the pool, or to be drained.
LEMMA HandshakeTried ==
  ASSUME PlaceTypes, Conducts, NEW s \in Sessions, at[s] \in {"init", "tlsinit"},
         NEW c, Heard(script[s], c), TryHandshake(s, c), UNCHANGED <<script, control>>
  PROVE  Conducts'
<1>1. Good(script[s]) /\ wsClosed[s] = FALSE
  BY Here
<1>2. c \in ConnType
  BY DEF Heard
<1>3. CASE Goes(s, "pool") /\ Set(s, Keyed(c, script[s].proto))
  <2>1. PICK d \in ConnType : d = Keyed(c, script[s].proto) /\ Fresh(script[s], d) /\ ~ d.split
    BY <1>1, KeyedIs
  <2>2. Standing("pool", script[s], d, FALSE, relays[s])
    BY <2>1, StandsSeeking DEF Seeking
  <2> QED
    BY <1>1, <1>3, <2>1, <2>2, SetConducts DEF Goes, control
<1>4. CASE Goes(s, "draining") /\ Set(s, c)
  <2>1. Standing("draining", script[s], c, FALSE, relays[s])
    BY StandsLoose
  <2> QED
    BY <1>1, <1>2, <1>4, <2>1, SetConducts DEF Goes, control
<1> QED
  BY <1>3, <1>4 DEF TryHandshake, Keyed

LEMMA ReadInitConducts ==
  ASSUME PlaceTypes, Conducts, NEW s \in Sessions, ReadInit(s)
  PROVE  Conducts'
<1>1. Good(script[s]) /\ at[s] = "init" /\ Standing(at[s], script[s], conn[s], wsClosed[s], relays[s])
  BY Here DEF ReadInit
<1>2. PICK c : c = conn[s]
  OBVIOUS
<1>3. c = [NewConn EXCEPT !.wire = ClientWire(script[s], FALSE)]
  BY <1>1, <1>2 DEF Standing
<1>4. InitLen <= Len(c.wire)
  BY <1>2 DEF ReadInit
<1>5. PICK d : d = [c EXCEPT !.wire = Drop(@, InitLen)]
  OBVIOUS
<1>6. Heard(script[s], d)
  BY <1>1, <1>3, <1>4, <1>5, PlainHeard
<1>7. TryHandshake(s, d) /\ UNCHANGED <<script, control>>
  BY <1>2, <1>5 DEF ReadInit
<1> QED
  BY <1>1, <1>6, <1>7, HandshakeTried

LEMMA ReadTlsInitConducts ==
  ASSUME PlaceTypes, Conducts, NEW s \in Sessions, ReadTlsInit(s)
  PROVE  Conducts'
<1>1. /\ Good(script[s]) /\ at[s] = "tlsinit" /\ Standing(at[s], script[s], conn[s], wsClosed[s], relays[s])
      /\ conn[s] \in ConnType /\ wsClosed[s] = FALSE
  BY Here DEF ReadTlsInit
<1>2. CASE Leaves(s, "none")
  BY <1>2, LeavesConducts
<1>3. CASE \E p \in Payloads(conn[s].left, conn[s].wire) :
             LET buf == conn[s].buf \o p.data
                 c   == [conn[s] EXCEPT !.left = p.left, !.wire = p.wire, !.buf = buf]
             IN /\ IF Len(buf) < InitLen THEN Set(s, c) /\ UNCHANGED at
                   ELSE TryHandshake(s, [c EXCEPT !.buf = Drop(buf, InitLen)])
                /\ UNCHANGED <<script, control>>
  <2>1. PICK c \in ConnType : c = conn[s]
    BY <1>1
  <2>2. Opening(script[s], c)
    BY <1>1, <2>1 DEF Standing
  <2>3. PICK p \in Payloads(c.left, c.wire) :
             LET buf == c.buf \o p.data
                 d   == [c EXCEPT !.left = p.left, !.wire = p.wire, !.buf = buf]
             IN /\ IF Len(buf) < InitLen THEN Set(s, d) /\ UNCHANGED at
                   ELSE TryHandshake(s, [d EXCEPT !.buf = Drop(buf, InitLen)])
                /\ UNCHANGED <<script, control>>
    BY <1>3, <2>1
  <2>4. PICK d : d = [c EXCEPT !.left = p.left, !.wire = p.wire, !.buf = c.buf \o p.data]
    OBVIOUS
  <2>5. /\ d \in ConnType /\ Opening(script[s], d)
        /\ InitLen <= Len(c.buf \o p.data) => Heard(script[s], [d EXCEPT !.buf = Drop(c.buf \o p.data, InitLen)])
    BY <1>1, <2>2, <2>4, TlsHeard
  <2>6. UNCHANGED <<script, control>>
    BY <2>3
  <2>7. CASE Set(s, d) /\ UNCHANGED at
    <3>1. Standing("tlsinit", script[s], d, FALSE, relays[s])
      BY <2>5 DEF Standing, Quiet, Seeking
    <3>2. at' = [at EXCEPT ![s] = "tlsinit"]
      BY <1>1, <2>7 DEF PlaceTypes
    <3>3. UNCHANGED <<script, wsClosed, relays>> /\ Set(s, d) /\ d \in ConnType
      BY <2>5, <2>6, <2>7 DEF control
    <3>4. Standing("tlsinit", script[s], d, wsClosed[s], relays'[s])
      BY <1>1, <3>1, <3>3
    <3> QED
      BY <3>2, <3>3, <3>4, SetConducts
  <2>8. CASE ~ (Len(c.buf \o p.data) < InitLen) /\ TryHandshake(s, [d EXCEPT !.buf = Drop(c.buf \o p.data, InitLen)])
    <3>1. InitLen <= Len(c.buf \o p.data)
      <4>1. TlsInitRead(script[s], c, p)
        BY <1>1, <2>2, TlsInitReadIs DEF Opening
      <4>2. PICK b \in Seq(Item) : b = c.buf \o p.data
        BY <4>1 DEF TlsInitRead
      <4>3. InitLen \in Nat /\ Len(b) \in Nat
        BY InitBytesIs
      <4>4. ~ (Len(b) < InitLen)
        BY <2>8, <4>2
      <4>5. InitLen <= Len(b)
        BY <4>3, <4>4
      <4> QED
        BY <4>2, <4>5
    <3>2. Heard(script[s], [d EXCEPT !.buf = Drop(c.buf \o p.data, InitLen)])
      BY <2>5, <3>1
    <3> QED
      BY <1>1, <2>6, <2>8, <3>2, HandshakeTried
  <2> QED
    BY <2>3, <2>4, <2>7, <2>8
<1> QED
  BY <1>2, <1>3 DEF ReadTlsInit

LEMMA HandshakesConduct ==
  ASSUME PlaceTypes, Conducts, NEW s \in Sessions, Handshakes(s)
  PROVE  Conducts'
<1>1. /\ Good(script[s]) /\ Standing(at[s], script[s], conn[s], wsClosed[s], relays[s])
      /\ conn[s] \in ConnType /\ (at[s] \notin {"ws", "unbridge"} => wsClosed[s] = FALSE)
  BY Here
<1>2. at[s] \in Quiet => conn[s] = NewConn /\ wsClosed[s] = FALSE
  BY <1>1 DEF Standing, Quiet
<1>3. CASE \E up : Leaves(s, up)
  BY <1>3, LeavesConducts
\* From one place without a connection to another.
<1>4. ASSUME at[s] \in Quiet, NEW place \in Quiet, Goes(s, place), UNCHANGED <<wsClosed, conn>>,
             \A r \in Sessions \ {s} : script'[r] = script[r] /\ relays'[r] = relays[r]
      PROVE  Conducts'
  <2>1. Standing(place, script'[s], NewConn, FALSE, relays'[s])
    BY <1>4, StandsQuiet
  <2> QED
    BY <1>2, <1>4, <2>1, GoesConducts
<1>5. CASE Accept(s)
  <2>1. \E place \in {"line", "first"} : Goes(s, place)
    BY <1>5 DEF Accept
  <2>2. \A r \in Sessions \ {s} : script'[r] = script[r] /\ relays'[r] = relays[r]
    BY <1>5 DEF Accept, PlaceTypes
  <2> QED
    BY <1>4, <1>5, <2>1, <2>2 DEF Accept, Quiet
<1>6. CASE ReadLine(s)
  BY <1>4, <1>6 DEF ReadLine, Quiet, control
<1>7. CASE ReadFirst(s)
  <2>1. CASE Leaves(s, "none")
    BY <1>3, <2>1
  <2>2. CASE (\E place \in {"hello", "maskdial"} : Goes(s, place)) /\ UNCHANGED <<script, control, conn>>
    BY <1>4, <1>7, <2>2 DEF ReadFirst, Quiet, control
  <2>3. CASE /\ Goes(s, "init")
             /\ Set(s, [conn[s] EXCEPT !.wire = ClientWire(script[s], FALSE)])
             /\ UNCHANGED <<script, control>>
    <3>1. PICK d \in ConnType : d = [NewConn EXCEPT !.wire = ClientWire(script[s], FALSE)]
      BY <1>1, PlainBegins
    <3>2. Standing("init", script[s], d, FALSE, relays[s])
      BY <3>1 DEF Standing, Quiet, Seeking
    <3>3. conn[s] = NewConn /\ wsClosed[s] = FALSE
      BY <1>2, <1>7 DEF ReadFirst, Quiet
    <3> QED
      BY <2>3, <3>1, <3>2, <3>3, SetConducts DEF Goes, control
  <2> QED
    BY <1>7, <2>1, <2>2, <2>3 DEF ReadFirst
<1>8. CASE SendHello(s)
  <2>1. PICK d \in ConnType : d = [NewConn EXCEPT !.tls = TRUE, !.wire = ClientWire(script[s], TRUE)]
                              /\ Opening(script[s], d)
    BY <1>1, TlsBegins
  <2>2. Standing("tlsinit", script[s], d, FALSE, relays[s])
    BY <2>1 DEF Standing, Quiet, Seeking
  <2>3. conn[s] = NewConn /\ wsClosed[s] = FALSE
    BY <1>2, <1>8 DEF SendHello, Quiet
  <2> QED
    BY <1>8, <2>1, <2>2, <2>3, SetConducts DEF SendHello, Goes, control
<1>9. CASE ReadInit(s) \/ ReadTlsInit(s)
  BY <1>9, ReadInitConducts, ReadTlsInitConducts
<1>10. CASE HandshakeEnds(s)
  BY <1>3, <1>10 DEF HandshakeEnds
<1>11. CASE MaskDials(s)
  <2>1. CASE Leaves(s, "none")
    BY <1>3, <2>1
  <2>2. CASE Goes(s, "masked") /\ relays' = [relays EXCEPT ![s] = {"up", "down"}] /\ UNCHANGED <<script, wsClosed, conn>>
    <3>1. \A r \in Sessions \ {s} : script'[r] = script[r] /\ relays'[r] = relays[r]
      BY <2>2 DEF PlaceTypes
    <3> QED
      BY <1>4, <1>11, <2>2, <3>1 DEF MaskDials, Quiet
  <2> QED
    BY <1>11, <2>1, <2>2 DEF MaskDials
<1>12. CASE \E r \in {"up", "down"} : MaskRelayEnds(s, r)
  <2>1. PICK r \in {"up", "down"} : MaskRelayEnds(s, r)
    BY <1>12
  <2>2. CASE Leaves(s, "closed")
    BY <1>3, <2>2
  <2>3. CASE relays' = [relays EXCEPT ![s] = @ \ {r}] /\ UNCHANGED <<at, script, wsClosed, conn>>
    <3>1. Others(s)
      BY <2>3 DEF Others, PlaceTypes
    <3>2. at[s] = "masked"
      BY <2>1 DEF MaskRelayEnds
    <3>3. Standing("masked", script[s], NewConn, FALSE, relays'[s])
      BY StandsQuiet DEF Quiet
    <3> QED
      BY <1>2, <2>3, <3>1, <3>2, <3>3, Kept DEF Quiet
  <2> QED
    BY <2>1, <2>2, <2>3 DEF MaskRelayEnds
<1> QED
  BY <1>5, <1>6, <1>7, <1>8, <1>9, <1>10, <1>11, <1>12 DEF Handshakes

\* The bridge is chosen: a splitter or none.
LEMMA ChosenFresh ==
  ASSUME NEW sc, NEW c \in ConnType, Fresh(sc, c), NEW split \in BOOLEAN
  PROVE  [c EXCEPT !.split = split] \in ConnType /\ Fresh(sc, [c EXCEPT !.split = split])
<1>1. PICK d : d = [c EXCEPT !.split = split]
  OBVIOUS
<1>2. d \in ConnType
  BY <1>1, ZenonT(60) DEF ConnType
<1>3. /\ d.tls = c.tls /\ d.left = c.left /\ d.wire = c.wire /\ d.buf = c.buf /\ d.dec = c.dec /\ d.enc = c.enc
      /\ d.sp = c.sp /\ d.eof = c.eof
  BY <1>1, ZenonT(60) DEF ConnType
<1>4. d.sent = c.sent /\ d.frag = c.frag /\ d.got = c.got /\ d.tgDec = c.tgDec /\ d.cltEnc = c.cltEnc
  BY <1>1, ZenonT(60) DEF ConnType
<1>5. ReadsAt(sc, d, InitLen)
  BY <1>3 DEF Fresh, ReadsAt
<1>6. d.eof = FALSE
  BY <1>3 DEF Fresh
<1>7. Fresh(sc, d)
  BY <1>3, <1>4, <1>5, <1>6 DEF Fresh
<1> QED
  BY <1>1, <1>2, <1>7

LEMMA TriesConducts ==
  ASSUME PlaceTypes, Conducts, NEW s \in Sessions, at[s] \in Seeking,
         NEW todo \in Seq({"worker", "cf", "tcp"}), Tries(s, todo)
  PROVE  Conducts'
<1>1. CASE Leaves(s, "none")
  BY <1>1, LeavesConducts
<1>2. CASE /\ \E place \in {"worker", "h2open", "front", "tcp"} : Goes(s, place)
           /\ UNCHANGED <<script, wsClosed, relays, conn>>
  <2>1. PICK place \in {"worker", "h2open", "front", "tcp"} : Goes(s, place)
    BY <1>2
  <2>2. Standing(at[s], script[s], conn[s], wsClosed[s], relays[s]) /\ wsClosed[s] = FALSE
    BY Here DEF Seeking
  <2>3. Fresh(script[s], conn[s]) /\ ~ conn[s].split
    BY <2>2 DEF Standing
  <2>4. Standing(place, script[s], conn[s], FALSE, relays[s])
    BY <2>3, StandsSeeking DEF Seeking
  <2> QED
    BY <1>2, <2>1, <2>2, <2>4, GoesConducts
<1>3. CASE todo = <<>>
  BY <1>1, <1>3 DEF Tries
<1>4. CASE todo # <<>> /\ todo[1] = "worker"
  BY <1>1, <1>2, <1>4 DEF Tries
<1>5. CASE todo # <<>> /\ todo[1] = "cf"
  BY <1>1, <1>2, <1>5 DEF Tries
<1>6. CASE todo # <<>> /\ todo[1] = "tcp"
  BY <1>1, <1>2, <1>6 DEF Tries
<1>7. todo # <<>> => todo[1] \in {"worker", "cf", "tcp"}
  OBVIOUS
<1> QED
  BY <1>3, <1>4, <1>5, <1>6, <1>7

LEMMA ConnectsConducts ==
  ASSUME PlaceTypes, Conducts, NEW s \in Sessions, Connects(s)
  PROVE  Conducts'
<1>1. at[s] \in {"pool", "worker", "front"}
  BY DEF Connects, Upgrading
<1>2. /\ Standing(at[s], script[s], conn[s], wsClosed[s], relays[s]) /\ conn[s] \in ConnType
      /\ wsClosed[s] = FALSE
  BY <1>1, Here
<1>3. Fresh(script[s], conn[s])
  BY <1>1, <1>2 DEF Standing, Seeking
<1>4. PICK split \in BOOLEAN : split = (at[s] # "worker")
  OBVIOUS
<1>5. PICK d \in ConnType : d = [conn[s] EXCEPT !.split = split] /\ Fresh(script[s], d)
  BY <1>2, <1>3, ChosenFresh
<1>6. Standing("send", script[s], d, FALSE, relays[s])
  BY <1>5 DEF Standing, Quiet, Seeking
<1>7. Set(s, d) /\ Goes(s, "send") /\ UNCHANGED <<script, wsClosed, relays>>
  BY <1>4, <1>5 DEF Connects
<1> QED
  BY <1>2, <1>5, <1>6, <1>7, SetConducts DEF Goes

LEMMA SendInitConducts ==
  ASSUME PlaceTypes, Conducts, NEW s \in Sessions, SendInit(s)
  PROVE  Conducts'
<1>1. at[s] = "send" /\ relays' = [relays EXCEPT ![s] = {"up", "down"}] /\ UNCHANGED <<script, wsClosed>>
  BY DEF SendInit
<1>2. /\ Standing(at[s], script[s], conn[s], wsClosed[s], relays[s]) /\ conn[s] \in ConnType
      /\ wsClosed[s] = FALSE /\ Good(script[s])
  BY <1>1, Here
<1>3. Fresh(script[s], conn[s])
  BY <1>1, <1>2 DEF Standing
<1>4. PICK d : d = Bridged(conn[s], BuildFrame(OP_BINARY, InitToServer), ServerWire(script[s]))
  OBVIOUS
<1>5. d \in ConnType /\ UpWs(script[s], d, TRUE) /\ DownWs(script[s], d, FALSE, TRUE)
  BY <1>2, <1>3, <1>4, StartsWs
<1>6. relays'[s] = {"up", "down"} /\ \A r \in Sessions \ {s} : relays'[r] = relays[r]
  BY <1>1 DEF PlaceTypes
<1>7. ("up" \in relays'[s]) = TRUE /\ ("down" \in relays'[s]) = TRUE
  BY <1>6
<1>8. Standing("ws", script[s], d, FALSE, relays'[s])
  BY <1>5, <1>7, StandsWs
<1>9. Set(s, d) /\ Goes(s, "ws")
  BY <1>4 DEF SendInit, Bridged
<1> QED
  BY <1>1, <1>2, <1>5, <1>6, <1>8, <1>9, SetConducts, ZenonT(60) DEF Goes

LEMMA TcpConnectsConducts ==
  ASSUME PlaceTypes, Conducts, NEW s \in Sessions, TcpConnects(s)
  PROVE  Conducts'
<1>1. at[s] = "tcp" /\ relays' = [relays EXCEPT ![s] = {"up", "down"}] /\ UNCHANGED <<script, wsClosed>>
  BY DEF TcpConnects
<1>2. /\ Standing(at[s], script[s], conn[s], wsClosed[s], relays[s]) /\ conn[s] \in ConnType
      /\ wsClosed[s] = FALSE /\ Good(script[s])
  BY <1>1, Here
<1>3. Fresh(script[s], conn[s]) /\ ~ conn[s].split
  BY <1>1, <1>2 DEF Standing, Seeking
<1>4. PICK d : d = Bridged(conn[s], InitToServer, ServerBytes(script[s]))
  OBVIOUS
<1>5. d \in ConnType /\ UpTcp(script[s], d, TRUE) /\ DownTcp(script[s], d)
  BY <1>2, <1>3, <1>4, StartsTcp
<1>6. relays'[s] = {"up", "down"} /\ \A r \in Sessions \ {s} : relays'[r] = relays[r]
  BY <1>1 DEF PlaceTypes
<1>7. ("up" \in relays'[s]) = TRUE
  BY <1>6
<1>8. Standing("tcpbridge", script[s], d, FALSE, relays'[s])
  BY <1>5, <1>7, StandsTcp
<1>9. Set(s, d) /\ Goes(s, "tcpbridge")
  BY <1>4 DEF TcpConnects, Bridged
<1> QED
  BY <1>1, <1>2, <1>5, <1>6, <1>8, <1>9, SetConducts, ZenonT(60) DEF Goes

LEMMA FallsConduct ==
  ASSUME Types, Conducts, NEW s \in Sessions, Falls(s)
  PROVE  Conducts'
<1>0. PlaceTypes
  BY DEF Types
<1>1. CASE \E up : Leaves(s, up)
  BY <1>0, <1>1, LeavesConducts
<1>2. CASE PoolMiss(s)
  <2>1. at[s] \in Seeking /\ Tries(s, Methods(s))
    BY <1>2 DEF PoolMiss, Seeking
  <2> QED
    BY <1>0, <2>1, MethodsType, TriesConducts
<1>3. CASE MethodFails(s)
  <2>1. at[s] \in Seeking /\ Tries(s, methods[s])
    BY <1>3 DEF MethodFails, Seeking
  <2>2. methods[s] \in Seq({"worker", "cf", "tcp"})
    BY DEF Types, MethodTypes
  <2> QED
    BY <1>0, <2>1, <2>2, TriesConducts
<1>4. CASE Dials(s) \/ UpgradeFails(s)
  <2>1. UNCHANGED <<at, script, wsClosed, relays, conn>>
    BY <1>4 DEF Dials, UpgradeFails
  <2> QED
    BY <2>1 DEF Conducts
<1>5. CASE Connects(s)
  BY <1>0, <1>5, ConnectsConducts
<1>6. CASE H2Opens(s)
  <2>1. CASE Leaves(s, "none")
    BY <1>1, <2>1
  <2>2. CASE (\E place \in {"h2", "front"} : Goes(s, place)) /\ UNCHANGED <<script, control, conn>>
    <3>1. PICK place \in {"h2", "front"} : Goes(s, place)
      BY <2>2
    <3>2. at[s] = "h2open"
      BY <1>6 DEF H2Opens
    <3>3. Standing(at[s], script[s], conn[s], wsClosed[s], relays[s]) /\ wsClosed[s] = FALSE
      BY <1>0, <3>2, Here
    <3>4. Fresh(script[s], conn[s]) /\ ~ conn[s].split
      BY <3>2, <3>3 DEF Standing, Seeking
    <3>5. Standing(place, script[s], conn[s], FALSE, relays[s])
      BY <3>1, <3>4, StandsSeeking, StandsLoose DEF Seeking
    <3> QED
      BY <1>0, <2>2, <3>1, <3>3, <3>5, GoesConducts DEF control
  <2> QED
    BY <1>6, <2>1, <2>2 DEF H2Opens
<1>7. CASE H2Ends(s) \/ SendInitFails(s) \/ TcpFails(s)
  BY <1>1, <1>7 DEF H2Ends, SendInitFails, TcpFails
<1>8. CASE SendInit(s)
  BY <1>0, <1>8, SendInitConducts
<1>9. CASE TcpConnects(s)
  BY <1>0, <1>9, TcpConnectsConducts
<1> QED
  BY <1>2, <1>3, <1>4, <1>5, <1>6, <1>7, <1>8, <1>9 DEF Falls

\* What comes down changes nothing of what goes up, but for the answers of the peer.
LEMMA AfterFrameUp ==
  ASSUME NEW c \in ConnType
  PROVE  SameUp(c, AfterFrame(c)) /\ AfterFrame(c).sent = c.sent
<1>1. PICK a, b : a = Drop(c.served, ReadFrame(c.served).size) /\ b = Recv(c.frag, c.served).frag
  OBVIOUS
<1>2. PICK d : d = AfterFrame(c)
  OBVIOUS
<1>3. d = [c EXCEPT !.served = a, !.frag = b]
  BY <1>1, <1>2 DEF AfterFrame
<1>4. /\ d.tls = c.tls /\ d.left = c.left /\ d.wire = c.wire /\ d.buf = c.buf /\ d.dec = c.dec /\ d.enc = c.enc
      /\ d.split = c.split /\ d.sp = c.sp
  BY <1>3, ZenonT(60) DEF ConnType
<1>5. d.eof = c.eof /\ d.sent = c.sent
  BY <1>3, ZenonT(60) DEF ConnType
<1> QED
  BY <1>2, <1>4, <1>5 DEF SameUp

LEMMA ToClientUp ==
  ASSUME NEW c \in ConnType, NEW x
  PROVE  SameUp(c, ToClient(c, x)) /\ ToClient(c, x).sent = c.sent
<1>1. PICK a, b, g : /\ a = c.tgDec + Len(x) /\ b = c.cltEnc + Len(x)
                     /\ g = c.got \o (IF c.tls THEN WrapTlsRecord(Encipher(CltDown, c.cltEnc, Decipher(TgDown, c.tgDec, x)))
                                      ELSE Encipher(CltDown, c.cltEnc, Decipher(TgDown, c.tgDec, x)))
  OBVIOUS
<1>2. PICK d : d = ToClient(c, x)
  OBVIOUS
<1>3. d = [c EXCEPT !.tgDec = a, !.cltEnc = b, !.got = g]
  BY <1>1, <1>2 DEF ToClient
<1>4. /\ d.tls = c.tls /\ d.left = c.left /\ d.wire = c.wire /\ d.buf = c.buf /\ d.dec = c.dec /\ d.enc = c.enc
      /\ d.split = c.split /\ d.sp = c.sp
  BY <1>3, ZenonT(60) DEF ConnType
<1>5. d.eof = c.eof /\ d.sent = c.sent
  BY <1>3, ZenonT(60) DEF ConnType
<1> QED
  BY <1>2, <1>4, <1>5 DEF SameUp

LEMMA SameUpTwice ==
  ASSUME NEW c, NEW d, NEW e, SameUp(c, d), SameUp(d, e)
  PROVE  SameUp(c, e)
BY DEF SameUp

DownKept(sc, c, d, closed) ==
  /\ DownWs(sc, c, closed, TRUE) => DownWs(sc, d, closed, TRUE) /\ DownWs(sc, d, closed, FALSE)
  /\ DownWs(sc, c, closed, FALSE) => DownWs(sc, d, closed, FALSE)

LEMMA DownStays ==
  ASSUME NEW sc, NEW c, NEW d, SameDown(c, d), NEW closed \in BOOLEAN
  PROVE  DownKept(sc, c, d, closed)
<1>1. PICK no \in BOOLEAN, yes \in BOOLEAN : no = FALSE /\ yes = TRUE
  OBVIOUS
<1>2. ASSUME NEW running \in BOOLEAN
      PROVE  DownWs(sc, c, closed, running) => DownWs(sc, d, closed, running) /\ DownWs(sc, d, closed, no)
  <2>1. (running => running) /\ (no => running)
    BY <1>1
  <2> QED
    BY <2>1, DownSame
<1>3. DownWs(sc, c, closed, yes) => DownWs(sc, d, closed, yes) /\ DownWs(sc, d, closed, no)
  BY <1>2
<1>4. DownWs(sc, c, closed, no) => DownWs(sc, d, closed, no)
  BY <1>2
<1> QED
  BY <1>1, <1>3, <1>4 DEF DownKept

\* The same whether the relay runs or not.
LEMMA DownKeptRuns ==
  ASSUME NEW sc, NEW c, NEW d, NEW closed, DownKept(sc, c, d, closed), NEW run, DownWs(sc, c, closed, "down" \in run)
  PROVE  DownWs(sc, d, closed, "down" \in run) /\ DownWs(sc, d, closed, FALSE)
<1>1. CASE "down" \in run
  <2>1. ("down" \in run) = TRUE
    BY <1>1
  <2> QED
    BY <2>1 DEF DownKept
<1>2. CASE "down" \notin run
  <2>1. ("down" \in run) = FALSE
    BY <1>2
  <2> QED
    BY <2>1 DEF DownKept
<1> QED
  BY <1>1, <1>2

UpKept(sc, c, d) ==
  /\ UpWs(sc, c, TRUE) => UpWs(sc, d, TRUE) /\ UpWs(sc, d, FALSE)
  /\ UpWs(sc, c, FALSE) => UpWs(sc, d, FALSE)

LEMMA UpKeptRuns ==
  ASSUME NEW sc, NEW c, NEW d, UpKept(sc, c, d), NEW run, UpWs(sc, c, "up" \in run)
  PROVE  UpWs(sc, d, "up" \in run) /\ UpWs(sc, d, FALSE)
<1>1. CASE "up" \in run
  <2>1. ("up" \in run) = TRUE
    BY <1>1
  <2> QED
    BY <2>1 DEF UpKept
<1>2. CASE "up" \notin run
  <2>1. ("up" \in run) = FALSE
    BY <1>2
  <2> QED
    BY <2>1 DEF UpKept
<1> QED
  BY <1>1, <1>2

\* What was sent stands for the same messages.
LEMMA UpStays ==
  ASSUME NEW sc, NEW c, NEW d, SameUp(c, d), \A P, m : WentOut(sc, c.sent, P, m) => WentOut(sc, d.sent, P, m)
  PROVE  UpKept(sc, c, d)
<1>1. PICK no \in BOOLEAN, yes \in BOOLEAN : no = FALSE /\ yes = TRUE
  OBVIOUS
<1>2. ASSUME NEW up \in BOOLEAN, NEW up2 \in BOOLEAN, up2 => up, UpWs(sc, c, up)
      PROVE  UpWs(sc, d, up2)
  <2>1. PICK P, m : Sending(sc, c, P, m, up)
    BY <1>2 DEF UpWs
  <2>2. WentOut(sc, d.sent, P, m)
    BY <2>1 DEF Sending
  <2>3. Sending(sc, d, P, m, up2)
    BY <1>2, <2>1, <2>2, UpSame
  <2> QED
    BY <2>3 DEF UpWs
<1>3. (yes => yes) /\ (no => yes) /\ (no => no)
  BY <1>1
<1>4. /\ UpWs(sc, c, yes) => UpWs(sc, d, yes) /\ UpWs(sc, d, no)
      /\ UpWs(sc, c, no) => UpWs(sc, d, no)
  BY <1>1, <1>2, <1>3
<1> QED
  BY <1>1, <1>4 DEF UpKept

\* A pong or a close in between.
LEMMA Answered ==
  ASSUME NEW sc, NEW c, NEW d \in ConnType, SameUp(c, d), d.sent = c.sent,
         NEW op \in {OP_PONG, OP_CLOSE}, NEW x \in Seq(Item)
  PROVE  /\ Sends(d, BuildFrame(op, x)) \in ConnType /\ UpKept(sc, c, Sends(d, BuildFrame(op, x)))
         /\ SameDown(d, Sends(d, BuildFrame(op, x)))
<1>1. op \in 0 .. (Fin - 1)
  BY DEF Fin, OP_PONG, OP_CLOSE
<1>2. PICK f \in Seq(Item) : f = BuildFrame(op, x)
  BY <1>1, CarriesFrame DEF Carries
<1>3. PICK e \in ConnType : e = Sends(d, f) /\ e.sent = d.sent \o f /\ SameUp(d, e) /\ SameDown(d, e)
  BY SendsIs
<1>4. ASSUME NEW P, NEW m, WentOut(sc, c.sent, P, m)
      PROVE  WentOut(sc, e.sent, P, m)
  <2>1. WentOut(sc, c.sent \o BuildFrame(op, x), P, m)
    BY <1>4, WentOutMore
  <2> QED
    BY <1>2, <1>3, <2>1
<1>5. SameUp(c, e)
  BY <1>3, SameUpTwice
<1>6. UpKept(sc, c, e)
  BY <1>4, <1>5, UpStays
<1> QED
  BY <1>2, <1>3, <1>6

-----------------------------------------------------------------------------
\* A session at its bridge.
AtWs(s) ==
  /\ at[s] = "ws" /\ conn[s] \in ConnType /\ Good(script[s]) /\ wsClosed[s] \in BOOLEAN
  /\ UpWs(script[s], conn[s], "up" \in relays[s]) /\ DownWs(script[s], conn[s], wsClosed[s], "down" \in relays[s])

AtTcp(s) ==
  /\ at[s] = "tcpbridge" /\ conn[s] \in ConnType /\ Good(script[s]) /\ wsClosed[s] = FALSE
  /\ UpTcp(script[s], conn[s], "up" \in relays[s]) /\ DownTcp(script[s], conn[s])

LEMMA AtBridge ==
  ASSUME PlaceTypes, Conducts, NEW s \in Sessions
  PROVE  /\ at[s] = "ws" => AtWs(s)
         /\ at[s] = "tcpbridge" => AtTcp(s)
<1>1. /\ conn[s] \in ConnType /\ Good(script[s]) /\ wsClosed[s] \in BOOLEAN
      /\ Standing(at[s], script[s], conn[s], wsClosed[s], relays[s])
      /\ at[s] \notin {"ws", "unbridge"} => wsClosed[s] = FALSE
  BY Here
<1>2. at[s] = "ws" => AtWs(s)
  BY <1>1 DEF Standing, AtWs
<1>3. at[s] = "tcpbridge" => AtTcp(s)
  BY <1>1 DEF Standing, AtTcp
<1> QED
  BY <1>2, <1>3

\* Only the connection, the relays and ws._closed change.
LEMMA BridgeTurned ==
  ASSUME PlaceTypes, Conducts, NEW s \in Sessions, NEW d \in ConnType, Set(s, d), UNCHANGED <<at, script>>,
         \A r \in Sessions \ {s} : relays'[r] = relays[r] /\ wsClosed'[r] = wsClosed[r],
         Standing(at[s], script[s], d, wsClosed'[s], relays'[s])
  PROVE  Conducts'
<1>1. Others(s)
  BY DEF Others
<1>2. conn' = [conn EXCEPT ![s] = d]
  BY DEF Set
<1> QED
  BY <1>1, <1>2, Turned

LEMMA RelayEnded ==
  ASSUME PlaceTypes, NEW s \in Sessions, NEW r \in {"up", "down"}, RelayEnds(s, r)
  PROVE  /\ \A t \in Sessions \ {s} : relays'[t] = relays[t]
         /\ relays'[s] = relays[s] \ {r}
BY DEF RelayEnds, PlaceTypes

LEMMA UploadConducts ==
  ASSUME PlaceTypes, Conducts, NEW s \in Sessions, Upload(s)
  PROVE  Conducts'
<1>1. "up" \in relays[s] /\ at[s] \in {"ws", "tcpbridge"} /\ UNCHANGED <<at, script, wsClosed>>
  BY DEF Upload, Bridges
<1>2. PICK c, sc : c \in ConnType /\ c = conn[s] /\ sc = script[s] /\ Good(sc)
  BY Here
<1>3. PICK r \in ReadClient(c) :
        IF at[s] = "tcpbridge"
        THEN Set(s, [UpConn(r) EXCEPT !.sent = @ \o UpCipher(r)]) /\ UNCHANGED relays
        ELSE IF UpConn(r).split THEN SendParts(s, [UpConn(r) EXCEPT !.sp = UpCut(r).sp], UpCut(r).parts)
        ELSE SendParts(s, UpConn(r), <<UpCipher(r)>>)
  BY <1>2 DEF Upload, UpConn, UpCipher, UpCut
<1>4. CASE at[s] = "tcpbridge"
  <2>1. AtTcp(s)
    BY <1>4, AtBridge
  <2>2. UpTcp(sc, c, TRUE) /\ DownTcp(sc, c) /\ wsClosed[s] = FALSE
    <3>1. ("up" \in relays[s]) = TRUE
      BY <1>1
    <3> QED
      BY <1>2, <2>1, <3>1 DEF AtTcp
  <2>3. PICK d : d = Sends(UpConn(r), UpCipher(r))
    OBVIOUS
  <2>4. d \in ConnType /\ UpTcp(sc, d, TRUE) /\ SameDown(c, d)
    BY <1>2, <2>2, <2>3, UploadTcpDone
  <2>5. DownTcp(sc, d)
    BY <2>2, <2>4, DownTcpSame
  <2>6. Set(s, d) /\ relays' = relays
    BY <1>3, <1>4, <2>3 DEF Sends
  <2>7. ("up" \in relays'[s]) = TRUE
    BY <1>1, <2>6
  <2>8. Standing("tcpbridge", sc, d, FALSE, relays'[s])
    BY <2>4, <2>5, <2>7, StandsTcp
  <2> QED
    BY <1>1, <1>2, <1>4, <2>2, <2>4, <2>6, <2>8, BridgeTurned
<1>5. CASE at[s] = "ws"
  <2>1. AtWs(s)
    BY <1>5, AtBridge
  <2>2. UpWs(sc, c, TRUE) /\ wsClosed[s] \in BOOLEAN /\ DownWs(sc, c, wsClosed[s], "down" \in relays[s])
    <3>1. ("up" \in relays[s]) = TRUE
      BY <1>1
    <3> QED
      BY <1>2, <2>1, <3>1 DEF AtWs
  <2>3. UpConn(r).split = c.split
    <3>1. UpRun(sc, c)
      BY <2>2 DEF UpWs, Sending
    <3>2. \E e : ReadTo(sc, c, r, e)
      BY <1>2, <3>1, ReadToIs
    <3> QED
      BY <3>2 DEF ReadTo
  <2>4. PICK d, parts : SendParts(s, d, parts) /\ SentAll(sc, c, d, parts)
    <3>1. CASE c.split
      <4>1. SendParts(s, [UpConn(r) EXCEPT !.sp = UpCut(r).sp], UpCut(r).parts)
        BY <1>3, <1>5, <2>3, <3>1
      <4>2. SentAll(sc, c, [UpConn(r) EXCEPT !.sp = UpCut(r).sp], UpCut(r).parts)
        BY <1>2, <2>2, <3>1, UploadSplit
      <4> QED
        BY <4>1, <4>2
    <3>2. CASE ~ c.split
      <4>1. SendParts(s, UpConn(r), <<UpCipher(r)>>)
        BY <1>3, <1>5, <2>3, <3>2
      <4>2. SentAll(sc, c, UpConn(r), <<UpCipher(r)>>)
        BY <1>2, <2>2, <3>2, UploadWhole
      <4> QED
        BY <4>1, <4>2
    <3> QED
      BY <3>1, <3>2
  <2>5. CASE RelayEnds(s, "up") /\ Set(s, d)
    <3>1. d \in ConnType /\ UpWs(sc, d, FALSE) /\ SameDown(c, d)
      BY <2>4 DEF SentAll
    <3>2. /\ \A t \in Sessions \ {s} : relays'[t] = relays[t]
          /\ relays'[s] = relays[s] \ {"up"}
      BY <2>5, RelayEnded
    <3>3. ("up" \in relays'[s]) = FALSE /\ ("down" \in relays'[s]) = ("down" \in relays[s])
      BY <3>2
    <3>4. DownWs(sc, d, wsClosed[s], "down" \in relays[s])
      <4>1. DownKept(sc, c, d, wsClosed[s])
        BY <2>2, <3>1, DownStays
      <4> QED
        BY <2>2, <4>1, DownKeptRuns
    <3>5. Standing("ws", sc, d, wsClosed[s], relays'[s])
      BY <3>1, <3>3, <3>4, StandsWs
    <3> QED
      BY <1>1, <1>2, <1>5, <2>5, <3>1, <3>2, <3>5, BridgeTurned
  <2>6. CASE Set(s, Sends(d, Frames(parts))) /\ UNCHANGED relays
    <3>1. PICK e : e = Sends(d, Frames(parts))
      OBVIOUS
    <3>2. e \in ConnType /\ UpWs(sc, e, TRUE) /\ SameDown(c, e)
      BY <2>4, <3>1 DEF SentAll
    <3>3. ("up" \in relays'[s]) = TRUE /\ relays' = relays
      BY <1>1, <2>6
    <3>4. DownWs(sc, e, wsClosed[s], "down" \in relays[s])
      <4>1. DownKept(sc, c, e, wsClosed[s])
        BY <2>2, <3>2, DownStays
      <4> QED
        BY <2>2, <4>1, DownKeptRuns
    <3>5. Standing("ws", sc, e, wsClosed[s], relays'[s])
      BY <3>2, <3>3, <3>4, StandsWs
    <3> QED
      BY <1>1, <1>2, <1>5, <2>6, <3>1, <3>2, <3>3, <3>5, BridgeTurned
  <2> QED
    BY <2>4, <2>5, <2>6 DEF SendParts, Sends
<1> QED
  BY <1>1, <1>4, <1>5

LEMMA UploadEndsConducts ==
  ASSUME PlaceTypes, Conducts, NEW s \in Sessions, UploadEnds(s)
  PROVE  Conducts'
<1>1. "up" \in relays[s] /\ at[s] \in {"ws", "tcpbridge"} /\ UNCHANGED <<at, script, wsClosed>> /\ RelayEnds(s, "up")
  BY DEF UploadEnds, Bridges
<1>2. PICK c, sc : c \in ConnType /\ c = conn[s] /\ sc = script[s] /\ Good(sc)
  BY Here
<1>9. wsClosed[s] \in BOOLEAN
  BY Here
<1>3. PICK d : d = UpEnded(c, wsClosed[s])
  OBVIOUS
<1>4. Set(s, d)
  BY <1>2, <1>3 DEF UploadEnds, UpEnded, Tail1
<1>5. /\ \A t \in Sessions \ {s} : relays'[t] = relays[t]
      /\ relays'[s] = relays[s] \ {"up"}
  BY <1>1, RelayEnded
<1>6. ("up" \in relays'[s]) = FALSE /\ ("down" \in relays'[s]) = ("down" \in relays[s]) /\ ("up" \in relays[s]) = TRUE
  BY <1>1, <1>5
<1>7. CASE at[s] = "tcpbridge"
  <2>1. UpTcp(sc, c, TRUE) /\ DownTcp(sc, c) /\ wsClosed[s] = FALSE
    BY <1>2, <1>6, <1>7, AtBridge DEF AtTcp
  <2>2. d \in ConnType /\ UpTcp(sc, d, FALSE) /\ SameDown(c, d)
    BY <1>2, <1>3, <1>9, <2>1, UploadEndedTcp
  <2>3. DownTcp(sc, d)
    BY <2>1, <2>2, DownTcpSame
  <2>4. Standing("tcpbridge", sc, d, FALSE, relays'[s])
    BY <1>6, <2>2, <2>3, StandsTcp
  <2> QED
    BY <1>1, <1>2, <1>4, <1>5, <1>7, <2>1, <2>2, <2>4, BridgeTurned
<1>8. CASE at[s] = "ws"
  <2>1. UpWs(sc, c, TRUE) /\ DownWs(sc, c, wsClosed[s], "down" \in relays[s])
    BY <1>2, <1>6, <1>8, AtBridge DEF AtWs
  <2>2. d \in ConnType /\ UpWs(sc, d, FALSE) /\ SameDown(c, d)
    BY <1>2, <1>3, <1>9, <2>1, UploadEndedWs
  <2>3. DownWs(sc, d, wsClosed[s], "down" \in relays[s])
    <3>1. DownKept(sc, c, d, wsClosed[s])
      BY <1>2, <1>9, <2>2, DownStays
    <3> QED
      BY <2>1, <3>1, DownKeptRuns
  <2>4. Standing("ws", sc, d, wsClosed[s], relays'[s])
    BY <1>6, <2>2, <2>3, StandsWs
  <2> QED
    BY <1>1, <1>2, <1>4, <1>5, <1>8, <2>2, <2>4, BridgeTurned
<1> QED
  BY <1>1, <1>7, <1>8

LEMMA DownloadTcpConducts ==
  ASSUME PlaceTypes, Conducts, NEW s \in Sessions, DownloadTcp(s)
  PROVE  Conducts'
<1>1. at[s] = "tcpbridge" /\ UNCHANGED <<at, script, wsClosed, relays>>
  BY DEF DownloadTcp, control
<1>2. AtTcp(s)
  BY <1>1, AtBridge
<1>3. PICK c \in ConnType : c = conn[s]
  BY <1>2 DEF AtTcp
<1>3a. PICK sc : sc = script[s] /\ Good(sc)
  BY <1>2 DEF AtTcp
<1>4. UpTcp(sc, c, "up" \in relays[s]) /\ DownTcp(sc, c) /\ wsClosed[s] = FALSE
  BY <1>2, <1>3, <1>3a DEF AtTcp
<1>5. PICK k \in 1 .. Min({ReadSize, Len(c.served)}) :
        Set(s, ToClient([c EXCEPT !.served = Drop(@, k)], SubSeq(c.served, 1, k)))
  BY <1>3 DEF DownloadTcp
<1>6. PICK x, d : x = SubSeq(c.served, 1, k) /\ d = ToClient([c EXCEPT !.served = Drop(@, k)], x)
  OBVIOUS
<1>7. d \in ConnType /\ DownTcp(sc, d)
  BY <1>3, <1>3a, <1>4, <1>5, <1>6, BytesDoneIs DEF BytesDone
<1>8. SameUp(c, d) /\ d.sent = c.sent
  <2>1. PICK e : e = [c EXCEPT !.served = Drop(@, k)]
    OBVIOUS
  <2>2. c.served \in Seq(Item) /\ Drop(c.served, k) \in Seq(Item)
    <3>1. PICK w \in Seq(Item), n \in Nat : w = c.served /\ n = Len(w) /\ ReadSize \in Nat
      BY SessionAssumption DEF ConnType
    <3>2. Min({ReadSize, n}) \in Nat /\ Min({ReadSize, n}) <= n
      BY <3>1, MinOfNats
    <3>3. k \in Nat /\ k <= n
      BY <1>5, <3>1, <3>2
    <3> QED
      BY <3>1, <3>3, DropIs
  <2>3. PICK w \in Seq(Item) : w = Drop(c.served, k)
    BY <2>2
  <2>4. e = [c EXCEPT !.served = w]
    BY <2>1, <2>3
  <2>5. e \in ConnType
    BY <2>4, ZenonT(60) DEF ConnType
  <2>6. e.tls = c.tls /\ e.left = c.left /\ e.wire = c.wire /\ e.buf = c.buf /\ e.dec = c.dec /\ e.enc = c.enc
        /\ e.split = c.split /\ e.sp = c.sp
    BY <2>4, ZenonT(60) DEF ConnType
  <2>7. e.eof = c.eof /\ e.sent = c.sent
    BY <2>4, ZenonT(60) DEF ConnType
  <2>8. d = ToClient(e, x)
    BY <1>6, <2>1
  <2>9. SameUp(e, d) /\ d.sent = e.sent
    BY <2>5, <2>8, ToClientUp
  <2>10. SameUp(c, e)
    BY <2>6, <2>7 DEF SameUp
  <2> QED
    BY <2>7, <2>9, <2>10, SameUpTwice
<1>9. UpTcp(sc, d, "up" \in relays[s])
  BY <1>4, <1>8 DEF UpTcp, SameUp, UpRun, ReadsAt
<1>10. Standing("tcpbridge", sc, d, FALSE, relays'[s])
  BY <1>1, <1>7, <1>9, StandsTcp
<1> QED
  BY <1>1, <1>3, <1>3a, <1>4, <1>5, <1>6, <1>7, <1>10, BridgeTurned

LEMMA DownloadConducts ==
  ASSUME PlaceTypes, Conducts, NEW s \in Sessions, Download(s)
  PROVE  Conducts'
<1>1. at[s] = "ws" /\ "down" \in relays[s] /\ UNCHANGED <<at, script>>
  BY DEF Download
<1>2. AtWs(s)
  BY <1>1, AtBridge
<1>3. PICK c \in ConnType : c = conn[s]
  BY <1>2 DEF AtWs
<1>3a. PICK sc : sc = script[s] /\ Good(sc)
  BY <1>2 DEF AtWs
<1>4. UpWs(sc, c, "up" \in relays[s]) /\ DownWs(sc, c, wsClosed[s], TRUE) /\ wsClosed[s] \in BOOLEAN
  <2>1. ("down" \in relays[s]) = TRUE
    BY <1>1
  <2> QED
    BY <1>2, <1>3, <1>3a, <2>1 DEF AtWs
<1>5. PICK r, f : r = Recv(c.frag, c.served) /\ f = AfterFrame(c)
  OBVIOUS
<1>6. c.served # <<>>
  BY <1>3, <1>3a DEF Download
<1>7. FrameDone(sc, c, r, wsClosed[s])
  BY <1>3, <1>3a, <1>4, <1>5, <1>6, FrameDoneIs
<1>8. f \in ConnType /\ r.data \in Seq(Item) /\ SameUp(c, f) /\ f.sent = c.sent
  BY <1>5, <1>7, AfterFrameUp DEF FrameDone
<1>9. \/ r.does = "deliver" /\ Set(s, ToClient(f, r.data)) /\ UNCHANGED <<relays, wsClosed>>
      \/ r.does = "skip" /\ Set(s, f) /\ UNCHANGED <<relays, wsClosed>>
      \/ r.does = "pong" /\ Set(s, Sends(f, BuildFrame(OP_PONG, r.data))) /\ UNCHANGED <<relays, wsClosed>>
      \/ r.does = "raise" /\ Set(s, f) /\ RelayEnds(s, "down") /\ UNCHANGED wsClosed
      \/ r.does = "close" /\ Set(s, Sends(f, BuildFrame(OP_CLOSE, r.data))) /\ RelayEnds(s, "down")
                          /\ wsClosed' = [wsClosed EXCEPT ![s] = TRUE]
  BY <1>3, <1>3a, <1>5 DEF Download, AfterFrame, Sends
<1>10. UpWs(sc, f, "up" \in relays[s])
  <2>1. UpKept(sc, c, f)
    BY <1>8, UpStays
  <2> QED
    BY <1>4, <2>1, UpKeptRuns
<1>11. ASSUME UNCHANGED <<relays, wsClosed>>, NEW d \in ConnType, Set(s, d),
              UpWs(sc, d, "up" \in relays[s]), DownWs(sc, d, wsClosed[s], TRUE)
       PROVE  Conducts'
  <2>1. ("down" \in relays'[s]) = TRUE
    BY <1>1, <1>11
  <2>2. Standing("ws", sc, d, wsClosed[s], relays'[s])
    BY <1>11, <2>1, StandsWs
  <2> QED
    BY <1>1, <1>3, <1>3a, <1>11, <2>2, BridgeTurned
<1>12. ASSUME RelayEnds(s, "down"), NEW d \in ConnType, Set(s, d), \A t \in Sessions \ {s} : wsClosed'[t] = wsClosed[t],
              UpWs(sc, d, "up" \in relays[s]), DownWs(sc, d, wsClosed'[s], FALSE)
       PROVE  Conducts'
  <2>1. /\ \A t \in Sessions \ {s} : relays'[t] = relays[t]
        /\ relays'[s] = relays[s] \ {"down"}
    BY <1>12, RelayEnded
  <2>2. ("down" \in relays'[s]) = FALSE /\ ("up" \in relays'[s]) = ("up" \in relays[s])
    BY <2>1
  <2>3. Standing("ws", sc, d, wsClosed'[s], relays'[s])
    BY <1>12, <2>2, StandsWs
  <2> QED
    BY <1>1, <1>3, <1>3a, <1>12, <2>1, <2>3, BridgeTurned
<1>13. CASE r.does = "deliver" /\ Set(s, ToClient(f, r.data)) /\ UNCHANGED <<relays, wsClosed>>
  <2>1. PICK d \in ConnType : d = ToClient(f, r.data) /\ DownWs(sc, d, wsClosed[s], TRUE)
    BY <1>5, <1>7, <1>13 DEF FrameDone
  <2>2. SameUp(f, d) /\ d.sent = f.sent
    BY <1>8, <2>1, ToClientUp
  <2>3. UpKept(sc, f, d)
    BY <2>2, UpStays
  <2>4. UpWs(sc, d, "up" \in relays[s])
    BY <1>10, <2>3, UpKeptRuns
  <2> QED
    BY <1>11, <1>13, <2>1, <2>4
<1>14. CASE r.does = "skip" /\ Set(s, f) /\ UNCHANGED <<relays, wsClosed>>
  <2>1. DownWs(sc, f, wsClosed[s], TRUE)
    BY <1>5, <1>7, <1>14 DEF FrameDone
  <2> QED
    BY <1>8, <1>10, <1>11, <1>14, <2>1
<1>15. CASE r.does = "pong" /\ Set(s, Sends(f, BuildFrame(OP_PONG, r.data))) /\ UNCHANGED <<relays, wsClosed>>
  <2>1. DownWs(sc, f, wsClosed[s], TRUE)
    BY <1>5, <1>7, <1>15 DEF FrameDone
  <2>2. PICK d \in ConnType : d = Sends(f, BuildFrame(OP_PONG, r.data)) /\ UpKept(sc, c, d) /\ SameDown(f, d)
    BY <1>8, Answered
  <2>3. UpWs(sc, d, "up" \in relays[s])
    BY <1>4, <2>2, UpKeptRuns
  <2>4. DownWs(sc, d, wsClosed[s], TRUE)
    <3>1. DownKept(sc, f, d, wsClosed[s])
      BY <1>4, <2>2, DownStays
    <3> QED
      BY <2>1, <3>1 DEF DownKept
  <2> QED
    BY <1>11, <1>15, <2>2, <2>3, <2>4
<1>16. CASE r.does = "raise" /\ Set(s, f) /\ RelayEnds(s, "down") /\ UNCHANGED wsClosed
  <2>1. DownWs(sc, f, wsClosed[s], FALSE)
    BY <1>5, <1>7, <1>16 DEF FrameDone
  <2> QED
    BY <1>8, <1>10, <1>12, <1>16, <2>1
<1>17. CASE r.does = "close" /\ Set(s, Sends(f, BuildFrame(OP_CLOSE, r.data))) /\ RelayEnds(s, "down")
            /\ wsClosed' = [wsClosed EXCEPT ![s] = TRUE]
  <2>1. DownWs(sc, f, TRUE, FALSE)
    BY <1>5, <1>7, <1>17 DEF FrameDone
  <2>2. PICK d \in ConnType : d = Sends(f, BuildFrame(OP_CLOSE, r.data)) /\ UpKept(sc, c, d) /\ SameDown(f, d)
    BY <1>8, Answered
  <2>3. UpWs(sc, d, "up" \in relays[s])
    BY <1>4, <2>2, UpKeptRuns
  <2>4. DownWs(sc, d, TRUE, FALSE)
    <3>1. DownKept(sc, f, d, TRUE)
      BY <2>2, DownStays
    <3> QED
      BY <2>1, <3>1 DEF DownKept
  <2>5. wsClosed'[s] = TRUE /\ \A t \in Sessions \ {s} : wsClosed'[t] = wsClosed[t]
    BY <1>17 DEF PlaceTypes
  <2> QED
    BY <1>12, <1>17, <2>2, <2>3, <2>4, <2>5
<1> QED
  BY <1>9, <1>13, <1>14, <1>15, <1>16, <1>17

\* A relay that breaks, or is cancelled, leaves the connection as it is.
LEMMA RelaysStop ==
  ASSUME PlaceTypes, Conducts, NEW s \in Sessions, NEW run, run \subseteq relays[s]
  PROVE  /\ at[s] = "ws" => Standing("ws", script[s], conn[s], wsClosed[s], run)
         /\ at[s] = "ws" => Standing("unbridge", script[s], conn[s], wsClosed[s], run)
         /\ at[s] = "tcpbridge" => Standing("tcpbridge", script[s], conn[s], wsClosed[s], run)
<1>1. CASE at[s] = "ws"
  <2>1. AtWs(s)
    BY <1>1, AtBridge
  <2>2. PICK c, sc : c \in ConnType /\ c = conn[s] /\ sc = script[s]
    BY <2>1 DEF AtWs
  <2>3. SameUp(c, c) /\ SameDown(c, c) /\ c.sent = c.sent
    BY DEF SameUp, SameDown
  <2>4. UpKept(sc, c, c) /\ DownKept(sc, c, c, wsClosed[s])
    BY <2>1, <2>3, UpStays, DownStays DEF AtWs
  <2>5. UpWs(sc, c, "up" \in relays[s]) /\ DownWs(sc, c, wsClosed[s], "down" \in relays[s])
    BY <2>1, <2>2 DEF AtWs
  <2>6. UpWs(sc, c, FALSE) /\ DownWs(sc, c, wsClosed[s], FALSE)
    BY <2>4, <2>5, UpKeptRuns, DownKeptRuns
  <2>7. UpWs(sc, c, "up" \in run)
    <3>1. CASE "up" \in run
      <4>1. ("up" \in relays[s]) = ("up" \in run)
        BY <3>1
      <4> QED
        BY <2>5, <4>1
    <3>2. CASE "up" \notin run
      <4>1. ("up" \in run) = FALSE
        BY <3>2
      <4> QED
        BY <2>6, <4>1
    <3> QED
      BY <3>1, <3>2
  <2>8. DownWs(sc, c, wsClosed[s], "down" \in run)
    <3>1. CASE "down" \in run
      <4>1. ("down" \in relays[s]) = ("down" \in run)
        BY <3>1
      <4> QED
        BY <2>5, <4>1
    <3>2. CASE "down" \notin run
      <4>1. ("down" \in run) = FALSE
        BY <3>2
      <4> QED
        BY <2>6, <4>1
    <3> QED
      BY <3>1, <3>2
  <2> QED
    BY <1>1, <2>2, <2>6, <2>7, <2>8, StandsWs, StandsUnbridge
<1>2. CASE at[s] = "tcpbridge"
  <2>1. AtTcp(s)
    BY <1>2, AtBridge
  <2>2. UpTcp(script[s], conn[s], "up" \in run)
    BY <2>1 DEF AtTcp, UpTcp
  <2> QED
    BY <1>2, <2>1, <2>2, StandsTcp DEF AtTcp
<1> QED
  BY <1>1, <1>2

LEMMA RelaysConduct ==
  ASSUME PlaceTypes, Conducts, NEW s \in Sessions, Relays(s)
  PROVE  Conducts'
<1>1. CASE \E r \in {"up", "down"} : RelayBreaks(s, r)
  <2>1. PICK r \in {"up", "down"} : RelayBreaks(s, r)
    BY <1>1
  <2>2. RelayEnds(s, r) /\ UNCHANGED <<at, script, wsClosed, conn>> /\ at[s] \in {"ws", "tcpbridge"}
    BY <2>1 DEF RelayBreaks, Bridges
  <2>3. /\ \A t \in Sessions \ {s} : relays'[t] = relays[t]
        /\ relays'[s] = relays[s] \ {r}
    BY <2>2, RelayEnded
  <2>4. relays'[s] \subseteq relays[s]
    BY <2>3
  <2>5. Standing(at[s], script[s], conn[s], wsClosed[s], relays'[s])
    BY <2>2, <2>4, RelaysStop
  <2>6. Others(s)
    BY <2>2, <2>3 DEF Others
  <2> QED
    BY <2>2, <2>5, <2>6, Kept
<1> QED
  BY <1>1, UploadConducts, UploadEndsConducts, DownloadConducts, DownloadTcpConducts DEF Relays

LEMMA EndsConduct ==
  ASSUME PlaceTypes, Conducts, NEW s \in Sessions, Ends(s)
  PROVE  Conducts'
<1>1. CASE \E up : Leaves(s, up)
  BY <1>1, LeavesConducts
<1>2. CASE at[s] = "ws" /\ Goes(s, "unbridge") /\ relays' = [relays EXCEPT ![s] = {}] /\ UNCHANGED <<script, wsClosed, conn>>
  <2>1. relays'[s] = {} /\ \A r \in Sessions \ {s} : relays'[r] = relays[r] /\ script'[r] = script[r]
    BY <1>2 DEF PlaceTypes
  <2>2. Standing("unbridge", script[s], conn[s], wsClosed[s], relays'[s])
    BY <1>2, <2>1, RelaysStop
  <2> QED
    BY <1>2, <2>1, <2>2, GoesConducts
<1>5. CASE LetsClientGo(s)
  <2>1. relays'[s] = {} /\ \A r \in Sessions \ {s} : relays'[r] = relays[r] /\ script'[r] = script[r]
    BY <1>5 DEF LetsClientGo, PlaceTypes
  <2>2. UNCHANGED <<at, script, wsClosed, conn>> /\ at[s] = "tcpbridge"
    BY <1>5 DEF LetsClientGo
  <2>3. Standing(at[s], script[s], conn[s], wsClosed[s], relays'[s])
    BY <2>1, <2>2, RelaysStop
  <2> QED
    BY <2>1, <2>2, <2>3, Kept DEF Others
<1>3. CASE EndRelays(s) \/ Unbridge(s) \/ UnbridgeTcp(s) \/ Cancel(s)
  BY <1>1, <1>2, <1>5, <1>3 DEF EndRelays, LetsServerGo, Unbridge, UnbridgeTcp, Cancel
<1>4. CASE Close(s)
  <2>1. Standing(at[s], script[s], conn[s], wsClosed[s], relays[s]) /\ wsClosed[s] = FALSE /\ at[s] = "closing"
    BY <1>4, Here DEF Close
  <2>2. conn[s] = NewConn
    BY <2>1 DEF Standing, Quiet
  <2>3. Standing("free", script[s], conn[s], wsClosed[s], relays[s])
    BY <2>1, <2>2, StandsQuiet DEF Quiet
  <2>4. Goes(s, "free") /\ UNCHANGED <<script, wsClosed, relays, conn>>
    BY <1>4 DEF Close
  <2> QED
    BY <2>3, <2>4, GoesConducts
<1> QED
  BY <1>3, <1>4 DEF Ends

LEMMA ConductsInit == Init => Conducts
<1> SUFFICES ASSUME Init PROVE Conducts
  OBVIOUS
<1>1. conn = [s \in Sessions |-> NewConn] /\ conn \in [Sessions -> ConnType]
  BY NewConnIs DEF Init
<1>2. ASSUME NEW s \in Sessions
      PROVE  Standing(at[s], script[s], conn[s], wsClosed[s], relays[s])
  <2>1. at[s] = "free" /\ conn[s] = NewConn /\ wsClosed[s] = FALSE
    BY DEF Init
  <2>2. Standing("free", script[s], NewConn, FALSE, relays[s])
    BY StandsQuiet DEF Quiet
  <2> QED
    BY <2>1, <2>2
<1> QED
  BY <1>1, <1>2 DEF Conducts

LEMMA ConductsNext == Types /\ Conducts /\ [Next]_vars => Conducts'
<1> SUFFICES ASSUME Types, Conducts, [Next]_vars PROVE Conducts'
  OBVIOUS
<1>1. PlaceTypes
  BY DEF Types
<1>2. CASE UNCHANGED <<at, script, wsClosed, relays, conn>>
  BY <1>2 DEF Conducts
<1>3. CASE \E s \in Sessions : Handshakes(s) \/ Falls(s) \/ Relays(s) \/ Ends(s)
  BY <1>1, <1>3, HandshakesConduct, FallsConduct, RelaysConduct, EndsConduct
<1>4. CASE Tick \/ Restart \/ UNCHANGED vars
  BY <1>2, <1>4 DEF Tick, Restart, vars, control
<1> QED
  BY <1>3, <1>4 DEF Next

\* The places the two properties are about.
LEMMA ConductsUpload == Types /\ Conducts => UploadIntact
<1> SUFFICES ASSUME Types, Conducts PROVE UploadIntact
  OBVIOUS
<1>1. PlaceTypes
  BY DEF Types
<1>2. ASSUME NEW s \in Sessions, at[s] \in {"ws", "unbridge"}
      PROVE  UpMeansWs(script[s], conn[s])
  <2>1. Good(script[s]) /\ conn[s] \in ConnType /\ Standing(at[s], script[s], conn[s], wsClosed[s], relays[s])
    BY <1>1, Here
  <2>2. UpWs(script[s], conn[s], FALSE)
    <3>1. CASE at[s] = "unbridge"
      BY <2>1, <3>1 DEF Standing
    <3>2. CASE at[s] = "ws"
      <4>1. Standing("unbridge", script[s], conn[s], wsClosed[s], relays[s])
        BY <1>1, <3>2, RelaysStop
      <4> QED
        BY <4>1 DEF Standing
    <3> QED
      BY <1>2, <3>1, <3>2
  <2> QED
    BY <2>1, <2>2, UpWsMeans
<1>3. ASSUME NEW s \in Sessions, at[s] = "tcpbridge"
      PROVE  UpMeansTcp(script[s], conn[s])
  <2>1. Good(script[s]) /\ conn[s] \in ConnType
    BY <1>1, Here
  <2>2. Standing("tcpbridge", script[s], conn[s], wsClosed[s], {})
    BY <1>1, <1>3, RelaysStop
  <2>3. ("up" \in {}) = FALSE
    OBVIOUS
  <2>4. UpTcp(script[s], conn[s], FALSE)
    BY <2>2, <2>3 DEF Standing
  <2> QED
    BY <2>1, <2>4, UpTcpMeans
<1>4. \A s \in Sessions : Said(s) = SpeechOf(script[s])
  BY DEF Said, SpeechOf, Speech
<1>5. ASSUME NEW s \in Sessions, at[s] \in {"ws", "unbridge"}
      PROVE  LET parts == Messages(conn[s].sent)
                 plain == Decipher(TgUp, 0, FlattenSeq(parts))
             IN /\ IsPrefix(plain, Said(s))
                /\ conn[s].eof => Len(plain) = conn[s].enc
                /\ parts[1] = InitToServer
                /\ conn[s].split =>
                     \A i \in 1 .. Min({Len(parts) - 1, script[s].whole}) :
                       \/ Len(parts[i + 1]) = Len(script[s].packets[i])
                       \/ conn[s].eof /\ i = Len(parts) - 1
  BY <1>2, <1>4, <1>5 DEF UpMeansWs
<1>6. ASSUME NEW s \in Sessions, at[s] = "tcpbridge"
      PROVE  LET plain == Decipher(TgUp, 0, conn[s].sent)
             IN IsPrefix(plain, Said(s)) /\ (conn[s].eof => Len(plain) = conn[s].enc)
  BY <1>3, <1>4, <1>6 DEF UpMeansTcp
<1> QED
  BY <1>5, <1>6, ZenonT(60) DEF UploadIntact

LEMMA ConductsDownload == Types /\ Conducts => DownloadIntact
<1> SUFFICES ASSUME Types, Conducts PROVE DownloadIntact
  OBVIOUS
<1>1. PlaceTypes
  BY DEF Types
<1>2. ASSUME NEW s \in Sessions, at[s] \in {"ws", "unbridge"}
      PROVE  DownMeans(conn[s], FlattenSeq(script[s].messages), wsClosed[s])
  <2>1. /\ Good(script[s]) /\ conn[s] \in ConnType /\ wsClosed[s] \in BOOLEAN
        /\ Standing(at[s], script[s], conn[s], wsClosed[s], relays[s])
    BY <1>1, Here
  <2>2. DownWs(script[s], conn[s], wsClosed[s], FALSE)
    <3>1. CASE at[s] = "unbridge"
      BY <2>1, <3>1 DEF Standing
    <3>2. CASE at[s] = "ws"
      <4>1. Standing("unbridge", script[s], conn[s], wsClosed[s], relays[s])
        BY <1>1, <3>2, RelaysStop
      <4> QED
        BY <4>1 DEF Standing
    <3> QED
      BY <1>2, <3>1, <3>2
  <2> QED
    BY <2>1, <2>2, DownWsMeans
<1>3. ASSUME NEW s \in Sessions, at[s] = "tcpbridge"
      PROVE  DownMeans(conn[s], FlattenSeq([i \in DOMAIN script[s].frames |-> script[s].frames[i].data]), FALSE)
  <2>1. Good(script[s]) /\ conn[s] \in ConnType
    BY <1>1, Here
  <2>2. AtTcp(s)
    BY <1>1, <1>3, AtBridge
  <2> QED
    BY <2>1, <2>2, DownTcpMeans DEF AtTcp
<1> QED
  BY <1>2, <1>3, ZenonT(60) DEF DownloadIntact, DownMeans

\* For any constants, at every place of _handle_client, what a session has read,
\* deciphered, enciphered, cut and sent belongs together: the two key streams of a
\* side never part, and the splitter and the reader of records keep what is
\* between two messages.
THEOREM ConductsCorrect == Spec => [](Types /\ Conducts)
<1>1. Spec => []Types
  BY InitTypes, NextTypes, PTL DEF Spec
<1> QED
  BY <1>1, ConductsInit, ConductsNext, PTL DEF Spec

\* For any constants, whatever pieces the relay of tcp_to_ws reads it in: what the
\* data centre deciphers is what the client said, and over a WebSocket with a
\* splitter every message but the last of an upload that ended is one packet.
THEOREM UploadCorrect == Spec => []UploadIntact
BY ConductsCorrect, ConductsUpload, PTL

\* For any constants, however the server frames, fragments and interrupts it and
\* whatever pieces ws_to_tcp or _bridge_tcp reads it in: what the client unwraps
\* and deciphers is a beginning of what the data centre said, in records it accepts,
\* and all of it once the server has closed the WebSocket in good order.
THEOREM DownloadCorrect == Spec => []DownloadIntact
BY ConductsCorrect, ConductsDownload, PTL
=============================================================================
