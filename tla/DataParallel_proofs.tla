------------------------ MODULE DataParallel_proofs ------------------------
(***************************************************************************)
(* Proofs about Placement and DataParallel, for any clusters, requests,    *)
(* strategies, orders of node ids and setups.  After lemmas about          *)
(* sequences, sums and counting: PlacementInv, the inductive invariant of  *)
(* planning, packing and loading, kept action by action; what it says of   *)
(* the workers (PlacedRight); DataInv, which adds the table and the        *)
(* sample; and what it says of the shares of the workers (SplitRight).     *)
(***************************************************************************)
EXTENDS DataParallel, FiniteSetTheorems, SequenceTheorems, WellFoundedInduction, TLAPS

-----------------------------------------------------------------------------
(***************************************************************************)
(* Induction over the natural numbers, and what it says of FlattenSeq.     *)
(***************************************************************************)
\* A set of numbers has a least one.
LEMMA Least ==
    ASSUME NEW T, T \subseteq Nat, T # {}
    PROVE  \E x \in T : \A y \in T : x <= y
<1> DEFINE R == {ss \in Nat \X Nat : ss[1] < ss[2]}
<1>1. IsWellFoundedOn(R, Nat)
  <2>1. R = OpToRel(<, Nat)
        BY DEF OpToRel
  <2> QED BY <2>1, NatLessThanWellFounded
<1>2. PICK x \in T : \A y \in T : ~(<<y, x>> \in R)
  <2> HIDE DEF R
  <2> QED BY <1>1, WFMin
<1> SUFFICES ASSUME NEW y \in T, ~(x <= y) PROVE FALSE
    BY <1>2
<1>3. <<y, x>> \in Nat \X Nat /\ y < x
      OBVIOUS
<1>4. <<y, x>> \in R
      BY <1>3
<1> QED BY <1>2, <1>4

\* Induction over the natural numbers, for a set in place of a formula.
LEMMA SetInduction ==
    ASSUME NEW S, 0 \in S, \A n \in Nat : n \in S => n + 1 \in S
    PROVE  Nat \subseteq S
<1> SUFFICES ASSUME Nat \ S # {} PROVE FALSE
    OBVIOUS
<1>1. PICK x \in Nat \ S : \A y \in Nat \ S : x <= y
      BY Least
<1>2. x - 1 \in Nat /\ ~(x <= x - 1) /\ (x - 1) + 1 = x
      BY <1>1
<1> QED BY <1>1, <1>2

\* What the function inside FlattenSeq satisfies.
FlattensTo(f, ss, n) == f = [i \in 1..n |-> IF i = 1 THEN ss[i] ELSE f[i - 1] \o ss[i]]

\* The recursive function inside FlattenSeq exists, for any sequence of sequences.
LEMMA FlattenExists ==
    ASSUME NEW T, NEW ss \in Seq(Seq(T)), NEW n \in 1..Len(ss)
    PROVE  \E f : FlattensTo(f, ss, n)
<1> DEFINE S == {k \in Nat : k \in 1..Len(ss) => \E f : FlattensTo(f, ss, k)}
<1>1. 0 \in S
      OBVIOUS
<1>2. ASSUME NEW k \in Nat, k \in S PROVE k + 1 \in S
  <2> SUFFICES ASSUME k + 1 \in 1..Len(ss) PROVE \E f : FlattensTo(f, ss, k + 1)
      OBVIOUS
  <2>1. CASE k = 0
    <3> DEFINE g == [i \in 1..1 |-> ss[1]]
    <3>1. g = [i \in 1..1 |-> IF i = 1 THEN ss[i] ELSE g[i - 1] \o ss[i]]
          OBVIOUS
    <3>2. FlattensTo(g, ss, 1)
          BY <3>1 DEF FlattensTo
    <3> QED BY <2>1, <3>2
  <2>2. CASE k # 0
    <3>1. k \in 1..Len(ss)
          BY <2>2
    <3>2. PICK f : FlattensTo(f, ss, k)
          BY <1>2, <3>1
    <3> DEFINE g == [i \in 1..(k + 1) |-> IF i = k + 1 THEN f[k] \o ss[k + 1] ELSE f[i]]
    <3>3. \A i \in 1..k : f[i] = IF i = 1 THEN ss[i] ELSE f[i - 1] \o ss[i]
          BY <3>2 DEF FlattensTo
    <3>4. \A i \in 1..(k + 1) : g[i] = IF i = 1 THEN ss[i] ELSE g[i - 1] \o ss[i]
      <4> SUFFICES ASSUME NEW i \in 1..(k + 1)
                   PROVE  g[i] = IF i = 1 THEN ss[i] ELSE g[i - 1] \o ss[i]
          OBVIOUS
      <4>1. CASE i = k + 1
        <5>1. i - 1 = k /\ k \in 1..(k + 1) /\ k # k + 1 /\ i # 1
              BY <2>2, <4>1
        <5>2. g[k] = f[k]
              BY <5>1
        <5> QED BY <4>1, <5>1, <5>2
      <4>2. CASE i # k + 1 /\ i = 1
            BY <3>3, <4>2
      <4>3. CASE i # k + 1 /\ i # 1
        <5>1. i \in 1..k /\ i - 1 \in 1..(k + 1) /\ i - 1 # k + 1
              BY <4>3
        <5>2. g[i] = f[i] /\ g[i - 1] = f[i - 1]
              BY <4>3, <5>1
        <5> QED BY <3>3, <4>3, <5>1, <5>2
      <4> QED BY <4>1, <4>2, <4>3
    <3>5. g = [i \in 1..(k + 1) |-> IF i = 1 THEN ss[i] ELSE g[i - 1] \o ss[i]]
      <4>1. g = [i \in 1..(k + 1) |-> g[i]]
            OBVIOUS
      <4> HIDE DEF g
      <4> QED BY <3>4, <4>1
    <3> QED BY <3>5 DEF FlattensTo
  <2> QED BY <2>1, <2>2
<1>3. Nat \subseteq S
  <2> HIDE DEF S
  <2> QED BY <1>1, <1>2, SetInduction
<1> QED BY <1>3

\* FlattenSeq is the last value of that function.
LEMMA FlattenIs ==
    ASSUME NEW T, NEW ss \in Seq(Seq(T)), ss # <<>>
    PROVE  \E f : FlattensTo(f, ss, Len(ss)) /\ FlattenSeq(ss) = f[Len(ss)]
<1> DEFINE f == CHOOSE g : FlattensTo(g, ss, Len(ss))
<1>1. Len(ss) \in 1..Len(ss) /\ Len(ss) # 0
      OBVIOUS
<1>2. \E g : FlattensTo(g, ss, Len(ss))
      BY <1>1, FlattenExists
<1>3. FlattensTo(f, ss, Len(ss))
      BY <1>2
<1>4. FlattenSeq(ss) = f[Len(ss)]
      BY <1>1 DEF FlattenSeq, FlattensTo
<1> QED BY <1>3, <1>4

\* What holds of the empty sequence and goes on holding when the next part is added holds of
\* the flattened sequence; P is the set of the [number of parts, sequence] of which it holds.
LEMMA FlattenBy ==
    ASSUME NEW T, NEW ss \in Seq(Seq(T)), NEW P, <<0, <<>>>> \in P,
           \A i \in 1..Len(ss) : \A q \in Seq(T) : <<i - 1, q>> \in P => <<i, q \o ss[i]>> \in P
    PROVE  FlattenSeq(ss) \in Seq(T) /\ <<Len(ss), FlattenSeq(ss)>> \in P
<1>1. CASE ss = <<>>
  <2>1. FlattenSeq(ss) = <<>> /\ Len(ss) = 0
        BY <1>1 DEF FlattenSeq
  <2> QED BY <2>1
<1>2. CASE ss # <<>>
  <2>1. PICK f : FlattensTo(f, ss, Len(ss)) /\ FlattenSeq(ss) = f[Len(ss)]
        BY <1>2, FlattenIs
  <2> DEFINE n == Len(ss)
             S == {i \in Nat : i \in 1..n => f[i] \in Seq(T) /\ <<i, f[i]>> \in P}
  <2>2. n \in Nat \ {0} /\ \A i \in 1..n : ss[i] \in Seq(T)
        BY <1>2
  <2>3. \A i \in 1..n : f[i] = IF i = 1 THEN ss[i] ELSE f[i - 1] \o ss[i]
        BY <2>1 DEF FlattensTo
  <2>4. 0 \in S
        OBVIOUS
  <2>5. ASSUME NEW i \in Nat, i \in S PROVE i + 1 \in S
    <3> SUFFICES ASSUME i + 1 \in 1..n PROVE f[i + 1] \in Seq(T) /\ <<i + 1, f[i + 1]>> \in P
        OBVIOUS
    <3>1. (i + 1) - 1 = i
          OBVIOUS
    <3>2. CASE i = 0
      <4>1. <<>> \in Seq(T) /\ <<>> \o ss[1] = ss[1] /\ f[1] = ss[1] /\ ss[1] \in Seq(T)
        <5>1. ss[1] \in Seq(T) /\ f[1] = ss[1]
              BY <2>2, <2>3, <3>2
        <5> QED BY <5>1, ConcatEmptySeq
      <4>2. 1 \in 1..Len(ss) /\ 1 - 1 = 0 /\ i + 1 = 1
            BY <3>2
      <4>3. <<1 - 1, <<>>>> \in P
            BY <4>2
      <4>4. <<1, <<>> \o ss[1]>> \in P
            BY <4>1, <4>2, <4>3
      <4>5. f[1] \in Seq(T) /\ <<1, f[1]>> \in P
            BY <4>1, <4>4
      <4> QED BY <4>2, <4>5
    <3>3. CASE i # 0
      <4>1. i \in 1..n /\ i + 1 # 1
            BY <2>2, <3>3
      <4>2. f[i] \in Seq(T) /\ <<i, f[i]>> \in P
            BY <2>5, <4>1
      <4>3. f[i + 1] = f[i] \o ss[i + 1] /\ ss[i + 1] \in Seq(T)
            BY <2>2, <2>3, <3>1, <4>1
      <4>4. f[i] \o ss[i + 1] \in Seq(T)
            BY <4>2, <4>3, ConcatProperties
      <4> QED BY <3>1, <4>2, <4>3, <4>4
    <3> QED BY <3>2, <3>3
  <2>6. Nat \subseteq S
    <3> HIDE DEF S
    <3> QED BY <2>4, <2>5, SetInduction
  <2>7. n \in S /\ n \in 1..n
        BY <2>2, <2>6
  <2> QED BY <2>1, <2>7
<1> QED BY <1>1, <1>2

\* The elements of a flattened sequence are those of its parts.
LEMMA Flattened ==
    ASSUME NEW T, NEW ss \in Seq(Seq(T))
    PROVE  /\ FlattenSeq(ss) \in Seq(T)
           /\ \A r \in DOMAIN FlattenSeq(ss) :
                 \E i \in DOMAIN ss : \E k \in DOMAIN ss[i] : FlattenSeq(ss)[r] = ss[i][k]
           /\ \A i \in DOMAIN ss : \A k \in DOMAIN ss[i] :
                 \E r \in DOMAIN FlattenSeq(ss) : FlattenSeq(ss)[r] = ss[i][k]
<1> DEFINE Consists(n, q) ==
              /\ \A r \in DOMAIN q : \E i \in 1..n : \E k \in DOMAIN ss[i] : q[r] = ss[i][k]
              /\ \A i \in 1..n : \A k \in DOMAIN ss[i] : \E r \in DOMAIN q : q[r] = ss[i][k]
           P == {np \in Nat \X Seq(T) : Consists(np[1], np[2])}
<1>1. <<0, <<>>>> \in P
  <2>1. DOMAIN <<>> = {} /\ 1..0 = {} /\ <<>> \in Seq(T)
        OBVIOUS
  <2>2. Consists(0, <<>>)
        BY <2>1
  <2> HIDE DEF Consists
  <2> QED BY <2>1, <2>2
<1>2. ASSUME NEW n \in 1..Len(ss), NEW q \in Seq(T), <<n - 1, q>> \in P
      PROVE  <<n, q \o ss[n]>> \in P
  <2>1. ss[n] \in Seq(T) /\ n \in Nat /\ n - 1 \in Nat
        OBVIOUS
  <2>2. Consists(n - 1, q)
        BY <1>2
  <2> DEFINE t == ss[n]
             Q == q \o t
             L == Len(q)
  <2>3. /\ Q \in Seq(T) /\ L \in Nat /\ DOMAIN q = 1..L /\ DOMAIN t = 1..Len(t) /\ Len(t) \in Nat
        /\ DOMAIN Q = 1..(L + Len(t))
        /\ \A r \in 1..L : Q[r] = q[r]
        /\ \A k \in 1..Len(t) : Q[L + k] = t[k]
    <3> HIDE DEF t
    <3>1. t \in Seq(T)
          BY <2>1 DEF t
    <3>2. Q \in Seq(T) /\ Len(Q) = L + Len(t)
          BY <3>1, ConcatProperties
    <3>3. \A r \in 1..Len(Q) : Q[r] = IF r <= L THEN q[r] ELSE t[r - L]
          BY <3>1, ConcatProperties
    <3>4. L \in Nat /\ Len(t) \in Nat
          BY <3>1
    <3> HIDE DEF Q, L
    <3>5. \A r \in 1..L : r \in 1..Len(Q) /\ r <= L
          BY <3>2, <3>4
    <3>6. \A k \in 1..Len(t) : L + k \in 1..Len(Q) /\ ~(L + k <= L) /\ (L + k) - L = k
          BY <3>2, <3>4
    <3>7. DOMAIN q = 1..L /\ DOMAIN t = 1..Len(t) /\ DOMAIN Q = 1..(L + Len(t))
          BY <3>1, <3>2 DEF L
    <3> QED BY <3>2, <3>3, <3>4, <3>5, <3>6, <3>7
  <2> HIDE DEF Q, L
  <2>4. \A i \in 1..n : i \in 1..(n - 1) \/ i = n
        BY <2>1
  <2>5. \A i \in 1..(n - 1) : i \in 1..n
        BY <2>1
  <2>6. ASSUME NEW r \in DOMAIN Q PROVE \E i \in 1..n : \E k \in DOMAIN ss[i] : Q[r] = ss[i][k]
    <3>1. CASE r \in 1..L
      <4>1. PICK i \in 1..(n - 1) : \E k \in DOMAIN ss[i] : q[r] = ss[i][k]
            BY <2>2, <2>3, <3>1
      <4>2. i \in 1..n /\ Q[r] = q[r]
            BY <2>3, <2>5, <3>1
      <4> QED BY <4>1, <4>2
    <3>2. CASE r \notin 1..L
      <4>1. r - L \in 1..Len(t) /\ L + (r - L) = r
            BY <2>3, <3>2
      <4>2. Q[r] = t[r - L] /\ n \in 1..n
            BY <2>1, <2>3, <4>1
      <4> QED BY <2>3, <4>1, <4>2
    <3> QED BY <3>1, <3>2
  <2>7. ASSUME NEW i \in 1..n, NEW k \in DOMAIN ss[i] PROVE \E r \in DOMAIN Q : Q[r] = ss[i][k]
    <3>1. CASE i \in 1..(n - 1)
      <4>1. PICK r \in 1..L : q[r] = ss[i][k]
            BY <2>2, <2>3, <3>1
      <4>2. r \in 1..(L + Len(t))
            BY <2>3
      <4> QED BY <2>3, <4>1, <4>2
    <3>2. CASE i = n
      <4>1. k \in 1..Len(t) /\ Q[L + k] = t[k]
            BY <2>3, <3>2
      <4>2. L + k \in 1..(L + Len(t))
            BY <2>3, <4>1
      <4> QED BY <2>3, <3>2, <4>1, <4>2
    <3> QED BY <2>4, <3>1, <3>2
  <2>8. Consists(n, Q)
        BY <2>6, <2>7
  <2> HIDE DEF Consists
  <2> QED BY <2>1, <2>3, <2>8 DEF Q
<1> HIDE DEF P
<1>3. FlattenSeq(ss) \in Seq(T) /\ <<Len(ss), FlattenSeq(ss)>> \in P
      BY <1>1, <1>2, FlattenBy
<1>4. Consists(Len(ss), FlattenSeq(ss))
      BY <1>3 DEF P
<1>5. DOMAIN ss = 1..Len(ss)
      OBVIOUS
<1> QED BY <1>3, <1>4, <1>5

\* Two sequences in one.
LEMMA Joined ==
    ASSUME NEW T, NEW q \in Seq(T), NEW t \in Seq(T)
    PROVE  /\ q \o t \in Seq(T) /\ Len(q \o t) = Len(q) + Len(t)
           /\ DOMAIN (q \o t) = 1..(Len(q) + Len(t))
           /\ \A i \in 1..Len(q) : (q \o t)[i] = q[i]
           /\ \A i \in 1..Len(t) : (q \o t)[Len(q) + i] = t[i]
           /\ ToSet(q \o t) = ToSet(q) \cup ToSet(t)
<1> DEFINE Q == q \o t
           L == Len(q)
           M == Len(t)
<1>1. Q \in Seq(T) /\ Len(Q) = L + M /\ \A r \in 1..Len(Q) : Q[r] = IF r <= L THEN q[r] ELSE t[r - L]
      BY ConcatProperties
<1>2. L \in Nat /\ M \in Nat /\ DOMAIN q = 1..L /\ DOMAIN t = 1..M
      OBVIOUS
<1> HIDE DEF Q, L, M
<1>3. DOMAIN Q = 1..(L + M)
      BY <1>1
<1>4. \A i \in 1..L : Q[i] = q[i] /\ i \in DOMAIN Q
  <2>1. \A i \in 1..L : i \in 1..Len(Q) /\ i <= L
        BY <1>1, <1>2
  <2> QED BY <1>1, <1>3, <2>1
<1>5. \A i \in 1..M : Q[L + i] = t[i] /\ L + i \in DOMAIN Q
  <2>1. \A i \in 1..M : L + i \in 1..Len(Q) /\ ~(L + i <= L) /\ (L + i) - L = i
        BY <1>1, <1>2
  <2> QED BY <1>1, <1>3, <2>1
<1>6. ASSUME NEW r \in DOMAIN Q PROVE Q[r] \in ToSet(q) \cup ToSet(t)
  <2>1. CASE r \in 1..L
        BY <1>2, <1>4, <2>1 DEF ToSet
  <2>2. CASE r \notin 1..L
    <3>1. r - L \in 1..M /\ L + (r - L) = r
          BY <1>2, <1>3, <2>2
    <3> QED BY <1>2, <1>5, <3>1 DEF ToSet
  <2> QED BY <2>1, <2>2
<1>7. \A y \in ToSet(q) \cup ToSet(t) : y \in ToSet(Q)
      BY <1>2, <1>4, <1>5 DEF ToSet
<1>8. ToSet(Q) = ToSet(q) \cup ToSet(t)
  <2>1. \A y \in ToSet(Q) : y \in ToSet(q) \cup ToSet(t)
        BY <1>6 DEF ToSet
  <2> QED BY <1>7, <2>1
<1> QED BY <1>1, <1>3, <1>4, <1>5, <1>8 DEF Q, L, M

-----------------------------------------------------------------------------
(***************************************************************************)
(* Products, divisions and sums.                                           *)
(***************************************************************************)
LEMMA Monotone == \A a, b, c \in Nat : a <= b => a * c <= b * c
OBVIOUS

\* Products of natural numbers, and one more of them.
LEMMA Product == \A a, b \in Nat : a * b \in Nat /\ (a + 1) * b = a * b + b
OBVIOUS

\* Quotient and remainder.
LEMMA Division ==
    ASSUME NEW k \in Nat, NEW m \in Nat \ {0}
    PROVE  /\ k \div m \in Nat /\ k % m \in 0..(m - 1)
           /\ k = (k \div m) * m + (k % m)
OBVIOUS

\* Quotient and remainder are unique.
LEMMA OneQuotient ==
    ASSUME NEW m \in Nat \ {0}, NEW q1 \in Nat, NEW q2 \in Nat,
           NEW r1 \in 0..(m - 1), NEW r2 \in 0..(m - 1), q1 * m + r1 = q2 * m + r2
    PROVE  q1 = q2 /\ r1 = r2
<1>1. ASSUME NEW a \in Nat, NEW b \in Nat, a < b
      PROVE  a * m + m <= b * m
      BY <1>1, Monotone, Product, a + 1 <= b, a + 1 \in Nat
<1>2. q1 * m \in Nat /\ q2 * m \in Nat
      BY Product
<1>3. CASE q1 < q2
      BY <1>1, <1>2, <1>3
<1>4. CASE q2 < q1
      BY <1>1, <1>2, <1>4
<1>5. CASE q1 = q2
      BY <1>2, <1>5
<1> QED BY <1>3, <1>4, <1>5

\* The quotient and the remainder are the only ones.
LEMMA Quotient ==
    ASSUME NEW m \in Nat \ {0}, NEW q \in Nat, NEW r \in 0..(m - 1)
    PROVE  (q * m + r) % m = r /\ (q * m + r) \div m = q /\ q * m + r \in Nat
<1> DEFINE k == q * m + r
<1>1. k \in Nat
      BY Product
<1>2. k \div m \in Nat /\ k % m \in 0..(m - 1) /\ k = (k \div m) * m + (k % m)
  <2> HIDE DEF k
  <2> QED BY <1>1, Division
<1>3. q * m + r = (k \div m) * m + (k % m)
      BY <1>2
<1> HIDE DEF k
<1>4. k % m = r /\ k \div m = q
      BY <1>2, <1>3, OneQuotient
<1> QED BY <1>1, <1>4 DEF k

\* A quotient against a bound.
LEMMA QuotientBelow ==
    ASSUME NEW k \in Nat, NEW m \in Nat \ {0}, NEW b \in Nat
    PROVE  /\ k <= b * m => k \div m <= b
           /\ k < b * m => k \div m < b
           /\ (k \div m) * m <= k
<1>1. PICK q \in Nat, r \in 0..(m - 1) : q = k \div m /\ k = q * m + r
      BY Division
<1>2. q * m \in Nat /\ b * m \in Nat
      BY Product
<1>3. ASSUME b < q PROVE b * m + m <= q * m
  <2>1. b + 1 \in Nat /\ b + 1 <= q
        BY <1>3
  <2> QED BY <2>1, Monotone, Product
<1>4. ASSUME b <= q PROVE b * m <= q * m
      BY <1>4, Monotone
<1> QED BY <1>1, <1>2, <1>3, <1>4

\* The products of a common factor.
LEMMA Cancel ==
    ASSUME NEW a \in Nat, NEW b \in Nat, NEW m \in Nat \ {0}
    PROVE  (a * m <= b * m => a <= b) /\ (a * m = b * m => a = b)
<1>1. a * m \in Nat /\ b * m \in Nat
      BY Product
<1>2. ASSUME b < a PROVE b * m + m <= a * m
  <2>1. b + 1 \in Nat /\ b + 1 <= a
        BY <1>2
  <2> QED BY <2>1, Monotone, Product
<1>3. ASSUME a < b PROVE a * m + m <= b * m
  <2>1. a + 1 \in Nat /\ a + 1 <= b
        BY <1>3
  <2> QED BY <2>1, Monotone, Product
<1> QED BY <1>1, <1>2, <1>3

\* Arithmetic with products.
LEMMA Distributes == \A a, b, c \in Nat : (a + b) * c = a * c + b * c /\ a * c = c * a /\ (a * b) * c = a * (b * c)
OBVIOUS

\* The function inside Sum, on the subsets of the first n indices.
Adds(f, q, n) ==
    f = [s \in SUBSET (1..n) |-> IF s = {} THEN 0 ELSE f[s \ {Max(s)}] + q[Max(s)]]

\* A set of numbers up to n + 1 has n + 1 as its greatest or goes up to n.
LEMMA TopOf ==
    ASSUME NEW n \in Nat, NEW s \in SUBSET (1..(n + 1))
    PROVE  /\ n + 1 \in s => Max(s) = n + 1 /\ s \ {n + 1} \in SUBSET (1..n)
           /\ n + 1 \notin s => s \in SUBSET (1..n)
<1>1. ASSUME n + 1 \in s PROVE Max(s) = n + 1
  <2>1. \A y \in s : n + 1 >= y
        OBVIOUS
  <2>2. \A x \in s : (\A y \in s : x >= y) => x = n + 1
    <3> SUFFICES ASSUME NEW x \in s, x >= n + 1 PROVE x = n + 1
        BY <1>1
    <3> QED OBVIOUS
  <2> QED BY <1>1, <2>1, <2>2 DEF Max
<1>2. \A x \in 1..(n + 1) : x # n + 1 => x \in 1..n
      OBVIOUS
<1> QED BY <1>1, <1>2

\* Every list has its sums of first elements.
LEMMA AddsExists ==
    ASSUME NEW q, NEW n \in Nat
    PROVE  \E f : Adds(f, q, n)
<1> DEFINE S == {k \in Nat : \E f : Adds(f, q, k)}
<1>1. 0 \in S
  <2> DEFINE f == [s \in SUBSET (1..0) |-> 0]
  <2>1. \A s \in SUBSET (1..0) : s = {}
        OBVIOUS
  <2>2. f = [s \in SUBSET (1..0) |-> IF s = {} THEN 0 ELSE f[s \ {Max(s)}] + q[Max(s)]]
        BY <2>1
  <2>3. Adds(f, q, 0)
        BY <2>2 DEF Adds
  <2> QED BY <2>3
<1>2. ASSUME NEW k \in Nat, k \in S PROVE k + 1 \in S
  <2>1. PICK f : Adds(f, q, k)
        BY <1>2
  <2> DEFINE g == [s \in SUBSET (1..(k + 1)) |-> IF k + 1 \in s THEN f[s \ {k + 1}] + q[k + 1] ELSE f[s]]
             step(h, s) == IF s = {} THEN 0 ELSE h[s \ {Max(s)}] + q[Max(s)]
  <2>2. \A s \in SUBSET (1..k) : f[s] = step(f, s)
        BY <2>1 DEF Adds
  <2>3. \A s \in SUBSET (1..k) : g[s] = f[s]
    <3>1. \A s \in SUBSET (1..k) : s \in SUBSET (1..(k + 1)) /\ k + 1 \notin s
          OBVIOUS
    <3> QED BY <3>1
  <2>4. ASSUME NEW s \in SUBSET (1..(k + 1)) PROVE g[s] = step(g, s)
    <3>1. CASE k + 1 \in s
      <4>1. Max(s) = k + 1 /\ s \ {k + 1} \in SUBSET (1..k) /\ s # {}
            BY <3>1, TopOf
      <4>2. g[s] = f[s \ {k + 1}] + q[k + 1]
            BY <3>1
      <4>3. g[s \ {k + 1}] = f[s \ {k + 1}]
            BY <2>3, <4>1
      <4> HIDE DEF g
      <4> QED BY <4>1, <4>2, <4>3
    <3>2. CASE k + 1 \notin s
      <4>1. s \in SUBSET (1..k)
            BY <3>2, TopOf
      <4>2. s \ {Max(s)} \in SUBSET (1..k)
            BY <4>1
      <4>3. g[s] = f[s] /\ g[s \ {Max(s)}] = f[s \ {Max(s)}]
            BY <2>3, <4>1, <4>2
      <4> HIDE DEF g
      <4> QED BY <2>2, <4>1, <4>3
    <3> QED BY <3>1, <3>2
  <2>5. Adds(g, q, k + 1)
    <3>1. g = [s \in SUBSET (1..(k + 1)) |-> g[s]]
          OBVIOUS
    <3> HIDE DEF g
    <3> QED BY <2>4, <3>1 DEF Adds
  <2> QED BY <2>5
<1>3. Nat \subseteq S
  <2> HIDE DEF S
  <2> QED BY <1>1, <1>2, SetInduction
<1> QED BY <1>3

\* Sum adds the numbers up from the first to the last.
LEMMA SumSteps ==
    ASSUME NEW q, NEW n \in Nat, DOMAIN q = 1..n
    PROVE  \E h : h[0] = 0 /\ (\A k \in 1..n : h[k] = h[k - 1] + q[k]) /\ Sum(q) = h[n]
<1> DEFINE Is_(f) == f = [s \in SUBSET (1..n) |-> IF s = {} THEN 0 ELSE f[s \ {Max(s)}] + q[Max(s)]]
           f == CHOOSE g : Is_(g)
<1>1. Sum(q) = f[1..n]
  <2>1. Sum(q) = (CHOOSE g : g = [s \in SUBSET DOMAIN q |-> IF s = {} THEN 0 ELSE g[s \ {Max(s)}] + q[Max(s)]])[DOMAIN q]
        BY DEF Sum, FoldLeft, MapThenFoldSet
  <2> QED BY <2>1
<1>2. Is_(f)
  <2>1. \E g : Is_(g)
        BY AddsExists DEF Adds
  <2> HIDE DEF Is_
  <2> QED BY <2>1
<1> HIDE DEF f
<1>3. \A s \in SUBSET (1..n) : f[s] = IF s = {} THEN 0 ELSE f[s \ {Max(s)}] + q[Max(s)]
      BY <1>2
<1> DEFINE h == [k \in 0..n |-> f[1..k]]
<1>4. h[0] = 0
  <2>1. 1..0 = {} /\ 1..0 \in SUBSET (1..n) /\ 0 \in 0..n
        OBVIOUS
  <2> QED BY <1>3, <2>1
<1>5. ASSUME NEW k \in 1..n PROVE h[k] = h[k - 1] + q[k]
  <2>1. k \in Nat /\ k - 1 \in Nat /\ (k - 1) + 1 = k /\ k \in 0..n /\ k - 1 \in 0..n
        OBVIOUS
  <2>2. 1..k \in SUBSET (1..n) /\ k \in 1..k
        OBVIOUS
  <2>3. Max(1..k) = k
        BY <2>1, <2>2, TopOf
  <2>4. (1..k) \ {k} = 1..(k - 1)
        BY <2>1
  <2>5. 1..k # {}
        BY <2>2
  <2>6. f[1..k] = f[(1..k) \ {Max(1..k)}] + q[Max(1..k)]
        BY <1>3, <2>2, <2>5
  <2>7. f[1..k] = f[1..(k - 1)] + q[k]
        BY <2>3, <2>4, <2>6
  <2>8. h[k] = f[1..k] /\ h[k - 1] = f[1..(k - 1)]
        BY <2>1
  <2> QED BY <2>7, <2>8
<1>6. Sum(q) = h[n]
  <2>1. n \in 0..n
        OBVIOUS
  <2> QED BY <1>1, <2>1
<1> HIDE DEF h
<1> QED BY <1>4, <1>5, <1>6

\* The sum of equal numbers.
LEMMA SumOfEqual ==
    ASSUME NEW q, NEW n \in Nat, DOMAIN q = 1..n, NEW g \in Nat, \A k \in 1..n : q[k] = g
    PROVE  Sum(q) = n * g
<1>1. PICK h : h[0] = 0 /\ (\A k \in 1..n : h[k] = h[k - 1] + q[k]) /\ Sum(q) = h[n]
      BY SumSteps
<1> DEFINE S == {k \in Nat : k \in 0..n => h[k] = k * g}
<1>2. 0 \in S
      BY <1>1
<1>3. ASSUME NEW k \in Nat, k \in S PROVE k + 1 \in S
  <2> SUFFICES ASSUME k + 1 \in 0..n PROVE h[k + 1] = (k + 1) * g
      OBVIOUS
  <2>1. k \in 0..n /\ k + 1 \in 1..n /\ (k + 1) - 1 = k
        OBVIOUS
  <2>2. h[k] = k * g /\ h[k + 1] = h[k] + g
        BY <1>1, <1>3, <2>1
  <2> QED BY <2>2, Product
<1>4. Nat \subseteq S
  <2> HIDE DEF S
  <2> QED BY <1>2, <1>3, SetInduction
<1>5. n \in S /\ n \in 0..n
      BY <1>4
<1> QED BY <1>1, <1>5

-----------------------------------------------------------------------------
(***************************************************************************)
(* What Filtered keeps of a list.                                          *)
(***************************************************************************)
Kept(list, set) == [i \in DOMAIN list |-> IF list[i] \in set THEN <<list[i]>> ELSE <<>>]

\* Each element of a list that is in a set, as a list of its own.
LEMMA KeptType ==
    ASSUME NEW T, NEW list \in Seq(T), NEW set
    PROVE  /\ Kept(list, set) \in Seq(Seq(T)) /\ Len(Kept(list, set)) = Len(list)
           /\ \A i \in 1..Len(list) :
                 Kept(list, set)[i] = IF list[i] \in set THEN <<list[i]>> ELSE <<>>
<1>1. DOMAIN list = 1..Len(list) /\ Len(list) \in Nat /\ \A i \in 1..Len(list) : list[i] \in T
      OBVIOUS
<1>2. \A i \in 1..Len(list) : (IF list[i] \in set THEN <<list[i]>> ELSE <<>>) \in Seq(T)
      BY <1>1
<1> DEFINE ss == Kept(list, set)
<1>3. ss \in [1..Len(list) -> Seq(T)]
      BY <1>1, <1>2 DEF Kept
<1>4. ss \in Seq(Seq(T)) /\ Len(ss) = Len(list)
  <2> HIDE DEF ss
  <2> QED BY <1>1, <1>3
<1> QED BY <1>1, <1>4 DEF Kept

\* What holds of the empty list and is kept with every element holds of the filtered list.
LEMMA FilteredBy ==
    ASSUME NEW T, NEW list \in Seq(T), NEW set, NEW P, <<0, <<>>>> \in P,
           \A i \in 1..Len(list) : \A q \in Seq(T) :
              <<i - 1, q>> \in P =>
                 <<i, IF list[i] \in set THEN Append(q, list[i]) ELSE q>> \in P
    PROVE  Filtered(list, set) \in Seq(T) /\ <<Len(list), Filtered(list, set)>> \in P
<1> DEFINE ss == Kept(list, set)
<1>1. /\ ss \in Seq(Seq(T)) /\ Len(ss) = Len(list)
      /\ \A i \in 1..Len(list) : ss[i] = IF list[i] \in set THEN <<list[i]>> ELSE <<>>
      BY KeptType
<1>2. Filtered(list, set) = FlattenSeq(ss)
      BY DEF Filtered, Kept
<1> HIDE DEF ss
<1>3. ASSUME NEW i \in 1..Len(ss), NEW q \in Seq(T), <<i - 1, q>> \in P
      PROVE  <<i, q \o ss[i]>> \in P
  <2>1. i \in 1..Len(list) /\ list[i] \in T
        BY <1>1
  <2>2. <<i, IF list[i] \in set THEN Append(q, list[i]) ELSE q>> \in P
        BY <1>3, <2>1
  <2>3. CASE list[i] \in set
    <3>1. q \o <<list[i]>> = Append(q, list[i])
          BY <2>1
    <3> QED BY <1>1, <2>1, <2>2, <2>3, <3>1
  <2>4. CASE list[i] \notin set
    <3>1. q \o <<>> = q
          BY ConcatEmptySeq
    <3> QED BY <1>1, <2>1, <2>2, <2>4, <3>1
  <2> QED BY <2>3, <2>4
<1>4. FlattenSeq(ss) \in Seq(T) /\ <<Len(ss), FlattenSeq(ss)>> \in P
      BY <1>1, <1>3, FlattenBy
<1> QED BY <1>1, <1>2, <1>4

\* A list without repetitions, filtered, has none, and holds what is in both.
LEMMA FilteredHolds ==
    ASSUME NEW T, NEW list \in Seq(T), NEW set,
           \A i, j \in 1..Len(list) : list[i] = list[j] => i = j
    PROVE  LET F == Filtered(list, set)
           IN  /\ F \in Seq(T)
               /\ \A k \in 1..Len(F) : F[k] \in set
               /\ \A i \in 1..Len(list) : list[i] \in set => \E k \in 1..Len(F) : F[k] = list[i]
               /\ \A k, l \in 1..Len(F) : F[k] = F[l] => k = l
<1> DEFINE Good(n, q) ==
              /\ \A k \in 1..Len(q) : \E i \in 1..n : list[i] \in set /\ q[k] = list[i]
              /\ \A i \in 1..n : list[i] \in set => \E k \in 1..Len(q) : q[k] = list[i]
              /\ \A k, l \in 1..Len(q) : q[k] = q[l] => k = l
           P == {np \in Nat \X Seq(T) : Good(np[1], np[2])}
<1>1. <<0, <<>>>> \in P
  <2>1. 1..0 = {} /\ Len(<<>>) = 0 /\ <<>> \in Seq(T)
        OBVIOUS
  <2>2. Good(0, <<>>)
        BY <2>1
  <2>3. <<>> \in Seq(T) /\ 0 \in Nat
        OBVIOUS
  <2> HIDE DEF Good
  <2> QED BY <2>2, <2>3
<1>2. ASSUME NEW n \in 1..Len(list), NEW q \in Seq(T), <<n - 1, q>> \in P
      PROVE  <<n, IF list[n] \in set THEN Append(q, list[n]) ELSE q>> \in P
  <2>1. n \in Nat /\ n - 1 \in Nat /\ list[n] \in T
        OBVIOUS
  <2>2. Good(n - 1, q)
        BY <1>2
  <2>3. \A i \in 1..n : i \in 1..(n - 1) \/ i = n
        BY <2>1
  <2>4. \A i \in 1..(n - 1) : i \in 1..n /\ i # n /\ i \in 1..Len(list)
        BY <2>1
  <2>5. CASE list[n] \notin set
    <3>1. Good(n, q)
          BY <2>2, <2>3, <2>4, <2>5
    <3> HIDE DEF Good
    <3> QED BY <2>1, <2>5, <3>1
  <2>6. CASE list[n] \in set
    <3> DEFINE Q == Append(q, list[n])
               L == Len(q)
    <3>1. /\ Q \in Seq(T) /\ Len(Q) = L + 1 /\ L \in Nat /\ Q[L + 1] = list[n]
          /\ \A k \in 1..L : Q[k] = q[k]
          BY <2>1
    <3> HIDE DEF Q, L
    <3>2. \A k \in 1..(L + 1) : k \in 1..L \/ k = L + 1
          BY <3>1
    <3>3. \A k \in 1..L : k \in 1..(L + 1) /\ k # L + 1
          BY <3>1
    <3>4. L + 1 \in 1..(L + 1) /\ n \in 1..n
          BY <2>1, <3>1
    <3>5. \A k \in 1..L : \E i \in 1..(n - 1) : list[i] \in set /\ q[k] = list[i]
          BY <2>2 DEF L
    <3>6. \A i \in 1..(n - 1) : list[i] \in set => \E k \in 1..L : q[k] = list[i]
          BY <2>2 DEF L
    <3>7. \A k, l \in 1..L : q[k] = q[l] => k = l
          BY <2>2 DEF L
    <3>8. \A k \in 1..L : Q[k] # list[n]
      <4> SUFFICES ASSUME NEW k \in 1..L PROVE Q[k] # list[n]
          OBVIOUS
      <4>1. PICK i \in 1..(n - 1) : q[k] = list[i]
            BY <3>5
      <4>2. i # n /\ i \in 1..Len(list)
            BY <2>4
      <4> QED BY <3>1, <4>1, <4>2
    <3>9. ASSUME NEW k \in 1..(L + 1) PROVE \E i \in 1..n : list[i] \in set /\ Q[k] = list[i]
      <4>1. CASE k = L + 1
            BY <2>6, <3>1, <3>4, <4>1
      <4>2. CASE k \in 1..L
            BY <2>4, <3>1, <3>5, <4>2
      <4> QED BY <3>2, <4>1, <4>2
    <3>10. ASSUME NEW i \in 1..n, list[i] \in set PROVE \E k \in 1..(L + 1) : Q[k] = list[i]
      <4>1. CASE i = n
            BY <3>1, <3>4, <4>1
      <4>2. CASE i \in 1..(n - 1)
        <5>1. PICK k \in 1..L : q[k] = list[i]
              BY <3>6, <3>10, <4>2
        <5> QED BY <3>1, <3>3, <5>1
      <4> QED BY <2>3, <4>1, <4>2
    <3>11. ASSUME NEW k \in 1..(L + 1), NEW l \in 1..(L + 1), Q[k] = Q[l] PROVE k = l
      <4>1. CASE k \in 1..L /\ l \in 1..L
            BY <3>1, <3>7, <3>11, <4>1
      <4>2. CASE k = L + 1 /\ l \in 1..L
            BY <3>1, <3>8, <3>11, <4>2
      <4>3. CASE k \in 1..L /\ l = L + 1
            BY <3>1, <3>8, <3>11, <4>3
      <4> QED BY <3>2, <4>1, <4>2, <4>3
    <3>12. Good(n, Q)
          BY <3>1, <3>9, <3>10, <3>11
    <3> HIDE DEF Good
    <3> QED BY <2>1, <2>6, <3>1, <3>12 DEF Q
  <2> QED BY <2>5, <2>6
<1> HIDE DEF P
<1>3. Filtered(list, set) \in Seq(T) /\ <<Len(list), Filtered(list, set)>> \in P
      BY <1>1, <1>2, FilteredBy
<1>4. Good(Len(list), Filtered(list, set))
      BY <1>3 DEF P
<1> QED BY <1>3, <1>4

\* The members of a list that are in a set are the l that follow the a-th.
InRow(list, set, a, l) ==
    a + l <= Len(list) /\ \A i \in 1..Len(list) : list[i] \in set <=> i \in (a + 1)..(a + l)

\* A stretch of a list, filtered out.
LEMMA FilteredInterval ==
    ASSUME NEW T, NEW list \in Seq(T), NEW set, NEW a \in Nat, NEW l \in Nat, InRow(list, set, a, l)
    PROVE  /\ Filtered(list, set) \in Seq(T)
           /\ Len(Filtered(list, set)) = l
           /\ \A k \in 1..l : Filtered(list, set)[k] = list[a + k]
<1>0. a + l <= Len(list) /\ \A i \in 1..Len(list) : list[i] \in set <=> i \in (a + 1)..(a + l)
      BY DEF InRow
<1> DEFINE Cut(n) == IF n <= a THEN 0 ELSE IF n <= a + l THEN n - a ELSE l
           Good(n, q) == Len(q) = Cut(n) /\ \A k \in 1..Cut(n) : q[k] = list[a + k]
           P == {np \in Nat \X Seq(T) : Good(np[1], np[2])}
<1>1. <<0, <<>>>> \in P
  <2>1. 1..0 = {} /\ Len(<<>>) = 0 /\ <<>> \in Seq(T) /\ Cut(0) = 0
        OBVIOUS
  <2>2. Good(0, <<>>)
    <3> HIDE DEF Cut
    <3> QED BY <2>1
  <2>3. <<>> \in Seq(T) /\ 0 \in Nat
        OBVIOUS
  <2> HIDE DEF Good
  <2> QED BY <2>2, <2>3
<1>2. ASSUME NEW n \in 1..Len(list), NEW q \in Seq(T), <<n - 1, q>> \in P
      PROVE  <<n, IF list[n] \in set THEN Append(q, list[n]) ELSE q>> \in P
  <2>1. n \in Nat /\ n - 1 \in Nat /\ list[n] \in T
        OBVIOUS
  <2>2. Good(n - 1, q)
        BY <1>2
  <2>5. CASE list[n] \notin set
    <3>1. Cut(n) = Cut(n - 1)
          BY <1>0, <2>1, <2>5
    <3>2. Good(n, q)
      <4> HIDE DEF Cut
      <4> QED BY <2>2, <3>1
    <3> HIDE DEF Good
    <3> QED BY <2>1, <2>5, <3>2
  <2>6. CASE list[n] \in set
    <3>1. Cut(n) = Cut(n - 1) + 1 /\ n = a + Cut(n) /\ Cut(n - 1) \in Nat
          BY <1>0, <2>1, <2>6
    <3> HIDE DEF Cut
    <3> DEFINE Q == Append(q, list[n])
    <3>2. Len(q) = Cut(n - 1) /\ \A k \in 1..Cut(n - 1) : q[k] = list[a + k]
          BY <2>2
    <3>3. Q \in Seq(T) /\ Len(Q) = Cut(n) /\ Q[Cut(n)] = list[n] /\ \A k \in 1..Cut(n - 1) : Q[k] = q[k]
          BY <2>1, <3>1, <3>2
    <3> HIDE DEF Q
    <3>4. \A k \in 1..Cut(n) : k \in 1..Cut(n - 1) \/ k = Cut(n)
          BY <3>1
    <3>5. Good(n, Q)
          BY <3>1, <3>2, <3>3, <3>4
    <3> HIDE DEF Good
    <3> QED BY <2>1, <2>6, <3>3, <3>5 DEF Q
  <2> QED BY <2>5, <2>6
<1> HIDE DEF P
<1>3. Filtered(list, set) \in Seq(T) /\ <<Len(list), Filtered(list, set)>> \in P
      BY <1>1, <1>2, FilteredBy
<1>4. Good(Len(list), Filtered(list, set))
      BY <1>3 DEF P
<1>5. Cut(Len(list)) = l
      BY <1>0
<1> HIDE DEF Cut
<1> QED BY <1>3, <1>4, <1>5

-----------------------------------------------------------------------------
(***************************************************************************)
(* Counting the units of several nodes.                                    *)
(***************************************************************************)
Fan(f) == UNION {{j} \X f[j] : j \in DOMAIN f}

\* The pairs of an index and an element of the set at that index.
LEMMA FanHolds ==
    ASSUME NEW f
    PROVE  /\ \A p \in Fan(f) : \E j \in DOMAIN f : \E u \in f[j] : p = <<j, u>>
           /\ \A j \in DOMAIN f : \A u \in f[j] : <<j, u>> \in Fan(f)
           /\ \A j, u : <<j, u>> \in Fan(f) => j \in DOMAIN f /\ u \in f[j]
BY DEF Fan

\* Disjoint finite sets add up.
LEMMA Apart ==
    ASSUME NEW S, NEW T, IsFiniteSet(S), IsFiniteSet(T), \A x \in S : x \notin T
    PROVE  /\ IsFiniteSet(S \cup T)
           /\ Cardinality(S \cup T) = Cardinality(S) + Cardinality(T)
           /\ Cardinality(S) \in Nat /\ Cardinality(T) \in Nat
<1>1. S \cap T = {}
      OBVIOUS
<1>2. Cardinality(S \cap T) = 0
      BY <1>1, FS_EmptySet
<1>3. Cardinality(S) \in Nat /\ Cardinality(T) \in Nat
      BY FS_CardinalityType
<1>4. IsFiniteSet(S \cup T) /\ Cardinality(S \cup T) = Cardinality(S) + Cardinality(T) - Cardinality(S \cap T)
      BY FS_Union
<1> QED BY <1>2, <1>3, <1>4

\* Sets whose elements correspond one to one have as many.
LEMMA SameCount ==
    ASSUME NEW S, NEW T, IsFiniteSet(S), NEW f \in [S -> T],
           \A x, y \in S : f[x] = f[y] => x = y,
           \A z \in T : \E x \in S : f[x] = z
    PROVE  IsFiniteSet(T) /\ Cardinality(T) = Cardinality(S)
<1>1. f \in Bijection(S, T)
      BY DEF Bijection, Injection, Surjection, IsInjective
<1>2. ExistsBijection(S, T)
      BY <1>1 DEF ExistsBijection
<1> QED BY <1>2, FS_Bijection

\* A row of pairs is as large as its set.
LEMMA OneRow ==
    ASSUME NEW j, NEW S, IsFiniteSet(S)
    PROVE  IsFiniteSet({j} \X S) /\ Cardinality({j} \X S) = Cardinality(S)
<1> DEFINE f == [u \in S |-> <<j, u>>]
<1>1. f \in [S -> {j} \X S]
      OBVIOUS
<1>2. \A x, y \in S : f[x] = f[y] => x = y
      OBVIOUS
<1>3. \A z \in {j} \X S : \E x \in S : f[x] = z
  <2> SUFFICES ASSUME NEW z \in {j} \X S PROVE \E x \in S : f[x] = z
      OBVIOUS
  <2>1. z[2] \in S /\ z = <<j, z[2]>>
        OBVIOUS
  <2> QED BY <2>1
<1> HIDE DEF f
<1> QED BY <1>1, <1>2, <1>3, SameCount

\* One more row.
LEMMA FanGrows ==
    ASSUME NEW f, NEW g, NEW x, IsFiniteSet(Fan(f)), IsFiniteSet(g[x]),
           DOMAIN g = DOMAIN f \cup {x}, x \in DOMAIN f => f[x] = {},
           \A j \in DOMAIN f : j # x => g[j] = f[j]
    PROVE  /\ IsFiniteSet(Fan(g)) /\ Cardinality(Fan(g)) = Cardinality(Fan(f)) + Cardinality(g[x])
           /\ Cardinality(Fan(f)) \in Nat /\ Cardinality(g[x]) \in Nat
<1> DEFINE R == {x} \X g[x]
<1>1. IsFiniteSet(R) /\ Cardinality(R) = Cardinality(g[x])
      BY OneRow
<1>2. \A p \in Fan(f) : p \notin R
  <2> SUFFICES ASSUME NEW p \in Fan(f), p \in R PROVE FALSE
      OBVIOUS
  <2>1. PICK j \in DOMAIN f : \E u \in f[j] : p = <<j, u>>
        BY FanHolds
  <2>2. j = x
        BY <2>1
  <2> QED BY <2>1, <2>2
<1>3. \A p \in Fan(g) : p \in Fan(f) \cup R
  <2> SUFFICES ASSUME NEW p \in Fan(g) PROVE p \in Fan(f) \cup R
      OBVIOUS
  <2>1. PICK j, u : j \in DOMAIN g /\ u \in g[j] /\ p = <<j, u>>
        BY FanHolds
  <2>2. CASE j = x
        BY <2>1, <2>2
  <2>3. CASE j # x
    <3>1. j \in DOMAIN f /\ u \in f[j]
          BY <2>1, <2>3
    <3> QED BY <2>1, <3>1, FanHolds
  <2> QED BY <2>2, <2>3
<1>4. \A p \in Fan(f) : p \in Fan(g)
  <2> SUFFICES ASSUME NEW p \in Fan(f) PROVE p \in Fan(g)
      OBVIOUS
  <2>1. PICK j, u : j \in DOMAIN f /\ u \in f[j] /\ p = <<j, u>>
        BY FanHolds
  <2>2. j # x
        BY <2>1
  <2>3. j \in DOMAIN g /\ u \in g[j]
        BY <2>1, <2>2
  <2> QED BY <2>1, <2>3, FanHolds
<1>5. \A p \in R : p \in Fan(g)
  <2> SUFFICES ASSUME NEW p \in R PROVE p \in Fan(g)
      OBVIOUS
  <2>1. p = <<x, p[2]>> /\ p[2] \in g[x] /\ x \in DOMAIN g
        OBVIOUS
  <2> QED BY <2>1, FanHolds
<1> HIDE DEF R
<1>6. Fan(g) = Fan(f) \cup R
      BY <1>3, <1>4, <1>5
<1>7. /\ IsFiniteSet(Fan(f) \cup R) /\ Cardinality(Fan(f) \cup R) = Cardinality(Fan(f)) + Cardinality(R)
      /\ Cardinality(Fan(f)) \in Nat /\ Cardinality(R) \in Nat
      BY <1>1, <1>2, Apart
<1> QED BY <1>1, <1>6, <1>7

\* Finitely many finite rows.
LEMMA FanFinite ==
    ASSUME NEW f, NEW n \in Nat, DOMAIN f = 1..n, \A j \in 1..n : IsFiniteSet(f[j])
    PROVE  IsFiniteSet(Fan(f)) /\ Cardinality(Fan(f)) \in Nat
<1> DEFINE part(k) == [j \in 1..k |-> f[j]]
           S == {k \in Nat : k <= n => IsFiniteSet(Fan(part(k)))}
<1>1. 0 \in S
  <2>1. DOMAIN part(0) = {}
        OBVIOUS
  <2> HIDE DEF part
  <2>2. Fan(part(0)) = {}
        BY <2>1, FanHolds
  <2> QED BY <2>2, FS_EmptySet
<1>2. ASSUME NEW k \in Nat, k \in S PROVE k + 1 \in S
  <2> SUFFICES ASSUME k + 1 <= n PROVE IsFiniteSet(Fan(part(k + 1)))
      OBVIOUS
  <2>1. /\ DOMAIN part(k + 1) = DOMAIN part(k) \cup {k + 1} /\ k + 1 \notin DOMAIN part(k)
        /\ part(k + 1)[k + 1] = f[k + 1] /\ k + 1 \in 1..n
        /\ \A j \in DOMAIN part(k) : part(k + 1)[j] = part(k)[j]
        OBVIOUS
  <2>2. IsFiniteSet(Fan(part(k)))
        BY <1>2
  <2> HIDE DEF part
  <2> QED BY <2>1, <2>2, FanGrows
<1>3. n \in S
  <2> HIDE DEF S
  <2> QED BY <1>1, <1>2, SetInduction
<1>4. Fan(part(n)) = Fan(f)
      BY DEF Fan
<1>5. IsFiniteSet(Fan(f))
      BY <1>3, <1>4
<1> QED BY <1>5, FS_CardinalityType

\* Ranges of l numbers.
LEMMA FromZero ==
    ASSUME NEW a \in Nat, NEW l \in Nat
    PROVE  /\ IsFiniteSet(a..(a + l - 1)) /\ Cardinality(a..(a + l - 1)) = l
           /\ IsFiniteSet((a + 1)..(a + l)) /\ Cardinality((a + 1)..(a + l)) = l
<1>1. IsFiniteSet(a..(a + l - 1)) /\ Cardinality(a..(a + l - 1)) = l
      BY FS_Interval, a + l - 1 \in Int, a \in Int
<1>2. IsFiniteSet((a + 1)..(a + l)) /\ Cardinality((a + 1)..(a + l)) = l
      BY FS_Interval, a + l \in Int, a + 1 \in Int
<1> QED BY <1>1, <1>2

\* The first l numbers from zero.
LEMMA ZeroTo ==
    ASSUME NEW l \in Nat
    PROVE  IsFiniteSet(0..(l - 1)) /\ Cardinality(0..(l - 1)) = l
<1>1. 0..(0 + l - 1) = 0..(l - 1) /\ 0 \in Nat
      OBVIOUS
<1> QED BY <1>1, FromZero

\* Rows of given lengths add up.
LEMMA FanSum ==
    ASSUME NEW g, NEW n \in Nat, DOMAIN g = 1..n, \A j \in 1..n : g[j] \in Nat
    PROVE  Cardinality(Fan([j \in 1..n |-> 0..(g[j] - 1)])) = Sum(g)
<1> DEFINE part(k) == [j \in 1..k |-> 0..(g[j] - 1)]
<1>1. PICK h : h[0] = 0 /\ (\A k \in 1..n : h[k] = h[k - 1] + g[k]) /\ Sum(g) = h[n]
      BY SumSteps
<1> DEFINE S == {k \in Nat : k <= n => IsFiniteSet(Fan(part(k))) /\ Cardinality(Fan(part(k))) = h[k]}
<1>2. 0 \in S
  <2>1. DOMAIN part(0) = {}
        OBVIOUS
  <2> HIDE DEF part
  <2>2. Fan(part(0)) = {}
        BY <2>1, FanHolds
  <2> QED BY <1>1, <2>2, FS_EmptySet
<1>3. ASSUME NEW k \in Nat, k \in S PROVE k + 1 \in S
  <2> SUFFICES ASSUME k + 1 <= n
               PROVE  IsFiniteSet(Fan(part(k + 1))) /\ Cardinality(Fan(part(k + 1))) = h[k + 1]
      OBVIOUS
  <2>1. /\ DOMAIN part(k + 1) = DOMAIN part(k) \cup {k + 1} /\ k + 1 \notin DOMAIN part(k)
        /\ part(k + 1)[k + 1] = 0..(g[k + 1] - 1) /\ k + 1 \in 1..n
        /\ \A j \in DOMAIN part(k) : part(k + 1)[j] = part(k)[j]
        OBVIOUS
  <2>2. IsFiniteSet(Fan(part(k))) /\ Cardinality(Fan(part(k))) = h[k]
        BY <1>3
  <2> HIDE DEF part
  <2>3. IsFiniteSet(0..(g[k + 1] - 1)) /\ Cardinality(0..(g[k + 1] - 1)) = g[k + 1]
    <3>1. g[k + 1] \in Nat
          BY <2>1
    <3> QED BY ONLY <3>1, ZeroTo
  <2>4. /\ IsFiniteSet(Fan(part(k + 1)))
        /\ Cardinality(Fan(part(k + 1))) = Cardinality(Fan(part(k))) + Cardinality(part(k + 1)[k + 1])
    <3> DEFINE F == part(k)
               G == part(k + 1)
               x == k + 1
    <3>1. IsFiniteSet(G[x]) /\ IsFiniteSet(Fan(F)) /\ (x \in DOMAIN F => F[x] = {})
          BY <2>1, <2>2, <2>3
    <3>2. DOMAIN G = DOMAIN F \cup {x} /\ \A j \in DOMAIN F : j # x => G[j] = F[j]
          BY <2>1
    <3> HIDE DEF F, G, x
    <3>3. IsFiniteSet(Fan(G)) /\ Cardinality(Fan(G)) = Cardinality(Fan(F)) + Cardinality(G[x])
      <4>1. Cardinality(Fan(G)) = Cardinality(Fan(F)) + Cardinality(G[x])
            BY ONLY <3>1, <3>2, FanGrows
      <4>2. IsFiniteSet(Fan(G))
            BY ONLY <3>1, <3>2, FanGrows
      <4> QED BY <4>1, <4>2
    <3> QED BY <3>3 DEF F, G, x
  <2>5. h[k + 1] = h[k] + g[k + 1]
        BY <1>1, <2>1, (k + 1) - 1 = k
  <2> QED BY <2>1, <2>2, <2>3, <2>4, <2>5
<1>4. n \in S
  <2> HIDE DEF S
  <2> QED BY <1>2, <1>3, SetInduction
<1> QED BY <1>1, <1>4

\* The rows in another order, without those that are empty.
LEMMA FanReordered ==
    ASSUME NEW f, NEW g, NEW h \in [DOMAIN g -> DOMAIN f], IsFiniteSet(Fan(f)),
           \A j, l \in DOMAIN g : h[j] = h[l] => j = l,
           \A j \in DOMAIN g : g[j] = f[h[j]],
           \A x \in DOMAIN f : f[x] # {} => \E j \in DOMAIN g : h[j] = x
    PROVE  IsFiniteSet(Fan(g)) /\ Cardinality(Fan(g)) = Cardinality(Fan(f))
<1> DEFINE at(x) == CHOOSE j \in DOMAIN g : h[j] = x
           b == [p \in Fan(f) |-> <<at(p[1]), p[2]>>]
<1>1. \A x \in DOMAIN f : f[x] # {} => at(x) \in DOMAIN g /\ h[at(x)] = x
      OBVIOUS
<1> HIDE DEF at
<1>2. \A p \in Fan(f) : p = <<p[1], p[2]>> /\ p[1] \in DOMAIN f /\ p[2] \in f[p[1]]
  <2> SUFFICES ASSUME NEW p \in Fan(f) PROVE p = <<p[1], p[2]>> /\ p[1] \in DOMAIN f /\ p[2] \in f[p[1]]
      OBVIOUS
  <2>1. PICK j, u : j \in DOMAIN f /\ u \in f[j] /\ p = <<j, u>>
        BY FanHolds
  <2> QED BY <2>1
<1>3. \A p \in Fan(f) : at(p[1]) \in DOMAIN g /\ h[at(p[1])] = p[1] /\ p[2] \in g[at(p[1])]
      BY <1>1, <1>2
<1>4. \A p \in Fan(f) : b[p] \in Fan(g) /\ b[p] = <<at(p[1]), p[2]>>
      BY <1>3, FanHolds
<1>5. b \in [Fan(f) -> Fan(g)]
      BY <1>4
<1>6. ASSUME NEW p \in Fan(f), NEW q \in Fan(f), b[p] = b[q] PROVE p = q
  <2>1. at(p[1]) = at(q[1]) /\ p[2] = q[2]
        BY <1>4, <1>6
  <2>2. p[1] = q[1]
        BY <1>3, <2>1
  <2> QED BY <1>2, <2>1, <2>2
<1>7. ASSUME NEW z \in Fan(g) PROVE \E p \in Fan(f) : b[p] = z
  <2>1. PICK j, u : j \in DOMAIN g /\ u \in g[j] /\ z = <<j, u>>
        BY FanHolds
  <2>2. h[j] \in DOMAIN f /\ u \in f[h[j]]
        BY <2>1
  <2>3. <<h[j], u>> \in Fan(f)
        BY <2>2, FanHolds
  <2>4. at(h[j]) = j
    <3>1. f[h[j]] # {}
          BY <2>2
    <3>2. at(h[j]) \in DOMAIN g /\ h[at(h[j])] = h[j]
          BY <1>1, <2>2, <3>1
    <3> QED BY <2>1, <3>2
  <2> HIDE DEF b
  <2>5. b[<<h[j], u>>] = <<at(h[j]), u>>
        BY <1>4, <2>3
  <2> QED BY <2>1, <2>3, <2>4, <2>5
<1> HIDE DEF b
<1> QED BY <1>5, <1>6, <1>7, SameCount

-----------------------------------------------------------------------------
(***************************************************************************)
(* The inductive invariant of Placement: what holds of the slices, of the  *)
(* parts still asked for and of the nodes a plan has not reached, and what  *)
(* has been packed once k nodes of PackingOrder are.                       *)
(***************************************************************************)
PoolNames == {"none", "train_pool", "rollout_pool", "global_pool"}
PlanPhases == {"validate", "trainPool", "rolloutPool", "globalPool"}

\* The slices of a node that gives t, e and v GPUs to the components.
Base(t) == IF strategy.kind = "disaggregate" THEN t ELSE 0
Second(t, e) == IF strategy.shared THEN Base(t) ELSE Base(t) + e

Laid(t, e, v) ==
    [c \in GpuComponents |->
        IF c = "train" THEN 0..(t - 1)
        ELSE IF c = "eval" THEN Base(t)..(Base(t) + e - 1)
        ELSE Second(t, e)..(Second(t, e) + v - 1)]

InLine(n) ==
    \E t, e, v \in Nat :
        /\ slice[n] = Laid(t, e, v)
        /\ t <= gpus[n] /\ Base(t) + e <= gpus[n] /\ Second(t, e) + v <= gpus[n]

\* What takes the GPUs of a node up to the last that c may use.
Cover(c) ==
    {d \in GpuComponents :
        \/ d = c
        \/ d = "train" /\ strategy.kind = "disaggregate"
        \/ d = "eval" /\ c = "env" /\ ~strategy.shared}

Covered(n, c) == \A u \in 0..(gpus[n] - 1) : \E d \in Cover(c) : u \in slice[n][d]

Untouched(n) == slice[n] = Laid(0, 0, 0) /\ cursor[n] = 0 /\ pool[n] = "none"
TrainOnly(n) == slice[n] = Laid(cursor[n], 0, 0)

Units(c) == Fan([n \in Nodes |-> slice[n][c]])

\* The parts given away, counted as whole GPUs, and those still asked for.
Account(c) ==
    LET parts == Parts * Cardinality(Units(c)) + remaining[c]
    IN  parts <= Required(c) /\ (Required(c) % Parts = 0 => parts = Required(c))

Inputs ==
    /\ gpus \in Clusters /\ request \in Requests /\ strategy \in Strategies
    /\ mode \in {"auto", "manual"} /\ order \in Orders
    /\ mode = "auto" => order = [n \in Nodes |-> n]

Planned ==
    /\ node \in Nat \ {0}
    /\ remaining \in [GpuComponents -> Nat]
    /\ cursor \in [Nodes -> Nat] /\ \A n \in Nodes : cursor[n] <= gpus[n]
    /\ slice \in [Nodes -> [GpuComponents -> SUBSET Nat]]
    /\ pool \in [Nodes -> PoolNames]
    /\ \A n \in Nodes : InLine(n) /\ (pool[n] = "none" => slice[n] = Laid(0, 0, 0))

Planning ==
    phase \in PlanPhases =>
        /\ mode = "auto" /\ node <= Len(gpus) + 1
        /\ \A c \in GpuComponents : Account(c)
        /\ phase # "validate" => RequestedParts <= ClusterParts

ByPhase ==
    /\ phase = "validate" =>
        /\ node = 1 /\ remaining = [c \in GpuComponents |-> Required(c)]
        /\ \A n \in Nodes : Untouched(n)
    /\ phase = "trainPool" =>
        /\ strategy.kind = "disaggregate"
        /\ \A n \in Nodes :
            /\ TrainOnly(n)
            /\ n >= node => Untouched(n)
            /\ n < node => remaining["train"] = 0 \/ Covered(n, "train")
    /\ phase = "rolloutPool" =>
        /\ strategy.kind = "disaggregate" /\ remaining["train"] = 0
        /\ \A n \in Nodes :
            /\ n >= node => TrainOnly(n)
            /\ n < node => \A c \in {"eval", "env"} : remaining[c] = 0 \/ Covered(n, c)
    /\ phase = "globalPool" =>
        /\ strategy.kind = "colocate"
        /\ node = 1 => remaining = [c \in GpuComponents |-> Required(c)]
        /\ \A n \in Nodes :
            /\ n >= node => Untouched(n)
            /\ n < node => \A c \in GpuComponents : remaining[c] = 0 \/ Covered(n, c)

\* The GPUs of the first k nodes that c may use, and the workers that are placed with them.
GivenUnits(c, k) == Fan([j \in 1..k |-> slice[PackingOrder[j]][c]])
Given(c, k) == Cardinality(GivenUnits(c, k))
PlacedBy(c, k) == Smaller(request.workers[c], Given(c, k) * Fits(c))

Rounds == Len(PackingOrder)

Located(k) ==
    \A c \in GpuComponents :
        /\ placed[c] = PlacedBy(c, k) /\ Len(location[c]) = placed[c]
        /\ \A j \in 1..k : \A i \in 1..(PlacedBy(c, j) - PlacedBy(c, j - 1)) :
            location[c][PlacedBy(c, j - 1) + i] =
                [node |-> PackingOrder[j], index |-> UnitOf(PackingOrder[j], c, i)]

Serves(j) == slice[PackingOrder[j]]["train"] # {}

\* The storage of the j-th node.
ServiceOf(j) ==
    [node |-> PackingOrder[j], trainers |-> (PlacedBy("train", j - 1) + 1)..PlacedBy("train", j)]

Stored(k) ==
    /\ \A i \in DOMAIN storage : \E j \in 1..k :
        /\ Serves(j)
        /\ storage[i] = ServiceOf(j)
    /\ \A j \in 1..k : Serves(j) => \E i \in DOMAIN storage : storage[i].node = PackingOrder[j]
    /\ \A i, l \in DOMAIN storage : storage[i].node = storage[l].node => i = l

Bundled(k) ==
    request.storageGpus = 0 =>
        \A j \in 1..k, c \in GpuComponents : \A u \in slice[PackingOrder[j]][c] :
            u + 1 \in DOMAIN bundles[PackingOrder[j]] /\ bundles[PackingOrder[j]][u + 1] = u

\* No storage is without trainers; and at the end every worker is placed.
Filled(k) == \A j \in 1..k : Serves(j) => PlacedBy("train", j - 1) < PlacedBy("train", j)
AllPlaced == \A c \in GpuComponents : Tracked(c) => PlacedBy(c, Rounds) = request.workers[c]

\* Without buffer workers on GPUs, there are workers for every GPU that is given away.
Used ==
    request.storageGpus = 0 =>
        \A c \in GpuComponents :
            /\ Given(c, Rounds) * Fits(c) <= request.workers[c]
            /\ request.need[c] = 0 => Given(c, Rounds) = 0

UsedEvenly ==
    request.storageGpus = 0 /\ ~StaleLimits /\ (\A c \in GpuComponents : Whole(c)) =>
        \A c \in GpuComponents : Given(c, Rounds) > 0 => Given(c, Rounds) * Fits(c) = request.workers[c]

\* What the pools were saved with is what the packing order and the slices say.
AsSaved ==
    /\ planned \in [GpuComponents -> Seq(Nat \X Nat)]
    /\ \A c \in GpuComponents :
        /\ Len(planned[c]) = PlacedBy(c, Rounds)
        /\ \A j \in 1..Rounds : \A i \in 1..(PlacedBy(c, j) - PlacedBy(c, j - 1)) :
            planned[c][PlacedBy(c, j - 1) + i] = <<j, UnitOf(PackingOrder[j], c, i)>>

Packing ==
    /\ \E k \in 0..Rounds :
        /\ Located(k)
        /\ phase = "pack" => node = k + 1
        /\ phase = "done" => k = Rounds
        /\ phase \in PlanPhases => k = 0
        /\ phase \in {"pack", "done"} => Stored(k) /\ Bundled(k) /\ Filled(k)
        /\ phase \in PlanPhases => storage = <<>>
    /\ phase \in {"pack", "done"} =>
        /\ Used
        /\ mode = "auto" => UsedEvenly
        /\ mode = "manual" => AsSaved /\ Filled(Rounds) /\ AllPlaced
        /\ phase = "done" => AllPlaced
    /\ mode = "manual" => phase # "failed" /\ (Homogeneous => phase # "rejected")

Shapes ==
    /\ phase \in PlanPhases \cup {"pack", "done", "rejected", "failed"}
    /\ placed \in [GpuComponents -> Nat]
    /\ location \in [GpuComponents -> Seq([node : Nodes, index : Nat])]
    /\ bundles \in [Nodes -> Seq(Nat \cup {CpuBundle})]
    /\ \A n \in Nodes : \A i \in DOMAIN bundles[n] : bundles[n][i] < gpus[n] \/ bundles[n][i] = CpuBundle
    /\ storage \in Seq([node : Nodes, trainers : SUBSET Nat])
    /\ \A i \in DOMAIN storage : storage[i].trainers \subseteq 1..placed["train"]
    /\ phase \in {"done", "failed", "rejected"} => node = 1

PlacementInv == Inputs /\ Planned /\ Planning /\ ByPhase /\ Packing /\ Shapes /\ RaisesOnlyIfUneven

-----------------------------------------------------------------------------
(***************************************************************************)
(* What the inputs are, and the order in which nodes are packed.           *)
(***************************************************************************)
Chosen == gpus \in Clusters /\ request \in Requests /\ strategy \in Strategies

\* The types of what a run is given.
LEMMA InputTypes ==
    ASSUME Chosen
    PROVE  /\ Parts \in Nat \ {0}
           /\ gpus \in Seq(Nat) /\ Len(gpus) \in Nat /\ Nodes = 1..Len(gpus)
           /\ \A n \in Nodes : n \in Nat \ {0} /\ gpus[n] \in Nat
           /\ \A c \in GpuComponents :
                 /\ request.workers[c] \in Nat /\ request.need[c] \in Nat /\ request.need[c] <= Parts
                 /\ Required(c) \in Nat /\ Fits(c) \in Nat
           /\ request.storageGpus \in Nat
           /\ strategy.kind \in {"disaggregate", "colocate"} /\ strategy.shared \in BOOLEAN
<1>1. Parts \in Nat \ {0}
      BY PartsAssumption
<1>2. gpus \in Seq(Nat) /\ Len(gpus) \in Nat /\ Nodes = 1..Len(gpus)
      BY ClustersAssumption DEF Chosen, Nodes
<1>3. \A n \in Nodes : n \in Nat \ {0} /\ gpus[n] \in Nat
      BY <1>2
<1>4. /\ request.workers \in [GpuComponents -> Nat] /\ request.need \in [GpuComponents -> 0..Parts]
      /\ request.storageGpus \in Nat
      BY RequestsAssumption DEF Chosen
<1>5. strategy.kind \in {"disaggregate", "colocate"} /\ strategy.shared \in BOOLEAN
      BY StrategiesAssumption DEF Chosen
<1>6. ASSUME NEW c \in GpuComponents
      PROVE  /\ request.workers[c] \in Nat /\ request.need[c] \in Nat /\ request.need[c] <= Parts
             /\ Required(c) \in Nat /\ Fits(c) \in Nat
  <2>1. request.workers[c] \in Nat /\ request.need[c] \in Nat /\ request.need[c] <= Parts
        BY <1>1, <1>4
  <2>2. request.workers[c] * request.need[c] \in Nat /\ request.storageGpus * Parts \in Nat
        BY <1>1, <1>4, <2>1, Product
  <2>3. Required(c) \in Nat
        BY <2>2 DEF Required
  <2>4. Fits(c) \in Nat
    <3>1. CASE request.need[c] = 0
          BY <2>1, <3>1 DEF Fits
    <3>2. CASE request.need[c] # 0
      <4>1. Parts \div request.need[c] \in Nat
            BY <1>1, <2>1, <3>2, Division
      <4> QED BY <3>2, <4>1 DEF Fits
    <3> QED BY <3>1, <3>2
  <2> QED BY <2>1, <2>3, <2>4
<1> QED BY <1>1, <1>2, <1>3, <1>4, <1>5, <1>6

\* Workers fill a GPU at most, and exactly if it is cut evenly.
LEMMA FitsWell ==
    ASSUME Chosen, NEW c \in GpuComponents, request.need[c] # 0
    PROVE  /\ Fits(c) \in Nat \ {0} /\ Fits(c) * request.need[c] <= Parts
           /\ Parts % request.need[c] = 0 => Fits(c) * request.need[c] = Parts
<1>1. Parts \in Nat \ {0} /\ request.need[c] \in Nat \ {0} /\ request.need[c] <= Parts
      BY InputTypes
<1> DEFINE p == Parts
           m == request.need[c]
           q == p \div m
           r == p % m
<1>2. p \in Nat /\ m \in Nat \ {0} /\ m <= p
      BY <1>1
<1>3. Fits(c) = q
      BY <1>1 DEF Fits
<1> HIDE DEF p, m
<1>4. q \in Nat /\ r \in 0..(m - 1) /\ p = q * m + r
      BY <1>2, Division
<1> HIDE DEF q, r
<1>5. q # 0
  <2> SUFFICES ASSUME q = 0 PROVE FALSE
      OBVIOUS
  <2>1. q * m = 0
        BY <1>2
  <2> QED BY <1>2, <1>4, <2>1
<1>6. q * m \in Nat
      BY <1>2, <1>4, Product
<1>7. q * m <= p /\ (r = 0 => q * m = p)
      BY <1>2, <1>4, <1>6
<1> QED BY <1>3, <1>4, <1>5, <1>7 DEF p, m, r

LEMMA LesserOf ==
    ASSUME NEW a \in Nat, NEW b \in Nat
    PROVE  /\ Smaller(a, b) \in Nat /\ Smaller(a, b) <= a /\ Smaller(a, b) <= b
           /\ Smaller(a, b) = a \/ Smaller(a, b) = b
           /\ (a <= b => Smaller(a, b) = a) /\ (b <= a => Smaller(a, b) = b)
BY DEF Smaller

\* A list of the elements of S, each of them once.
Lists(F, S) ==
    /\ F \in Seq(S)
    /\ \A i, j \in 1..Len(F) : F[i] = F[j] => i = j
    /\ \A x \in S : \E i \in 1..Len(F) : F[i] = x

\* A permutation of the nodes lists them.
LEMMA EachOrder ==
    ASSUME Chosen, NEW ids \in Orders
    PROVE  Lists(ids, Nodes) /\ Len(ids) = Len(gpus)
<1>1. Nodes = 1..Len(gpus) /\ Len(gpus) \in Nat
      BY InputTypes
<1>2. ids \in [Nodes -> Nodes] /\ Range(ids) = Nodes
      BY DEF Orders
<1>3. ids \in Seq(Nodes) /\ Len(ids) = Len(gpus)
      BY <1>1, <1>2
<1>4. \A n \in Nodes : \E i \in Nodes : ids[i] = n
      BY <1>2 DEF Range
<1>5. IsFiniteSet(Nodes)
      BY <1>1, FS_Interval
<1>6. ids \in Surjection(Nodes, Nodes)
      BY <1>2, <1>4 DEF Surjection
<1>7. ids \in Injection(Nodes, Nodes)
      BY <1>5, <1>6, FS_SurjSameCardinalityImpliesInj
<1>8. \A i, j \in Nodes : ids[i] = ids[j] => i = j
      BY <1>7 DEF Injection, IsInjective
<1>9. Nodes = 1..Len(ids)
      BY <1>1, <1>3
<1> QED BY <1>3, <1>4, <1>8, <1>9 DEF Lists

LEMMA OrderIs ==
    ASSUME Chosen, order \in Orders
    PROVE  Lists(order, Nodes) /\ Len(order) = Len(gpus)
BY EachOrder

\* A list is filtered by a set.
LEMMA FilteredLists ==
    ASSUME NEW S, NEW list, Lists(list, S), NEW set
    PROVE  Lists(Filtered(list, set), S \cap set)
<1> DEFINE F == Filtered(list, set)
<1>1. /\ list \in Seq(S) /\ \A i, j \in 1..Len(list) : list[i] = list[j] => i = j
      /\ \A x \in S : \E i \in 1..Len(list) : list[i] = x
      BY DEF Lists
<1>2. /\ F \in Seq(S)
      /\ \A k \in 1..Len(F) : F[k] \in set
      /\ \A i \in 1..Len(list) : list[i] \in set => \E k \in 1..Len(F) : F[k] = list[i]
      /\ \A k, l \in 1..Len(F) : F[k] = F[l] => k = l
      BY ONLY <1>1, FilteredHolds
<1> HIDE DEF F
<1>3. F \in Seq(S \cap set)
  <2>1. Len(F) \in Nat /\ F = [i \in 1..Len(F) |-> F[i]] /\ \A i \in 1..Len(F) : F[i] \in S
        BY <1>2
  <2>2. \A i \in 1..Len(F) : F[i] \in S \cap set
        BY <1>2, <2>1
  <2> QED BY <2>1, <2>2
<1>4. \A x \in S \cap set : \E i \in 1..Len(F) : F[i] = x
      BY <1>1, <1>2
<1>5. Lists(F, S \cap set)
      BY <1>2, <1>3, <1>4 DEF Lists
<1> QED BY <1>5 DEF F

\* Two lists that have nothing in common make one.
LEMMA JoinedLists ==
    ASSUME NEW X, NEW Y, NEW q, NEW t, Lists(q, X), Lists(t, Y), X \cap Y = {}
    PROVE  Lists(q \o t, X \cup Y)
<1> DEFINE T == X \cup Y
           Q == q \o t
           L == Len(q)
           M == Len(t)
<1>0. /\ q \in Seq(X) /\ \A i, j \in 1..Len(q) : q[i] = q[j] => i = j
      /\ \A x \in X : \E i \in 1..Len(q) : q[i] = x
      /\ t \in Seq(Y) /\ \A i, j \in 1..Len(t) : t[i] = t[j] => i = j
      /\ \A x \in Y : \E i \in 1..Len(t) : t[i] = x
      BY DEF Lists
<1>1. /\ Q \in Seq(T) /\ Len(Q) = L + M
      /\ \A i \in 1..L : Q[i] = q[i]
      /\ \A i \in 1..M : Q[L + i] = t[i]
  <2>1. q \in Seq(T) /\ t \in Seq(T)
        BY <1>0
  <2> QED BY <2>1, Joined
<1>2. L \in Nat /\ M \in Nat
      BY <1>0
<1>3. /\ \A i, j \in 1..L : q[i] = q[j] => i = j
      /\ \A i, j \in 1..M : t[i] = t[j] => i = j
      /\ \A i \in 1..L : \A j \in 1..M : q[i] # t[j]
      /\ \A x \in X : \E i \in 1..L : q[i] = x
      /\ \A x \in Y : \E i \in 1..M : t[i] = x
  <2>1. \A i \in 1..L : \A j \in 1..M : q[i] # t[j]
    <3>1. \A i \in 1..L : q[i] \in X
          BY <1>0
    <3>2. \A j \in 1..M : t[j] \in Y
          BY <1>0
    <3> QED BY <3>1, <3>2
  <2> QED BY <1>0, <2>1
<1> HIDE DEF Q, L, M
<1>4. \A i \in 1..(L + M) : i \in 1..L \/ (i - L \in 1..M /\ L + (i - L) = i)
      BY <1>2
<1>5. \A i \in 1..L : i \in 1..(L + M)
      BY <1>2
<1>6. \A i \in 1..M : L + i \in 1..(L + M)
      BY <1>2
<1>7. ASSUME NEW i \in 1..(L + M), NEW j \in 1..(L + M), Q[i] = Q[j] PROVE i = j
  <2>1. CASE i \in 1..L /\ j \in 1..L
        BY <1>1, <1>3, <1>7, <2>1
  <2>2. CASE i \in 1..L /\ j \notin 1..L
    <3>1. j - L \in 1..M /\ Q[j] = t[j - L]
          BY <1>1, <1>4, <2>2
    <3> QED BY <1>1, <1>3, <1>7, <2>2, <3>1
  <2>3. CASE i \notin 1..L /\ j \in 1..L
    <3>1. i - L \in 1..M /\ Q[i] = t[i - L]
          BY <1>1, <1>4, <2>3
    <3> QED BY <1>1, <1>3, <1>7, <2>3, <3>1
  <2>4. CASE i \notin 1..L /\ j \notin 1..L
    <3>1. i - L \in 1..M /\ Q[i] = t[i - L] /\ j - L \in 1..M /\ Q[j] = t[j - L]
          BY <1>1, <1>4, <2>4
    <3>2. i - L = j - L
          BY <1>3, <1>7, <3>1
    <3> QED BY <1>2, <3>2
  <2> QED BY <2>1, <2>2, <2>3, <2>4
<1>8. \A x \in X : \E i \in 1..(L + M) : Q[i] = x
      BY <1>1, <1>3, <1>5
<1>9. \A x \in Y : \E i \in 1..(L + M) : Q[i] = x
      BY <1>1, <1>3, <1>6
<1>10. Lists(Q, T)
       BY <1>1, <1>7, <1>8, <1>9 DEF Lists
<1> QED BY <1>10 DEF Q

InPool(p) == {n \in Nodes : pool[n] = p}

\* The nodes of a pool, each listed once.
LEMMA PoolNodesAre ==
    ASSUME Chosen, order \in Orders, NEW p
    PROVE  Lists(PoolNodes(p), InPool(p))
<1>1. Lists(Filtered(order, InPool(p)), Nodes \cap InPool(p))
      BY OrderIs, FilteredLists
<1>2. Nodes \cap InPool(p) = InPool(p)
      BY DEF InPool
<1> QED BY <1>1, <1>2 DEF PoolNodes, InPool

Pooled == {n \in Nodes : pool[n] # "none"}

\* Every node of a pool is packed once.
LEMMA PackingOrderLists ==
    ASSUME Chosen, order \in Orders, pool \in [Nodes -> PoolNames]
    PROVE  Lists(PackingOrder, Pooled)
<1> DEFINE A == PoolNodes("train_pool")
           B == PoolNodes("rollout_pool")
           C == PoolNodes("global_pool")
           a == InPool("train_pool")
           b == InPool("rollout_pool")
           c == InPool("global_pool")
<1>1. Lists(A, a) /\ Lists(B, b) /\ Lists(C, c)
      BY PoolNodesAre
<1>2. a \cap b = {} /\ (a \cup b) \cap c = {} /\ (a \cup b) \cup c = Pooled
      BY DEF InPool, Pooled, PoolNames
<1>3. PackingOrder = (A \o B) \o C
      BY DEF PackingOrder
<1> HIDE DEF A, B, C, a, b, c
<1>4. Lists(A \o B, a \cup b)
      BY <1>1, <1>2, JoinedLists
<1>5. Lists((A \o B) \o C, (a \cup b) \cup c)
      BY <1>1, <1>2, <1>4, JoinedLists
<1> QED BY <1>2, <1>3, <1>5

\* The packing order lists the nodes that have a pool, each once.
LEMMA PackingOrderIs ==
    ASSUME Chosen, order \in Orders, pool \in [Nodes -> PoolNames]
    PROVE  /\ PackingOrder \in Seq(Nodes) /\ Rounds \in Nat
           /\ \A i, j \in 1..Rounds : PackingOrder[i] = PackingOrder[j] => i = j
           /\ \A i \in 1..Rounds : PackingOrder[i] \in Nodes /\ pool[PackingOrder[i]] # "none"
           /\ \A n \in Nodes : pool[n] # "none" => \E i \in 1..Rounds : PackingOrder[i] = n
           /\ Rounds <= Len(gpus)
<1> DEFINE K == PackingOrder
<1>1. /\ K \in Seq(Pooled) /\ \A i, j \in 1..Len(K) : K[i] = K[j] => i = j
      /\ \A x \in Pooled : \E i \in 1..Len(K) : K[i] = x
      BY PackingOrderLists DEF Lists
<1>2. Rounds = Len(K)
      BY DEF Rounds
<1> HIDE DEF K
<1>3. Len(K) \in Nat /\ \A i \in 1..Len(K) : K[i] \in Pooled
      BY <1>1
<1>4. \A i \in 1..Len(K) : K[i] \in Nodes /\ pool[K[i]] # "none"
      BY <1>3 DEF Pooled
<1>5. \A n \in Nodes : pool[n] # "none" => \E i \in 1..Len(K) : K[i] = n
      BY <1>1 DEF Pooled
<1>6. K \in Seq(Nodes)
      BY <1>1 DEF Pooled
<1>7. Len(K) <= Len(gpus)
  <2>1. Nodes = 1..Len(gpus) /\ Len(gpus) \in Nat
        BY InputTypes
  <2>2. IsFiniteSet(Nodes) /\ Cardinality(Nodes) = Len(gpus)
        BY <2>1, FromZero, 0 + 1 = 1, 0 + Len(gpus) = Len(gpus)
  <2> DEFINE L == Len(K)
             f == [i \in 1..L |-> K[i]]
  <2>3. f \in [1..L -> Nodes] /\ \A i, j \in 1..L : f[i] = f[j] => i = j
        BY <1>1, <1>4
  <2> HIDE DEF f
  <2>4. f \in Injection(1..L, Nodes)
        BY <2>3 DEF Injection, IsInjective
  <2>5. Cardinality(1..L) <= Cardinality(Nodes)
        BY <2>2, <2>4, FS_Injection
  <2>6. Cardinality(1..L) = L
        BY <1>3, FromZero, 0 + 1 = 1, 0 + L = L
  <2> QED BY <2>2, <2>5, <2>6
<1> QED BY <1>1, <1>2, <1>3, <1>4, <1>5, <1>6, <1>7 DEF K

-----------------------------------------------------------------------------
(***************************************************************************)
(* The slices of a node.                                                   *)
(***************************************************************************)
LEMMA LaidIs ==
    ASSUME Chosen, NEW t \in Nat, NEW e \in Nat, NEW v \in Nat
    PROVE  /\ Base(t) \in Nat /\ Second(t, e) \in Nat
           /\ Laid(t, e, v) \in [GpuComponents -> SUBSET Nat]
           /\ Laid(t, e, v)["train"] = 0..(t - 1)
           /\ Laid(t, e, v)["eval"] = Base(t)..(Base(t) + e - 1)
           /\ Laid(t, e, v)["env"] = Second(t, e)..(Second(t, e) + v - 1)
<1>1. Base(t) \in Nat
      BY DEF Base
<1>2. Second(t, e) \in Nat
      BY <1>1 DEF Second
<1>3. /\ 0..(t - 1) \in SUBSET Nat /\ Base(t)..(Base(t) + e - 1) \in SUBSET Nat
      /\ Second(t, e)..(Second(t, e) + v - 1) \in SUBSET Nat
      BY <1>1, <1>2
<1> QED BY <1>1, <1>2, <1>3 DEF Laid, GpuComponents

\* Nothing laid out is nothing given away.
LEMMA NoneLaid ==
    ASSUME Chosen, NEW c \in GpuComponents
    PROVE  Laid(0, 0, 0)[c] = {}
<1>1. Base(0) = 0 /\ Second(0, 0) = 0
      BY DEF Base, Second
<1> QED BY <1>1, LaidIs DEF GpuComponents

\* The numbers from a on.
LEMMA IntervalIs ==
    ASSUME NEW a \in Nat, NEW l \in Nat, NEW S, S = a..(a + l - 1)
    PROVE  /\ IsFiniteSet(S) /\ Cardinality(S) = l
           /\ l = 0 <=> S = {}
           /\ l # 0 => Min(S) = a
<1>1. IsFiniteSet(S) /\ Cardinality(S) = l
      BY FromZero
<1>2. l = 0 <=> S = {}
  <2>1. CASE l = 0
        BY <2>1
  <2>2. CASE l # 0
    <3>1. a \in S
          BY <2>2
    <3> QED BY <2>2, <3>1
  <2> QED BY <2>1, <2>2
<1>3. ASSUME l # 0 PROVE Min(S) = a
  <2>1. a \in S /\ \A y \in S : a <= y
        BY <1>3
  <2>2. \A x \in S : (\A y \in S : x <= y) => x = a
    <3> SUFFICES ASSUME NEW x \in S, \A y \in S : x <= y PROVE x = a
        OBVIOUS
    <3>1. x <= a /\ a <= x /\ x \in Nat
          BY <2>1
    <3> QED BY <3>1
  <2> QED BY <2>1, <2>2 DEF Min
<1> QED BY <1>1, <1>2, <1>3

\* What a node gives a component are GPUs next to each other.
LEMMA SliceIs ==
    ASSUME Chosen, NEW n \in Nodes, InLine(n)
    PROVE  \A c \in GpuComponents : \E a, l \in Nat : slice[n][c] = a..(a + l - 1) /\ a + l <= gpus[n]
<1>1. PICK t \in Nat, e \in Nat, v \in Nat :
          /\ slice[n] = Laid(t, e, v)
          /\ t <= gpus[n] /\ Base(t) + e <= gpus[n] /\ Second(t, e) + v <= gpus[n]
      BY DEF InLine
<1>2. /\ Base(t) \in Nat /\ Second(t, e) \in Nat
      /\ Laid(t, e, v)["train"] = 0..(t - 1)
      /\ Laid(t, e, v)["eval"] = Base(t)..(Base(t) + e - 1)
      /\ Laid(t, e, v)["env"] = Second(t, e)..(Second(t, e) + v - 1)
      BY LaidIs
<1>3. gpus[n] \in Nat
      BY InputTypes
<1> SUFFICES ASSUME NEW c \in GpuComponents
             PROVE  \E a, l \in Nat : slice[n][c] = a..(a + l - 1) /\ a + l <= gpus[n]
    OBVIOUS
<1>4. CASE c = "train"
  <2>1. slice[n][c] = 0..(0 + t - 1) /\ 0 + t <= gpus[n]
        BY <1>1, <1>2, <1>3, <1>4
  <2> QED BY <2>1
<1>5. CASE c = "eval"
      BY <1>1, <1>2, <1>5
<1>6. CASE c = "env"
      BY <1>1, <1>2, <1>6
<1> QED BY <1>4, <1>5, <1>6 DEF GpuComponents

\* Components that may not share GPUs have none in common on a node.
LEMMA KeptApart ==
    ASSUME Chosen, NEW n \in Nodes, InLine(n), NEW c \in GpuComponents, NEW d \in GpuComponents,
           c # d, ~MayShare(c, d)
    PROVE  slice[n][c] \cap slice[n][d] = {}
<1>1. PICK t \in Nat, e \in Nat, v \in Nat : slice[n] = Laid(t, e, v)
      BY DEF InLine
<1>2. /\ Base(t) \in Nat /\ Second(t, e) \in Nat
      /\ Laid(t, e, v)["train"] = 0..(t - 1)
      /\ Laid(t, e, v)["eval"] = Base(t)..(Base(t) + e - 1)
      /\ Laid(t, e, v)["env"] = Second(t, e)..(Second(t, e) + v - 1)
      BY LaidIs
<1>3. strategy.kind \in {"disaggregate", "colocate"} /\ strategy.shared \in BOOLEAN
      BY InputTypes
<1>4. strategy.kind = "disaggregate" => Base(t) = t
      BY DEF Base
<1>5. Base(t) <= Second(t, e) /\ (~strategy.shared => Second(t, e) = Base(t) + e)
      BY <1>2 DEF Second
<1> DEFINE A == 0..(t - 1)
           B == Base(t)..(Base(t) + e - 1)
           C == Second(t, e)..(Second(t, e) + v - 1)
<1>6. strategy.kind = "disaggregate" => A \cap B = {} /\ A \cap C = {}
      BY <1>2, <1>4, <1>5
<1>7. ~strategy.shared => B \cap C = {}
      BY <1>2, <1>5
<1>8. slice[n]["train"] = A /\ slice[n]["eval"] = B /\ slice[n]["env"] = C
      BY <1>1, <1>2
<1> HIDE DEF A, B, C
<1>9. ~(strategy.kind = "colocate" /\ "train" \in {c, d}) /\ ~(strategy.shared /\ {c, d} = {"eval", "env"})
      BY DEF MayShare
<1>10. CASE "train" \in {c, d}
  <2>1. strategy.kind = "disaggregate"
        BY <1>3, <1>9, <1>10
  <2> QED BY <1>6, <1>8, <1>10, <2>1 DEF GpuComponents
<1>11. CASE "train" \notin {c, d}
  <2>1. {c, d} = {"eval", "env"}
        BY <1>11 DEF GpuComponents
  <2>2. ~strategy.shared
        BY <1>9, <2>1
  <2> QED BY <1>7, <1>8, <1>11, <2>2 DEF GpuComponents
<1> QED BY <1>10, <1>11

\* The end of three ranges, none of which begins beyond the ends of those before it.
EndOf(t, b, e, s, v) ==
    LET ee == IF e = 0 THEN 0 ELSE b + e
        vv == IF v = 0 THEN 0 ELSE s + v
        m1 == IF t < ee THEN ee ELSE t
    IN  IF m1 < vv THEN vv ELSE m1

\* Together such ranges are one range from zero.
LEMMA RangesJoin ==
    ASSUME NEW t \in Nat, NEW b \in Nat, NEW e \in Nat, NEW s \in Nat, NEW v \in Nat,
           b <= t, s = b \/ s = b + e, NEW u \in Nat
    PROVE  u < EndOf(t, b, e, s, v) <=> (u < t \/ (b <= u /\ u < b + e) \/ (s <= u /\ u < s + v))
<1>1. CASE e = 0
      BY <1>1 DEF EndOf
<1>2. CASE e # 0 /\ s = b
      BY <1>2 DEF EndOf
<1>3. CASE e # 0 /\ s = b + e
      BY <1>3 DEF EndOf
<1> QED BY <1>1, <1>2, <1>3

\* What a node gives away are its first GPUs.
LEMMA FromFirst ==
    ASSUME Chosen, NEW n \in Nodes, InLine(n)
    PROVE  \E m \in Nat : m <= gpus[n] /\ \A u \in Nat : u < m <=> \E c \in GpuComponents : u \in slice[n][c]
<1>1. PICK t \in Nat, e \in Nat, v \in Nat :
          /\ slice[n] = Laid(t, e, v)
          /\ t <= gpus[n] /\ Base(t) + e <= gpus[n] /\ Second(t, e) + v <= gpus[n]
      BY DEF InLine
<1>2. /\ Base(t) \in Nat /\ Second(t, e) \in Nat
      /\ Laid(t, e, v)["train"] = 0..(t - 1)
      /\ Laid(t, e, v)["eval"] = Base(t)..(Base(t) + e - 1)
      /\ Laid(t, e, v)["env"] = Second(t, e)..(Second(t, e) + v - 1)
      BY LaidIs
<1>3. gpus[n] \in Nat
      BY InputTypes
<1> DEFINE m == EndOf(t, Base(t), e, Second(t, e), v)
<1>4. m \in Nat /\ m <= gpus[n]
      BY <1>1, <1>2, <1>3 DEF EndOf
<1>5. Base(t) <= t
      BY DEF Base
<1>6. Second(t, e) = Base(t) \/ Second(t, e) = Base(t) + e
      BY <1>2 DEF Second
<1>7. ASSUME NEW u \in Nat
      PROVE  u < m <=> u \in 0..(t - 1) \/ u \in Base(t)..(Base(t) + e - 1)
                                        \/ u \in Second(t, e)..(Second(t, e) + v - 1)
  <2>1. u < m <=> (u < t \/ (Base(t) <= u /\ u < Base(t) + e)
                         \/ (Second(t, e) <= u /\ u < Second(t, e) + v))
        BY <1>2, <1>5, <1>6, RangesJoin
  <2> HIDE DEF m
  <2> QED BY <1>2, <2>1
<1> HIDE DEF m
<1>8. ASSUME NEW u \in Nat
      PROVE  (\E c \in GpuComponents : u \in slice[n][c]) <=>
                 u \in 0..(t - 1) \/ u \in Base(t)..(Base(t) + e - 1)
                                  \/ u \in Second(t, e)..(Second(t, e) + v - 1)
  <2>1. /\ slice[n]["train"] = 0..(t - 1) /\ slice[n]["eval"] = Base(t)..(Base(t) + e - 1)
        /\ slice[n]["env"] = Second(t, e)..(Second(t, e) + v - 1)
        BY <1>1, <1>2
  <2>2. (\E c \in GpuComponents : u \in slice[n][c]) <=>
            u \in slice[n]["train"] \/ u \in slice[n]["eval"] \/ u \in slice[n]["env"]
        BY DEF GpuComponents
  <2> QED BY <2>1, <2>2
<1>9. \A u \in Nat : u < m <=> \E c \in GpuComponents : u \in slice[n][c]
      BY <1>7, <1>8
<1> QED BY <1>4, <1>9

-----------------------------------------------------------------------------
(***************************************************************************)
(* The units that are given away, and the workers they hold.               *)
(***************************************************************************)
Steady ==
    /\ Chosen /\ order \in Orders /\ pool \in [Nodes -> PoolNames]
    /\ \A n \in Nodes : InLine(n) /\ (pool[n] = "none" => slice[n] = Laid(0, 0, 0))

\* A slice with what is known of it.
LEMMA SliceFacts ==
    ASSUME Steady, NEW n \in Nodes, NEW c \in GpuComponents
    PROVE  /\ IsFiniteSet(slice[n][c]) /\ Cardinality(slice[n][c]) \in Nat
           /\ Cardinality(slice[n][c]) = 0 <=> slice[n][c] = {}
           /\ slice[n][c] \subseteq 0..(gpus[n] - 1)
           /\ slice[n][c] # {} =>
                 /\ Min(slice[n][c]) \in Nat
                 /\ slice[n][c] = Min(slice[n][c])..(Min(slice[n][c]) + Cardinality(slice[n][c]) - 1)
<1>1. PICK a \in Nat, l \in Nat : slice[n][c] = a..(a + l - 1) /\ a + l <= gpus[n]
      BY SliceIs DEF Steady
<1> DEFINE S == slice[n][c]
<1>2. IsFiniteSet(S) /\ Cardinality(S) = l /\ (l = 0 <=> S = {}) /\ (l # 0 => Min(S) = a)
      BY <1>1, IntervalIs
<1>3. S \subseteq 0..(gpus[n] - 1)
  <2>1. gpus[n] \in Nat
        BY InputTypes DEF Steady
  <2> QED BY <1>1, <2>1
<1> HIDE DEF S
<1>4. S = a..(a + l - 1)
      BY <1>1 DEF S
<1>5. S # {} => Min(S) \in Nat /\ S = Min(S)..(Min(S) + Cardinality(S) - 1)
      BY <1>2, <1>4
<1> QED BY <1>2, <1>3, <1>5 DEF S

\* The units of a component are finitely many.
LEMMA UnitsFinite ==
    ASSUME Chosen, \A n \in Nodes : InLine(n), NEW c \in GpuComponents
    PROVE  IsFiniteSet(Units(c)) /\ Cardinality(Units(c)) \in Nat
<1> DEFINE f == [n \in Nodes |-> slice[n][c]]
<1>1. Nodes = 1..Len(gpus) /\ Len(gpus) \in Nat
      BY InputTypes
<1>2. ASSUME NEW n \in Nodes PROVE IsFiniteSet(f[n])
  <2>1. PICK a \in Nat, l \in Nat : slice[n][c] = a..(a + l - 1)
        BY SliceIs
  <2> QED BY <2>1, IntervalIs
<1>3. DOMAIN f = 1..Len(gpus) /\ \A n \in 1..Len(gpus) : IsFiniteSet(f[n])
      BY <1>1, <1>2
<1> HIDE DEF f
<1>4. IsFiniteSet(Fan(f)) /\ Cardinality(Fan(f)) \in Nat
      BY ONLY <1>1, <1>3, FanFinite
<1> QED BY <1>4 DEF Units, f

\* One node gives away units that it had not given away.
LEMMA UnitsGain ==
    ASSUME Chosen, \A n \in Nodes : InLine(n), gpus' = gpus, NEW c \in GpuComponents,
           NEW m \in Nodes, NEW a \in Nat, NEW l \in Nat,
           \A n \in Nodes : n # m => slice'[n][c] = slice[n][c],
           slice[m][c] = {} /\ slice'[m][c] = a..(a + l - 1)
    PROVE  Cardinality(Units(c)') = Cardinality(Units(c)) + l
<1> DEFINE f == [n \in Nodes |-> slice[n][c]]
           g == [n \in Nodes |-> slice'[n][c]]
<1>1. IsFiniteSet(g[m]) /\ Cardinality(g[m]) = l
      BY IntervalIs
<1>2. DOMAIN g = DOMAIN f \cup {m} /\ (m \in DOMAIN f => f[m] = {}) /\ \A j \in DOMAIN f : j # m => g[j] = f[j]
      OBVIOUS
<1>3. Units(c) = Fan(f)
      BY DEF Units
<1>4. Units(c)' = Fan(g)
      BY DEF Units, Nodes, Fan
<1>5. IsFiniteSet(Fan(f))
      BY <1>3, UnitsFinite
<1> HIDE DEF f, g
<1>6. Cardinality(Fan(g)) = Cardinality(Fan(f)) + Cardinality(g[m])
      BY ONLY <1>1, <1>2, <1>5, FanGrows
<1> QED BY <1>1, <1>3, <1>4, <1>6

\* The units of a component follow from the slices.
LEMMA UnitsSame ==
    ASSUME gpus' = gpus, NEW c, \A n \in Nodes : slice'[n][c] = slice[n][c]
    PROVE  Units(c)' = Units(c)
<1>1. [n \in Nodes |-> slice'[n][c]] = [n \in Nodes |-> slice[n][c]]
      OBVIOUS
<1> QED BY <1>1 DEF Units, Nodes, Fan

\* What all units of the cluster leave no more to ask for.
LEMMA Exhausted ==
    ASSUME Chosen, remaining \in [GpuComponents -> Nat], NEW c \in GpuComponents,
           \A n \in Nodes : InLine(n) /\ Covered(n, c),
           \A d \in GpuComponents : Account(d),
           RequestedParts <= ClusterParts
    PROVE  remaining[c] = 0
<1> DEFINE all == Fan([n \in 1..Len(gpus) |-> 0..(gpus[n] - 1)])
           X(d) == IF d \in Cover(c) THEN Units(d) ELSE {}
           y(d) == IF d \in Cover(c) THEN Required(d) ELSE 0
           x(d) == Cardinality(X(d))
<1>1. /\ Parts \in Nat \ {0} /\ gpus \in Seq(Nat) /\ Len(gpus) \in Nat /\ Nodes = 1..Len(gpus)
      /\ \A d \in GpuComponents : Required(d) \in Nat
      /\ \A n \in Nodes : gpus[n] \in Nat
      /\ strategy.kind \in {"disaggregate", "colocate"} /\ strategy.shared \in BOOLEAN
      BY InputTypes
<1>2. Cardinality(all) = Sum(gpus)
  <2>1. DOMAIN gpus = 1..Len(gpus) /\ \A n \in 1..Len(gpus) : gpus[n] \in Nat
        BY <1>1
  <2> QED BY <1>1, <2>1, FanSum
<1>3. all \subseteq X("train") \cup X("eval") \cup X("env")
  <2> SUFFICES ASSUME NEW p \in all PROVE p \in X("train") \cup X("eval") \cup X("env")
      OBVIOUS
  <2>1. PICK n \in 1..Len(gpus) : \E u \in 0..(gpus[n] - 1) : p = <<n, u>>
        BY DEF Fan
  <2>0. PICK u \in 0..(gpus[n] - 1) : p = <<n, u>>
        BY <2>1
  <2>2. PICK d \in Cover(c) : u \in slice[n][d]
        BY <1>1, <2>1 DEF Covered
  <2>3. d \in GpuComponents
        BY DEF Cover
  <2>4. p \in Units(d)
    <3> DEFINE f == [m \in Nodes |-> slice[m][d]]
    <3>1. n \in DOMAIN f /\ u \in f[n]
          BY <1>1, <2>2
    <3> HIDE DEF f
    <3>2. <<n, u>> \in Fan(f)
          BY <3>1, FanHolds
    <3> QED BY <2>0, <3>2 DEF Units, f
  <2> QED BY <2>2, <2>3, <2>4 DEF GpuComponents
<1>4. \A d \in GpuComponents : IsFiniteSet(X(d)) /\ x(d) \in Nat
  <2>1. IsFiniteSet({}) /\ Cardinality({}) = 0
        BY FS_EmptySet
  <2> QED BY <2>1, UnitsFinite
<1>5. Sum(gpus) <= x("train") + x("eval") + x("env")
  <2> HIDE DEF X, all
  <2>1. "train" \in GpuComponents /\ "eval" \in GpuComponents /\ "env" \in GpuComponents
        BY DEF GpuComponents
  <2> DEFINE AB == X("train") \cup X("eval")
             ABC == AB \cup X("env")
  <2>2. IsFiniteSet(AB) /\ Cardinality(AB) = x("train") + x("eval") - Cardinality(X("train") \cap X("eval"))
        BY <1>4, <2>1, FS_Union
  <2>3. Cardinality(X("train") \cap X("eval")) \in Nat
        BY <1>4, <2>1, FS_Intersection, FS_CardinalityType
  <2>4. IsFiniteSet(ABC) /\ Cardinality(ABC) = Cardinality(AB) + x("env") - Cardinality(AB \cap X("env"))
        BY <1>4, <2>1, <2>2, FS_Union
  <2>5. Cardinality(AB \cap X("env")) \in Nat /\ Cardinality(AB) \in Nat
        BY <1>4, <2>1, <2>2, FS_Intersection, FS_CardinalityType
  <2>6. Cardinality(all) <= Cardinality(ABC)
        BY <1>3, <2>4, FS_Subset
  <2>7. Cardinality(ABC) \in Nat /\ Cardinality(all) \in Nat
        BY <1>3, <2>4, FS_Subset, FS_CardinalityType
  <2> QED BY <1>2, <1>4, <2>1, <2>2, <2>3, <2>4, <2>5, <2>6, <2>7
<1>6. \A d \in GpuComponents :
         /\ y(d) \in Nat /\ Parts * x(d) \in Nat /\ Parts * x(d) <= y(d)
         /\ d \in Cover(c) => Parts * x(d) + remaining[d] <= y(d)
  <2> SUFFICES ASSUME NEW d \in GpuComponents
               PROVE  /\ y(d) \in Nat /\ Parts * x(d) \in Nat /\ Parts * x(d) <= y(d)
                      /\ d \in Cover(c) => Parts * x(d) + remaining[d] <= y(d)
      OBVIOUS
  <2>1. Parts * x(d) \in Nat
    <3> HIDE DEF X
    <3> QED BY <1>1, <1>4, Product
  <2>2. CASE d \in Cover(c)
    <3>1. Parts * Cardinality(Units(d)) + remaining[d] <= Required(d)
          BY DEF Account
    <3>2. X(d) = Units(d) /\ y(d) = Required(d) /\ remaining[d] \in Nat
          BY <2>2
    <3> HIDE DEF X, y
    <3> QED BY <1>1, <2>1, <3>1, <3>2
  <2>3. CASE d \notin Cover(c)
    <3>1. X(d) = {} /\ y(d) = 0
          BY <2>3
    <3>2. x(d) = 0
          BY <3>1, FS_EmptySet
    <3> HIDE DEF X, y
    <3> QED BY <1>1, <2>3, <3>1, <3>2
  <2> QED BY <2>2, <2>3
<1>7. y("train") + y("eval") + y("env") <= RequestedParts
  <2>1. Required("train") \in Nat /\ Required("eval") \in Nat /\ Required("env") \in Nat
        BY <1>1 DEF GpuComponents
  <2>2. "train" \in GpuComponents /\ "eval" \in GpuComponents /\ "env" \in GpuComponents
        BY DEF GpuComponents
  <2>3. CASE c = "train"
    <3>1. y("train") = Required("train") /\ y("eval") = 0 /\ y("env") = 0
          BY <2>2, <2>3 DEF Cover
    <3> HIDE DEF y
    <3> QED BY <1>1, <2>1, <3>1 DEF RequestedParts, RolloutParts, Larger
  <2>4. CASE c = "eval"
    <3>1. /\ y("eval") = Required("eval") /\ y("env") = 0
          /\ y("train") = IF strategy.kind = "disaggregate" THEN Required("train") ELSE 0
          BY <2>2, <2>4 DEF Cover
    <3> HIDE DEF y
    <3> QED BY <1>1, <2>1, <3>1 DEF RequestedParts, RolloutParts, Larger
  <2>5. CASE c = "env"
    <3>1. /\ y("env") = Required("env")
          /\ y("eval") = IF strategy.shared THEN 0 ELSE Required("eval")
          /\ y("train") = IF strategy.kind = "disaggregate" THEN Required("train") ELSE 0
          BY <1>1, <2>2, <2>5 DEF Cover
    <3> HIDE DEF y
    <3> QED BY <1>1, <2>1, <3>1 DEF RequestedParts, RolloutParts, Larger
  <2> QED BY <2>3, <2>4, <2>5 DEF GpuComponents
<1>8. Parts * (x("train") + x("eval") + x("env")) = Parts * x("train") + Parts * x("eval") + Parts * x("env")
  <2>1. x("train") \in Nat /\ x("eval") \in Nat /\ x("env") \in Nat
        BY <1>4 DEF GpuComponents
  <2> DEFINE a == x("train")
             b == x("eval")
             e == x("env")
  <2> HIDE DEF a, b, e
  <2>2. a \in Nat /\ b \in Nat /\ e \in Nat /\ Parts \in Nat
        BY <1>1, <2>1 DEF a, b, e
  <2>3. Parts * (a + b + e) = Parts * a + Parts * b + Parts * e
        BY <2>2
  <2> QED BY <2>3 DEF a, b, e
<1>9. Parts * Sum(gpus) <= Parts * (x("train") + x("eval") + x("env")) /\ Parts * Sum(gpus) \in Nat
  <2> DEFINE s == Sum(gpus)
             b == x("train") + x("eval") + x("env")
  <2>1. s <= b /\ b \in Nat
        BY <1>4, <1>5 DEF GpuComponents
  <2>2. s \in Nat
    <3>1. IsFiniteSet(all)
      <4> HIDE DEF X, all
      <4>1. IsFiniteSet(X("train") \cup X("eval") \cup X("env"))
            BY <1>4, FS_Union DEF GpuComponents
      <4> QED BY <1>3, <4>1, FS_Subset
    <3> QED BY <1>2, <3>1, FS_CardinalityType
  <2> HIDE DEF s, b
  <2>3. Parts * s <= Parts * b /\ Parts * s \in Nat
        BY <1>1, <2>1, <2>2, Monotone, Product, Distributes
  <2> QED BY <2>3 DEF s, b
<1>10. c \in Cover(c) /\ remaining[c] \in Nat
      BY DEF Cover
<1> DEFINE A == Parts * x("train")
           B == Parts * x("eval")
           C == Parts * x("env")
           p == y("train")
           q == y("eval")
           r == y("env")
<1>11. /\ A \in Nat /\ B \in Nat /\ C \in Nat /\ p \in Nat /\ q \in Nat /\ r \in Nat
       /\ A <= p /\ B <= q /\ C <= r
       BY <1>6 DEF GpuComponents
<1>12. A + remaining[c] <= p \/ B + remaining[c] <= q \/ C + remaining[c] <= r
      <2> HIDE DEF X, y
      <2>1. CASE c = "train"
            BY <1>6, <1>10, <2>1
      <2>2. CASE c = "eval"
            BY <1>6, <1>10, <2>2
      <2>3. CASE c = "env"
            BY <1>6, <1>10, <2>3
      <2> QED BY <2>1, <2>2, <2>3 DEF GpuComponents
<1>13. p + q + r <= ClusterParts /\ ClusterParts <= A + B + C
  <2>1. ClusterParts = Parts * Sum(gpus) /\ ClusterParts \in Nat
        BY <1>9 DEF ClusterParts
  <2>2. ClusterParts <= A + B + C
        BY <1>8, <1>9, <2>1
  <2>3. RequestedParts \in Nat
    <3>1. Required("train") \in Nat /\ Required("eval") \in Nat /\ Required("env") \in Nat
          BY <1>1 DEF GpuComponents
    <3> QED BY <3>1 DEF RequestedParts, RolloutParts, Larger
  <2> HIDE DEF A, B, C
  <2> QED BY <1>7, <1>11, <2>1, <2>2, <2>3
<1> HIDE DEF A, B, C, p, q, r
<1>14. ClusterParts \in Nat
      BY <1>9 DEF ClusterParts
<1> QED BY <1>10, <1>11, <1>12, <1>13, <1>14

\* The packing order, while the plan stands.
LEMMA ThePackingOrder ==
    ASSUME Steady
    PROVE  /\ PackingOrder \in Seq(Nodes) /\ Rounds \in Nat /\ Rounds = Len(PackingOrder)
           /\ \A i, j \in 1..Rounds : PackingOrder[i] = PackingOrder[j] => i = j
           /\ \A i \in 1..Rounds : PackingOrder[i] \in Nodes /\ pool[PackingOrder[i]] # "none"
           /\ \A n \in Nodes : pool[n] # "none" => \E i \in 1..Rounds : PackingOrder[i] = n
           /\ Rounds <= Len(gpus)
<1>1. Chosen /\ order \in Orders /\ pool \in [Nodes -> PoolNames]
      BY DEF Steady
<1>2. Rounds = Len(PackingOrder)
      BY DEF Rounds
<1> QED BY <1>1, <1>2, PackingOrderIs

\* What the first nodes give away is counted node by node.
LEMMA GivenSteps ==
    ASSUME Steady, NEW c \in GpuComponents
    PROVE  /\ Given(c, 0) = 0
           /\ \A j \in 0..Rounds : Given(c, j) \in Nat
           /\ \A j \in 1..Rounds : Given(c, j) = Given(c, j - 1) + Cardinality(slice[PackingOrder[j]][c])
<1> DEFINE f(j) == [i \in 1..j |-> slice[PackingOrder[i]][c]]
<1>1. Rounds \in Nat /\ \A i \in 1..Rounds : PackingOrder[i] \in Nodes
      BY ThePackingOrder
<1>2. \A j : GivenUnits(c, j) = Fan(f(j))
      BY DEF GivenUnits
<1>3. ASSUME NEW j \in 0..Rounds PROVE IsFiniteSet(Fan(f(j))) /\ Given(c, j) \in Nat
  <2>1. DOMAIN f(j) = 1..j /\ j \in Nat /\ \A i \in 1..j : i \in 1..Rounds /\ f(j)[i] = slice[PackingOrder[i]][c]
        BY <1>1
  <2>2. \A i \in 1..j : IsFiniteSet(f(j)[i])
        BY <1>1, <2>1, SliceFacts
  <2> HIDE DEF f
  <2>3. IsFiniteSet(Fan(f(j))) /\ Cardinality(Fan(f(j))) \in Nat
        BY <2>1, <2>2, FanFinite
  <2> QED BY <1>2, <2>3 DEF Given
<1>4. ASSUME NEW j \in 1..Rounds
      PROVE  Given(c, j) = Given(c, j - 1) + Cardinality(slice[PackingOrder[j]][c])
  <2> DEFINE F == f(j - 1)
             G == f(j)
  <2>1. j - 1 \in 0..Rounds /\ j \in Nat /\ j - 1 \in Nat
        BY <1>1
  <2>2. /\ DOMAIN G = DOMAIN F \cup {j} /\ j \notin DOMAIN F
        /\ \A i \in DOMAIN F : G[i] = F[i]
        /\ G[j] = slice[PackingOrder[j]][c]
        BY <2>1
  <2>3. IsFiniteSet(G[j])
        BY <1>1, <2>2, SliceFacts
  <2>4. IsFiniteSet(Fan(F))
        BY <1>3, <2>1
  <2>5. Given(c, j) = Cardinality(Fan(G)) /\ Given(c, j - 1) = Cardinality(Fan(F))
        BY <1>2 DEF Given
  <2> HIDE DEF F, G
  <2>6. Cardinality(Fan(G)) = Cardinality(Fan(F)) + Cardinality(G[j])
        BY ONLY <2>2, <2>3, <2>4, FanGrows
  <2> QED BY <2>2, <2>5, <2>6
<1>5. Given(c, 0) = 0
  <2>1. DOMAIN f(0) = {}
        OBVIOUS
  <2> HIDE DEF f
  <2>2. Fan(f(0)) = {}
        BY <2>1, FanHolds
  <2> QED BY <1>2, <2>2, FS_EmptySet DEF Given
<1> QED BY <1>3, <1>4, <1>5

\* Placing workers node by node comes to placing them all at once.
LEMMA SmallerTwice ==
    ASSUME NEW w \in Nat, NEW a \in Nat, NEW b \in Nat
    PROVE  /\ Smaller(w, a) \in Nat /\ w - Smaller(w, a) \in Nat
           /\ Smaller(w, a + b) = Smaller(w, a) + Smaller(w - Smaller(w, a), b)
           /\ Smaller(w, a) <= Smaller(w, a + b)
BY DEF Smaller

\* How many workers of c are placed after each of the first rounds.
LEMMA PlacedSteps ==
    ASSUME Steady, NEW c \in GpuComponents
    PROVE  /\ PlacedBy(c, 0) = 0
           /\ \A j \in 0..Rounds : PlacedBy(c, j) \in Nat /\ PlacedBy(c, j) <= request.workers[c]
           /\ \A j \in 1..Rounds :
                 LET units == Cardinality(slice[PackingOrder[j]][c])
                 IN  /\ PlacedBy(c, j) = PlacedBy(c, j - 1) + Smaller(request.workers[c] - PlacedBy(c, j - 1), units * Fits(c))
                     /\ PlacedBy(c, j - 1) <= PlacedBy(c, j)
                     /\ PlacedBy(c, j) - PlacedBy(c, j - 1) <= units * Fits(c)
<1>1. request.workers[c] \in Nat /\ Fits(c) \in Nat
      BY InputTypes DEF Steady
<1>2. /\ Given(c, 0) = 0
      /\ \A j \in 0..Rounds : Given(c, j) \in Nat
      /\ \A j \in 1..Rounds : Given(c, j) = Given(c, j - 1) + Cardinality(slice[PackingOrder[j]][c])
      BY GivenSteps
<1>3. Rounds \in Nat /\ \A i \in 1..Rounds : PackingOrder[i] \in Nodes
      BY ThePackingOrder
<1> DEFINE w == request.workers[c]
           fit == Fits(c)
<1>4. \A j : PlacedBy(c, j) = Smaller(w, Given(c, j) * fit)
      BY DEF PlacedBy
<1> HIDE DEF w, fit
<1>5. w \in Nat /\ fit \in Nat
      BY <1>1 DEF w, fit
<1>6. PlacedBy(c, 0) = 0
  <2>1. 0 * fit = 0
        BY <1>5
  <2> QED BY <1>2, <1>4, <1>5, <2>1 DEF Smaller
<1>7. ASSUME NEW j \in 0..Rounds PROVE PlacedBy(c, j) \in Nat /\ PlacedBy(c, j) <= w
  <2>1. Given(c, j) * fit \in Nat
        BY <1>2, <1>5, Product
  <2> QED BY <1>4, <1>5, <2>1, LesserOf
<1>8. ASSUME NEW j \in 1..Rounds
      PROVE  LET units == Cardinality(slice[PackingOrder[j]][c])
             IN  /\ PlacedBy(c, j) = PlacedBy(c, j - 1) + Smaller(w - PlacedBy(c, j - 1), units * fit)
                 /\ PlacedBy(c, j - 1) <= PlacedBy(c, j)
                 /\ PlacedBy(c, j) - PlacedBy(c, j - 1) <= units * fit
  <2> DEFINE units == Cardinality(slice[PackingOrder[j]][c])
             g == Given(c, j - 1)
             A == g * fit
             B == units * fit
  <2>1. j - 1 \in 0..Rounds
        BY <1>3
  <2>2. units \in Nat
        BY <1>3, SliceFacts
  <2>3. g \in Nat /\ Given(c, j) = g + units
        BY <1>2, <2>1
  <2>4. PlacedBy(c, j) = Smaller(w, Given(c, j) * fit) /\ PlacedBy(c, j - 1) = Smaller(w, A)
        BY <1>4
  <2> HIDE DEF units, g
  <2>5. A \in Nat /\ B \in Nat /\ (g + units) * fit = A + B
        BY <1>5, <2>2, <2>3, Product, Distributes
  <2>6. PlacedBy(c, j) = Smaller(w, A + B)
        BY <2>3, <2>4, <2>5
  <2> HIDE DEF A, B
  <2>7. /\ Smaller(w, A) \in Nat /\ w - Smaller(w, A) \in Nat
        /\ Smaller(w, A + B) = Smaller(w, A) + Smaller(w - Smaller(w, A), B)
        /\ Smaller(w, A) <= Smaller(w, A + B)
        BY <1>5, <2>5, SmallerTwice
  <2>8. Smaller(w - Smaller(w, A), B) <= B /\ Smaller(w - Smaller(w, A), B) \in Nat
        BY <2>5, <2>7, LesserOf
  <2>9. /\ PlacedBy(c, j) = PlacedBy(c, j - 1) + Smaller(w - PlacedBy(c, j - 1), B)
        /\ PlacedBy(c, j - 1) <= PlacedBy(c, j)
        /\ PlacedBy(c, j) - PlacedBy(c, j - 1) <= B
        BY <2>4, <2>5, <2>6, <2>7, <2>8
  <2> QED BY <2>9 DEF B, units
<1> QED BY <1>6, <1>7, <1>8 DEF w, fit

\* What the nodes give away together.
LEMMA GivenAll ==
    ASSUME Steady, NEW c \in GpuComponents
    PROVE  /\ Given(c, Rounds) = Cardinality(Units(c))
           /\ \A j \in 0..Rounds : Given(c, j) <= Given(c, Rounds)
           /\ Tracked(c) <=> Given(c, Rounds) > 0
<1> DEFINE f == [n \in Nodes |-> slice[n][c]]
           g(j) == [i \in 1..j |-> slice[PackingOrder[i]][c]]
           h == [i \in 1..Rounds |-> PackingOrder[i]]
<1>1. /\ Rounds \in Nat /\ \A i \in 1..Rounds : PackingOrder[i] \in Nodes /\ pool[PackingOrder[i]] # "none"
      /\ \A i, j \in 1..Rounds : PackingOrder[i] = PackingOrder[j] => i = j
      /\ \A n \in Nodes : pool[n] # "none" => \E i \in 1..Rounds : PackingOrder[i] = n
      BY ThePackingOrder
<1>2. Units(c) = Fan(f) /\ \A j : GivenUnits(c, j) = Fan(g(j))
      BY DEF Units, GivenUnits
<1>3. \A n \in Nodes : f[n] # {} => pool[n] # "none"
      BY NoneLaid DEF Steady
<1>4. IsFiniteSet(Fan(f))
      BY <1>2, UnitsFinite DEF Steady
<1>5. Cardinality(Fan(g(Rounds))) = Cardinality(Fan(f)) /\ IsFiniteSet(Fan(g(Rounds)))
  <2> DEFINE G == g(Rounds)
  <2>1. DOMAIN G = 1..Rounds /\ DOMAIN f = Nodes /\ h \in [DOMAIN G -> DOMAIN f]
        BY <1>1
  <2>2. \A j, l \in DOMAIN G : h[j] = h[l] => j = l
        BY <1>1
  <2>3. \A j \in DOMAIN G : G[j] = f[h[j]]
        BY <1>1
  <2>4. \A x \in DOMAIN f : f[x] # {} => \E j \in DOMAIN G : h[j] = x
        BY <1>1, <1>3
  <2> HIDE DEF G, f, h
  <2>5. IsFiniteSet(Fan(G)) /\ Cardinality(Fan(G)) = Cardinality(Fan(f))
        BY ONLY <1>4, <2>1, <2>2, <2>3, <2>4, FanReordered
  <2> QED BY <2>5 DEF G
<1>6. Given(c, Rounds) = Cardinality(Units(c))
      BY <1>2, <1>5 DEF Given
<1>7. ASSUME NEW j \in 0..Rounds PROVE Given(c, j) <= Given(c, Rounds)
  <2>1. \A p \in Fan(g(j)) : p \in Fan(g(Rounds))
    <3> SUFFICES ASSUME NEW p \in Fan(g(j)) PROVE p \in Fan(g(Rounds))
        OBVIOUS
    <3>1. PICK i \in DOMAIN g(j) : \E u \in g(j)[i] : p = <<i, u>>
          BY FanHolds
    <3>2. PICK u \in g(j)[i] : p = <<i, u>>
          BY <3>1
    <3>3. i \in DOMAIN g(Rounds) /\ g(Rounds)[i] = g(j)[i]
          BY <1>1, <3>1
    <3> HIDE DEF g
    <3> QED BY <3>2, <3>3, FanHolds
  <2> HIDE DEF g
  <2>2. Fan(g(j)) \in SUBSET Fan(g(Rounds))
        BY <2>1
  <2>3. Cardinality(Fan(g(j))) <= Cardinality(Fan(g(Rounds)))
        BY <1>5, <2>2, FS_Subset
  <2> QED BY <1>2, <2>3 DEF Given
<1>8. Tracked(c) <=> Units(c) # {}
  <2>1. ASSUME NEW n \in Nodes, slice[n][c] # {} PROVE Units(c) # {}
    <3>1. PICK u : u \in slice[n][c]
          BY <2>1
    <3>2. n \in DOMAIN f /\ u \in f[n]
          BY <3>1
    <3> HIDE DEF f
    <3>3. <<n, u>> \in Fan(f)
          BY <3>2, FanHolds
    <3> QED BY <1>2, <3>3
  <2>2. ASSUME NEW p, p \in Units(c) PROVE \E n \in Nodes : pool[n] # "none" /\ slice[n][c] # {}
    <3>1. PICK i \in DOMAIN f : \E u \in f[i] : p = <<i, u>>
          BY <1>2, <2>2, FanHolds
    <3>2. i \in Nodes /\ slice[i][c] # {}
          BY <3>1
    <3> QED BY <1>3, <3>2
  <2> QED BY <2>1, <2>2 DEF Tracked
<1>9. Units(c) # {} <=> Cardinality(Units(c)) > 0
  <2>1. IsFiniteSet(Units(c)) /\ Cardinality(Units(c)) \in Nat
        BY UnitsFinite DEF Steady
  <2> QED BY <2>1, FS_EmptySet
<1> QED BY <1>6, <1>7, <1>8, <1>9

\* Every worker has its node, and its place among those of the node.
LEMMA RoundOf ==
    ASSUME Steady, NEW c \in GpuComponents, NEW k \in 0..Rounds, NEW w \in 1..PlacedBy(c, k)
    PROVE  \E j \in 1..k : \E i \in 1..(PlacedBy(c, j) - PlacedBy(c, j - 1)) : w = PlacedBy(c, j - 1) + i
<1>1. /\ PlacedBy(c, 0) = 0 /\ Rounds \in Nat
      /\ \A j \in 0..Rounds : PlacedBy(c, j) \in Nat
      BY PlacedSteps, ThePackingOrder
<1> DEFINE T == {j \in 1..k : w <= PlacedBy(c, j)}
<1>2. k \in T
  <2>1. k # 0
        BY <1>1
  <2> QED BY <1>1, <2>1
<1>3. PICK j \in T : \A i \in T : j <= i
  <2>1. T \subseteq Nat
        BY <1>1
  <2> HIDE DEF T
  <2> QED BY <1>2, <2>1, Least
<1>4. j \in 1..k /\ w <= PlacedBy(c, j) /\ j - 1 \in 0..Rounds /\ j \in 0..Rounds
      BY <1>1, <1>3
<1>5. PlacedBy(c, j - 1) < w
  <2>1. CASE j = 1
        BY <1>1, <2>1
  <2>2. CASE j # 1
    <3>1. j - 1 \in 1..k /\ j - 1 \notin T
          BY <1>3, <1>4, <2>2
    <3> QED BY <1>1, <1>4, <3>1
  <2> QED BY <2>1, <2>2
<1> DEFINE a == PlacedBy(c, j - 1)
           b == PlacedBy(c, j)
<1>6. a \in Nat /\ b \in Nat /\ a < w /\ w <= b /\ w \in Nat
      BY <1>1, <1>4, <1>5
<1> HIDE DEF a, b
<1>7. w - a \in 1..(b - a) /\ w = a + (w - a)
      BY <1>6
<1> QED BY <1>4, <1>7 DEF a, b

-----------------------------------------------------------------------------
(***************************************************************************)
(* A step of a plan on one node.                                           *)
(***************************************************************************)
\* A multiple and a remainder that make a multiple.
LEMMA NoRest ==
    ASSUME NEW m \in Nat \ {0}, NEW x \in Nat, NEW y \in Nat, NEW r \in 0..(m - 1), x * m + r = y * m
    PROVE  r = 0
<1>1. x * m \in Nat /\ y * m \in Nat
      BY Product
<1>2. CASE x < y
  <2>1. x + 1 \in Nat /\ x + 1 <= y
        BY <1>2
  <2>2. x * m + m <= y * m
        BY <2>1, Monotone, Product
  <2> QED BY <1>1, <2>2
<1>3. CASE y <= x
  <2>1. y * m <= x * m
        BY <1>3, Monotone
  <2> QED BY <1>1, <2>1
<1> QED BY <1>2, <1>3

\* What is asked of a node with av free GPUs, as parts (a) and as units (u).
Shares(r, av, a, u) == a = Smaller(Parts * av, r) /\ u = a \div Parts

\* What a node with av free GPUs takes of r parts, and the GPUs u for it.
LEMMA ShareIs ==
    ASSUME NEW r \in Nat, NEW av \in Nat, NEW a, NEW u, Shares(r, av, a, u)
    PROVE  /\ a \in Nat /\ a <= r /\ r - a \in Nat /\ a <= Parts * av
           /\ u \in Nat /\ u <= av /\ Parts * u <= a
           /\ r - a = 0 \/ u = av
           /\ r % Parts = 0 => Parts * u = a
<1>1. Parts \in Nat \ {0}
      BY PartsAssumption
<1>2. Parts * av \in Nat
      BY <1>1, Product
<1>3. a \in Nat /\ a <= r /\ a <= Parts * av /\ (a = r \/ a = Parts * av)
      BY <1>2, LesserOf DEF Shares
<1> DEFINE m == a % Parts
<1>4. u \in Nat /\ m \in 0..(Parts - 1) /\ a = u * Parts + m
      BY <1>1, <1>3, Division DEF Shares
<1> HIDE DEF m
<1>5. u * Parts \in Nat /\ u * Parts = Parts * u /\ av * Parts = Parts * av
      BY <1>1, <1>4, Product, Distributes
<1>6. u <= av
  <2>1. u * Parts <= av * Parts
        BY <1>2, <1>3, <1>4, <1>5
  <2> QED BY <1>1, <1>4, <2>1, Cancel
<1>7. a = Parts * av => u = av /\ m = 0
  <2> SUFFICES ASSUME a = Parts * av PROVE u = av /\ m = 0
      OBVIOUS
  <2>1. u * Parts + m = av * Parts + 0
        BY <1>4, <1>5
  <2> QED BY <1>1, <1>4, <2>1, OneQuotient
<1>8. ASSUME r % Parts = 0 PROVE m = 0
  <2>1. CASE a = r
        BY <1>8, <2>1 DEF m
  <2> QED BY <1>3, <1>7, <2>1
<1> QED BY <1>3, <1>4, <1>5, <1>6, <1>7, <1>8

\* Units and parts of a component stay in account.
LEMMA AccountKept ==
    ASSUME Chosen, request' = request, NEW c \in GpuComponents, Account(c),
           remaining[c] \in Nat, Cardinality(Units(c)) \in Nat,
           NEW av \in Nat, NEW a, NEW u, Shares(remaining[c], av, a, u),
           Cardinality(Units(c)') = Cardinality(Units(c)) + u, remaining'[c] = remaining[c] - a
    PROVE  Account(c)'
<1> DEFINE U == Cardinality(Units(c))
           r == remaining[c]
           R == Required(c)
<1>1. Parts \in Nat \ {0} /\ R \in Nat
      BY InputTypes
<1>2. Required(c)' = R
      BY DEF Required
<1>3. Parts * U + r <= R /\ (R % Parts = 0 => Parts * U + r = R)
      BY DEF Account
<1> HIDE DEF U, r, R
<1>4. U \in Nat /\ r \in Nat /\ Shares(r, av, a, u)
      BY DEF U, r
<1>5. a \in Nat /\ r - a \in Nat /\ u \in Nat /\ Parts * u <= a /\ (r % Parts = 0 => Parts * u = a)
      BY <1>4, ShareIs
<1>6. Parts * (U + u) = Parts * U + Parts * u /\ Parts * U \in Nat /\ Parts * u \in Nat
      BY <1>1, <1>4, <1>5, Distributes, Product
<1>7. Parts * (U + u) + (r - a) <= R
      BY <1>1, <1>3, <1>4, <1>5, <1>6
<1>8. ASSUME R % Parts = 0 PROVE Parts * (U + u) + (r - a) = R
  <2>1. r % Parts = 0
    <3> DEFINE q == R \div Parts
               k == r \div Parts
               m == r % Parts
    <3>1. q \in Nat /\ R = q * Parts /\ q * Parts \in Nat
      <4>1. q \in Nat /\ R = q * Parts + (R % Parts)
            BY <1>1, Division
      <4>2. q * Parts \in Nat
        <5> HIDE DEF q
        <5> QED BY <1>1, <4>1, Product
      <4> QED BY <1>8, <4>1, <4>2
    <3>2. k \in Nat /\ m \in 0..(Parts - 1) /\ r = k * Parts + m
          BY <1>1, <1>4, Division
    <3> HIDE DEF q, k, m
    <3>3. (U + k) * Parts + m = q * Parts
      <4>1. (U + k) * Parts = Parts * U + k * Parts /\ k * Parts \in Nat
            BY <1>1, <1>4, <3>2, Distributes, Product
      <4> QED BY <1>3, <1>6, <1>8, <3>1, <3>2, <4>1
    <3>4. U + k \in Nat
          BY <1>1, <1>4, <3>2
    <3>5. m = 0
          BY <1>1, <3>1, <3>2, <3>3, <3>4, NoRest
    <3> QED BY <3>5 DEF m
  <2> QED BY <1>3, <1>4, <1>5, <1>6, <1>8, <2>1
<1>9. Cardinality(Units(c)') = U + u /\ remaining'[c] = r - a
      BY DEF U, r
<1> QED BY <1>2, <1>7, <1>8, <1>9 DEF Account

\* The account of a component follows from its units and from what remains.
LEMMA AccountStays ==
    ASSUME request' = request, NEW c \in GpuComponents, Account(c), Units(c)' = Units(c), remaining'[c] = remaining[c]
    PROVE  Account(c)'
BY DEF Account, Required

\* Functions of the components are the same if they agree on each.
LEMMA SameSlices ==
    ASSUME NEW f \in [GpuComponents -> SUBSET Nat], NEW g \in [GpuComponents -> SUBSET Nat],
           f["train"] = g["train"], f["eval"] = g["eval"], f["env"] = g["env"]
    PROVE  f = g
<1>1. \A c \in GpuComponents : f[c] = g[c]
      BY DEF GpuComponents
<1> QED BY <1>1

\* The slices of a node on which t, e and v GPUs are laid out.
LEMMA SliceOfLaid ==
    ASSUME Chosen, NEW f, NEW t \in Nat, NEW e \in Nat, NEW v \in Nat, f = Laid(t, e, v)
    PROVE  /\ Base(t) \in Nat /\ Second(t, e) \in Nat
           /\ f \in [GpuComponents -> SUBSET Nat]
           /\ f["train"] = 0..(t - 1)
           /\ f["eval"] = Base(t)..(Base(t) + e - 1)
           /\ f["env"] = Second(t, e)..(Second(t, e) + v - 1)
<1>1. Base(t) \in Nat /\ Second(t, e) \in Nat
      BY LaidIs
<1>2. Laid(t, e, v) \in [GpuComponents -> SUBSET Nat]
      BY LaidIs
<1>3. Laid(t, e, v)["train"] = 0..(t - 1)
      BY DEF Laid, GpuComponents
<1>4. Laid(t, e, v)["eval"] = Base(t)..(Base(t) + e - 1)
      BY DEF Laid, GpuComponents
<1>5. Laid(t, e, v)["env"] = Second(t, e)..(Second(t, e) + v - 1)
      BY DEF Laid, GpuComponents
<1> QED BY <1>1, <1>2, <1>3, <1>4, <1>5

\* Laying the slices one after another.
LEMMA LaidPut ==
    ASSUME Chosen, NEW t \in Nat, NEW e \in Nat, NEW v \in Nat
    PROVE  /\ [Laid(0, 0, 0) EXCEPT !["train"] = 0..(0 + t - 1)] = Laid(t, 0, 0)
           /\ [Laid(t, 0, 0) EXCEPT !["eval"] = Base(t)..(Base(t) + e - 1)] = Laid(t, e, 0)
           /\ [Laid(t, e, 0) EXCEPT !["env"] = Second(t, e)..(Second(t, e) + v - 1)] = Laid(t, e, v)
<1> DEFINE O == Laid(0, 0, 0)
           A == Laid(t, 0, 0)
           B == Laid(t, e, 0)
           C == Laid(t, e, v)
           a == 0..(0 + t - 1)
           b == Base(t)..(Base(t) + e - 1)
           d == Second(t, e)..(Second(t, e) + v - 1)
<1>1. /\ O \in [GpuComponents -> SUBSET Nat] /\ O["eval"] = {} /\ O["env"] = {}
  <2>1. \A c \in GpuComponents : O[c] = {}
        BY NoneLaid
  <2> QED BY <2>1, LaidIs DEF GpuComponents
<1>2. A \in [GpuComponents -> SUBSET Nat] /\ A["train"] = a /\ A["eval"] = {} /\ A["env"] = {}
  <2>1. /\ Base(t) \in Nat /\ Second(t, 0) \in Nat /\ A \in [GpuComponents -> SUBSET Nat]
        /\ A["train"] = 0..(t - 1) /\ A["eval"] = Base(t)..(Base(t) + 0 - 1)
        /\ A["env"] = Second(t, 0)..(Second(t, 0) + 0 - 1)
        BY SliceOfLaid
  <2> HIDE DEF A
  <2> QED BY <2>1
<1>3. B \in [GpuComponents -> SUBSET Nat] /\ B["train"] = a /\ B["eval"] = b /\ B["env"] = {}
  <2>1. /\ Base(t) \in Nat /\ Second(t, e) \in Nat /\ B \in [GpuComponents -> SUBSET Nat]
        /\ B["train"] = 0..(t - 1) /\ B["eval"] = Base(t)..(Base(t) + e - 1)
        /\ B["env"] = Second(t, e)..(Second(t, e) + 0 - 1)
        BY SliceOfLaid
  <2> HIDE DEF B
  <2> QED BY <2>1
<1>4. C \in [GpuComponents -> SUBSET Nat] /\ C["train"] = a /\ C["eval"] = b /\ C["env"] = d
  <2>1. /\ C \in [GpuComponents -> SUBSET Nat]
        /\ C["train"] = 0..(t - 1) /\ C["eval"] = Base(t)..(Base(t) + e - 1)
        /\ C["env"] = Second(t, e)..(Second(t, e) + v - 1)
        BY SliceOfLaid
  <2> HIDE DEF C
  <2> QED BY <2>1
<1>5. a \in SUBSET Nat /\ b \in SUBSET Nat /\ d \in SUBSET Nat
  <2>1. Base(t) \in Nat /\ Second(t, e) \in Nat
        BY LaidIs
  <2> QED BY <2>1
<1> HIDE DEF O, A, B, C, a, b, d
<1>6. [O EXCEPT !["train"] = a] = A
  <2> DEFINE f == [O EXCEPT !["train"] = a]
  <2>1. f \in [GpuComponents -> SUBSET Nat] /\ f["train"] = a /\ f["eval"] = {} /\ f["env"] = {}
        BY <1>1, <1>5 DEF GpuComponents
  <2> HIDE DEF f
  <2>2. f = A
        BY <1>2, <2>1, SameSlices
  <2> QED BY <2>2 DEF f
<1>7. [A EXCEPT !["eval"] = b] = B
  <2> DEFINE f == [A EXCEPT !["eval"] = b]
  <2>1. f \in [GpuComponents -> SUBSET Nat] /\ f["train"] = a /\ f["eval"] = b /\ f["env"] = {}
        BY <1>2, <1>5 DEF GpuComponents
  <2> HIDE DEF f
  <2>2. f = B
        BY <1>3, <2>1, SameSlices
  <2> QED BY <2>2 DEF f
<1>8. [B EXCEPT !["env"] = d] = C
  <2> DEFINE f == [B EXCEPT !["env"] = d]
  <2>1. f \in [GpuComponents -> SUBSET Nat] /\ f["train"] = a /\ f["eval"] = b /\ f["env"] = d
        BY <1>3, <1>5 DEF GpuComponents
  <2> HIDE DEF f
  <2>2. f = C
        BY <1>4, <2>1, SameSlices
  <2> QED BY <2>2 DEF f
<1> QED BY <1>6, <1>7, <1>8 DEF O, A, B, C, a, b, d

\* A node is covered for a component whose slice ends with the node.
LEMMA CoveredIf ==
    ASSUME Chosen, NEW n \in Nodes, NEW t \in Nat, NEW e \in Nat, NEW v \in Nat, slice[n] = Laid(t, e, v)
    PROVE  /\ t = gpus[n] => Covered(n, "train")
           /\ Base(t) + e = gpus[n] => Covered(n, "eval")
           /\ Second(t, e) + v = gpus[n] => Covered(n, "env")
<1>1. /\ Base(t) \in Nat /\ Second(t, e) \in Nat
      /\ slice[n]["train"] = 0..(t - 1)
      /\ slice[n]["eval"] = Base(t)..(Base(t) + e - 1)
      /\ slice[n]["env"] = Second(t, e)..(Second(t, e) + v - 1)
      BY SliceOfLaid
<1>2. gpus[n] \in Nat /\ strategy.kind \in {"disaggregate", "colocate"} /\ strategy.shared \in BOOLEAN
      BY InputTypes
<1>3. /\ "train" \in Cover("train") /\ "eval" \in Cover("eval") /\ "env" \in Cover("env")
      /\ strategy.kind = "disaggregate" => "train" \in Cover("eval") /\ "train" \in Cover("env")
      /\ ~strategy.shared => "eval" \in Cover("env")
      BY DEF Cover, GpuComponents
<1>4. /\ strategy.kind = "disaggregate" => Base(t) = t
      /\ strategy.kind # "disaggregate" => Base(t) = 0
      BY DEF Base
<1>5. /\ strategy.shared => Second(t, e) = Base(t)
      /\ ~strategy.shared => Second(t, e) = Base(t) + e
      BY <1>1 DEF Second
<1>6. ASSUME t = gpus[n] PROVE Covered(n, "train")
      BY <1>1, <1>3, <1>6 DEF Covered
<1>7. ASSUME NEW u \in 0..(gpus[n] - 1), Base(t) + e = gpus[n]
      PROVE  \E d \in Cover("eval") : u \in slice[n][d]
  <2>1. CASE u < Base(t)
    <3>1. strategy.kind = "disaggregate" /\ u \in 0..(t - 1)
          BY <1>2, <1>4, <2>1
    <3> QED BY <1>1, <1>3, <3>1
  <2>2. CASE ~(u < Base(t))
    <3>1. u \in Base(t)..(Base(t) + e - 1)
          BY <1>1, <1>2, <1>7, <2>2
    <3> QED BY <1>1, <1>3, <3>1
  <2> QED BY <2>1, <2>2
<1>8. ASSUME NEW u \in 0..(gpus[n] - 1), Second(t, e) + v = gpus[n]
      PROVE  \E d \in Cover("env") : u \in slice[n][d]
  <2>1. CASE u < Base(t)
    <3>1. strategy.kind = "disaggregate" /\ u \in 0..(t - 1)
          BY <1>2, <1>4, <2>1
    <3> QED BY <1>1, <1>3, <3>1
  <2>2. CASE ~(u < Base(t)) /\ u < Second(t, e)
    <3>1. ~strategy.shared /\ u \in Base(t)..(Base(t) + e - 1)
          BY <1>1, <1>2, <1>5, <2>2
    <3> QED BY <1>1, <1>3, <3>1
  <2>3. CASE ~(u < Second(t, e))
    <3>1. u \in Second(t, e)..(Second(t, e) + v - 1)
          BY <1>1, <1>2, <1>8, <2>3
    <3> QED BY <1>1, <1>3, <3>1
  <2> QED BY <2>1, <2>2, <2>3
<1> QED BY <1>6, <1>7, <1>8 DEF Covered

-----------------------------------------------------------------------------
(***************************************************************************)
(* What the steps of a plan have in common.                                *)
(***************************************************************************)
LEMMA LaidSame ==
    ASSUME strategy' = strategy, NEW t, NEW e, NEW v
    PROVE  Laid(t, e, v)' = Laid(t, e, v) /\ Base(t)' = Base(t) /\ Second(t, e)' = Second(t, e)
<1>1. Base(t)' = Base(t)
      BY DEF Base
<1>2. Second(t, e)' = Second(t, e)
      BY <1>1 DEF Second
<1> QED BY <1>1, <1>2 DEF Laid

LEMMA GivenTogether == Inputs /\ Planned => Chosen /\ Steady
BY DEF Inputs, Planned, Chosen, Steady

\* Before the first node nothing is placed.
LEMMA PlacedNone == Chosen => \A c \in GpuComponents : PlacedBy(c, 0) = 0
<1> SUFFICES ASSUME Chosen, NEW c \in GpuComponents PROVE PlacedBy(c, 0) = 0
    OBVIOUS
<1>1. request.workers[c] \in Nat /\ Fits(c) \in Nat
      BY InputTypes
<1>2. GivenUnits(c, 0) = {}
      BY DEF GivenUnits, Fan
<1>3. Given(c, 0) = 0
      BY <1>2, FS_EmptySet DEF Given
<1>4. Given(c, 0) * Fits(c) = 0
      BY <1>1, <1>3
<1> QED BY <1>1, <1>4 DEF PlacedBy, Smaller

LEMMA RoundsAre == Steady => Rounds \in Nat
BY ThePackingOrder

\* While a plan is made, nothing is placed.
LEMMA UnpackedIs ==
    ASSUME Packing, phase \in PlanPhases
    PROVE  Located(0) /\ storage = <<>>
BY DEF Packing

\* While pools are planned nothing is packed.
LEMMA StillUnpacked ==
    ASSUME Inputs', Planned', Packing, Chosen, mode = "auto", mode' = "auto", phase \in PlanPhases,
           phase' \in PlanPhases \cup {"failed", "rejected"}, UNCHANGED packVars
    PROVE  Packing'
<1>1. Located(0) /\ storage = <<>>
      BY UnpackedIs
<1>2. Chosen' /\ Steady'
      BY GivenTogether, PTL
<1>3. \A c \in GpuComponents : PlacedBy(c, 0)' = 0
  <2>1. (Chosen => \A c \in GpuComponents : PlacedBy(c, 0) = 0)'
        BY PlacedNone, PTL
  <2> QED BY <1>2, <2>1
<1>4. Rounds' \in Nat
  <2>1. (Steady => Rounds \in Nat)'
        BY RoundsAre, PTL
  <2> QED BY <1>2, <2>1
<1>5. \A c \in GpuComponents : placed[c] = 0 /\ Len(location[c]) = placed[c]
      BY <1>1, PlacedNone DEF Located
<1>6. Located(0)'
      BY <1>3, <1>5 DEF Located, packVars
<1>7. storage' = <<>>
      BY <1>1 DEF packVars
<1>8. 0 \in 0..Rounds'
      BY <1>4
<1>9. phase' \notin {"pack", "done"} /\ mode' # "manual"
      BY DEF PlanPhases
<1> QED BY <1>6, <1>7, <1>8, <1>9 DEF Packing

\* One node is given its slices, or a part of them when the plan fails.
NodeGoes(t, e, v, cu) ==
    /\ node \in Nodes /\ phase \in PlanPhases /\ mode = "auto"
    /\ slice' = [slice EXCEPT ![node] = Laid(t, e, v)]
    /\ t <= gpus[node] /\ Base(t) + e <= gpus[node] /\ Second(t, e) + v <= gpus[node]
    /\ cursor' = [cursor EXCEPT ![node] = cu] /\ cu <= gpus[node]
    /\ \E name \in PoolNames \ {"none"} :
           pool' = IF pool[node] = "none" THEN [pool EXCEPT ![node] = name] ELSE pool
    /\ remaining' \in [GpuComponents -> Nat]
    /\ \/ phase' = phase /\ node' = node + 1
       \/ phase' = "failed" /\ node' = 1
    /\ UNCHANGED <<inputVars, packVars>>

\* A run keeps what it was given.
LEMMA InputsStay ==
    ASSUME Inputs, UNCHANGED inputVars
    PROVE  /\ Inputs' /\ Chosen' /\ gpus' = gpus /\ request' = request /\ strategy' = strategy
           /\ mode' = mode /\ order' = order /\ Nodes' = Nodes
<1>1. /\ gpus' = gpus /\ request' = request /\ strategy' = strategy /\ mode' = mode /\ order' = order
      BY DEF inputVars, runVars
<1>2. Nodes' = Nodes
      BY <1>1 DEF Nodes
<1>3. Inputs'
      BY <1>1, <1>2 DEF Inputs, Orders
<1> QED BY <1>1, <1>2, <1>3 DEF Chosen, Inputs

\* A step that lays GPUs out on one node keeps the shape of the plan.
LEMMA NodeStep ==
    ASSUME Inputs, Planned, Packing, Shapes, NEW t \in Nat, NEW e \in Nat, NEW v \in Nat, NEW cu \in Nat,
           NodeGoes(t, e, v, cu)
    PROVE  /\ Inputs' /\ Planned' /\ Packing' /\ Shapes'
           /\ \A n \in Nodes : n # node =>
                  slice'[n] = slice[n] /\ cursor'[n] = cursor[n] /\ pool'[n] = pool[n]
           /\ slice'[node] = Laid(t, e, v) /\ cursor'[node] = cu
<1>1. /\ Inputs' /\ Chosen' /\ gpus' = gpus /\ request' = request /\ strategy' = strategy
      /\ mode' = mode /\ order' = order /\ Nodes' = Nodes
      BY InputsStay DEF NodeGoes
<1>2. /\ node \in Nodes /\ phase \in PlanPhases /\ mode = "auto"
      /\ slice' = [slice EXCEPT ![node] = Laid(t, e, v)]
      /\ t <= gpus[node] /\ Base(t) + e <= gpus[node] /\ Second(t, e) + v <= gpus[node]
      /\ cursor' = [cursor EXCEPT ![node] = cu] /\ cu <= gpus[node]
      /\ remaining' \in [GpuComponents -> Nat]
      /\ (phase' = phase /\ node' = node + 1) \/ (phase' = "failed" /\ node' = 1)
      /\ UNCHANGED packVars
      BY DEF NodeGoes
<1>3. PICK name \in PoolNames \ {"none"} :
          pool' = IF pool[node] = "none" THEN [pool EXCEPT ![node] = name] ELSE pool
      BY DEF NodeGoes
<1>4. Chosen /\ Steady
      BY GivenTogether
<1>5. /\ node \in Nat \ {0}
      /\ cursor \in [Nodes -> Nat] /\ \A n \in Nodes : cursor[n] <= gpus[n]
      /\ slice \in [Nodes -> [GpuComponents -> SUBSET Nat]]
      /\ pool \in [Nodes -> PoolNames]
      /\ \A n \in Nodes : InLine(n) /\ (pool[n] = "none" => slice[n] = Laid(0, 0, 0))
      BY DEF Planned
<1>6. Laid(t, e, v) \in [GpuComponents -> SUBSET Nat]
      BY <1>4, LaidIs
<1>7. /\ \A n \in Nodes : n # node =>
            slice'[n] = slice[n] /\ cursor'[n] = cursor[n] /\ pool'[n] = pool[n]
      /\ slice'[node] = Laid(t, e, v) /\ cursor'[node] = cu /\ pool'[node] # "none"
  <2>1. \A n \in Nodes : n # node => slice'[n] = slice[n] /\ cursor'[n] = cursor[n]
        BY <1>2, <1>5
  <2>2. slice'[node] = Laid(t, e, v) /\ cursor'[node] = cu
        BY <1>2, <1>5
  <2>3. (\A n \in Nodes : n # node => pool'[n] = pool[n]) /\ pool'[node] # "none"
        BY <1>2, <1>3, <1>5
  <2> QED BY <2>1, <2>2, <2>3
<1>8. /\ slice' \in [Nodes -> [GpuComponents -> SUBSET Nat]] /\ cursor' \in [Nodes -> Nat]
      /\ pool' \in [Nodes -> PoolNames]
  <2>1. slice' \in [Nodes -> [GpuComponents -> SUBSET Nat]] /\ cursor' \in [Nodes -> Nat]
        BY <1>2, <1>5, <1>6
  <2>2. pool' \in [Nodes -> PoolNames]
        BY <1>3, <1>5
  <2> QED BY <2>1, <2>2
<1>9. \A n \in Nodes : cursor'[n] <= gpus[n]
      BY <1>2, <1>5, <1>7
<1>10. ASSUME NEW n \in Nodes
       PROVE  InLine(n)' /\ (pool'[n] = "none" => slice'[n] = Laid(0, 0, 0)')
  <2>1. CASE n = node
    <3>1. /\ slice'[n] = Laid(t, e, v)'
          /\ t <= gpus'[n] /\ Base(t)' + e <= gpus'[n] /\ Second(t, e)' + v <= gpus'[n]
          BY <1>1, <1>2, <1>7, <2>1, LaidSame
    <3>2. InLine(n)'
          BY <3>1 DEF InLine
    <3> QED BY <1>7, <2>1, <3>2
  <2>2. CASE n # node
    <3>1. InLine(n) /\ (pool[n] = "none" => slice[n] = Laid(0, 0, 0))
          BY <1>5
    <3>2. PICK tt \in Nat, ee \in Nat, vv \in Nat :
              /\ slice[n] = Laid(tt, ee, vv)
              /\ tt <= gpus[n] /\ Base(tt) + ee <= gpus[n] /\ Second(tt, ee) + vv <= gpus[n]
          BY <3>1 DEF InLine
    <3>3. /\ slice'[n] = Laid(tt, ee, vv)'
          /\ tt <= gpus'[n] /\ Base(tt)' + ee <= gpus'[n] /\ Second(tt, ee)' + vv <= gpus'[n]
          BY <1>1, <1>7, <2>2, <3>2, LaidSame
    <3>4. InLine(n)'
          BY <3>3 DEF InLine
    <3>5. Laid(0, 0, 0)' = Laid(0, 0, 0)
          BY <1>1, LaidSame
    <3> QED BY <1>7, <2>2, <3>1, <3>4, <3>5
  <2> QED BY <2>1, <2>2
<1>11. node' \in Nat \ {0}
      BY <1>2, <1>5
<1>12. Planned'
      BY <1>1, <1>2, <1>8, <1>9, <1>10, <1>11 DEF Planned
<1>13. Packing'
  <2>1. phase' \in PlanPhases \cup {"failed", "rejected"}
        BY <1>2
  <2>2. mode' = "auto"
        BY <1>1, <1>2
  <2> QED BY <1>1, <1>2, <1>4, <1>12, <2>1, <2>2, StillUnpacked
<1>14. Shapes'
  <2>1. /\ phase' \in PlanPhases \cup {"pack", "done", "rejected", "failed"}
        /\ phase' \in {"done", "failed", "rejected"} => node' = 1
        BY <1>2 DEF PlanPhases
  <2> QED BY <1>1, <1>2, <2>1 DEF Shapes, packVars
<1> QED BY <1>1, <1>7, <1>12, <1>13, <1>14

\* What a node covers depends on its slices.
LEMMA CoveredSame ==
    ASSUME UNCHANGED <<gpus, strategy>>, NEW n, NEW c, slice'[n] = slice[n]
    PROVE  Covered(n, c)' <=> Covered(n, c)
BY DEF Covered, Cover

CoveredRule ==
    \A n \in Nodes : \A t, e, v \in Nat : slice[n] = Laid(t, e, v) =>
        /\ t = gpus[n] => Covered(n, "train")
        /\ Base(t) + e = gpus[n] => Covered(n, "eval")
        /\ Second(t, e) + v = gpus[n] => Covered(n, "env")

LEMMA CoveredNodes == Chosen => CoveredRule
BY CoveredIf DEF CoveredRule

\* The node of the step is covered for those who take all that it has.
LEMMA CoveredThen ==
    ASSUME Inputs, UNCHANGED inputVars, NEW n \in Nodes, NEW t \in Nat, NEW e \in Nat, NEW v \in Nat,
           slice'[n] = Laid(t, e, v)
    PROVE  /\ t = gpus[n] => Covered(n, "train")'
           /\ Base(t) + e = gpus[n] => Covered(n, "eval")'
           /\ Second(t, e) + v = gpus[n] => Covered(n, "env")'
<1>1. Chosen' /\ gpus' = gpus /\ strategy' = strategy /\ Nodes' = Nodes
      BY InputsStay
<1>2. (Chosen => CoveredRule)'
      BY CoveredNodes, PTL
<1>3. Laid(t, e, v)' = Laid(t, e, v) /\ Base(t)' = Base(t) /\ Second(t, e)' = Second(t, e)
      BY <1>1, LaidSame
<1> QED BY <1>1, <1>2, <1>3 DEF CoveredRule
-----------------------------------------------------------------------------
(***************************************************************************)
(* The steps of the plans.                                                 *)
(***************************************************************************)
Less(r, c, parts) == [r EXCEPT ![c] = @ - parts]
More(cu, n, units) == [cu EXCEPT ![n] = @ + units]
Put(s, n, c, from, units) == [s EXCEPT ![n] = [@ EXCEPT ![c] = from..(from + units - 1)]]

InGpus(parts) == parts \div Parts
Lacks(parts, n, cu) == InGpus(parts) > gpus[n] - cu[n]

\* A plan that goes on, a plan that has failed; allocate that moves the cursor or leaves it.
Going(r, cu, s) == PlanOf(r, cu, s, FALSE)
Halted(r, cu, s) == PlanOf(r, cu, s, TRUE)
Moving(p, n, c, parts) == Allocate(p, n, c, parts, TRUE)
Standing(p, n, c, parts) == Allocate(p, n, c, parts, FALSE)

\* What allocate does, if it moves the cursor, leaves it, or has too little.
LEMMA AllocateMoves ==
    ASSUME NEW r, NEW cu, NEW s, NEW n, NEW c, NEW parts, ~Lacks(parts, n, cu)
    PROVE  Moving(Going(r, cu, s), n, c, parts) =
               Going(Less(r, c, parts), More(cu, n, InGpus(parts)), Put(s, n, c, cu[n], InGpus(parts)))
<1> DEFINE p == Going(r, cu, s)
<1>1. p.remaining = r /\ p.cursor = cu /\ p.slice = s /\ p.failed = FALSE
      BY DEF Going, PlanOf
<1> HIDE DEF p
<1>2. Moving(p, n, c, parts) =
          Going(Less(r, c, parts), More(cu, n, InGpus(parts)), Put(s, n, c, cu[n], InGpus(parts)))
      BY <1>1 DEF InGpus, Allocate, Available, Less, More, Put, Lacks, Moving, Going
<1> QED BY <1>2 DEF p

\* A node has room for what is asked, and the cursor stays.
LEMMA AllocateStands ==
    ASSUME NEW r, NEW cu, NEW s, NEW n, NEW c, NEW parts, ~Lacks(parts, n, cu)
    PROVE  Standing(Going(r, cu, s), n, c, parts) =
               Going(Less(r, c, parts), cu, Put(s, n, c, cu[n], InGpus(parts)))
<1> DEFINE p == Going(r, cu, s)
<1>1. p.remaining = r /\ p.cursor = cu /\ p.slice = s /\ p.failed = FALSE
      BY DEF Going, PlanOf
<1> HIDE DEF p
<1>2. Standing(p, n, c, parts) =
          Going(Less(r, c, parts), cu, Put(s, n, c, cu[n], InGpus(parts)))
      BY <1>1 DEF InGpus, Allocate, Available, Less, Put, Lacks, Standing, Going
<1> QED BY <1>2 DEF p

\* A node lacks room for what is asked.
LEMMA AllocateFails ==
    ASSUME NEW r, NEW cu, NEW s, NEW n, NEW c, NEW parts, Lacks(parts, n, cu)
    PROVE  Moving(Going(r, cu, s), n, c, parts) = Halted(r, cu, s)
<1> DEFINE p == Going(r, cu, s)
<1>1. p.remaining = r /\ p.cursor = cu /\ p.slice = s /\ p.failed = FALSE
      BY DEF Going, PlanOf
<1> HIDE DEF p
<1>2. Moving(p, n, c, parts) = Halted(r, cu, s)
      BY <1>1 DEF InGpus, Allocate, Available, Lacks, Moving, Halted
<1> QED BY <1>2 DEF p

\* What is asked of a node: what it has left, and no more than is needed.
LEMMA AskedIs ==
    ASSUME NEW r, NEW cu, NEW s, NEW n, NEW c
    PROVE  Asked(Going(r, cu, s), n, c) = Smaller(Parts * (gpus[n] - cu[n]), r[c])
<1> DEFINE p == Going(r, cu, s)
<1>1. p.remaining = r /\ p.cursor = cu
      BY DEF Going, PlanOf
<1> HIDE DEF p
<1>2. Asked(p, n, c) = Smaller(Parts * (gpus[n] - cu[n]), r[c])
      BY <1>1 DEF Asked, Available
<1> QED BY <1>2 DEF p

Carried(r, cu, s, name) ==
    /\ remaining' = r /\ cursor' = cu /\ slice' = s
    /\ pool' = IF pool[node] = "none" THEN [pool EXCEPT ![node] = name] ELSE pool
    /\ UNCHANGED <<inputVars, packVars>>

\* The plan with a node more.
LEMMA CarryOn ==
    ASSUME NEW r, NEW cu, NEW s, NEW name, Carry(Going(r, cu, s), name)
    PROVE  Carried(r, cu, s, name) /\ phase' = phase /\ node' = node + 1
<1> DEFINE p == Going(r, cu, s)
<1>1. p.remaining = r /\ p.cursor = cu /\ p.slice = s /\ p.failed = FALSE
      BY DEF Going, PlanOf
<1>2. Carry(p, name)
      OBVIOUS
<1> HIDE DEF p
<1> QED BY <1>1, <1>2 DEF Carry, Carried, Goto

\* The plan after a failure.
LEMMA CarryFails ==
    ASSUME NEW r, NEW cu, NEW s, NEW name, Carry(Halted(r, cu, s), name)
    PROVE  Carried(r, cu, s, name) /\ phase' = "failed" /\ node' = 1
<1> DEFINE p == Halted(r, cu, s)
<1>1. p.remaining = r /\ p.cursor = cu /\ p.slice = s /\ p.failed = TRUE
      BY DEF Halted, PlanOf
<1>2. Carry(p, name)
      OBVIOUS
<1> HIDE DEF p
<1> QED BY <1>1, <1>2 DEF Carry, Carried, Goto

LEMMA SameRequest ==
    ASSUME UNCHANGED inputVars
    PROVE  /\ RequestedParts' = RequestedParts /\ ClusterParts' = ClusterParts
           /\ StaleLimits' <=> StaleLimits
           /\ \A c \in GpuComponents : Required(c)' = Required(c) /\ (Whole(c)' <=> Whole(c))
<1>1. gpus' = gpus /\ request' = request /\ strategy' = strategy
      BY DEF inputVars
<1>2. \A c \in GpuComponents : Required(c)' = Required(c)
      BY <1>1 DEF Required
<1>3. Required("train")' = Required("train") /\ Required("eval")' = Required("eval") /\ Required("env")' = Required("env")
      BY <1>1 DEF Required
<1>4. RolloutParts' = RolloutParts
      BY <1>1, <1>3 DEF RolloutParts
<1>5. RequestedParts' = RequestedParts
      BY <1>1, <1>3, <1>4 DEF RequestedParts
<1>6. ClusterParts' = ClusterParts
      BY <1>1 DEF ClusterParts
<1>7. StaleLimits' <=> StaleLimits
      BY <1>1 DEF StaleLimits
<1>8. \A c \in GpuComponents : Whole(c)' <=> Whole(c)
      BY <1>1, <1>2 DEF Whole
<1> QED BY <1>2, <1>5, <1>6, <1>7, <1>8

\* The account of a component that a node gives u GPUs.
LEMMA AccountMoves ==
    ASSUME Inputs, Planned, UNCHANGED inputVars, NEW c \in GpuComponents, Account(c), NEW m \in Nodes,
           \A n \in Nodes : n # m => slice'[n] = slice[n],
           NEW x \in Nat, NEW av \in Nat, NEW a, NEW u, Shares(remaining[c], av, a, u),
           slice[m][c] = {}, slice'[m][c] = x..(x + u - 1), remaining'[c] = remaining[c] - a
    PROVE  Account(c)'
<1>1. Chosen /\ gpus' = gpus /\ request' = request
      BY GivenTogether, InputsStay
<1>2. remaining[c] \in Nat /\ \A n \in Nodes : InLine(n)
      BY DEF Planned
<1>3. u \in Nat
      BY <1>2, ShareIs
<1>4. \A n \in Nodes : n # m => slice'[n][c] = slice[n][c]
      OBVIOUS
<1>5. Cardinality(Units(c)') = Cardinality(Units(c)) + u
      BY <1>1, <1>2, <1>3, <1>4, UnitsGain
<1>6. Cardinality(Units(c)) \in Nat
      BY <1>1, <1>2, UnitsFinite
<1> QED BY <1>1, <1>2, <1>5, <1>6, AccountKept

\* A step on one node that gives c nothing keeps the account of c.
LEMMA AccountRests ==
    ASSUME UNCHANGED inputVars, NEW c \in GpuComponents, Account(c), NEW m \in Nodes,
           \A n \in Nodes : n # m => slice'[n] = slice[n],
           slice'[m][c] = slice[m][c], remaining'[c] = remaining[c]
    PROVE  Account(c)'
<1>1. gpus' = gpus /\ request' = request
      BY DEF inputVars
<1>2. \A n \in Nodes : slice'[n][c] = slice[n][c]
      OBVIOUS
<1>3. Units(c)' = Units(c)
      BY <1>1, <1>2, UnitsSame
<1> QED BY <1>1, <1>3, AccountStays

LEMMA NodeIs ==
    ASSUME Inputs, Planned, ~LoopEnds({}) \/ node <= Len(gpus)
    PROVE  node \in Nodes
<1>1. node \in Nat \ {0} /\ Nodes = 1..Len(gpus) /\ Len(gpus) \in Nat
      BY InputTypes, GivenTogether DEF Planned
<1>2. node <= Len(gpus)
      BY <1>1 DEF LoopEnds
<1> QED BY <1>1, <1>2

LEMMA TrainOnlyThen ==
    ASSUME strategy' = strategy, NEW n, NEW u, slice'[n] = Laid(u, 0, 0), cursor'[n] = u
    PROVE  TrainOnly(n)'
BY DEF TrainOnly, Laid, Base, Second

LEMMA TrainPoolStep ==
    ASSUME PlacementInv, TrainPool
    PROVE  PlacementInv'
<1>1. /\ Inputs /\ Planned /\ Planning /\ ByPhase /\ Packing /\ Shapes
      BY DEF PlacementInv
<1>2. /\ phase = "trainPool" /\ ~AtEmptyNode /\ ~LoopEnds({"train"})
      /\ Carry(Allocate(Plan, node, "train", Asked(Plan, node, "train"), TRUE), "train_pool")
      BY DEF TrainPool
<1>3. Chosen /\ Steady
      BY <1>1, GivenTogether
<1>4. /\ Parts \in Nat \ {0} /\ Nodes = 1..Len(gpus) /\ Len(gpus) \in Nat
      /\ \A n \in Nodes : n \in Nat \ {0} /\ gpus[n] \in Nat
      BY <1>3, InputTypes
<1>5. /\ node \in Nat \ {0} /\ remaining \in [GpuComponents -> Nat]
      /\ cursor \in [Nodes -> Nat] /\ slice \in [Nodes -> [GpuComponents -> SUBSET Nat]]
      /\ pool \in [Nodes -> PoolNames]
      BY <1>1 DEF Planned
<1>6. /\ strategy.kind = "disaggregate"
      /\ \A n \in Nodes :
            /\ TrainOnly(n)
            /\ n >= node => Untouched(n)
            /\ n < node => remaining["train"] = 0 \/ Covered(n, "train")
      BY <1>1, <1>2 DEF ByPhase
<1>7. /\ mode = "auto" /\ node <= Len(gpus) + 1 /\ RequestedParts <= ClusterParts
      /\ \A c \in GpuComponents : Account(c)
      BY <1>1, <1>2 DEF Planning, PlanPhases
<1>8. node \in Nodes /\ remaining["train"] > 0
  <2>1. node <= Len(gpus)
        BY <1>2, <1>4, <1>5 DEF LoopEnds
  <2>2. Asking({"train"})
        BY <1>2 DEF LoopEnds
  <2> QED BY <1>4, <1>5, <2>1, <2>2 DEF Asking
<1>9. slice[node] = Laid(0, 0, 0) /\ cursor[node] = 0
      BY <1>4, <1>6, <1>8 DEF Untouched
<1> DEFINE r == remaining["train"]
           g == gpus[node]
<1>10. PICK a, u : Shares(r, g, a, u)
      BY DEF Shares
<1>11. r \in Nat /\ g \in Nat
      BY <1>4, <1>5, <1>8 DEF GpuComponents
<1>12. /\ a \in Nat /\ a <= r /\ r - a \in Nat /\ u \in Nat /\ u <= g
       /\ r - a = 0 \/ u = g
      BY <1>10, <1>11, ShareIs
<1> DEFINE plan == Going(remaining, cursor, slice)
<1>0. Plan = plan
      BY DEF Plan, Going
<1>13. Asked(plan, node, "train") = a
  <2>1. Asked(Going(remaining, cursor, slice), node, "train")
            = Smaller(Parts * (gpus[node] - cursor[node]), remaining["train"])
        BY AskedIs
  <2>2. gpus[node] - cursor[node] = g
        BY <1>9, <1>11
  <2> QED BY <1>10, <2>1, <2>2 DEF Shares
<1> DEFINE left == Less(remaining, "train", a)
           cursors == More(cursor, node, u)
           slices == Put(slice, node, "train", cursor[node], u)
<1>14. Moving(plan, node, "train", a) = Going(left, cursors, slices)
  <2>1. InGpus(a) = u /\ ~Lacks(a, node, cursor)
        BY <1>9, <1>10, <1>11, <1>12 DEF Shares, Lacks, InGpus
  <2>2. Moving(Going(remaining, cursor, slice), node, "train", a) =
            Going(Less(remaining, "train", a), More(cursor, node, InGpus(a)),
                  Put(slice, node, "train", cursor[node], InGpus(a)))
        BY <2>1, AllocateMoves
  <2> QED BY <2>1, <2>2
<1> HIDE DEF plan
<1>15. Carried(left, cursors, slices, "train_pool") /\ phase' = phase /\ node' = node + 1
  <2>1. Carry(Moving(plan, node, "train", a), "train_pool")
        BY <1>0, <1>2, <1>13 DEF Moving
  <2> QED BY <1>14, <2>1, CarryOn
<1>16. /\ remaining' = left /\ UNCHANGED inputVars
      BY <1>15 DEF Carried
<1>17. left \in [GpuComponents -> Nat] /\ left["train"] = r - a /\ left["eval"] = remaining["eval"] /\ left["env"] = remaining["env"]
      BY <1>5, <1>12 DEF GpuComponents, Less
<1>18. Base(u) = u /\ Second(u, 0) = u
  <2>1. Base(u) = u
        BY <1>6 DEF Base
  <2> QED BY <1>12, <2>1 DEF Second
<1>19. slices = [slice EXCEPT ![node] = Laid(u, 0, 0)] /\ cursors = [cursor EXCEPT ![node] = u]
  <2>1. [Laid(0, 0, 0) EXCEPT !["train"] = 0..(0 + u - 1)] = Laid(u, 0, 0)
        BY <1>3, <1>12, LaidPut
  <2>2. slices = [slice EXCEPT ![node] = [Laid(0, 0, 0) EXCEPT !["train"] = 0..(0 + u - 1)]]
        BY <1>5, <1>8, <1>9 DEF Put
  <2>3. cursors = [cursor EXCEPT ![node] = u]
        BY <1>5, <1>8, <1>9, <1>12 DEF More
  <2> QED BY <2>1, <2>2, <2>3
<1> HIDE DEF left, cursors, slices
<1>20. NodeGoes(u, 0, 0, u)
  <2>1. \E name \in PoolNames \ {"none"} :
            pool' = IF pool[node] = "none" THEN [pool EXCEPT ![node] = name] ELSE pool
        BY <1>15 DEF Carried, PoolNames
  <2> QED BY <1>2, <1>7, <1>8, <1>11, <1>12, <1>15, <1>17, <1>18, <1>19, <2>1 DEF NodeGoes, Carried, PlanPhases
<1>21. /\ Inputs' /\ Planned' /\ Packing' /\ Shapes'
       /\ \A n \in Nodes : n # node =>
              slice'[n] = slice[n] /\ cursor'[n] = cursor[n] /\ pool'[n] = pool[n]
       /\ slice'[node] = Laid(u, 0, 0) /\ cursor'[node] = u
      BY <1>1, <1>12, <1>20, NodeStep
<1>22. /\ gpus' = gpus /\ strategy' = strategy /\ mode' = mode /\ Nodes' = Nodes
      BY <1>1, <1>16, InputsStay
<1>23. /\ slice[node]["train"] = {} /\ slice[node]["eval"] = {} /\ slice[node]["env"] = {}
       /\ slice'[node]["train"] = 0..(0 + u - 1) /\ slice'[node]["eval"] = {} /\ slice'[node]["env"] = {}
  <2>1. slice[node]["train"] = {} /\ slice[node]["eval"] = {} /\ slice[node]["env"] = {}
        BY <1>3, <1>9, NoneLaid DEF GpuComponents
  <2>2. /\ slice'[node]["train"] = 0..(u - 1)
        /\ slice'[node]["eval"] = Base(u)..(Base(u) + 0 - 1)
        /\ slice'[node]["env"] = Second(u, 0)..(Second(u, 0) + 0 - 1)
        BY <1>3, <1>12, <1>21, SliceOfLaid
  <2>3. slice'[node]["train"] = 0..(0 + u - 1) /\ slice'[node]["eval"] = {} /\ slice'[node]["env"] = {}
        BY <1>12, <1>18, <2>2
  <2> QED BY <2>1, <2>3
<1>24. \A c \in GpuComponents : Account(c)'
  <2>1. Account("train")'
    <3>1. "train" \in GpuComponents /\ Account("train") /\ 0 \in Nat /\ remaining'["train"] = remaining["train"] - a
          BY <1>7, <1>16, <1>17 DEF GpuComponents
    <3> QED BY <1>1, <1>8, <1>10, <1>11, <1>16, <1>21, <1>23, <3>1, AccountMoves
  <2>2. Account("eval")'
    <3>1. "eval" \in GpuComponents /\ Account("eval") /\ remaining'["eval"] = remaining["eval"]
          BY <1>7, <1>16, <1>17 DEF GpuComponents
    <3> QED BY <1>8, <1>16, <1>21, <1>23, <3>1, AccountRests
  <2>3. Account("env")'
    <3>1. "env" \in GpuComponents /\ Account("env") /\ remaining'["env"] = remaining["env"]
          BY <1>7, <1>16, <1>17 DEF GpuComponents
    <3> QED BY <1>8, <1>16, <1>21, <1>23, <3>1, AccountRests
  <2> QED BY <2>1, <2>2, <2>3 DEF GpuComponents
<1>25. Planning'
  <2>1. RequestedParts' <= ClusterParts'
        BY <1>7, <1>16, SameRequest
  <2>2. mode' = "auto" /\ node' <= Len(gpus') + 1
        BY <1>4, <1>5, <1>7, <1>8, <1>15, <1>22
  <2> QED BY <1>24, <2>1, <2>2 DEF Planning
<1>26. ByPhase'
  <2>1. phase' = "trainPool" /\ strategy'.kind = "disaggregate"
        BY <1>2, <1>6, <1>15, <1>22
  <2>2. ASSUME NEW n \in Nodes
        PROVE  /\ TrainOnly(n)'
               /\ n >= node' => Untouched(n)'
               /\ n < node' => remaining'["train"] = 0 \/ Covered(n, "train")'
    <3>1. n \in Nat /\ node \in Nat
          BY <1>4, <1>5
    <3>2. CASE n = node
      <4>2. TrainOnly(n)'
        <5>1. slice'[n] = Laid(u, 0, 0) /\ cursor'[n] = u
              BY <1>21, <3>2
        <5> QED BY <1>22, <5>1, TrainOnlyThen
      <4>3. remaining'["train"] = 0 \/ Covered(n, "train")'
        <5>1. u = g => Covered(n, "train")'
              BY <1>1, <1>12, <1>16, <1>21, <3>2, CoveredThen
        <5> QED BY <1>12, <1>16, <1>17, <5>1
      <4> QED BY <1>15, <3>1, <3>2, <4>2, <4>3
    <3>3. CASE n # node
      <4>1. slice'[n] = slice[n] /\ cursor'[n] = cursor[n] /\ pool'[n] = pool[n]
            BY <1>21, <3>3
      <4>2. TrainOnly(n)' <=> TrainOnly(n)
            BY <1>22, <4>1 DEF TrainOnly, Laid, Base, Second
      <4>3. Untouched(n)' <=> Untouched(n)
            BY <1>22, <4>1 DEF Untouched, Laid, Base, Second
      <4>4. Covered(n, "train")' <=> Covered(n, "train")
            BY <1>22, <4>1, CoveredSame
      <4>5. /\ TrainOnly(n) /\ (n >= node => Untouched(n))
            /\ n < node => Covered(n, "train")
            BY <1>5, <1>6, <1>8 DEF GpuComponents
      <4> QED BY <1>15, <3>1, <3>3, <4>2, <4>3, <4>4, <4>5
    <3> QED BY <3>2, <3>3
  <2> QED BY <1>22, <2>1, <2>2 DEF ByPhase
<1>27. RaisesOnlyIfUneven'
      BY <1>2, <1>15 DEF RaisesOnlyIfUneven
<1> QED BY <1>21, <1>25, <1>26, <1>27 DEF PlacementInv
\* The slices and the cursor of the node that a step works on.
SliceAt(x) == [slice EXCEPT ![node] = x]
CursorAt(x) == [cursor EXCEPT ![node] = x]

LEMMA ConsumeIs ==
    ASSUME Chosen, NEW p, NEW n, NEW c, NEW parts
    PROVE  /\ strategy.shared => Allocate(p, n, c, parts, ~strategy.shared) = Standing(p, n, c, parts)
           /\ ~strategy.shared => Allocate(p, n, c, parts, ~strategy.shared) = Moving(p, n, c, parts)
<1>1. strategy.shared \in BOOLEAN
      BY InputTypes
<1>2. ASSUME strategy.shared PROVE Allocate(p, n, c, parts, ~strategy.shared) = Standing(p, n, c, parts)
      BY <1>1, <1>2 DEF Allocate, Standing
<1>3. ASSUME ~strategy.shared PROVE Allocate(p, n, c, parts, ~strategy.shared) = Moving(p, n, c, parts)
      BY <1>1, <1>3 DEF Allocate, Moving
<1> QED BY <1>2, <1>3

\* The share of eval follows that of train.
LEMMA EvalGoes ==
    ASSUME Inputs, Planned, node \in Nodes, NEW t \in Nat, cursor[node] = Base(t),
           NEW r, NEW a, NEW u \in Nat, u = InGpus(a), Base(t) + u <= gpus[node]
    PROVE  Allocate(Going(r, cursor, SliceAt(Laid(t, 0, 0))), node, "eval", a, ~strategy.shared) =
               Going(Less(r, "eval", a), CursorAt(Second(t, u)), SliceAt(Laid(t, u, 0)))
<1>1. Chosen /\ strategy.shared \in BOOLEAN
      BY GivenTogether, InputTypes
<1>2. /\ cursor \in [Nodes -> Nat] /\ slice \in [Nodes -> [GpuComponents -> SUBSET Nat]]
      BY DEF Planned
<1>3. Base(t) \in Nat /\ gpus[node] \in Nat
      BY <1>1, LaidIs, InputTypes
<1>4. ~Lacks(a, node, cursor)
      BY <1>3 DEF Lacks
<1> DEFINE s == SliceAt(Laid(t, 0, 0))
           p == Going(r, cursor, s)
<1>5. Put(s, node, "eval", cursor[node], u) = SliceAt(Laid(t, u, 0))
  <2>1. [Laid(t, 0, 0) EXCEPT !["eval"] = Base(t)..(Base(t) + u - 1)] = Laid(t, u, 0)
        BY <1>1, LaidPut
  <2>2. s[node] = Laid(t, 0, 0)
        BY <1>2 DEF SliceAt
  <2>3. Put(s, node, "eval", cursor[node], u) = [s EXCEPT ![node] = [Laid(t, 0, 0) EXCEPT !["eval"] = Base(t)..(Base(t) + u - 1)]]
        BY <2>2 DEF Put
  <2>4. Put(s, node, "eval", cursor[node], u) = [s EXCEPT ![node] = Laid(t, u, 0)]
        BY <2>1, <2>3
  <2>5. [s EXCEPT ![node] = Laid(t, u, 0)] = [slice EXCEPT ![node] = Laid(t, u, 0)]
        BY <1>2 DEF SliceAt
  <2> QED BY <2>4, <2>5 DEF SliceAt
<1> HIDE DEF s
<1>6. CASE strategy.shared
  <2>1. Standing(Going(r, cursor, s), node, "eval", a) =
            Going(Less(r, "eval", a), cursor, Put(s, node, "eval", cursor[node], InGpus(a)))
        BY <1>4, AllocateStands
  <2>2. CursorAt(Second(t, u)) = cursor
    <3>1. Second(t, u) = cursor[node]
          BY <1>6 DEF Second
    <3> QED BY <1>2, <3>1 DEF CursorAt
  <2>3. Allocate(p, node, "eval", a, ~strategy.shared) = Standing(p, node, "eval", a)
        BY <1>1, <1>6, ConsumeIs
  <2> QED BY <1>5, <2>1, <2>2, <2>3 DEF s
<1>7. CASE ~strategy.shared
  <2>1. Moving(Going(r, cursor, s), node, "eval", a) =
            Going(Less(r, "eval", a), More(cursor, node, InGpus(a)), Put(s, node, "eval", cursor[node], InGpus(a)))
        BY <1>4, AllocateMoves
  <2>2. CursorAt(Second(t, u)) = More(cursor, node, u)
    <3>1. Second(t, u) = cursor[node] + u
          BY <1>7 DEF Second
    <3> QED BY <1>2, <3>1 DEF CursorAt, More
  <2>3. Allocate(p, node, "eval", a, ~strategy.shared) = Moving(p, node, "eval", a)
        BY <1>1, <1>7, ConsumeIs
  <2> QED BY <1>5, <2>1, <2>2, <2>3 DEF s
<1> QED BY <1>1, <1>6, <1>7

\* The share of env follows that of eval, if there is room.
LEMMA EnvGoes ==
    ASSUME Inputs, Planned, node \in Nodes, NEW t \in Nat, NEW e \in Nat,
           NEW r, NEW a, NEW u \in Nat, u = InGpus(a)
    PROVE  LET p == Going(r, CursorAt(Second(t, e)), SliceAt(Laid(t, e, 0)))
           IN  /\ Second(t, e) + u <= gpus[node] =>
                     Moving(p, node, "env", a) =
                         Going(Less(r, "env", a), CursorAt(Second(t, e) + u), SliceAt(Laid(t, e, u)))
               /\ gpus[node] < Second(t, e) + u =>
                     Moving(p, node, "env", a) =
                         Halted(r, CursorAt(Second(t, e)), SliceAt(Laid(t, e, 0)))
<1>1. Chosen
      BY GivenTogether
<1>2. /\ cursor \in [Nodes -> Nat] /\ slice \in [Nodes -> [GpuComponents -> SUBSET Nat]]
      BY DEF Planned
<1>3. Second(t, e) \in Nat /\ gpus[node] \in Nat
      BY <1>1, LaidIs, InputTypes
<1> DEFINE s == SliceAt(Laid(t, e, 0))
           cu == CursorAt(Second(t, e))
<1>4. cu[node] = Second(t, e)
      BY <1>2 DEF CursorAt
<1>5. Put(s, node, "env", cu[node], u) = SliceAt(Laid(t, e, u))
  <2>1. [Laid(t, e, 0) EXCEPT !["env"] = Second(t, e)..(Second(t, e) + u - 1)] = Laid(t, e, u)
        BY <1>1, LaidPut
  <2>2. s[node] = Laid(t, e, 0)
        BY <1>2 DEF SliceAt
  <2> HIDE DEF cu
  <2>3. Put(s, node, "env", cu[node], u) = [s EXCEPT ![node] = [Laid(t, e, 0) EXCEPT !["env"] = Second(t, e)..(Second(t, e) + u - 1)]]
        BY <1>4, <2>2 DEF Put
  <2>4. Put(s, node, "env", cu[node], u) = [s EXCEPT ![node] = Laid(t, e, u)]
        BY <2>1, <2>3
  <2>5. [s EXCEPT ![node] = Laid(t, e, u)] = [slice EXCEPT ![node] = Laid(t, e, u)]
        BY <1>2 DEF SliceAt
  <2> QED BY <2>4, <2>5 DEF SliceAt
<1>6. More(cu, node, u) = CursorAt(Second(t, e) + u)
      BY <1>2, <1>3, <1>4 DEF More, CursorAt
<1> HIDE DEF s, cu
<1>7. ASSUME Second(t, e) + u <= gpus[node]
      PROVE  Moving(Going(r, cu, s), node, "env", a) =
                 Going(Less(r, "env", a), CursorAt(Second(t, e) + u), SliceAt(Laid(t, e, u)))
  <2>1. ~Lacks(a, node, cu)
        BY <1>3, <1>4, <1>7 DEF Lacks
  <2>2. Moving(Going(r, cu, s), node, "env", a) =
            Going(Less(r, "env", a), More(cu, node, InGpus(a)), Put(s, node, "env", cu[node], InGpus(a)))
        BY <2>1, AllocateMoves
  <2> QED BY <1>5, <1>6, <2>2
<1>8. ASSUME gpus[node] < Second(t, e) + u
      PROVE  Moving(Going(r, cu, s), node, "env", a) = Halted(r, cu, s)
  <2>1. Lacks(a, node, cu)
        BY <1>3, <1>4, <1>8 DEF Lacks
  <2> QED BY <2>1, AllocateFails
<1> QED BY <1>7, <1>8 DEF s, cu

\* The accounts after a node: q is what train had been given of it before.
LEMMA AccountsKept ==
    ASSUME Inputs, Planned, UNCHANGED inputVars, \A c \in GpuComponents : Account(c), node \in Nodes,
           \A n \in Nodes : n # node => slice'[n] = slice[n],
           NEW q \in Nat, NEW t \in Nat, NEW e \in Nat, NEW v \in Nat, NEW b \in Nat,
           slice[node] = Laid(q, 0, 0), slice'[node] = Laid(t, e, v),
           NEW a, NEW x \in Nat, NEW ae, NEW xe \in Nat, NEW av, NEW xv \in Nat,
           \/ q = t /\ remaining'["train"] = remaining["train"]
           \/ q = 0 /\ Shares(remaining["train"], x, a, t) /\ remaining'["train"] = remaining["train"] - a,
           Shares(remaining["eval"], xe, ae, e), remaining'["eval"] = remaining["eval"] - ae,
           Shares(remaining["env"], xv, av, v), remaining'["env"] = remaining["env"] - av
    PROVE  \A c \in GpuComponents : Account(c)'
<1>1. Chosen /\ "train" \in GpuComponents /\ "eval" \in GpuComponents /\ "env" \in GpuComponents
      BY GivenTogether DEF GpuComponents
<1>2. Base(t) \in Nat /\ Second(t, e) \in Nat /\ Base(q) \in Nat /\ Second(q, 0) \in Nat
      BY <1>1, LaidIs
<1>3. /\ slice[node]["train"] = 0..(q - 1) /\ slice[node]["eval"] = {} /\ slice[node]["env"] = {}
  <2>1. /\ slice[node]["train"] = 0..(q - 1)
        /\ slice[node]["eval"] = Base(q)..(Base(q) + 0 - 1)
        /\ slice[node]["env"] = Second(q, 0)..(Second(q, 0) + 0 - 1)
        BY <1>1, SliceOfLaid
  <2> QED BY <1>2, <2>1
<1>4. /\ slice'[node]["train"] = 0..(0 + t - 1)
      /\ slice'[node]["eval"] = Base(t)..(Base(t) + e - 1)
      /\ slice'[node]["env"] = Second(t, e)..(Second(t, e) + v - 1)
  <2>1. /\ slice'[node]["train"] = 0..(t - 1)
        /\ slice'[node]["eval"] = Base(t)..(Base(t) + e - 1)
        /\ slice'[node]["env"] = Second(t, e)..(Second(t, e) + v - 1)
        BY <1>1, SliceOfLaid
  <2> QED BY <2>1
<1>5. Account("train")'
  <2>1. CASE q = t /\ remaining'["train"] = remaining["train"]
    <3>1. slice'[node]["train"] = slice[node]["train"]
          BY <1>3, <1>4, <2>1
    <3> QED BY <1>1, <2>1, <3>1, AccountRests
  <2>2. CASE q = 0 /\ Shares(remaining["train"], x, a, t) /\ remaining'["train"] = remaining["train"] - a
    <3>1. slice[node]["train"] = {} /\ 0 \in Nat
          BY <1>3, <2>2
    <3> QED BY <1>1, <1>4, <2>2, <3>1, AccountMoves
  <2> QED BY <2>1, <2>2
<1>6. Account("eval")'
      BY <1>1, <1>2, <1>3, <1>4, AccountMoves
<1>7. Account("env")'
      BY <1>1, <1>2, <1>3, <1>4, AccountMoves
<1> QED BY <1>5, <1>6, <1>7 DEF GpuComponents
LEMMA TrainOnlySame ==
    ASSUME UNCHANGED strategy, NEW n, slice'[n] = slice[n], cursor'[n] = cursor[n]
    PROVE  TrainOnly(n)' <=> TrainOnly(n)
BY DEF TrainOnly, Laid, Base, Second

LEMMA UntouchedSame ==
    ASSUME UNCHANGED strategy, NEW n, slice'[n] = slice[n], cursor'[n] = cursor[n], pool'[n] = pool[n]
    PROVE  Untouched(n)' <=> Untouched(n)
BY DEF Untouched, Laid, Base, Second

\* A plan that is carried over is a step on its node.
LEMMA CarriedGoes ==
    ASSUME node \in Nodes, phase \in PlanPhases, mode = "auto",
           NEW t \in Nat, NEW e \in Nat, NEW v \in Nat, NEW cu \in Nat, NEW left \in [GpuComponents -> Nat],
           t <= gpus[node], Base(t) + e <= gpus[node], Second(t, e) + v <= gpus[node], cu <= gpus[node],
           NEW name \in PoolNames \ {"none"},
           Carried(left, CursorAt(cu), SliceAt(Laid(t, e, v)), name),
           (phase' = phase /\ node' = node + 1) \/ (phase' = "failed" /\ node' = 1)
    PROVE  NodeGoes(t, e, v, cu) /\ remaining' = left /\ UNCHANGED inputVars
<1>1. /\ remaining' = left /\ cursor' = CursorAt(cu) /\ slice' = SliceAt(Laid(t, e, v))
      /\ pool' = IF pool[node] = "none" THEN [pool EXCEPT ![node] = name] ELSE pool
      /\ UNCHANGED <<inputVars, packVars>>
      BY DEF Carried
<1>2. \E nm \in PoolNames \ {"none"} :
          pool' = IF pool[node] = "none" THEN [pool EXCEPT ![node] = nm] ELSE pool
      BY <1>1
<1> QED BY <1>1, <1>2 DEF NodeGoes, SliceAt, CursorAt

LEMMA RolloutPoolStep ==
    ASSUME PlacementInv, RolloutPool
    PROVE  PlacementInv'
<1>1. /\ Inputs /\ Planned /\ Planning /\ ByPhase /\ Packing /\ Shapes
      BY DEF PlacementInv
<1> DEFINE plan == Going(remaining, cursor, slice)
           e1 == Allocate(plan, node, "eval", Asked(plan, node, "eval"), ~strategy.shared)
<1>2. /\ phase = "rolloutPool" /\ ~AtEmptyNode /\ ~LoopEnds({"eval", "env"})
      /\ Carry(Moving(e1, node, "env", Asked(e1, node, "env")), "rollout_pool")
  <2>1. Plan = plan
        BY DEF Plan, Going
  <2> QED BY <2>1 DEF RolloutPool, Moving
<1> HIDE DEF plan
<1>3. Chosen /\ Steady
      BY <1>1, GivenTogether
<1>4. /\ Parts \in Nat \ {0} /\ Nodes = 1..Len(gpus) /\ Len(gpus) \in Nat
      /\ \A n \in Nodes : n \in Nat \ {0} /\ gpus[n] \in Nat
      /\ strategy.shared \in BOOLEAN
      BY <1>3, InputTypes
<1>5. /\ node \in Nat \ {0} /\ remaining \in [GpuComponents -> Nat]
      /\ cursor \in [Nodes -> Nat] /\ slice \in [Nodes -> [GpuComponents -> SUBSET Nat]]
      /\ pool \in [Nodes -> PoolNames]
      /\ \A n \in Nodes : cursor[n] <= gpus[n]
      BY <1>1 DEF Planned
<1>6. /\ strategy.kind = "disaggregate" /\ remaining["train"] = 0
      /\ \A n \in Nodes :
            /\ n >= node => TrainOnly(n)
            /\ n < node => \A c \in {"eval", "env"} : remaining[c] = 0 \/ Covered(n, c)
      BY <1>1, <1>2 DEF ByPhase
<1>7. /\ mode = "auto" /\ node <= Len(gpus) + 1 /\ RequestedParts <= ClusterParts
      /\ \A c \in GpuComponents : Account(c)
      BY <1>1, <1>2 DEF Planning, PlanPhases
<1>8. node \in Nodes
  <2>1. node <= Len(gpus)
        BY <1>2, <1>4, <1>5 DEF LoopEnds
  <2> QED BY <1>4, <1>5, <2>1
<1> DEFINE t == cursor[node]
           g == gpus[node]
           re == remaining["eval"]
           rv == remaining["env"]
<1>9. slice[node] = Laid(t, 0, 0) /\ t \in Nat /\ g \in Nat /\ t <= g /\ Base(t) = t
      BY <1>4, <1>5, <1>6, <1>8 DEF TrainOnly, Base
<1>10. re \in Nat /\ rv \in Nat /\ g - t \in Nat
      BY <1>5, <1>9 DEF GpuComponents
<1>11. PICK ae, ue : Shares(re, g - t, ae, ue)
      BY DEF Shares
<1>12. /\ ae \in Nat /\ ae <= re /\ re - ae \in Nat /\ ue \in Nat /\ ue <= g - t
       /\ re - ae = 0 \/ ue = g - t
      BY <1>10, <1>11, ShareIs
<1>13. Asked(plan, node, "eval") = ae /\ ue = InGpus(ae)
  <2>1. Asked(Going(remaining, cursor, slice), node, "eval")
            = Smaller(Parts * (gpus[node] - cursor[node]), remaining["eval"])
        BY AskedIs
  <2> QED BY <1>11, <2>1 DEF Shares, plan, InGpus
<1> DEFINE s == Second(t, ue)
           left1 == Less(remaining, "eval", ae)
<1>14. s \in Nat /\ s <= g /\ (s = t \/ s = t + ue)
      BY <1>9, <1>10, <1>12 DEF Second
<1>15. e1 = Going(left1, CursorAt(s), SliceAt(Laid(t, ue, 0)))
  <2>1. SliceAt(Laid(t, 0, 0)) = slice
        BY <1>5, <1>8, <1>9 DEF SliceAt
  <2>2. Base(t) + ue <= gpus[node]
        BY <1>9, <1>12
  <2>3. Allocate(Going(remaining, cursor, SliceAt(Laid(t, 0, 0))), node, "eval", ae, ~strategy.shared) =
            Going(Less(remaining, "eval", ae), CursorAt(Second(t, ue)), SliceAt(Laid(t, ue, 0)))
        BY <1>1, <1>8, <1>9, <1>12, <1>13, <2>2, EvalGoes
  <2> QED BY <1>13, <2>1, <2>3 DEF plan
<1>16. CursorAt(s)[node] = s
      BY <1>5, <1>8 DEF CursorAt
<1>17. left1["env"] = rv /\ left1["train"] = remaining["train"] /\ left1["eval"] = re - ae /\ DOMAIN left1 = GpuComponents
      BY <1>5 DEF Less, GpuComponents
<1>18. PICK av, uv : Shares(rv, g - s, av, uv)
      BY DEF Shares
<1>19. g - s \in Nat
      BY <1>9, <1>14
<1>20. /\ av \in Nat /\ av <= rv /\ rv - av \in Nat /\ uv \in Nat /\ uv <= g - s
       /\ rv - av = 0 \/ uv = g - s
      BY <1>10, <1>18, <1>19, ShareIs
<1> HIDE DEF e1, left1, s
<1>21. Asked(e1, node, "env") = av /\ uv = InGpus(av)
  <2>1. Asked(Going(left1, CursorAt(s), SliceAt(Laid(t, ue, 0))), node, "env")
            = Smaller(Parts * (gpus[node] - CursorAt(s)[node]), left1["env"])
        BY AskedIs
  <2> QED BY <1>15, <1>16, <1>17, <1>18, <2>1 DEF Shares, InGpus
<1> DEFINE left == Less(left1, "env", av)
<1>22. Moving(e1, node, "env", av) = Going(left, CursorAt(s + uv), SliceAt(Laid(t, ue, uv)))
  <2>1. s + uv <= g
    <3> HIDE DEF g, t
    <3> QED BY <1>9, <1>14, <1>20
  <2>2. Second(t, ue) + uv <= gpus[node]
        BY <2>1 DEF s
  <2>3. t \in Nat /\ ue \in Nat /\ uv \in Nat /\ uv = InGpus(av)
        BY <1>9, <1>12, <1>20, <1>21
  <2> HIDE DEF t
  <2>4. Moving(Going(left1, CursorAt(Second(t, ue)), SliceAt(Laid(t, ue, 0))), node, "env", av) =
            Going(Less(left1, "env", av), CursorAt(Second(t, ue) + uv), SliceAt(Laid(t, ue, uv)))
        BY <1>1, <1>8, <2>2, <2>3, EnvGoes
  <2> QED BY <1>15, <2>4 DEF s
<1>23. /\ left \in [GpuComponents -> Nat] /\ left["train"] = remaining["train"]
       /\ left["eval"] = re - ae /\ left["env"] = rv - av
  <2>1. left = [left1 EXCEPT !["env"] = left1["env"] - av]
        BY DEF Less
  <2>2. \A c \in GpuComponents : left1[c] \in Nat
        BY <1>5, <1>10, <1>12, <1>17 DEF GpuComponents
  <2>3. left1 \in [GpuComponents -> Nat]
    <3>1. left1 = [c \in GpuComponents |-> left1[c]]
          BY <1>5 DEF left1, Less
    <3> QED BY <2>2, <3>1
  <2> HIDE DEF left
  <2> QED BY <1>17, <1>20, <2>1, <2>3 DEF GpuComponents
<1> HIDE DEF left
<1>24. Carried(left, CursorAt(s + uv), SliceAt(Laid(t, ue, uv)), "rollout_pool") /\ phase' = phase /\ node' = node + 1
      BY <1>2, <1>21, <1>22, CarryOn
<1>25. NodeGoes(t, ue, uv, s + uv) /\ remaining' = left /\ UNCHANGED inputVars
  <2>1. "rollout_pool" \in PoolNames \ {"none"} /\ phase \in PlanPhases
        BY <1>2 DEF PoolNames, PlanPhases
  <2>2. /\ t <= gpus[node] /\ Base(t) + ue <= gpus[node] /\ Second(t, ue) + uv <= gpus[node]
        /\ s + uv <= gpus[node] /\ s + uv \in Nat
        BY <1>9, <1>12, <1>14, <1>19, <1>20 DEF s
  <2> HIDE DEF t
  <2> QED BY <1>7, <1>8, <1>9, <1>12, <1>20, <1>23, <1>24, <2>1, <2>2, CarriedGoes
<1>26. s + uv \in Nat
      BY <1>14, <1>20
<1>27. /\ Inputs' /\ Planned' /\ Packing' /\ Shapes'
       /\ \A n \in Nodes : n # node =>
              slice'[n] = slice[n] /\ cursor'[n] = cursor[n] /\ pool'[n] = pool[n]
       /\ slice'[node] = Laid(t, ue, uv) /\ cursor'[node] = s + uv
      BY <1>1, <1>9, <1>12, <1>20, <1>25, <1>26, NodeStep
<1>28. /\ gpus' = gpus /\ strategy' = strategy /\ mode' = mode /\ Nodes' = Nodes
      BY <1>1, <1>25, InputsStay
<1>29. \A c \in GpuComponents : Account(c)'
  <2>1. t = t /\ remaining'["train"] = remaining["train"]
        BY <1>23, <1>25
  <2>2. /\ Shares(remaining["eval"], g - t, ae, ue) /\ remaining'["eval"] = remaining["eval"] - ae
        /\ Shares(remaining["env"], g - s, av, uv) /\ remaining'["env"] = remaining["env"] - av
        BY <1>11, <1>18, <1>23, <1>25
  <2> DEFINE xe == g - t
             xv == g - s
  <2>3. xe \in Nat /\ xv \in Nat
        BY <1>10, <1>19
  <2>4. /\ Shares(remaining["eval"], xe, ae, ue) /\ Shares(remaining["env"], xv, av, uv)
        BY <2>2
  <2> HIDE DEF t, g, xe, xv
  <2> QED BY <1>1, <1>7, <1>8, <1>9, <1>12, <1>20, <1>25, <1>27, <2>1, <2>2, <2>3, <2>4, AccountsKept
<1>30. Planning'
  <2>1. RequestedParts' <= ClusterParts'
        BY <1>7, <1>25, SameRequest
  <2>2. mode' = "auto" /\ node' <= Len(gpus') + 1
        BY <1>4, <1>5, <1>7, <1>8, <1>24, <1>28
  <2> QED BY <1>29, <2>1, <2>2 DEF Planning
<1>31. ByPhase'
  <2>1. phase' = "rolloutPool" /\ strategy'.kind = "disaggregate" /\ remaining'["train"] = 0
        BY <1>2, <1>6, <1>23, <1>24, <1>25, <1>28
  <2>2. ASSUME NEW n \in Nodes
        PROVE  /\ n >= node' => TrainOnly(n)'
               /\ n < node' => \A c \in {"eval", "env"} : remaining'[c] = 0 \/ Covered(n, c)'
    <3>1. n \in Nat /\ node \in Nat
          BY <1>4, <1>5
    <3>2. CASE n = node
      <4>1. remaining'["eval"] = 0 \/ Covered(n, "eval")'
        <5>1. Base(t) + ue = gpus[n] => Covered(n, "eval")'
              BY <1>1, <1>9, <1>12, <1>20, <1>25, <1>27, <3>2, CoveredThen
        <5>2. ue = g - t => Base(t) + ue = gpus[n]
              BY <1>9, <1>12, <3>2
        <5> QED BY <1>12, <1>23, <1>25, <5>1, <5>2
      <4>2. remaining'["env"] = 0 \/ Covered(n, "env")'
        <5>1. Second(t, ue) + uv = gpus[n] => Covered(n, "env")'
              BY <1>1, <1>9, <1>12, <1>20, <1>25, <1>27, <3>2, CoveredThen
        <5>2. uv = g - s => Second(t, ue) + uv = gpus[n]
              BY <1>9, <1>14, <1>20, <3>2 DEF s
        <5> QED BY <1>20, <1>23, <1>25, <5>1, <5>2
      <4> QED BY <1>24, <3>1, <3>2, <4>1, <4>2
    <3>3. CASE n # node
      <4>1. slice'[n] = slice[n] /\ cursor'[n] = cursor[n] /\ pool'[n] = pool[n]
            BY <1>27, <3>3
      <4>2. TrainOnly(n)' <=> TrainOnly(n)
            BY <1>28, <4>1, TrainOnlySame
      <4>3. /\ Covered(n, "eval")' <=> Covered(n, "eval")
            /\ Covered(n, "env")' <=> Covered(n, "env")
            BY <1>28, <4>1, CoveredSame
      <4>4. remaining["eval"] = 0 => remaining'["eval"] = 0
            BY <1>12, <1>23, <1>25
      <4>5. remaining["env"] = 0 => remaining'["env"] = 0
            BY <1>20, <1>23, <1>25
      <4>6. /\ n >= node => TrainOnly(n)
            /\ n < node => (remaining["eval"] = 0 \/ Covered(n, "eval")) /\ (remaining["env"] = 0 \/ Covered(n, "env"))
            BY <1>6
      <4> QED BY <1>24, <3>1, <3>3, <4>2, <4>3, <4>4, <4>5, <4>6
    <3> QED BY <3>2, <3>3
  <2> QED BY <1>28, <2>1, <2>2 DEF ByPhase
<1>32. RaisesOnlyIfUneven'
      BY <1>2, <1>24 DEF RaisesOnlyIfUneven
<1> QED BY <1>27, <1>30, <1>31, <1>32 DEF PlacementInv
\* On one node there is room for eval and env, when the request has been validated.
LEMMA RoomOnOne ==
    ASSUME Chosen, strategy.kind = "colocate", RequestedParts <= ClusterParts, Len(gpus) = 1,
           NEW ae, NEW ue, NEW av, NEW uv,
           Shares(Required("eval"), gpus[1], ae, ue), Shares(Required("env"), gpus[1], av, uv),
           ~strategy.shared
    PROVE  ue + uv <= gpus[1]
<1> DEFINE g == gpus[1]
           re == Required("eval")
           rv == Required("env")
<1>1. /\ Parts \in Nat \ {0} /\ gpus \in Seq(Nat) /\ g \in Nat /\ re \in Nat /\ rv \in Nat /\ Required("train") \in Nat
  <2>1. 1 \in Nodes
        BY InputTypes
  <2> QED BY <2>1, InputTypes DEF GpuComponents
<1>2. Sum(gpus) = g
  <2>1. DOMAIN gpus = 1..1 /\ \A k \in 1..1 : gpus[k] = g
        BY <1>1
  <2>2. Sum(gpus) = 1 * g
        BY <1>1, <2>1, SumOfEqual
  <2> QED BY <1>1, <2>2
<1>3. re + rv <= Parts * g
  <2>1. RolloutParts = rv + re
        BY DEF RolloutParts
  <2>2. RequestedParts = Larger(Required("train"), RolloutParts)
        BY DEF RequestedParts
  <2>3. RolloutParts <= RequestedParts
        BY <1>1, <2>1, <2>2 DEF Larger
  <2>4. ClusterParts = Parts * g
        BY <1>2 DEF ClusterParts
  <2>5. Parts * g \in Nat /\ RequestedParts \in Nat
        BY <1>1, <2>1, <2>2, Product DEF Larger
  <2> HIDE DEF g, re, rv
  <2> QED BY <1>1, <2>1, <2>3, <2>4, <2>5
<1>4. /\ ae \in Nat /\ ae <= re /\ ue \in Nat /\ Parts * ue <= ae
      BY <1>1, ShareIs
<1>5. /\ av \in Nat /\ av <= rv /\ uv \in Nat /\ Parts * uv <= av
      BY <1>1, ShareIs
<1> HIDE DEF g, re, rv
<1>6. /\ Parts * ue = ue * Parts /\ Parts * uv = uv * Parts /\ (ue + uv) * Parts = ue * Parts + uv * Parts
      /\ ue * Parts \in Nat /\ uv * Parts \in Nat /\ Parts * g = g * Parts /\ g * Parts \in Nat
      BY <1>1, <1>4, <1>5, Distributes, Product
<1>7. (ue + uv) * Parts <= g * Parts
  <2> DEFINE x == ue * Parts
             y == uv * Parts
             z == g * Parts
  <2>1. x \in Nat /\ y \in Nat /\ z \in Nat /\ x <= ae /\ y <= av /\ re + rv <= z
        BY <1>3, <1>4, <1>5, <1>6
  <2>2. (ue + uv) * Parts = x + y
        BY <1>6
  <2> HIDE DEF x, y, z
  <2>3. x + y <= z
        BY <1>1, <1>4, <1>5, <2>1
  <2> QED BY <2>2, <2>3 DEF z
<1>8. ue + uv \in Nat
      BY <1>4, <1>5
<1>9. ue + uv <= g
      BY <1>1, <1>7, <1>8, Cancel
<1> QED BY <1>9 DEF g

LEMMA GlobalPoolStep ==
    ASSUME PlacementInv, GlobalPool
    PROVE  PlacementInv'
<1>1. /\ Inputs /\ Planned /\ Planning /\ ByPhase /\ Packing /\ Shapes
      BY DEF PlacementInv
<1> DEFINE plan == Going(remaining, cursor, slice)
           e0 == Standing(plan, node, "train", Asked(plan, node, "train"))
           e1 == Allocate(e0, node, "eval", Asked(plan, node, "eval"), ~strategy.shared)
<1>2. /\ phase = "globalPool" /\ ~AtEmptyNode /\ ~LoopEnds(GpuComponents)
      /\ Carry(Moving(e1, node, "env", Asked(plan, node, "env")), "global_pool")
  <2>1. Plan = plan
        BY DEF Plan, Going
  <2> QED BY <2>1 DEF GlobalPool, Moving, Standing
<1> HIDE DEF plan
<1>3. Chosen /\ Steady
      BY <1>1, GivenTogether
<1>4. /\ Parts \in Nat \ {0} /\ Nodes = 1..Len(gpus) /\ Len(gpus) \in Nat
      /\ \A n \in Nodes : n \in Nat \ {0} /\ gpus[n] \in Nat
      /\ strategy.shared \in BOOLEAN
      BY <1>3, InputTypes
<1>5. /\ node \in Nat \ {0} /\ remaining \in [GpuComponents -> Nat]
      /\ cursor \in [Nodes -> Nat] /\ slice \in [Nodes -> [GpuComponents -> SUBSET Nat]]
      /\ pool \in [Nodes -> PoolNames]
      BY <1>1 DEF Planned
<1>6. /\ strategy.kind = "colocate"
      /\ node = 1 => remaining = [c \in GpuComponents |-> Required(c)]
      /\ \A n \in Nodes :
            /\ n >= node => Untouched(n)
            /\ n < node => \A c \in GpuComponents : remaining[c] = 0 \/ Covered(n, c)
      BY <1>1, <1>2 DEF ByPhase
<1>7. /\ mode = "auto" /\ node <= Len(gpus) + 1 /\ RequestedParts <= ClusterParts
      /\ \A c \in GpuComponents : Account(c)
      BY <1>1, <1>2 DEF Planning, PlanPhases
<1>8. node \in Nodes /\ phase \in PlanPhases
  <2>1. node <= Len(gpus)
        BY <1>2, <1>4, <1>5 DEF LoopEnds
  <2> QED BY <1>2, <1>4, <1>5, <2>1 DEF PlanPhases
<1> DEFINE g == gpus[node]
           rt == remaining["train"]
           re == remaining["eval"]
           rv == remaining["env"]
<1>9. slice[node] = Laid(0, 0, 0) /\ cursor[node] = 0 /\ g \in Nat
      BY <1>4, <1>5, <1>6, <1>8 DEF Untouched
<1>10. rt \in Nat /\ re \in Nat /\ rv \in Nat /\ gpus[node] - cursor[node] = g
      BY <1>5, <1>9 DEF GpuComponents
<1>11. PICK at, ut : Shares(rt, g, at, ut)
      BY DEF Shares
<1>12. PICK ae, ue : Shares(re, g, ae, ue)
      BY DEF Shares
<1>13. PICK av, uv : Shares(rv, g, av, uv)
      BY DEF Shares
<1>14. /\ at \in Nat /\ at <= rt /\ rt - at \in Nat /\ ut \in Nat /\ ut <= g
       /\ rt - at = 0 \/ ut = g
      BY <1>9, <1>10, <1>11, ShareIs
<1>15. /\ ae \in Nat /\ ae <= re /\ re - ae \in Nat /\ ue \in Nat /\ ue <= g
       /\ re - ae = 0 \/ ue = g
      BY <1>9, <1>10, <1>12, ShareIs
<1>16. /\ av \in Nat /\ av <= rv /\ rv - av \in Nat /\ uv \in Nat /\ uv <= g
       /\ rv - av = 0 \/ uv = g
      BY <1>9, <1>10, <1>13, ShareIs
<1>17. /\ Asked(plan, node, "train") = at /\ Asked(plan, node, "eval") = ae /\ Asked(plan, node, "env") = av
       /\ ut = InGpus(at) /\ ue = InGpus(ae) /\ uv = InGpus(av)
  <2>1. \A c \in GpuComponents : Asked(Going(remaining, cursor, slice), node, c)
            = Smaller(Parts * (gpus[node] - cursor[node]), remaining[c])
        BY AskedIs
  <2> HIDE DEF g, rt, re, rv
  <2>2. \A c \in GpuComponents : Asked(plan, node, c) = Smaller(Parts * g, remaining[c])
        BY <1>10, <2>1 DEF plan
  <2> QED BY <1>11, <1>12, <1>13, <2>2 DEF Shares, InGpus, GpuComponents, rt, re, rv
<1>18. Base(ut) = 0
      BY <1>6 DEF Base
<1> DEFINE left0 == Less(remaining, "train", at)
           left1 == Less(left0, "eval", ae)
           left == Less(left1, "env", av)
           s == Second(ut, ue)
<1>19. s \in Nat /\ s <= g /\ (strategy.shared => s = 0) /\ (~strategy.shared => s = ue)
      BY <1>9, <1>15, <1>18 DEF Second
<1>20. e0 = Going(left0, cursor, SliceAt(Laid(ut, 0, 0)))
  <2>1. ~Lacks(at, node, cursor)
        BY <1>9, <1>14, <1>17 DEF Lacks
  <2>2. Standing(Going(remaining, cursor, slice), node, "train", at) =
            Going(Less(remaining, "train", at), cursor, Put(slice, node, "train", cursor[node], InGpus(at)))
        BY <2>1, AllocateStands
  <2>3. Put(slice, node, "train", cursor[node], ut) = SliceAt(Laid(ut, 0, 0))
    <3>1. [Laid(0, 0, 0) EXCEPT !["train"] = 0..(0 + ut - 1)] = Laid(ut, 0, 0)
          BY <1>3, <1>14, LaidPut
    <3>2. Put(slice, node, "train", cursor[node], ut) = [slice EXCEPT ![node] = [Laid(0, 0, 0) EXCEPT !["train"] = 0..(0 + ut - 1)]]
          BY <1>5, <1>8, <1>9 DEF Put
    <3> QED BY <3>1, <3>2 DEF SliceAt
  <2> QED BY <1>17, <2>2, <2>3 DEF plan
<1>21. e1 = Going(left1, CursorAt(s), SliceAt(Laid(ut, ue, 0)))
  <2>1. Base(ut) + ue <= gpus[node] /\ cursor[node] = Base(ut)
        BY <1>9, <1>15, <1>18
  <2> HIDE DEF left0
  <2>2. Allocate(Going(left0, cursor, SliceAt(Laid(ut, 0, 0))), node, "eval", ae, ~strategy.shared) =
            Going(Less(left0, "eval", ae), CursorAt(Second(ut, ue)), SliceAt(Laid(ut, ue, 0)))
        BY <1>1, <1>8, <1>14, <1>15, <1>17, <2>1, EvalGoes
  <2> QED BY <1>17, <1>20, <2>2
<1>22. /\ left0 \in [GpuComponents -> Nat] /\ left0["train"] = rt - at /\ left0["eval"] = re /\ left0["env"] = rv
      BY <1>5, <1>14 DEF Less, GpuComponents
<1>23. /\ left1 \in [GpuComponents -> Nat] /\ left1["train"] = rt - at /\ left1["eval"] = re - ae /\ left1["env"] = rv
  <2> HIDE DEF left0
  <2> QED BY <1>15, <1>22 DEF Less, GpuComponents
<1>24. /\ left \in [GpuComponents -> Nat] /\ left["train"] = rt - at /\ left["eval"] = re - ae /\ left["env"] = rv - av
  <2> HIDE DEF left0, left1
  <2> QED BY <1>16, <1>23 DEF Less, GpuComponents
<1>25. s + uv <= g => Moving(e1, node, "env", av) = Going(left, CursorAt(s + uv), SliceAt(Laid(ut, ue, uv)))
  <2> HIDE DEF left0, left1, e1
  <2> SUFFICES ASSUME s + uv <= g
               PROVE  Moving(e1, node, "env", av) = Going(left, CursorAt(s + uv), SliceAt(Laid(ut, ue, uv)))
      OBVIOUS
  <2>1. Second(ut, ue) + uv <= gpus[node]
        OBVIOUS
  <2>2. Moving(Going(left1, CursorAt(Second(ut, ue)), SliceAt(Laid(ut, ue, 0))), node, "env", av) =
            Going(Less(left1, "env", av), CursorAt(Second(ut, ue) + uv), SliceAt(Laid(ut, ue, uv)))
        BY <1>1, <1>8, <1>14, <1>15, <1>16, <1>17, <2>1, EnvGoes
  <2> QED BY <1>21, <2>2
<1>26. g < s + uv => Moving(e1, node, "env", av) = Halted(left1, CursorAt(s), SliceAt(Laid(ut, ue, 0)))
  <2> HIDE DEF left0, left1, e1
  <2> SUFFICES ASSUME g < s + uv
               PROVE  Moving(e1, node, "env", av) = Halted(left1, CursorAt(s), SliceAt(Laid(ut, ue, 0)))
      OBVIOUS
  <2>1. gpus[node] < Second(ut, ue) + uv
        OBVIOUS
  <2>2. Moving(Going(left1, CursorAt(Second(ut, ue)), SliceAt(Laid(ut, ue, 0))), node, "env", av) =
            Halted(left1, CursorAt(Second(ut, ue)), SliceAt(Laid(ut, ue, 0)))
        BY <1>1, <1>8, <1>14, <1>15, <1>16, <1>17, <2>1, EnvGoes
  <2> QED BY <1>21, <2>2
<1> HIDE DEF e0, e1, left0, left1, left
<1>27. /\ "global_pool" \in PoolNames \ {"none"} /\ ut <= gpus[node] /\ Base(ut) + ue <= gpus[node]
      BY <1>14, <1>15, <1>18 DEF PoolNames
<1>28. ASSUME g < s + uv PROVE PlacementInv'
  <2>1. Carried(left1, CursorAt(s), SliceAt(Laid(ut, ue, 0)), "global_pool") /\ phase' = "failed" /\ node' = 1
        BY <1>2, <1>17, <1>26, <1>28, CarryFails
  <2>2. NodeGoes(ut, ue, 0, s) /\ UNCHANGED inputVars
    <3>1. Second(ut, ue) + 0 <= gpus[node] /\ s <= gpus[node]
          BY <1>19
    <3> HIDE DEF s
    <3>2. s \in Nat
          BY <1>19
    <3> QED BY <1>7, <1>8, <1>14, <1>15, <1>23, <1>27, <2>1, <3>1, <3>2, CarriedGoes
  <2>3. Inputs' /\ Planned' /\ Packing' /\ Shapes'
        BY <1>1, <1>14, <1>15, <1>19, <2>2, NodeStep
  <2>4. Planning' /\ ByPhase'
        BY <2>1 DEF Planning, ByPhase, PlanPhases
  <2>5. StaleLimits
    <3>1. ~strategy.shared /\ g < ue + uv
          BY <1>4, <1>9, <1>16, <1>19, <1>28
    <3>2. ASSUME Len(gpus) = 1 PROVE FALSE
      <4>1. node = 1
            BY <1>4, <1>8, <3>2
      <4>2. re = Required("eval") /\ rv = Required("env")
            BY <1>6, <4>1 DEF GpuComponents
      <4>3. Shares(Required("eval"), gpus[1], ae, ue) /\ Shares(Required("env"), gpus[1], av, uv)
            BY <1>12, <1>13, <4>1, <4>2
      <4>4. ue + uv <= gpus[1]
            BY <1>3, <1>6, <1>7, <3>1, <3>2, <4>3, RoomOnOne
      <4> HIDE DEF re, rv, rt
      <4> QED BY <1>9, <1>15, <1>16, <3>1, <4>1, <4>4
    <3>3. Len(gpus) > 1
      <4> DEFINE l == Len(gpus)
      <4>1. l \in Nat /\ node \in 1..l /\ l # 1
            BY <1>4, <1>8, <3>2
      <4> HIDE DEF l
      <4>2. l > 1
            BY <4>1
      <4> QED BY <4>2 DEF l
    <3> QED BY <1>6, <3>1, <3>3 DEF StaleLimits
  <2>6. RaisesOnlyIfUneven'
    <3>1. mode' = "auto"
          BY <1>1, <1>7, <2>2, InputsStay
    <3>2. StaleLimits'
          BY <2>2, <2>5, SameRequest
    <3> QED BY <3>1, <3>2 DEF RaisesOnlyIfUneven
  <2> QED BY <2>3, <2>4, <2>6 DEF PlacementInv
<1>29. ASSUME s + uv <= g PROVE PlacementInv'
  <2>1. Carried(left, CursorAt(s + uv), SliceAt(Laid(ut, ue, uv)), "global_pool") /\ phase' = phase /\ node' = node + 1
        BY <1>2, <1>17, <1>25, <1>29, CarryOn
  <2>0. s + uv \in Nat
        BY <1>16, <1>19
  <2>2. NodeGoes(ut, ue, uv, s + uv) /\ remaining' = left /\ UNCHANGED inputVars
    <3>1. Second(ut, ue) + uv <= gpus[node] /\ s + uv <= gpus[node]
          BY <1>29
    <3> HIDE DEF s
    <3> QED BY <1>7, <1>8, <1>14, <1>15, <1>16, <1>24, <1>27, <2>0, <2>1, <3>1, CarriedGoes
  <2>3. /\ Inputs' /\ Planned' /\ Packing' /\ Shapes'
        /\ \A n \in Nodes : n # node =>
              slice'[n] = slice[n] /\ cursor'[n] = cursor[n] /\ pool'[n] = pool[n]
        /\ slice'[node] = Laid(ut, ue, uv)
        BY <1>1, <1>14, <1>15, <1>16, <2>0, <2>2, NodeStep
  <2>4. /\ gpus' = gpus /\ strategy' = strategy /\ mode' = mode /\ Nodes' = Nodes /\ request' = request
        BY <1>1, <2>2, InputsStay
  <2>5. /\ remaining'["train"] = rt - at /\ remaining'["eval"] = re - ae /\ remaining'["env"] = rv - av
        BY <1>24, <2>2
  <2>6. \A c \in GpuComponents : Account(c)'
    <3>1. /\ Shares(remaining["train"], g, at, ut) /\ remaining'["train"] = remaining["train"] - at
          /\ Shares(remaining["eval"], g, ae, ue) /\ remaining'["eval"] = remaining["eval"] - ae
          /\ Shares(remaining["env"], g, av, uv) /\ remaining'["env"] = remaining["env"] - av
          BY <1>11, <1>12, <1>13, <2>5
    <3> DEFINE q == 0
    <3>2. /\ q \in Nat /\ q = 0 /\ slice[node] = Laid(q, 0, 0)
          /\ Inputs /\ Planned /\ UNCHANGED inputVars /\ \A c \in GpuComponents : Account(c)
          /\ node \in Nodes /\ g \in Nat /\ ut \in Nat /\ ue \in Nat /\ uv \in Nat
          /\ \A n \in Nodes : n # node => slice'[n] = slice[n]
          /\ slice'[node] = Laid(ut, ue, uv)
          BY <1>1, <1>7, <1>8, <1>9, <1>14, <1>15, <1>16, <2>2, <2>3
    <3> HIDE DEF g, q
    <3> QED BY ONLY <3>1, <3>2, AccountsKept
  <2>7. Planning'
    <3>1. RequestedParts' <= ClusterParts'
          BY <1>7, <2>2, SameRequest
    <3>2. mode' = "auto" /\ node' <= Len(gpus') + 1
          BY <1>4, <1>5, <1>7, <1>8, <2>1, <2>4
    <3> QED BY <2>6, <3>1, <3>2 DEF Planning
  <2>8. ByPhase'
    <3>1. phase' = "globalPool" /\ strategy'.kind = "colocate" /\ node' # 1
          BY <1>2, <1>5, <1>6, <2>1, <2>4
    <3>2. ASSUME NEW n \in Nodes
          PROVE  /\ n >= node' => Untouched(n)'
                 /\ n < node' => \A c \in GpuComponents : remaining'[c] = 0 \/ Covered(n, c)'
      <4>1. n \in Nat /\ node \in Nat
            BY <1>4, <1>5
      <4>2. CASE n = node
        <5>1. /\ ut = gpus[n] => Covered(n, "train")'
              /\ Base(ut) + ue = gpus[n] => Covered(n, "eval")'
              /\ Second(ut, ue) + uv = gpus[n] => Covered(n, "env")'
              BY <1>1, <1>14, <1>15, <1>16, <2>2, <2>3, <4>2, CoveredThen
        <5>2. remaining'["train"] = 0 \/ Covered(n, "train")'
              BY <1>14, <2>5, <4>2, <5>1
        <5>3. remaining'["eval"] = 0 \/ Covered(n, "eval")'
              BY <1>15, <1>18, <2>5, <4>2, <5>1
        <5>4. remaining'["env"] = 0 \/ Covered(n, "env")'
          <6>1. uv = g => Second(ut, ue) + uv = gpus[n]
                BY <1>9, <1>16, <1>19, <1>29, <4>2
          <6> QED BY <1>16, <2>5, <5>1, <6>1
        <5> QED BY <2>1, <4>1, <4>2, <5>2, <5>3, <5>4 DEF GpuComponents
      <4>3. CASE n # node
        <5>1. slice'[n] = slice[n] /\ cursor'[n] = cursor[n] /\ pool'[n] = pool[n]
              BY <2>3, <4>3
        <5>2. Untouched(n)' <=> Untouched(n)
              BY <2>4, <5>1, UntouchedSame
        <5>3. /\ Covered(n, "train")' <=> Covered(n, "train")
              /\ Covered(n, "eval")' <=> Covered(n, "eval")
              /\ Covered(n, "env")' <=> Covered(n, "env")
              BY <2>4, <5>1, CoveredSame
        <5>4. /\ remaining["train"] = 0 => remaining'["train"] = 0
              /\ remaining["eval"] = 0 => remaining'["eval"] = 0
              /\ remaining["env"] = 0 => remaining'["env"] = 0
              BY <1>10, <1>14, <1>15, <1>16, <2>5
        <5>5. /\ n >= node => Untouched(n)
              /\ n < node => /\ remaining["train"] = 0 \/ Covered(n, "train")
                             /\ remaining["eval"] = 0 \/ Covered(n, "eval")
                             /\ remaining["env"] = 0 \/ Covered(n, "env")
              BY <1>6 DEF GpuComponents
        <5> QED BY <2>1, <4>1, <4>3, <5>2, <5>3, <5>4, <5>5 DEF GpuComponents
      <4> QED BY <4>2, <4>3
    <3> QED BY <2>4, <3>1, <3>2 DEF ByPhase
  <2>9. RaisesOnlyIfUneven'
        BY <1>2, <2>1 DEF RaisesOnlyIfUneven
  <2> QED BY <2>3, <2>7, <2>8, <2>9 DEF PlacementInv
<1>30. g < s + uv \/ s + uv <= g
      BY <1>9, <1>16, <1>19
<1> QED BY <1>28, <1>29, <1>30
-----------------------------------------------------------------------------
(***************************************************************************)
(* From one phase of planning to the next.                                 *)
(***************************************************************************)
LEMMA SameOrder ==
    ASSUME UNCHANGED <<inputVars, slice, pool>>
    PROVE  /\ PackingOrder' = PackingOrder /\ Rounds' = Rounds
           /\ \A c \in GpuComponents : Fits(c)' = Fits(c) /\ (Tracked(c)' <=> Tracked(c))
           /\ \A c \in GpuComponents, k \in Nat : Given(c, k)' = Given(c, k) /\ PlacedBy(c, k)' = PlacedBy(c, k)
           /\ \A j \in Nat : Serves(j)' <=> Serves(j)
           /\ \A c \in GpuComponents, n, i \in Nat : UnitOf(n, c, i)' = UnitOf(n, c, i)
<1>1. gpus' = gpus /\ order' = order /\ pool' = pool /\ request' = request /\ slice' = slice
      BY DEF inputVars, runVars
<1>2. /\ PoolNodes("train_pool")' = PoolNodes("train_pool")
      /\ PoolNodes("rollout_pool")' = PoolNodes("rollout_pool")
      /\ PoolNodes("global_pool")' = PoolNodes("global_pool")
      BY <1>1 DEF PoolNodes, Nodes
<1>3. PackingOrder' = PackingOrder
      BY <1>2 DEF PackingOrder
<1>4. Rounds' = Rounds
      BY <1>3 DEF Rounds
<1>5. \A c \in GpuComponents : Fits(c)' = Fits(c)
      BY <1>1 DEF Fits
<1>6. \A c \in GpuComponents : Tracked(c)' <=> Tracked(c)
      BY <1>1 DEF Tracked, Nodes
<1>7. ASSUME NEW c \in GpuComponents, NEW k \in Nat
      PROVE  Given(c, k)' = Given(c, k) /\ PlacedBy(c, k)' = PlacedBy(c, k)
  <2>1. [j \in 1..k |-> slice[PackingOrder[j]][c]]' = [j \in 1..k |-> slice[PackingOrder[j]][c]]
        BY <1>1, <1>3
  <2>2. GivenUnits(c, k)' = GivenUnits(c, k)
        BY <2>1 DEF GivenUnits, Fan
  <2>3. Given(c, k)' = Given(c, k)
        BY <2>2 DEF Given
  <2> QED BY <1>1, <1>5, <2>3 DEF PlacedBy
<1>8. \A j \in Nat : Serves(j)' <=> Serves(j)
      BY <1>1, <1>3 DEF Serves
<1>9. \A c \in GpuComponents, n, i \in Nat : UnitOf(n, c, i)' = UnitOf(n, c, i)
      BY <1>1, <1>5 DEF UnitOf
<1> QED BY <1>3, <1>4, <1>5, <1>6, <1>7, <1>8, <1>9

\* A step that leaves the plan alone keeps what was said of the plan.
LEMMA PlanStays ==
    ASSUME Inputs, Planned, UNCHANGED <<inputVars, planVars>>, node' \in Nat \ {0}
    PROVE  /\ Inputs' /\ Planned'
           /\ gpus' = gpus /\ request' = request /\ strategy' = strategy /\ mode' = mode /\ Nodes' = Nodes
           /\ remaining' = remaining
           /\ \A n \in Nodes : (TrainOnly(n)' <=> TrainOnly(n)) /\ (Untouched(n)' <=> Untouched(n))
           /\ \A n \in Nodes, c \in GpuComponents : Covered(n, c)' <=> Covered(n, c)
           /\ \A c \in GpuComponents : Account(c) => Account(c)'
<1>1. /\ Inputs' /\ gpus' = gpus /\ request' = request /\ strategy' = strategy
      /\ mode' = mode /\ Nodes' = Nodes
      BY InputsStay
<1>2. remaining' = remaining /\ cursor' = cursor /\ slice' = slice /\ pool' = pool
      BY DEF planVars
<1>3. \A n \in Nodes : (TrainOnly(n)' <=> TrainOnly(n)) /\ (Untouched(n)' <=> Untouched(n))
      BY <1>1, <1>2, TrainOnlySame, UntouchedSame
<1>4. \A n \in Nodes, c \in GpuComponents : Covered(n, c)' <=> Covered(n, c)
      BY <1>1, <1>2, CoveredSame
<1>5. ASSUME NEW c \in GpuComponents, Account(c) PROVE Account(c)'
  <2>1. Units(c)' = Units(c)
        BY <1>1, <1>2, UnitsSame
  <2> QED BY <1>1, <1>2, <1>5, <2>1, AccountStays
<1>6. ASSUME NEW n \in Nodes
      PROVE  InLine(n)' /\ (pool'[n] = "none" => slice'[n] = Laid(0, 0, 0)')
  <2>1. InLine(n) /\ (pool[n] = "none" => slice[n] = Laid(0, 0, 0))
        BY DEF Planned
  <2>2. PICK t \in Nat, e \in Nat, v \in Nat :
            /\ slice[n] = Laid(t, e, v)
            /\ t <= gpus[n] /\ Base(t) + e <= gpus[n] /\ Second(t, e) + v <= gpus[n]
        BY <2>1 DEF InLine
  <2>3. /\ slice'[n] = Laid(t, e, v)'
        /\ t <= gpus'[n] /\ Base(t)' + e <= gpus'[n] /\ Second(t, e)' + v <= gpus'[n]
        BY <1>1, <1>2, <2>2, LaidSame
  <2>4. InLine(n)'
        BY <2>3 DEF InLine
  <2>5. Laid(0, 0, 0)' = Laid(0, 0, 0)
        BY <1>1, LaidSame
  <2> QED BY <1>2, <2>1, <2>4, <2>5
<1>7. Planned'
      BY <1>1, <1>2, <1>6 DEF Planned
<1> QED BY <1>1, <1>2, <1>3, <1>4, <1>5, <1>7

LEMMA PlanKept ==
    ASSUME Inputs, Planned, UNCHANGED <<inputVars, planVars, packVars>>, node' \in Nat \ {0}
    PROVE  /\ Inputs' /\ Planned'
           /\ gpus' = gpus /\ request' = request /\ strategy' = strategy /\ mode' = mode /\ Nodes' = Nodes
           /\ remaining' = remaining
           /\ \A n \in Nodes : (TrainOnly(n)' <=> TrainOnly(n)) /\ (Untouched(n)' <=> Untouched(n))
           /\ \A n \in Nodes, c \in GpuComponents : Covered(n, c)' <=> Covered(n, c)
           /\ \A c \in GpuComponents : Account(c) => Account(c)'
BY PlanStays

\* A loop that ends has given its components all they asked for.
LEMMA NothingAsked ==
    ASSUME Inputs, Planned, NEW C \in SUBSET GpuComponents, LoopEnds(C),
           \A n \in Nodes : n < node => \A c \in C : remaining[c] = 0 \/ Covered(n, c),
           \A c \in GpuComponents : Account(c), RequestedParts <= ClusterParts
    PROVE  \A c \in C : remaining[c] = 0
<1>1. Chosen /\ remaining \in [GpuComponents -> Nat] /\ node \in Nat /\ \A n \in Nodes : InLine(n)
      BY GivenTogether DEF Planned
<1>2. Nodes = 1..Len(gpus) /\ Len(gpus) \in Nat
      BY <1>1, InputTypes
<1> SUFFICES ASSUME NEW c \in C PROVE remaining[c] = 0
    OBVIOUS
<1>3. remaining[c] \in Nat /\ c \in GpuComponents
      BY <1>1
<1>4. CASE ~Asking(C)
  <2>1. ~(remaining[c] > 0)
        BY <1>4 DEF Asking
  <2> QED BY <1>3, <2>1
<1>5. CASE node > Len(gpus)
  <2>1. \A n \in Nodes : remaining[c] = 0 \/ Covered(n, c)
        BY <1>1, <1>2, <1>5
  <2>2. ASSUME \A n \in Nodes : Covered(n, c) PROVE remaining[c] = 0
        BY <1>1, <1>3, <2>2, Exhausted
  <2> QED BY <2>1, <2>2
<1> QED BY <1>4, <1>5 DEF LoopEnds

LEMMA SkipNodeStep ==
    ASSUME PlacementInv, SkipNode
    PROVE  PlacementInv'
<1>1. /\ Inputs /\ Planned /\ Planning /\ ByPhase /\ Packing /\ Shapes
      BY DEF PlacementInv
<1>2. /\ phase \in {"trainPool", "rolloutPool", "globalPool"}
      /\ node <= Len(gpus) /\ gpus[node] = cursor[node] /\ phase' = phase /\ node' = node + 1
      /\ UNCHANGED <<inputVars, planVars, packVars>>
      BY DEF SkipNode, AtEmptyNode, Goto
<1>3. Chosen /\ node \in Nat \ {0}
      BY <1>1, GivenTogether DEF Planned
<1>4. /\ Nodes = 1..Len(gpus) /\ Len(gpus) \in Nat /\ \A n \in Nodes : n \in Nat \ {0} /\ gpus[n] \in Nat
      BY <1>3, InputTypes
<1>5. node' \in Nat \ {0} /\ node \in Nodes /\ phase \in PlanPhases
      BY <1>2, <1>3, <1>4 DEF PlanPhases
<1>6. /\ Inputs' /\ Planned'
      /\ gpus' = gpus /\ request' = request /\ strategy' = strategy /\ mode' = mode /\ Nodes' = Nodes
      /\ remaining' = remaining
      /\ \A n \in Nodes : (TrainOnly(n)' <=> TrainOnly(n)) /\ (Untouched(n)' <=> Untouched(n))
      /\ \A n \in Nodes, c \in GpuComponents : Covered(n, c)' <=> Covered(n, c)
      /\ \A c \in GpuComponents : Account(c) => Account(c)'
      BY <1>1, <1>2, <1>5, PlanKept
<1>7. mode = "auto" /\ RequestedParts <= ClusterParts /\ \A c \in GpuComponents : Account(c)
      BY <1>1, <1>2 DEF Planning, PlanPhases
<1>8. Packing'
  <2>1. phase' \in PlanPhases \cup {"failed", "rejected"} /\ UNCHANGED packVars
        BY <1>2, <1>5
  <2> QED BY <1>1, <1>3, <1>5, <1>6, <1>7, <2>1, StillUnpacked
<1>9. Shapes'
      BY <1>1, <1>2, <1>6 DEF Shapes, packVars
<1>10. Planning'
  <2>1. RequestedParts' <= ClusterParts'
        BY <1>2, <1>7, SameRequest
  <2>2. node' <= Len(gpus') + 1
        BY <1>2, <1>3, <1>4, <1>6
  <2> QED BY <1>6, <1>7, <2>1, <2>2 DEF Planning
<1>11. RaisesOnlyIfUneven'
      BY <1>2 DEF RaisesOnlyIfUneven
<1>12. \A n \in Nodes : (n < node' <=> n < node \/ n = node) /\ (n >= node' => n >= node)
      BY <1>2, <1>3, <1>4
<1>13. ByPhase'
  <2>1. CASE phase = "trainPool"
    <3>1. /\ strategy.kind = "disaggregate"
          /\ \A n \in Nodes :
              /\ TrainOnly(n)
              /\ n >= node => Untouched(n)
              /\ n < node => remaining["train"] = 0 \/ Covered(n, "train")
          BY <1>1, <2>1 DEF ByPhase
    <3>2. gpus[node] = 0
          BY <1>2, <1>3, <1>5, <3>1 DEF Untouched
    <3>3. Covered(node, "train")
          BY <3>2 DEF Covered
    <3>4. \A n \in Nodes :
              /\ TrainOnly(n)'
              /\ n >= node' => Untouched(n)'
              /\ n < node' => remaining'["train"] = 0 \/ Covered(n, "train")'
          BY <1>6, <1>12, <3>1, <3>3 DEF GpuComponents
    <3> QED BY <1>2, <1>6, <2>1, <3>1, <3>4 DEF ByPhase
  <2>2. CASE phase = "rolloutPool"
    <3>1. /\ strategy.kind = "disaggregate" /\ remaining["train"] = 0
          /\ \A n \in Nodes :
              /\ n >= node => TrainOnly(n)
              /\ n < node => \A c \in {"eval", "env"} : remaining[c] = 0 \/ Covered(n, c)
          BY <1>1, <2>2 DEF ByPhase
    <3>2. slice[node] = Laid(gpus[node], 0, 0) /\ gpus[node] \in Nat
          BY <1>2, <1>3, <1>4, <1>5, <3>1 DEF TrainOnly
    <3>3. \A c \in {"eval", "env"} : Covered(node, c)
      <4>1. slice[node]["train"] = 0..(gpus[node] - 1)
            BY <3>2 DEF Laid, GpuComponents
      <4>2. \A c : "train" \in Cover(c)
            BY <3>1 DEF Cover, GpuComponents
      <4> QED BY <4>1, <4>2 DEF Covered
    <3>4. \A n \in Nodes :
              /\ n >= node' => TrainOnly(n)'
              /\ n < node' => \A c \in {"eval", "env"} : remaining'[c] = 0 \/ Covered(n, c)'
          BY <1>6, <1>12, <3>1, <3>3 DEF GpuComponents
    <3> QED BY <1>2, <1>6, <2>2, <3>1, <3>4 DEF ByPhase
  <2>3. CASE phase = "globalPool"
    <3>1. /\ strategy.kind = "colocate"
          /\ \A n \in Nodes :
              /\ n >= node => Untouched(n)
              /\ n < node => \A c \in GpuComponents : remaining[c] = 0 \/ Covered(n, c)
          BY <1>1, <2>3 DEF ByPhase
    <3>2. gpus[node] = 0
          BY <1>2, <1>3, <1>5, <3>1 DEF Untouched
    <3>3. \A c \in GpuComponents : Covered(node, c)
          BY <3>2 DEF Covered
    <3>4. \A n \in Nodes :
              /\ n >= node' => Untouched(n)'
              /\ n < node' => \A c \in GpuComponents : remaining'[c] = 0 \/ Covered(n, c)'
          BY <1>6, <1>12, <3>1, <3>3
    <3>5. node' # 1
          BY <1>2, <1>3
    <3> QED BY <1>2, <1>6, <2>3, <3>1, <3>4, <3>5 DEF ByPhase
  <2> QED BY <1>2, <2>1, <2>2, <2>3
<1> QED BY <1>6, <1>8, <1>9, <1>10, <1>11, <1>13 DEF PlacementInv
\* The workers on the GPUs that a component was given, when it needs parts of a GPU.
LEMMA WorkersOnUnits ==
    ASSUME Chosen, NEW c \in GpuComponents, Account(c), Cardinality(Units(c)) \in Nat,
           remaining[c] \in Nat, c = "train" => request.storageGpus = 0
    PROVE  LET u == Cardinality(Units(c))
           IN  /\ u * Fits(c) <= request.workers[c]
               /\ request.need[c] = 0 => u = 0
               /\ Whole(c) /\ remaining[c] = 0 /\ u > 0 => u * Fits(c) = request.workers[c]
<1> DEFINE u == Cardinality(Units(c))
           f == Fits(c)
           w == request.workers[c]
           m == request.need[c]
           R == Required(c)
           x == remaining[c]
<1>1. Parts \in Nat \ {0} /\ f \in Nat /\ w \in Nat /\ m \in Nat /\ u \in Nat /\ x \in Nat
      BY InputTypes
<1>2. R = w * m
  <2>1. request.storageGpus * Parts = 0 \/ c # "train"
        BY <1>1
  <2>2. w * m \in Nat
    <3> HIDE DEF w, m
    <3> QED BY <1>1, Product
  <2> HIDE DEF w, m
  <2>3. Required(c) = w * m + IF c = "train" THEN request.storageGpus * Parts ELSE 0
        BY DEF Required, w, m
  <2> QED BY <2>1, <2>2, <2>3
<1>3. Parts * u + x <= R /\ (R % Parts = 0 => Parts * u + x = R)
      BY DEF Account
<1>4. m # 0 => f * m <= Parts /\ (Parts % m = 0 => f * m = Parts)
      BY FitsWell
<1>5. Whole(c) <=> R % Parts = 0 /\ (m > 0 => Parts % m = 0)
      BY DEF Whole
<1> HIDE DEF u, f, w, m, R, x
<1>6. Parts * u \in Nat /\ u * Parts = Parts * u /\ w * m \in Nat
      BY <1>1, Product, Distributes
<1>7. CASE m = 0
  <2>1. w * m = 0
        BY <1>1, <1>7
  <2>2. Parts * u = 0
        BY <1>1, <1>2, <1>3, <1>6, <2>1
  <2>3. u = 0
    <3>1. u * Parts = 0 * Parts
          BY <1>1, <1>6, <2>2
    <3> QED BY <1>1, <3>1, Cancel
  <2>4. u * f = 0
        BY <1>1, <2>3
  <2> QED BY <1>1, <1>7, <2>3, <2>4 DEF u, f, w, m, x
<1>8. CASE m # 0
  <2>0. m \in Nat \ {0}
        BY <1>1, <1>8
  <2>1. u * f \in Nat /\ (u * f) * m = u * (f * m) /\ f * m \in Nat /\ u * (f * m) \in Nat /\ u * (f * m) = (f * m) * u
        BY <1>1, Product, Distributes
  <2>2. (f * m) * u <= Parts * u
        BY <1>1, <1>4, <1>8, <2>1, Monotone
  <2>3. (u * f) * m <= w * m
        BY <1>1, <1>2, <1>3, <1>6, <2>1, <2>2
  <2>4. u * f <= w
        BY <1>1, <2>0, <2>1, <2>3, Cancel
  <2>5. ASSUME Whole(c), x = 0 PROVE u * f = w
    <3>1. Parts * u = w * m /\ f * m = Parts
          BY <1>1, <1>2, <1>3, <1>4, <1>5, <1>6, <1>8, <2>5
    <3>2. (u * f) * m = w * m
          BY <2>1, <3>1
    <3> QED BY <1>1, <2>0, <2>1, <3>2, Cancel
  <2> QED BY <1>8, <2>4, <2>5 DEF u, f, w, m, x
<1> QED BY <1>7, <1>8

\* When nothing remains to be given, every component has the units it requires.
LEMMA UsedAre ==
    ASSUME Inputs, Planned, \A c \in GpuComponents : Account(c)
    PROVE  /\ Used
           /\ (\A c \in GpuComponents : remaining[c] = 0) => UsedEvenly
<1>1. Chosen /\ Steady /\ remaining \in [GpuComponents -> Nat] /\ \A n \in Nodes : InLine(n)
      BY GivenTogether DEF Planned
<1>2. ASSUME request.storageGpus = 0, NEW c \in GpuComponents
      PROVE  /\ Given(c, Rounds) * Fits(c) <= request.workers[c]
             /\ request.need[c] = 0 => Given(c, Rounds) = 0
             /\ Whole(c) /\ remaining[c] = 0 /\ Given(c, Rounds) > 0 => Given(c, Rounds) * Fits(c) = request.workers[c]
  <2>1. Given(c, Rounds) = Cardinality(Units(c))
        BY <1>1, GivenAll
  <2>2. Cardinality(Units(c)) \in Nat /\ remaining[c] \in Nat
        BY <1>1, UnitsFinite
  <2>3. LET u == Cardinality(Units(c))
        IN  /\ u * Fits(c) <= request.workers[c]
            /\ request.need[c] = 0 => u = 0
            /\ Whole(c) /\ remaining[c] = 0 /\ u > 0 => u * Fits(c) = request.workers[c]
        BY <1>1, <1>2, <2>2, WorkersOnUnits
  <2> QED BY <2>1, <2>3
<1> QED BY <1>2 DEF Used, UsedEvenly

LEMMA UsedSame ==
    ASSUME UNCHANGED <<inputVars, slice, pool>>, Rounds \in Nat
    PROVE  (Used' <=> Used) /\ (UsedEvenly' <=> UsedEvenly)
<1>1. /\ Rounds' = Rounds /\ request' = request
      /\ \A c \in GpuComponents : Fits(c)' = Fits(c) /\ Given(c, Rounds)' = Given(c, Rounds)
  <2>1. Rounds' = Rounds /\ request' = request
        BY SameOrder DEF inputVars
  <2>2. \A c \in GpuComponents : Fits(c)' = Fits(c)
        BY SameOrder
  <2>3. ASSUME NEW c \in GpuComponents PROVE Given(c, Rounds)' = Given(c, Rounds)
    <3>1. PackingOrder' = PackingOrder /\ slice' = slice
          BY SameOrder
    <3>2. GivenUnits(c, Rounds)' = GivenUnits(c, Rounds)
          BY <2>1, <3>1 DEF GivenUnits, Fan
    <3> QED BY <3>2 DEF Given
  <2> QED BY <2>1, <2>2, <2>3
<1>2. (StaleLimits' <=> StaleLimits) /\ \A c \in GpuComponents : Whole(c)' <=> Whole(c)
      BY SameRequest
<1>3. Used' <=> Used
      BY <1>1 DEF Used
<1>4. UsedEvenly' <=> UsedEvenly
      BY <1>1, <1>2 DEF UsedEvenly
<1> QED BY <1>3, <1>4

\* Packing starts with nothing packed.
LEMMA PackingStarts ==
    ASSUME Inputs, Planned, Packing, mode = "auto", phase \in PlanPhases, \A c \in GpuComponents : Account(c),
           \A c \in GpuComponents : remaining[c] = 0,
           UNCHANGED <<inputVars, planVars, packVars>>, phase' = "pack", node' = 1
    PROVE  Packing'
<1>1. Chosen /\ Steady
      BY GivenTogether
<1>2. Inputs' /\ Planned' /\ mode' = mode
  <2>1. node' \in Nat \ {0}
        OBVIOUS
  <2> QED BY <2>1, PlanKept
<1>3. Chosen' /\ Steady'
      BY <1>2, GivenTogether, PTL
<1>4. Located(0) /\ storage = <<>>
      BY UnpackedIs
<1>5. \A c \in GpuComponents : PlacedBy(c, 0)' = 0
  <2>1. (Chosen => \A c \in GpuComponents : PlacedBy(c, 0) = 0)'
        BY PlacedNone, PTL
  <2> QED BY <1>3, <2>1
<1>6. Rounds \in Nat /\ Rounds' \in Nat
  <2>1. (Steady => Rounds \in Nat)'
        BY RoundsAre, PTL
  <2> QED BY <1>1, <1>3, <2>1, RoundsAre
<1>7. \A c \in GpuComponents : placed[c] = 0 /\ Len(location[c]) = placed[c]
      BY <1>1, <1>4, PlacedNone DEF Located
<1>8. Located(0)'
      BY <1>5, <1>7 DEF Located, packVars
<1>9. Stored(0)'
      BY <1>4 DEF Stored, packVars
<1>10. Bundled(0)' /\ Filled(0)'
      BY DEF Bundled, Filled
<1>11. Used' /\ UsedEvenly'
  <2>1. UNCHANGED <<inputVars, slice, pool>>
        BY DEF planVars
  <2> QED BY <1>6, <2>1, UsedAre, UsedSame
<1>12. 0 \in 0..Rounds' /\ mode' = "auto" /\ node' = 0 + 1
      BY <1>2, <1>6
<1> QED BY <1>8, <1>9, <1>10, <1>11, <1>12 DEF Packing, PlanPhases

LEMMA NextPhaseStep ==
    ASSUME PlacementInv,
           \/ NextPhase("trainPool", {"train"}, "rolloutPool")
           \/ NextPhase("rolloutPool", {"eval", "env"}, "pack")
           \/ NextPhase("globalPool", GpuComponents, "pack")
    PROVE  PlacementInv'
<1>1. /\ Inputs /\ Planned /\ Planning /\ ByPhase /\ Packing /\ Shapes
      BY DEF PlacementInv
<1>2. UNCHANGED <<inputVars, planVars, packVars>> /\ node' = 1 /\ phase \in PlanPhases /\ phase' \in {"rolloutPool", "pack"}
      BY DEF NextPhase, Goto, PlanPhases
<1>3. Chosen
      BY <1>1, GivenTogether
<1>4. /\ Nodes = 1..Len(gpus) /\ Len(gpus) \in Nat /\ \A n \in Nodes : n \in Nat \ {0} /\ gpus[n] \in Nat
      BY <1>3, InputTypes
<1>5. node' \in Nat \ {0}
      BY <1>2
<1>6. /\ Inputs' /\ Planned'
      /\ gpus' = gpus /\ request' = request /\ strategy' = strategy /\ mode' = mode /\ Nodes' = Nodes
      /\ remaining' = remaining
      /\ \A n \in Nodes : (TrainOnly(n)' <=> TrainOnly(n)) /\ (Untouched(n)' <=> Untouched(n))
      /\ \A c \in GpuComponents : Account(c) => Account(c)'
      BY <1>1, <1>2, <1>5, PlanKept
<1>7. mode = "auto" /\ RequestedParts <= ClusterParts /\ \A c \in GpuComponents : Account(c)
  <2>1. phase # "validate"
        BY DEF NextPhase
  <2> QED BY <1>1, <1>2, <2>1 DEF Planning
<1>8. Shapes'
  <2>1. phase' \notin {"done", "failed", "rejected"} /\ phase' \in PlanPhases \cup {"pack", "done", "rejected", "failed"}
        BY <1>2 DEF PlanPhases
  <2> QED BY <1>1, <1>2, <1>6, <2>1 DEF Shapes, packVars
<1>9. RaisesOnlyIfUneven'
      BY <1>2 DEF RaisesOnlyIfUneven
<1>10. Planning'
  <2>1. RequestedParts' <= ClusterParts'
        BY <1>2, <1>7, SameRequest
  <2>2. node' <= Len(gpus') + 1
        BY <1>2, <1>4, <1>6
  <2> QED BY <1>6, <1>7, <2>1, <2>2 DEF Planning
<1>11. CASE NextPhase("trainPool", {"train"}, "rolloutPool")
  <2>1. phase = "trainPool" /\ LoopEnds({"train"}) /\ phase' = "rolloutPool"
        BY <1>11 DEF NextPhase, Goto
  <2>2. /\ strategy.kind = "disaggregate"
        /\ \A n \in Nodes : TrainOnly(n) /\ (n < node => remaining["train"] = 0 \/ Covered(n, "train"))
        BY <1>1, <2>1 DEF ByPhase
  <2>3. remaining["train"] = 0
    <3>1. {"train"} \in SUBSET GpuComponents
          BY DEF GpuComponents
    <3>2. \A n \in Nodes : n < node => \A c \in {"train"} : remaining[c] = 0 \/ Covered(n, c)
          BY <2>2
    <3> QED BY <1>1, <1>7, <2>1, <3>1, <3>2, NothingAsked
  <2>4. \A n \in Nodes : ~(n < node')
        BY <1>2, <1>4
  <2>5. ByPhase'
        BY <1>6, <2>1, <2>2, <2>3, <2>4 DEF ByPhase
  <2>6. Packing'
    <3>1. phase' \in PlanPhases \cup {"failed", "rejected"} /\ UNCHANGED packVars
          BY <1>2, <2>1 DEF PlanPhases
    <3> QED BY <1>1, <1>2, <1>3, <1>6, <1>7, <3>1, StillUnpacked
  <2> QED BY <1>6, <1>8, <1>9, <1>10, <2>5, <2>6 DEF PlacementInv
<1>12. CASE NextPhase("rolloutPool", {"eval", "env"}, "pack")
  <2>1. phase = "rolloutPool" /\ LoopEnds({"eval", "env"}) /\ phase' = "pack"
        BY <1>12 DEF NextPhase, Goto
  <2>2. /\ remaining["train"] = 0
        /\ \A n \in Nodes : n < node => \A c \in {"eval", "env"} : remaining[c] = 0 \/ Covered(n, c)
        BY <1>1, <2>1 DEF ByPhase
  <2>3. \A c \in {"eval", "env"} : remaining[c] = 0
    <3>1. {"eval", "env"} \in SUBSET GpuComponents
          BY DEF GpuComponents
    <3> QED BY <1>1, <1>7, <2>1, <2>2, <3>1, NothingAsked
  <2>4. \A c \in GpuComponents : remaining[c] = 0
        BY <2>2, <2>3 DEF GpuComponents
  <2>5. Packing'
        BY <1>1, <1>2, <1>7, <2>1, <2>4, PackingStarts
  <2>6. ByPhase'
        BY <2>1 DEF ByPhase
  <2> QED BY <1>6, <1>8, <1>9, <1>10, <2>5, <2>6 DEF PlacementInv
<1>13. CASE NextPhase("globalPool", GpuComponents, "pack")
  <2>1. phase = "globalPool" /\ LoopEnds(GpuComponents) /\ phase' = "pack"
        BY <1>13 DEF NextPhase, Goto
  <2>2. \A n \in Nodes : n < node => \A c \in GpuComponents : remaining[c] = 0 \/ Covered(n, c)
        BY <1>1, <2>1 DEF ByPhase
  <2>3. \A c \in GpuComponents : remaining[c] = 0
        BY <1>1, <1>7, <2>1, <2>2, NothingAsked
  <2>5. Packing'
        BY <1>1, <1>2, <1>7, <2>1, <2>3, PackingStarts
  <2>6. ByPhase'
        BY <2>1 DEF ByPhase
  <2> QED BY <1>6, <1>8, <1>9, <1>10, <2>5, <2>6 DEF PlacementInv
<1> QED BY <1>11, <1>12, <1>13

LEMMA ValidateStep ==
    ASSUME PlacementInv, Validate
    PROVE  PlacementInv'
<1>1. /\ Inputs /\ Planned /\ Planning /\ ByPhase /\ Packing /\ Shapes
      BY DEF PlacementInv
<1>2. /\ phase = "validate" /\ UNCHANGED <<inputVars, planVars, packVars>> /\ node' = 1
      /\ \/ phase' = "rejected"
         \/ RequestedParts <= ClusterParts /\ strategy.kind = "disaggregate" /\ phase' = "trainPool"
         \/ RequestedParts <= ClusterParts /\ strategy.kind # "disaggregate" /\ phase' = "globalPool"
  <2>1. RequestedParts \in Int /\ ClusterParts \in Int => (RequestedParts > ClusterParts \/ RequestedParts <= ClusterParts)
        OBVIOUS
  <2>2. RequestedParts \in Int /\ ClusterParts \in Int
    <3>1. Chosen
          BY <1>1, GivenTogether
    <3>2. Required("train") \in Nat /\ Required("eval") \in Nat /\ Required("env") \in Nat
          BY <3>1, InputTypes DEF GpuComponents
    <3>3. RequestedParts \in Int
          BY <3>2 DEF RequestedParts, RolloutParts, Larger
    <3>4. ClusterParts \in Int
      <4>1. Parts \in Nat /\ gpus \in Seq(Nat) /\ Len(gpus) \in Nat
            BY <3>1, InputTypes
      <4>2. DOMAIN gpus = 1..Len(gpus) /\ \A j \in 1..Len(gpus) : gpus[j] \in Nat
            BY <4>1
      <4>3. Cardinality(Fan([j \in 1..Len(gpus) |-> 0..(gpus[j] - 1)])) = Sum(gpus)
            BY <4>1, <4>2, FanSum
      <4> DEFINE f == [j \in 1..Len(gpus) |-> 0..(gpus[j] - 1)]
      <4>4. DOMAIN f = 1..Len(gpus) /\ \A j \in 1..Len(gpus) : IsFiniteSet(f[j])
        <5>1. \A j \in 1..Len(gpus) : IsFiniteSet(0..(gpus[j] - 1))
              BY <4>2, FS_Interval
        <5> QED BY <5>1
      <4> HIDE DEF f
      <4>5. Cardinality(Fan(f)) \in Nat
            BY <4>1, <4>4, FanFinite
      <4>6. Sum(gpus) \in Nat
            BY <4>3, <4>5 DEF f
      <4> DEFINE s == Sum(gpus)
      <4> HIDE DEF s
      <4>7. Parts * s \in Nat
            BY <4>1, <4>6, Product DEF s
      <4> QED BY <4>7 DEF ClusterParts, s
    <3> QED BY <3>3, <3>4
  <2> QED BY <2>1, <2>2 DEF Validate, Goto
<1>3. Chosen /\ node' \in Nat \ {0}
      BY <1>1, <1>2, GivenTogether
<1>4. /\ Nodes = 1..Len(gpus) /\ Len(gpus) \in Nat /\ \A n \in Nodes : n \in Nat \ {0}
      /\ strategy.kind \in {"disaggregate", "colocate"}
      BY <1>3, InputTypes
<1>6. /\ Inputs' /\ Planned'
      /\ gpus' = gpus /\ request' = request /\ strategy' = strategy /\ mode' = mode /\ Nodes' = Nodes
      /\ remaining' = remaining
      /\ \A n \in Nodes : (TrainOnly(n)' <=> TrainOnly(n)) /\ (Untouched(n)' <=> Untouched(n))
      /\ \A c \in GpuComponents : Account(c) => Account(c)'
      BY <1>1, <1>2, <1>3, PlanKept
<1>7. mode = "auto" /\ \A c \in GpuComponents : Account(c)
      BY <1>1, <1>2 DEF Planning, PlanPhases
<1>8. /\ remaining = [c \in GpuComponents |-> Required(c)]
      /\ \A n \in Nodes : Untouched(n)
      BY <1>1, <1>2 DEF ByPhase
<1>9. Packing'
  <2>1. phase \in PlanPhases /\ phase' \in PlanPhases \cup {"failed", "rejected"} /\ UNCHANGED packVars
        BY <1>2 DEF PlanPhases
  <2> QED BY <1>1, <1>2, <1>3, <1>6, <1>7, <2>1, StillUnpacked
<1>10. Shapes'
  <2>1. /\ phase' \in PlanPhases \cup {"pack", "done", "rejected", "failed"}
        BY <1>2 DEF PlanPhases
  <2> QED BY <1>1, <1>2, <1>6, <2>1 DEF Shapes, packVars
<1>11. RaisesOnlyIfUneven'
      BY <1>2 DEF RaisesOnlyIfUneven
<1>12. Planning'
  <2>1. RequestedParts' = RequestedParts /\ ClusterParts' = ClusterParts
        BY <1>2, SameRequest
  <2>2. node' <= Len(gpus') + 1
        BY <1>2, <1>4, <1>6
  <2> QED BY <1>2, <1>6, <1>7, <2>1, <2>2 DEF Planning, PlanPhases
<1>13. ByPhase'
  <2>1. \A n \in Nodes : ~(n < node')
        BY <1>2, <1>4
  <2>2. \A n \in Nodes : Untouched(n)'
        BY <1>6, <1>8
  <2>3. remaining' = [c \in GpuComponents |-> Required(c)']
    <3>1. \A c \in GpuComponents : Required(c)' = Required(c)
          BY <1>2, SameRequest
    <3> QED BY <1>6, <1>8, <3>1
  <2>4. \A n \in Nodes : TrainOnly(n)'
    <3>1. \A n \in Nodes : TrainOnly(n)
          BY <1>8 DEF Untouched, TrainOnly
    <3> QED BY <1>6, <3>1
  <2> QED BY <1>2, <1>4, <1>6, <2>1, <2>2, <2>3, <2>4 DEF ByPhase
<1> QED BY <1>6, <1>9, <1>10, <1>11, <1>12, <1>13 DEF PlacementInv

LEMMA Starts ==
    ASSUME Init
    PROVE  PlacementInv
<1>1. /\ gpus \in Clusters /\ request \in Requests /\ strategy \in Strategies
      /\ mode = "auto" /\ order = [n \in Nodes |-> n]
      /\ phase = "validate" /\ node = 1
      /\ remaining = [c \in GpuComponents |-> Required(c)]
      /\ cursor = [n \in Nodes |-> 0]
      /\ slice = [n \in Nodes |-> [c \in GpuComponents |-> {}]]
      /\ pool = [n \in Nodes |-> "none"]
      /\ placed = [c \in GpuComponents |-> 0]
      /\ location = [c \in GpuComponents |-> <<>>]
      /\ bundles = [n \in Nodes |-> <<>>]
      /\ storage = <<>>
      BY DEF Init
<1>2. Chosen
      BY <1>1 DEF Chosen
<1>3. /\ Nodes = 1..Len(gpus) /\ Len(gpus) \in Nat /\ \A n \in Nodes : gpus[n] \in Nat
      /\ \A c \in GpuComponents : Required(c) \in Nat
      BY <1>2, InputTypes
<1>4. Inputs
  <2>1. order \in [Nodes -> Nodes] /\ Range(order) = Nodes
        BY <1>1 DEF Range
  <2> QED BY <1>1, <2>1 DEF Inputs, Orders
<1>5. [c \in GpuComponents |-> {}] = Laid(0, 0, 0) /\ Base(0) = 0 /\ Second(0, 0) = 0
  <2> DEFINE f == [c \in GpuComponents |-> {}]
             h == Laid(0, 0, 0)
  <2>1. f \in [GpuComponents -> SUBSET Nat] /\ \A c \in GpuComponents : f[c] = {}
        OBVIOUS
  <2>2. h \in [GpuComponents -> SUBSET Nat] /\ \A c \in GpuComponents : h[c] = {}
        BY <1>2, LaidIs, NoneLaid
  <2> HIDE DEF f, h
  <2>3. f = h
        BY <2>1, <2>2
  <2> QED BY <2>3 DEF Base, Second, f, h
<1>6. \A n \in Nodes : slice[n] = Laid(0, 0, 0) /\ cursor[n] = 0 /\ pool[n] = "none"
      BY <1>1, <1>5
<1>7. Planned
  <2>1. \A n \in Nodes : InLine(n) /\ (pool[n] = "none" => slice[n] = Laid(0, 0, 0))
    <3> SUFFICES ASSUME NEW n \in Nodes PROVE InLine(n)
        BY <1>6
    <3>1. /\ slice[n] = Laid(0, 0, 0) /\ 0 <= gpus[n] /\ Base(0) + 0 <= gpus[n] /\ Second(0, 0) + 0 <= gpus[n]
          BY <1>3, <1>5, <1>6
    <3> QED BY <3>1 DEF InLine
  <2>2. node \in Nat \ {0} /\ remaining \in [GpuComponents -> Nat]
        BY <1>1, <1>3
  <2>3. cursor \in [Nodes -> Nat] /\ \A n \in Nodes : cursor[n] <= gpus[n]
        BY <1>1, <1>3
  <2>4. slice \in [Nodes -> [GpuComponents -> SUBSET Nat]] /\ pool \in [Nodes -> PoolNames]
        BY <1>1 DEF PoolNames
  <2> QED BY <2>1, <2>2, <2>3, <2>4 DEF Planned
<1>8. \A c \in GpuComponents : Account(c)
  <2> SUFFICES ASSUME NEW c \in GpuComponents PROVE Account(c)
      OBVIOUS
  <2>1. Units(c) = {}
    <3> DEFINE f == [n \in Nodes |-> slice[n][c]]
    <3>1. \A n \in DOMAIN f : f[n] = {}
          BY <1>1
    <3> HIDE DEF f
    <3>2. Fan(f) = {}
          BY <3>1, FanHolds
    <3> QED BY <3>2 DEF Units, f
  <2>2. Parts * Cardinality(Units(c)) + remaining[c] = Required(c)
        BY <1>1, <1>2, <1>3, <2>1, FS_EmptySet, InputTypes
  <2> QED BY <1>3, <2>2 DEF Account
<1>9. Planning
      BY <1>1, <1>3, <1>8 DEF Planning
<1>10. ByPhase
      BY <1>1, <1>6 DEF ByPhase, Untouched
<1>11. Located(0)
  <2>1. \A c \in GpuComponents : PlacedBy(c, 0) = 0
        BY <1>2, PlacedNone
  <2> QED BY <1>1, <2>1 DEF Located
<1>12. Packing
  <2>1. 0 \in 0..Rounds
    <3>1. Rounds \in Nat
          BY <1>4, <1>7, GivenTogether, RoundsAre
    <3> QED BY <3>1
  <2> QED BY <1>1, <1>11, <2>1 DEF Packing
<1>13. Shapes
      BY <1>1 DEF Shapes, PlanPhases
<1> QED BY <1>1, <1>4, <1>7, <1>9, <1>10, <1>12, <1>13 DEF PlacementInv, RaisesOnlyIfUneven
-----------------------------------------------------------------------------
(***************************************************************************)
(* Packing a node.                                                         *)
(***************************************************************************)
LEMMA PlacedGrows ==
    ASSUME Steady, NEW c \in GpuComponents, NEW k \in 0..Rounds, NEW j \in 0..k
    PROVE  PlacedBy(c, j) <= PlacedBy(c, k)
<1>1. /\ Rounds \in Nat /\ PlacedBy(c, 0) = 0
      /\ \A i \in 0..Rounds : PlacedBy(c, i) \in Nat
      /\ \A i \in 1..Rounds : PlacedBy(c, i - 1) <= PlacedBy(c, i)
      BY PlacedSteps, ThePackingOrder
<1> DEFINE S == {m \in Nat : m <= Rounds => \A i \in 0..m : PlacedBy(c, i) <= PlacedBy(c, m)}
<1>2. 0 \in S
      BY <1>1
<1>3. ASSUME NEW m \in Nat, m \in S PROVE m + 1 \in S
  <2> SUFFICES ASSUME m + 1 <= Rounds, NEW i \in 0..(m + 1) PROVE PlacedBy(c, i) <= PlacedBy(c, m + 1)
      OBVIOUS
  <2>1. m \in 0..Rounds /\ m + 1 \in 1..Rounds /\ (m + 1) - 1 = m /\ i \in 0..Rounds
        BY <1>1
  <2>2. PlacedBy(c, m) <= PlacedBy(c, m + 1) /\ PlacedBy(c, m) \in Nat /\ PlacedBy(c, m + 1) \in Nat /\ PlacedBy(c, i) \in Nat
        BY <1>1, <2>1
  <2>3. CASE i = m + 1
        BY <2>2, <2>3
  <2>4. CASE i \in 0..m
    <3>1. PlacedBy(c, i) <= PlacedBy(c, m)
          BY <1>1, <1>3, <2>1, <2>4
    <3> QED BY <2>2, <3>1
  <2> QED BY <2>3, <2>4
<1> HIDE DEF S
<1>4. Nat \subseteq S
      BY <1>2, <1>3, SetInduction
<1>5. k \in S /\ k <= Rounds
      BY <1>1, <1>4
<1> QED BY <1>5 DEF S

\* A worker's unit is one of the slice's.
LEMMA UnitIs ==
    ASSUME Steady, NEW n \in Nodes, NEW c \in GpuComponents,
           NEW i \in 1..(Cardinality(slice[n][c]) * Fits(c))
    PROVE  UnitOf(n, c, i) \in slice[n][c]
<1> DEFINE units == Cardinality(slice[n][c])
           fit == Fits(c)
           from == Min(slice[n][c])
<1>1. units \in Nat /\ (units = 0 <=> slice[n][c] = {})
      /\ (slice[n][c] # {} => from \in Nat /\ slice[n][c] = from..(from + units - 1))
      BY SliceFacts
<1>2. fit \in Nat
      BY InputTypes DEF Steady
<1>3. UnitOf(n, c, i) = from + (i - 1) \div fit
      BY DEF UnitOf
<1>4. i \in 1..(units * fit)
      OBVIOUS
<1> HIDE DEF units, fit, from
<1>5. units # 0 /\ fit # 0
  <2>1. units = 0 \/ fit = 0 => units * fit = 0
        BY <1>1, <1>2
  <2>2. units * fit # 0
        BY <1>4
  <2> QED BY <2>1, <2>2
<1> DEFINE all == units * fit
<1>6. all \in Nat
      BY <1>1, <1>2, Product
<1>7. i - 1 \in Nat /\ i - 1 < units * fit
  <2> HIDE DEF all
  <2>1. i \in 1..all
        BY <1>4 DEF all
  <2>2. i - 1 \in Nat /\ i - 1 < all
        BY <1>6, <2>1
  <2> QED BY <2>2 DEF all
<1>8. fit \in Nat \ {0}
      BY <1>2, <1>5
<1>9. (i - 1) \div fit \in Nat /\ (i - 1) \div fit < units
      BY <1>1, <1>7, <1>8, Division, QuotientBelow
<1> DEFINE q == (i - 1) \div fit
<1> HIDE DEF q
<1>10. q \in Nat /\ q < units
      BY <1>9 DEF q
<1>11. from + q \in from..(from + units - 1)
      BY <1>1, <1>5, <1>10
<1> QED BY <1>1, <1>3, <1>5, <1>11 DEF q

\* Without buffer workers on GPUs, every unit of a slice has its workers.
LEMMA EveryUnit ==
    ASSUME Steady, Used, request.storageGpus = 0, NEW c \in GpuComponents, NEW k \in 1..Rounds
    PROVE  LET S == slice[PackingOrder[k]][c]
           IN  /\ PlacedBy(c, k) - PlacedBy(c, k - 1) = Cardinality(S) * Fits(c)
               /\ S # {} => Cardinality(S) * Fits(c) > 0
               /\ \A u \in S : \E i \in 1..(Cardinality(S) * Fits(c)) : UnitOf(PackingOrder[k], c, i) = u
<1> DEFINE n == PackingOrder[k]
           S == slice[n][c]
           units == Cardinality(S)
           fit == Fits(c)
           from == Min(S)
           w == request.workers[c]
           all == Given(c, Rounds)
           a == Given(c, k - 1)
<1>1. Rounds \in Nat /\ n \in Nodes /\ k - 1 \in 0..Rounds /\ k \in 0..Rounds
      BY ThePackingOrder
<1>2. /\ units \in Nat /\ (units = 0 <=> S = {})
      /\ (S # {} => from \in Nat /\ S = from..(from + units - 1))
      BY <1>1, SliceFacts
<1>3. w \in Nat /\ fit \in Nat
      BY InputTypes DEF Steady
<1>4. /\ all \in Nat /\ a \in Nat /\ Given(c, k) = a + units
      BY <1>1, GivenSteps
<1>5. a + units <= all
      BY <1>1, <1>4, GivenAll
<1>6. all * fit <= w /\ (request.need[c] = 0 => all = 0)
      BY DEF Used
<1>7. /\ PlacedBy(c, k) = Smaller(w, Given(c, k) * fit)
      /\ PlacedBy(c, k - 1) = Smaller(w, a * fit)
      BY DEF PlacedBy
<1>8. \A i : UnitOf(n, c, i) = from + (i - 1) \div fit
      BY DEF UnitOf
<1> HIDE DEF n, S, units, fit, from, w, all, a
<1>9. /\ (a + units) * fit = a * fit + units * fit
      /\ a * fit \in Nat /\ units * fit \in Nat /\ all * fit \in Nat
      BY <1>2, <1>3, <1>4, Distributes, Product
<1>10. (a + units) * fit <= all * fit
      BY <1>2, <1>3, <1>4, <1>5, Monotone
<1>11. PlacedBy(c, k) - PlacedBy(c, k - 1) = units * fit
  <2> DEFINE x == a * fit
             y == units * fit
             z == all * fit
  <2>1. x \in Nat /\ y \in Nat /\ z \in Nat /\ x + y <= z /\ z <= w
        BY <1>6, <1>9, <1>10
  <2>2. PlacedBy(c, k) = Smaller(w, x + y) /\ PlacedBy(c, k - 1) = Smaller(w, x)
        BY <1>4, <1>7, <1>9
  <2> HIDE DEF x, y, z
  <2>3. PlacedBy(c, k) = x + y /\ PlacedBy(c, k - 1) = x
    <3>1. x + y \in Nat /\ x + y <= w /\ x <= w
          BY <1>3, <2>1
    <3> QED BY <1>3, <2>1, <2>2, <3>1 DEF Smaller
  <2>4. PlacedBy(c, k) - PlacedBy(c, k - 1) = y
        BY <2>1, <2>3
  <2> QED BY <2>4 DEF y
<1>12. ASSUME S # {} PROVE units \in Nat \ {0} /\ fit \in Nat \ {0}
  <2>1. units \in Nat \ {0}
        BY <1>2, <1>12
  <2>2. all # 0
        BY <1>4, <1>5, <2>1
  <2>3. request.need[c] # 0
        BY <1>6, <2>2
  <2>4. Fits(c) \in Nat \ {0}
        BY <2>3, FitsWell DEF Steady
  <2> QED BY <2>1, <2>4 DEF fit
<1>13. ASSUME NEW u \in S PROVE \E i \in 1..(units * fit) : UnitOf(n, c, i) = u
  <2>1. units \in Nat \ {0} /\ fit \in Nat \ {0} /\ from \in Nat /\ u \in from..(from + units - 1)
        BY <1>2, <1>12, <1>13
  <2> DEFINE q == u - from
  <2>2. q \in Nat /\ q + 1 <= units /\ u = from + q
        BY <2>1
  <2> HIDE DEF q
  <2>3. (q + 1) * fit <= units * fit /\ (q + 1) * fit = q * fit + fit /\ q * fit \in Nat
        BY <2>1, <2>2, Monotone, Product
  <2> DEFINE x == q * fit
             y == units * fit
  <2>4. x \in Nat /\ y \in Nat /\ x + fit <= y
        BY <1>9, <2>3
  <2>5. x \div fit = q
    <3>1. 0 \in 0..(fit - 1) /\ q * fit + 0 = q * fit
          BY <2>1, <2>4
    <3>2. (q * fit + 0) \div fit = q
          BY <2>1, <2>2, <3>1, Quotient
    <3> QED BY <3>1, <3>2
  <2> HIDE DEF x, y
  <2>6. x + 1 \in 1..y /\ (x + 1) - 1 = x
        BY <2>1, <2>4
  <2>7. UnitOf(n, c, x + 1) = u
        BY <1>8, <2>2, <2>5, <2>6
  <2> QED BY <2>6, <2>7 DEF y
<1>14. S # {} => units * fit > 0
  <2> SUFFICES ASSUME S # {} PROVE units * fit > 0
      OBVIOUS
  <2>1. units \in Nat \ {0} /\ fit \in Nat \ {0}
        BY <1>12
  <2>2. 1 * fit <= units * fit /\ 1 * fit = fit
        BY <2>1, Monotone
  <2> QED BY <1>9, <2>1, <2>2
<1> QED BY <1>11, <1>13, <1>14 DEF n, S, units, fit

\* What a step of packing finds, and how many workers it places.
Takes(c, k) == PlacedBy(c, k) - PlacedBy(c, k - 1)

\* What the node of the k-th round takes of the workers of c.
LEMMA TakesIs ==
    ASSUME Steady, NEW c \in GpuComponents, NEW k \in 1..Rounds
    PROVE  /\ Takes(c, k) \in Nat
           /\ Takes(c, k) <= Cardinality(slice[PackingOrder[k]][c]) * Fits(c)
           /\ \A i \in 1..Takes(c, k) :
                 UnitOf(PackingOrder[k], c, i) \in slice[PackingOrder[k]][c]
           /\ PlacedBy(c, k) = PlacedBy(c, k - 1) + Takes(c, k)
           /\ PlacedBy(c, k - 1) \in Nat
           /\ placed[c] = PlacedBy(c, k - 1) => Packable(PackingOrder[k], c) = Takes(c, k)
<1> DEFINE all == Cardinality(slice[PackingOrder[k]][c]) * Fits(c)
           a == PlacedBy(c, k - 1)
           b == PlacedBy(c, k)
<1>1. Rounds \in Nat /\ PackingOrder[k] \in Nodes /\ k - 1 \in 0..Rounds /\ k \in 0..Rounds
      BY ThePackingOrder
<1>2. a \in Nat /\ b \in Nat
      BY <1>1, PlacedSteps
<1>3. b = a + Smaller(request.workers[c] - a, all) /\ a <= b /\ b - a <= all
      BY PlacedSteps
<1>4. all \in Nat
  <2>1. Cardinality(slice[PackingOrder[k]][c]) \in Nat /\ Fits(c) \in Nat
        BY <1>1, SliceFacts, InputTypes DEF Steady
  <2> QED BY <2>1, Product
<1>5. Takes(c, k) = b - a
      BY DEF Takes
<1>6. Takes(c, k) \in Nat /\ Takes(c, k) <= all /\ b = a + Takes(c, k)
  <2> HIDE DEF a, b, all
  <2> QED BY <1>2, <1>3, <1>5
<1>7. \A i \in 1..Takes(c, k) : i \in 1..all
  <2> HIDE DEF a, b, all
  <2> QED BY <1>4, <1>6
<1>8. \A i \in 1..Takes(c, k) : UnitOf(PackingOrder[k], c, i) \in slice[PackingOrder[k]][c]
      BY <1>1, <1>7, UnitIs
<1>9. ASSUME placed[c] = PlacedBy(c, k - 1) PROVE Packable(PackingOrder[k], c) = Takes(c, k)
  <2>1. Packable(PackingOrder[k], c) = Smaller(request.workers[c] - a, all)
        BY <1>9 DEF Packable
  <2>2. Smaller(request.workers[c] - a, all) = b - a
    <3> DEFINE s == Smaller(request.workers[c] - a, all)
    <3>1. request.workers[c] \in Nat /\ a <= request.workers[c]
          BY <1>1, PlacedSteps, InputTypes DEF Steady
    <3>2. request.workers[c] - a \in Nat
          BY <1>2, <3>1
    <3> HIDE DEF a, b, all
    <3>3. s \in Nat
          BY <1>4, <3>2, LesserOf
    <3> HIDE DEF s
    <3> QED BY <1>2, <1>3, <3>3 DEF s
  <2> QED BY <1>5, <2>1, <2>2
<1> QED BY <1>2, <1>6, <1>8, <1>9

\* The places of the workers that the k-th node takes.
PlacesOn(c, k) == [i \in 1..Takes(c, k) |-> [node |-> PackingOrder[k], index |-> UnitOf(PackingOrder[k], c, i)]]

\* The step of Pack, by rounds.
LEMMA PackIs ==
    ASSUME Inputs, Planned, Pack, Located(node - 1)
    PROVE  /\ Steady /\ node \in 1..Rounds /\ node - 1 \in 0..Rounds
           /\ PackingOrder[node] \in Nodes
           /\ UNCHANGED <<inputVars, planVars>> /\ UNCHANGED <<inputVars, slice, pool>>
           /\ placed' = [c \in GpuComponents |-> PlacedBy(c, node)]
           /\ location' = [c \in GpuComponents |-> location[c] \o PlacesOn(c, node)]
           /\ \A c \in GpuComponents : Packable(PackingOrder[node], c) = Takes(c, node)
<1>1. Steady /\ node \in Nat \ {0} /\ Rounds = Len(PackingOrder) /\ Rounds \in Nat
      BY GivenTogether, ThePackingOrder DEF Planned
<1>2. node \in 1..Rounds /\ UNCHANGED <<inputVars, planVars>>
      BY <1>1 DEF Pack
<1>3. PackingOrder[node] \in Nodes
      BY <1>1, <1>2, ThePackingOrder
<1>4. \A c \in GpuComponents : placed[c] = PlacedBy(c, node - 1)
      BY DEF Located
<1>5. \A c \in GpuComponents :
         /\ Packable(PackingOrder[node], c) = Takes(c, node)
         /\ PlacedBy(c, node) = PlacedBy(c, node - 1) + Takes(c, node)
      BY <1>1, <1>2, <1>4, TakesIs
<1>6. placed' = [c \in GpuComponents |-> PlacedBy(c, node)]
  <2>1. placed' = [c \in GpuComponents |-> placed[c] + Packable(PackingOrder[node], c)]
        BY DEF Pack
  <2>2. \A c \in GpuComponents : placed[c] + Packable(PackingOrder[node], c) = PlacedBy(c, node)
        BY <1>4, <1>5
  <2> QED BY <2>1, <2>2
<1>7. location' = [c \in GpuComponents |-> location[c] \o PlacesOn(c, node)]
  <2>1. location' = [c \in GpuComponents |->
                  location[c] \o [k \in 1..Packable(PackingOrder[node], c) |->
                      [node |-> PackingOrder[node], index |-> UnitOf(PackingOrder[node], c, k)]]]
        BY DEF Pack
  <2> QED BY <1>5, <2>1 DEF PlacesOn
<1>8. node - 1 \in 0..Rounds /\ UNCHANGED <<inputVars, slice, pool>>
      BY <1>1, <1>2 DEF planVars
<1> QED BY <1>1, <1>2, <1>3, <1>5, <1>6, <1>7, <1>8

\* What is said of the plan is said of it after a step of packing.
LEMMA PlacedSame ==
    ASSUME Steady, UNCHANGED <<inputVars, slice, pool>>
    PROVE  /\ Rounds' = Rounds /\ PackingOrder' = PackingOrder
           /\ \A c \in GpuComponents, k \in Nat : PlacedBy(c, k)' = PlacedBy(c, k)
           /\ \A c \in GpuComponents, j \in 1..Rounds, i \in Nat :
                 UnitOf(PackingOrder[j], c, i)' = UnitOf(PackingOrder[j], c, i)
<1>1. /\ Rounds' = Rounds /\ PackingOrder' = PackingOrder
      /\ \A c \in GpuComponents, k \in Nat : PlacedBy(c, k)' = PlacedBy(c, k)
      /\ \A c \in GpuComponents : Fits(c)' = Fits(c)
      /\ slice' = slice
      BY SameOrder
<1>2. \A c \in GpuComponents, j \in 1..Rounds, i \in Nat :
         UnitOf(PackingOrder[j], c, i)' = UnitOf(PackingOrder[j], c, i)
      BY <1>1 DEF UnitOf
<1> QED BY <1>1, <1>2

LEMMA Listed ==
    ASSUME NEW T, NEW m \in Nat, NEW f \in [1..m -> T]
    PROVE  f \in Seq(T) /\ Len(f) = m
OBVIOUS

LEMMA JoinedParts ==
    ASSUME NEW T, NEW q \in Seq(T), NEW t \in Seq(T)
    PROVE  /\ q \o t \in Seq(T) /\ Len(q \o t) = Len(q) + Len(t)
           /\ \A i \in 1..Len(q) : (q \o t)[i] = q[i]
           /\ \A i \in 1..Len(t) : (q \o t)[Len(q) + i] = t[i]
BY Joined

\* The places of the workers of c that the k-th round takes.
LEMMA PlacesAre ==
    ASSUME Steady, NEW c \in GpuComponents, NEW k \in 1..Rounds
    PROVE  /\ PlacesOn(c, k) \in Seq([node : Nodes, index : Nat]) /\ Len(PlacesOn(c, k)) = Takes(c, k)
           /\ \A i \in 1..Takes(c, k) :
                 PlacesOn(c, k)[i] = [node |-> PackingOrder[k], index |-> UnitOf(PackingOrder[k], c, i)]
<1>1. Takes(c, k) \in Nat /\ PackingOrder[k] \in Nodes
      BY TakesIs, ThePackingOrder
<1>2. \A i \in 1..Takes(c, k) : UnitOf(PackingOrder[k], c, i) \in Nat
  <2>1. \A i \in 1..Takes(c, k) : UnitOf(PackingOrder[k], c, i) \in slice[PackingOrder[k]][c]
        BY TakesIs
  <2>2. slice[PackingOrder[k]][c] \subseteq 0..(gpus[PackingOrder[k]] - 1)
        BY <1>1, SliceFacts
  <2> QED BY <2>1, <2>2
<1> DEFINE m == Takes(c, k)
           f(i) == [node |-> PackingOrder[k], index |-> UnitOf(PackingOrder[k], c, i)]
<1>3. \A i \in 1..m : f(i) \in [node : Nodes, index : Nat]
      BY <1>1, <1>2
<1>4. PlacesOn(c, k) = [i \in 1..m |-> f(i)]
      BY DEF PlacesOn
<1>5. m \in Nat
      BY <1>1
<1> HIDE DEF m, f
<1>6. PlacesOn(c, k) \in [1..m -> [node : Nodes, index : Nat]] /\ \A i \in 1..m : PlacesOn(c, k)[i] = f(i)
      BY <1>3, <1>4
<1>7. PlacesOn(c, k) \in Seq([node : Nodes, index : Nat]) /\ Len(PlacesOn(c, k)) = m
      BY <1>5, <1>6, Listed
<1> QED BY <1>6, <1>7 DEF m, f

\* Workers placed so far are located, one round more with every step.
LEMMA LocatedStep ==
    ASSUME Inputs, Planned, Shapes, Pack, NEW K \in Nat \ {0}, K = node, Located(K - 1)
    PROVE  /\ Located(K)'
           /\ placed' \in [GpuComponents -> Nat]
           /\ location' \in [GpuComponents -> Seq([node : Nodes, index : Nat])]
<1> DEFINE At == [node : Nodes, index : Nat]
<1>1. /\ Steady /\ K \in 1..Rounds /\ K - 1 \in 0..Rounds /\ UNCHANGED <<inputVars, slice, pool>>
      /\ placed' = [c \in GpuComponents |-> PlacedBy(c, K)]
      /\ location' = [c \in GpuComponents |-> location[c] \o PlacesOn(c, K)]
      BY PackIs
<1>2. Rounds \in Nat
      BY <1>1, ThePackingOrder
<1>3. \A c \in GpuComponents :
         /\ location[c] \in Seq(At) /\ PlacesOn(c, K) \in Seq(At)
         /\ Len(location[c]) = PlacedBy(c, K - 1) /\ Len(PlacesOn(c, K)) = Takes(c, K)
         /\ PlacedBy(c, K) = PlacedBy(c, K - 1) + Takes(c, K)
         /\ PlacedBy(c, K) \in Nat /\ PlacedBy(c, K - 1) \in Nat /\ Takes(c, K) \in Nat
  <2> SUFFICES ASSUME NEW c \in GpuComponents
               PROVE  /\ location[c] \in Seq(At) /\ PlacesOn(c, K) \in Seq(At)
                      /\ Len(location[c]) = PlacedBy(c, K - 1) /\ Len(PlacesOn(c, K)) = Takes(c, K)
                      /\ PlacedBy(c, K) = PlacedBy(c, K - 1) + Takes(c, K)
                      /\ PlacedBy(c, K) \in Nat /\ PlacedBy(c, K - 1) \in Nat /\ Takes(c, K) \in Nat
      OBVIOUS
  <2>1. location[c] \in Seq(At) /\ Len(location[c]) = PlacedBy(c, K - 1)
        BY DEF Shapes, Located
  <2>2. PlacesOn(c, K) \in Seq(At) /\ Len(PlacesOn(c, K)) = Takes(c, K)
        BY <1>1, PlacesAre
  <2>3. /\ PlacedBy(c, K) = PlacedBy(c, K - 1) + Takes(c, K)
        /\ PlacedBy(c, K - 1) \in Nat /\ Takes(c, K) \in Nat
        BY <1>1, TakesIs
  <2> QED BY <2>1, <2>2, <2>3
<1>4. \A c \in GpuComponents :
         /\ location'[c] \in Seq(At) /\ Len(location'[c]) = PlacedBy(c, K)
         /\ \A w \in 1..PlacedBy(c, K - 1) : location'[c][w] = location[c][w]
         /\ \A i \in 1..Takes(c, K) : location'[c][PlacedBy(c, K - 1) + i] = PlacesOn(c, K)[i]
  <2> SUFFICES ASSUME NEW c \in GpuComponents
               PROVE  /\ location'[c] \in Seq(At) /\ Len(location'[c]) = PlacedBy(c, K)
                      /\ \A w \in 1..PlacedBy(c, K - 1) : location'[c][w] = location[c][w]
                      /\ \A i \in 1..Takes(c, K) : location'[c][PlacedBy(c, K - 1) + i] = PlacesOn(c, K)[i]
      OBVIOUS
  <2> DEFINE q == location[c]
             t == PlacesOn(c, K)
  <2>1. location'[c] = q \o t
        BY <1>1
  <2>2. q \in Seq(At) /\ t \in Seq(At) /\ Len(q) = PlacedBy(c, K - 1) /\ Len(t) = Takes(c, K)
        BY <1>3
  <2> HIDE DEF q, t, At
  <2>3. q \in Seq(At) /\ t \in Seq(At)
        BY <2>2
  <2>4. q \o t \in Seq(At)
        BY ONLY <2>3, JoinedParts
  <2>5. Len(q \o t) = Len(q) + Len(t)
        BY ONLY <2>3, JoinedParts
  <2>6. \A i \in 1..Len(q) : (q \o t)[i] = q[i]
        BY ONLY <2>3, JoinedParts
  <2>7. \A i \in 1..Len(t) : (q \o t)[Len(q) + i] = t[i]
        BY ONLY <2>3, JoinedParts
  <2> QED BY <1>3, <2>1, <2>2, <2>4, <2>5, <2>6, <2>7 DEF q, t
<1>5. placed' \in [GpuComponents -> Nat] /\ location' \in [GpuComponents -> Seq(At)]
      BY <1>1, <1>3, <1>4
<1>6. /\ PackingOrder' = PackingOrder
      /\ \A c \in GpuComponents, k \in Nat : PlacedBy(c, k)' = PlacedBy(c, k)
      /\ \A c \in GpuComponents, j \in 1..Rounds, i \in Nat :
            UnitOf(PackingOrder[j], c, i)' = UnitOf(PackingOrder[j], c, i)
      BY <1>1, PlacedSame
<1>7. ASSUME NEW c \in GpuComponents, NEW j \in 1..K, NEW i \in 1..(PlacedBy(c, j) - PlacedBy(c, j - 1))
      PROVE  location'[c][PlacedBy(c, j - 1) + i] =
                 [node |-> PackingOrder[j], index |-> UnitOf(PackingOrder[j], c, i)]
  <2>1. CASE j = K
    <3>1. i \in 1..Takes(c, K)
          BY <1>7, <2>1 DEF Takes
    <3>2. PlacesOn(c, K)[i] = [node |-> PackingOrder[K], index |-> UnitOf(PackingOrder[K], c, i)]
          BY <1>1, <3>1, PlacesAre
    <3>3. location'[c][PlacedBy(c, K - 1) + i] = PlacesOn(c, K)[i]
          BY <1>4, <3>1
    <3> QED BY <2>1, <3>2, <3>3
  <2>2. CASE j # K
    <3>1. j \in 1..(K - 1) /\ j \in 0..(K - 1) /\ j - 1 \in 0..Rounds /\ j \in 0..Rounds
          BY <1>1, <1>2, <2>2
    <3>2. location[c][PlacedBy(c, j - 1) + i] =
              [node |-> PackingOrder[j], index |-> UnitOf(PackingOrder[j], c, i)]
          BY <1>7, <3>1 DEF Located
    <3>3. PlacedBy(c, j) <= PlacedBy(c, K - 1)
          BY <1>1, <3>1, PlacedGrows
    <3>4. PlacedBy(c, j) \in Nat /\ PlacedBy(c, j - 1) \in Nat /\ PlacedBy(c, K - 1) \in Nat
          BY <1>1, <3>1, PlacedSteps
    <3> DEFINE a == PlacedBy(c, j - 1)
               b == PlacedBy(c, j)
               m == PlacedBy(c, K - 1)
    <3>5. a + i \in 1..m
      <4>1. i \in 1..(b - a) /\ b <= m /\ a \in Nat /\ b \in Nat /\ m \in Nat
            BY <1>7, <3>3, <3>4
      <4> HIDE DEF a, b, m
      <4> QED BY <4>1
    <3> QED BY <1>4, <3>2, <3>5
  <2> QED BY <2>1, <2>2
<1>8. \A c \in GpuComponents : placed'[c] = PlacedBy(c, K) /\ Len(location'[c]) = placed'[c]
      BY <1>1, <1>4
<1>9. Located(K)'
  <2>1. \A j \in 1..K : j \in Nat /\ j - 1 \in Nat /\ j \in 1..Rounds
        BY <1>1, <1>2
  <2>2. \A c \in GpuComponents : placed'[c] = PlacedBy(c, K)' /\ Len(location'[c]) = placed'[c]
        BY <1>6, <1>8
  <2>3. ASSUME NEW c \in GpuComponents, NEW j \in 1..K, NEW i \in 1..(PlacedBy(c, j)' - PlacedBy(c, j - 1)')
        PROVE  location'[c][PlacedBy(c, j - 1)' + i] =
                   [node |-> PackingOrder'[j], index |-> UnitOf(PackingOrder[j], c, i)']
    <3>1. PlacedBy(c, j)' = PlacedBy(c, j) /\ PlacedBy(c, j - 1)' = PlacedBy(c, j - 1) /\ PackingOrder' = PackingOrder
          BY <1>6, <2>1
    <3>2. i \in Nat /\ i \in 1..(PlacedBy(c, j) - PlacedBy(c, j - 1))
          BY <2>3, <3>1
    <3>3. UnitOf(PackingOrder[j], c, i)' = UnitOf(PackingOrder[j], c, i)
          BY <1>6, <2>1, <3>2
    <3> QED BY <1>7, <3>1, <3>2, <3>3
  <2> QED BY <2>2, <2>3 DEF Located
<1> QED BY <1>5, <1>9

\* The bundles of a node, and the storage it gets.
GpuIds(n) == [i \in 1..gpus[n] |-> i - 1]
StorageBundle(n) == IF slice[n]["train"] # {} THEN <<CpuBundle>> ELSE <<>>
BundlesOf(n) == Filtered(GpuIds(n), UnitsUsed(n)) \o StorageBundle(n)

LEMMA OneOrNone ==
    ASSUME NEW T, NEW x \in T
    PROVE  <<x>> \in Seq(T) /\ <<>> \in Seq(T)
OBVIOUS

LEMMA Wider ==
    ASSUME NEW T, NEW W, T \subseteq W, NEW q \in Seq(T)
    PROVE  q \in Seq(W)
OBVIOUS

\* Filtering by the first m elements gives these.
LEMMA FilteredFirst ==
    ASSUME NEW T, NEW list \in Seq(T), NEW set, NEW m \in Nat, m <= Len(list),
           \A i \in 1..Len(list) : list[i] \in set <=> i <= m
    PROVE  /\ Filtered(list, set) \in Seq(T)
           /\ Len(Filtered(list, set)) = m
           /\ \A i \in 1..m : Filtered(list, set)[i] = list[i]
<1>1. Len(list) \in Nat
      OBVIOUS
<1>2. 0 \in Nat /\ 0 + m <= Len(list)
      BY <1>1
<1>3. ASSUME NEW i \in 1..Len(list) PROVE list[i] \in set <=> i \in (0 + 1)..(0 + m)
      BY <1>1
<1>4. InRow(list, set, 0, m)
      BY <1>2, <1>3 DEF InRow
<1>5. /\ Filtered(list, set) \in Seq(T) /\ Len(Filtered(list, set)) = m
      /\ \A i \in 1..m : Filtered(list, set)[i] = list[0 + i]
      BY <1>4, FilteredInterval
<1> QED BY <1>5

LEMMA GpuIdsAre ==
    ASSUME Chosen, NEW n \in Nodes
    PROVE  /\ GpuIds(n) \in Seq(0..(gpus[n] - 1)) /\ Len(GpuIds(n)) = gpus[n] /\ gpus[n] \in Nat
           /\ \A i \in 1..gpus[n] : GpuIds(n)[i] = i - 1
<1>1. gpus[n] \in Nat
      BY InputTypes
<1>2. /\ GpuIds(n) \in [1..gpus[n] -> 0..(gpus[n] - 1)]
      /\ \A i \in 1..gpus[n] : GpuIds(n)[i] = i - 1
  <2> DEFINE g == gpus[n]
  <2>1. \A i \in 1..g : i - 1 \in 0..(g - 1)
        BY <1>1
  <2>2. GpuIds(n) = [i \in 1..g |-> i - 1]
        BY DEF GpuIds
  <2> HIDE DEF g
  <2>3. GpuIds(n) \in [1..g -> 0..(g - 1)] /\ \A i \in 1..g : GpuIds(n)[i] = i - 1
        BY <2>1, <2>2
  <2> QED BY <2>3 DEF g
<1> HIDE DEF GpuIds
<1>3. GpuIds(n) \in Seq(0..(gpus[n] - 1)) /\ Len(GpuIds(n)) = gpus[n]
      BY <1>1, <1>2, Listed
<1> QED BY <1>1, <1>2, <1>3

\* Bundles are GPUs of the node, or the one of its storage.
LEMMA BundlesShape ==
    ASSUME Chosen, NEW n \in Nodes
    PROVE  /\ BundlesOf(n) \in Seq((0..(gpus[n] - 1)) \cup {CpuBundle})
           /\ \A i \in DOMAIN BundlesOf(n) : BundlesOf(n)[i] < gpus[n] \/ BundlesOf(n)[i] = CpuBundle
           /\ BundlesOf(n) \in Seq(Nat \cup {CpuBundle})
<1> DEFINE U == 0..(gpus[n] - 1)
           T == U \cup {CpuBundle}
           F == Filtered(GpuIds(n), UnitsUsed(n))
           E == StorageBundle(n)
           B == BundlesOf(n)
<1>1. gpus[n] \in Nat /\ GpuIds(n) \in Seq(U)
      BY GpuIdsAre
<1>2. \A i, j \in 1..Len(GpuIds(n)) : GpuIds(n)[i] = GpuIds(n)[j] => i = j
      BY GpuIdsAre
<1>3. F \in Seq(U)
  <2> HIDE DEF U
  <2> QED BY ONLY <1>1, <1>2, FilteredHolds
<1>4. E \in Seq(T)
  <2>1. CpuBundle \in T
        OBVIOUS
  <2> HIDE DEF T
  <2>2. <<CpuBundle>> \in Seq(T) /\ <<>> \in Seq(T)
        BY <2>1, OneOrNone
  <2> QED BY <2>2 DEF StorageBundle
<1>5. B = F \o E
      BY DEF BundlesOf
<1>6. \A x \in T : x < gpus[n] \/ x = CpuBundle
      BY <1>1
<1>7. T \subseteq Nat \cup {CpuBundle}
      OBVIOUS
<1> HIDE DEF F, E, B, U
<1>8. F \in Seq(T)
  <2>1. U \subseteq T
        OBVIOUS
  <2> HIDE DEF T
  <2> QED BY <1>3, <2>1, Wider
<1> HIDE DEF T
<1>9. B \in Seq(T)
      BY ONLY <1>4, <1>5, <1>8, JoinedParts
<1>10. \A i \in DOMAIN B : B[i] \in T
      BY <1>9
<1>11. \A i \in DOMAIN B : B[i] < gpus[n] \/ B[i] = CpuBundle
      BY <1>6, <1>10
<1>12. B \in Seq(Nat \cup {CpuBundle})
      BY <1>7, <1>9, Wider
<1> QED BY <1>9, <1>11, <1>12 DEF B, T, U

\* Without buffer workers on GPUs, a node's bundles are the units up to its last one.
LEMMA BundlesFilled ==
    ASSUME Steady, Used, request.storageGpus = 0, NEW k \in 1..Rounds,
           \A c \in GpuComponents : placed[c] = PlacedBy(c, k - 1)
    PROVE  LET n == PackingOrder[k]
           IN  \A c \in GpuComponents : \A u \in slice[n][c] :
                   u + 1 \in DOMAIN BundlesOf(n) /\ BundlesOf(n)[u + 1] = u
<1> DEFINE n == PackingOrder[k]
<1>1. n \in Nodes /\ Chosen /\ InLine(n)
      BY ThePackingOrder DEF Steady
<1>2. gpus[n] \in Nat
      BY <1>1, InputTypes
<1>3. \A c \in GpuComponents : Packable(n, c) = Takes(c, k) /\ Takes(c, k) = Cardinality(slice[n][c]) * Fits(c)
      BY TakesIs, EveryUnit DEF Takes
<1>4. ASSUME NEW u PROVE u \in UnitsUsed(n) <=> \E c \in GpuComponents : u \in slice[n][c]
  <2>1. u \in UnitsUsed(n) <=> \E c \in GpuComponents : u \in Range(Packed(n, c))
        BY DEF UnitsUsed
  <2>2. ASSUME NEW c \in GpuComponents PROVE u \in Range(Packed(n, c)) <=> u \in slice[n][c]
    <3>1. u \in Range(Packed(n, c)) <=> \E i \in 1..Takes(c, k) : UnitOf(n, c, i) = u
          BY <1>3 DEF Packed, Range
    <3>2. \A i \in 1..Takes(c, k) : UnitOf(n, c, i) \in slice[n][c]
          BY TakesIs
    <3>3. \A v \in slice[n][c] : \E i \in 1..Takes(c, k) : UnitOf(n, c, i) = v
          BY <1>3, EveryUnit
    <3> QED BY <3>1, <3>2, <3>3
  <2> QED BY <2>1, <2>2
<1>5. PICK m \in Nat : m <= gpus[n] /\ \A u \in Nat : u < m <=> \E c \in GpuComponents : u \in slice[n][c]
      BY <1>1, FromFirst
<1> DEFINE list == GpuIds(n)
           used == UnitsUsed(n)
           F == Filtered(list, used)
           U == 0..(gpus[n] - 1)
           E == StorageBundle(n)
           B == BundlesOf(n)
<1>6. list \in Seq(U) /\ Len(list) = gpus[n] /\ \A i \in 1..gpus[n] : list[i] = i - 1
      BY <1>1, GpuIdsAre
<1>7. \A i \in 1..Len(list) : list[i] \in used <=> i \in (0 + 1)..(0 + m)
  <2> SUFFICES ASSUME NEW i \in 1..gpus[n] PROVE list[i] \in used <=> i \in (0 + 1)..(0 + m)
      BY <1>6
  <2>1. list[i] = i - 1 /\ i - 1 \in Nat
        BY <1>2, <1>6
  <2>2. i - 1 < m <=> i \in (0 + 1)..(0 + m)
        BY <1>2, <1>5
  <2>3. i - 1 < m <=> i - 1 \in used
        BY <1>4, <1>5, <2>1
  <2> HIDE DEF list, used
  <2> QED BY <2>1, <2>2, <2>3
<1>8. 0 \in Nat /\ 0 + m <= Len(list)
      BY <1>5, <1>6
<1> HIDE DEF list, used, U
<1>9. F \in Seq(U) /\ Len(F) = m /\ \A i \in 1..m : F[i] = list[i]
  <2>1. m <= Len(list) /\ m \in Nat /\ list \in Seq(U)
        BY <1>5, <1>6
  <2>2. \A i \in 1..Len(list) : list[i] \in used <=> i <= m
        BY <1>5, <1>6, <1>7
  <2>3. F \in Seq(U) /\ Len(F) = m /\ \A i \in 1..m : F[i] = list[i]
        BY ONLY <2>1, <2>2, FilteredFirst DEF F
  <2> QED BY <2>3
<1>10. E \in Seq(U \cup {CpuBundle}) /\ B = F \o E
  <2>1. CpuBundle \in U \cup {CpuBundle}
        OBVIOUS
  <2> DEFINE T == U \cup {CpuBundle}
  <2> HIDE DEF T
  <2>2. <<CpuBundle>> \in Seq(T) /\ <<>> \in Seq(T)
        BY <2>1, OneOrNone DEF T
  <2>3. E \in Seq(T)
        BY <2>2 DEF StorageBundle
  <2> QED BY <2>3 DEF T, BundlesOf, list, used
<1> HIDE DEF F, E, B
<1> DEFINE T == U \cup {CpuBundle}
<1>11. F \in Seq(T) /\ E \in Seq(T)
      BY <1>9, <1>10, Wider
<1> HIDE DEF T
<1>12. F \o E \in Seq(T)
      BY ONLY <1>11, JoinedParts
<1>13. Len(F \o E) = Len(F) + Len(E)
      BY ONLY <1>11, JoinedParts
<1>14. \A i \in 1..Len(F) : (F \o E)[i] = F[i]
      BY ONLY <1>11, JoinedParts
<1>15. Len(E) \in Nat /\ DOMAIN B = 1..(m + Len(E))
      BY <1>9, <1>10, <1>11, <1>12, <1>13
<1>16. ASSUME NEW c \in GpuComponents, NEW u \in slice[n][c]
      PROVE  u + 1 \in DOMAIN B /\ B[u + 1] = u
  <2>1. u \in Nat
        BY <1>1, <1>2, SliceFacts
  <2>2. u < m
        BY <1>5, <2>1
  <2>3. u + 1 \in 1..m /\ u + 1 \in 1..gpus[n] /\ u + 1 \in DOMAIN B
        BY <1>2, <1>5, <1>15, <2>1, <2>2
  <2>4. B[u + 1] = list[u + 1] /\ (u + 1) - 1 = u
        BY <1>9, <1>10, <1>14, <2>1, <2>3
  <2> QED BY <1>6, <2>3, <2>4
<1> QED BY <1>16 DEF B

LEMMA ServiceSame ==
    ASSUME Steady, UNCHANGED <<inputVars, slice, pool>>
    PROVE  \A j \in Nat \ {0} : ServiceOf(j)' = ServiceOf(j) /\ (Serves(j)' <=> Serves(j))
<1>1. /\ PackingOrder' = PackingOrder
      /\ \A k \in Nat : PlacedBy("train", k)' = PlacedBy("train", k)
      BY PlacedSame DEF GpuComponents
<1>2. ASSUME NEW j \in Nat \ {0} PROVE ServiceOf(j)' = ServiceOf(j)
  <2>1. j \in Nat /\ j - 1 \in Nat
        OBVIOUS
  <2>2. PlacedBy("train", j)' = PlacedBy("train", j) /\ PlacedBy("train", j - 1)' = PlacedBy("train", j - 1)
        BY <1>1, <2>1
  <2> QED BY <1>1, <2>2 DEF ServiceOf
<1>3. \A j \in Nat : Serves(j)' <=> Serves(j)
      BY SameOrder
<1> QED BY <1>2, <1>3

\* The storage of the k-th round serves the train workers placed in that round.
LEMMA ServiceIs ==
    ASSUME Steady, NEW k \in 1..Rounds, placed["train"] = PlacedBy("train", k - 1)
    PROVE  /\ StorageFor(PackingOrder[k]) = ServiceOf(k)
           /\ ServiceOf(k) \in [node : Nodes, trainers : SUBSET Nat]
           /\ ServiceOf(k).node = PackingOrder[k]
           /\ ServiceOf(k).trainers \subseteq 1..PlacedBy("train", k)
<1>1. /\ Takes("train", k) \in Nat /\ PlacedBy("train", k - 1) \in Nat
      /\ PlacedBy("train", k) = PlacedBy("train", k - 1) + Takes("train", k)
      /\ Packable(PackingOrder[k], "train") = Takes("train", k)
      BY TakesIs DEF GpuComponents
<1>2. PackingOrder[k] \in Nodes
      BY ThePackingOrder
<1>3. StorageFor(PackingOrder[k]) = ServiceOf(k)
      BY <1>1 DEF StorageFor, ServiceOf
<1>4. (PlacedBy("train", k - 1) + 1)..PlacedBy("train", k) \subseteq 1..PlacedBy("train", k)
  <2> DEFINE a == PlacedBy("train", k - 1)
             b == PlacedBy("train", k)
  <2>1. a \in Nat /\ b \in Nat
        BY <1>1
  <2> HIDE DEF a, b
  <2>2. (a + 1)..b \subseteq 1..b
        BY <2>1
  <2> QED BY <2>2 DEF a, b
<1>5. (PlacedBy("train", k - 1) + 1)..PlacedBy("train", k) \in SUBSET Nat
      BY <1>4
<1> QED BY <1>2, <1>3, <1>4, <1>5 DEF ServiceOf

\* A list of storages that grows with the node of the k-th step.
LEMMA StoredStep ==
    ASSUME Inputs, Planned, Shapes, Pack, NEW K \in Nat \ {0}, K = node, Located(K - 1), Stored(K - 1),
           storage' = IF Serves(K) THEN Append(storage, StorageFor(PackingOrder[K])) ELSE storage
    PROVE  /\ Stored(K)'
           /\ storage' \in Seq([node : Nodes, trainers : SUBSET Nat])
           /\ \A i \in DOMAIN storage' : storage'[i].trainers \subseteq 1..placed'["train"]
<1> DEFINE Storage == [node : Nodes, trainers : SUBSET Nat]
           L == Len(storage)
<1>1. /\ Steady /\ K \in 1..Rounds /\ K - 1 \in 0..Rounds /\ UNCHANGED <<inputVars, slice, pool>>
      /\ placed' = [c \in GpuComponents |-> PlacedBy(c, K)]
      /\ placed["train"] = PlacedBy("train", K - 1)
      BY PackIs DEF Located, GpuComponents
<1>2. Rounds \in Nat /\ \A i, j \in 1..Rounds : PackingOrder[i] = PackingOrder[j] => i = j
      BY <1>1, ThePackingOrder
<1>3. /\ StorageFor(PackingOrder[K]) = ServiceOf(K) /\ ServiceOf(K) \in Storage
      /\ ServiceOf(K).node = PackingOrder[K]
      /\ ServiceOf(K).trainers \subseteq 1..PlacedBy("train", K)
      BY <1>1, ServiceIs
<1>4. /\ storage \in Seq(Storage)
      /\ \A i \in DOMAIN storage : storage[i].trainers \subseteq 1..placed["train"]
      BY DEF Shapes
<1>5. PackingOrder' = PackingOrder /\ \A j \in 1..K : ServiceOf(j)' = ServiceOf(j) /\ (Serves(j)' <=> Serves(j))
      BY <1>1, ServiceSame, PlacedSame
<1>6. /\ \A i \in 1..L : \E j \in 1..(K - 1) : Serves(j) /\ storage[i] = ServiceOf(j)
      /\ \A j \in 1..(K - 1) : Serves(j) => \E i \in 1..L : storage[i].node = PackingOrder[j]
      /\ \A i, l \in 1..L : storage[i].node = storage[l].node => i = l
  <2>1. DOMAIN storage = 1..L
        BY <1>4
  <2> QED BY <2>1 DEF Stored
<1>7. L \in Nat /\ DOMAIN storage = 1..L
      BY <1>4
<1>8. \A i \in 1..L : \E j \in 1..(K - 1) : storage[i].node = PackingOrder[j]
  <2>1. ASSUME NEW j PROVE ServiceOf(j).node = PackingOrder[j]
        BY DEF ServiceOf
  <2> SUFFICES ASSUME NEW i \in 1..L PROVE \E j \in 1..(K - 1) : storage[i].node = PackingOrder[j]
      OBVIOUS
  <2> HIDE DEF L
  <2>2. PICK j \in 1..(K - 1) : storage[i] = ServiceOf(j)
        BY <1>6
  <2>3. storage[i].node = PackingOrder[j]
        BY ONLY <2>1, <2>2
  <2> QED BY <2>3
<1>9. \A i \in 1..L : storage[i].node # PackingOrder[K]
  <2> SUFFICES ASSUME NEW i \in 1..L PROVE storage[i].node # PackingOrder[K]
      OBVIOUS
  <2>1. PICK j \in 1..(K - 1) : storage[i].node = PackingOrder[j]
        BY <1>8
  <2>2. j \in 1..Rounds /\ j # K
        BY <1>1, <1>2
  <2> QED BY <1>1, <1>2, <2>1, <2>2
<1>10. PlacedBy("train", K - 1) <= PlacedBy("train", K) /\ PlacedBy("train", K - 1) \in Nat /\ PlacedBy("train", K) \in Nat
      BY <1>1, <1>2, PlacedSteps DEF GpuComponents
<1>11. \A i \in 1..L : storage[i].trainers \subseteq 1..PlacedBy("train", K)
  <2>1. 1..PlacedBy("train", K - 1) \subseteq 1..PlacedBy("train", K)
        BY <1>10
  <2> QED BY <1>1, <1>4, <1>7, <2>1
<1>12. placed'["train"] = PlacedBy("train", K)
      BY <1>1 DEF GpuComponents
<1>13. \A j \in 1..K : j \in 1..(K - 1) \/ j = K
      BY <1>1, <1>2
<1>14. \A j \in 1..(K - 1) : j \in 1..K
      BY <1>1, <1>2
<1>15. K \in 1..K
      BY <1>1
<1> HIDE DEF Storage, L
<1>16. CASE Serves(K)
  <2> DEFINE s == ServiceOf(K)
  <2>1. storage' = Append(storage, s) /\ s \in Storage
        BY <1>3, <1>16
  <2> HIDE DEF s
  <2>2. /\ storage' \in Seq(Storage) /\ Len(storage') = L + 1 /\ DOMAIN storage' = 1..(L + 1)
        /\ \A i \in 1..L : storage'[i] = storage[i]
        /\ storage'[L + 1] = s
        BY <1>4, <1>7, <2>1 DEF L
  <2>3. \A i \in 1..(L + 1) : i \in 1..L \/ i = L + 1
        BY <1>7
  <2>4. L + 1 \in 1..(L + 1) /\ \A i \in 1..L : i \in 1..(L + 1)
        BY <1>7
  <2>5. s.node = PackingOrder[K] /\ s.trainers \subseteq 1..PlacedBy("train", K) /\ s = ServiceOf(K)
        BY <1>3 DEF s
  <2>6. \A i \in 1..(L + 1) : \E j \in 1..K : Serves(j) /\ storage'[i] = ServiceOf(j)
        BY <1>6, <1>14, <1>15, <1>16, <2>2, <2>3, <2>5
  <2>7. \A j \in 1..K : Serves(j) => \E i \in 1..(L + 1) : storage'[i].node = PackingOrder[j]
        BY <1>6, <1>13, <2>2, <2>4, <2>5
  <2>8. \A i, l \in 1..(L + 1) : storage'[i].node = storage'[l].node => i = l
    <3> SUFFICES ASSUME NEW i \in 1..(L + 1), NEW l \in 1..(L + 1), storage'[i].node = storage'[l].node
                 PROVE  i = l
        OBVIOUS
    <3>1. CASE i \in 1..L /\ l \in 1..L
          BY <1>6, <2>2, <3>1
    <3>2. CASE i = L + 1 /\ l = L + 1
          BY <3>2
    <3>3. CASE i \in 1..L /\ l = L + 1
      <4>1. storage[i].node = PackingOrder[K]
            BY <2>2, <2>5, <3>3
      <4> QED BY <1>9, <3>3, <4>1
    <3>4. CASE i = L + 1 /\ l \in 1..L
      <4>1. storage[l].node = PackingOrder[K]
            BY <2>2, <2>5, <3>4
      <4> QED BY <1>9, <3>4, <4>1
    <3> QED BY <2>3, <3>1, <3>2, <3>3, <3>4
  <2>9. \A i \in 1..(L + 1) : storage'[i].trainers \subseteq 1..PlacedBy("train", K)
        BY <1>11, <2>2, <2>3, <2>5
  <2>10. Stored(K)'
    <3>1. \A i \in DOMAIN storage' : \E j \in 1..K : Serves(j)' /\ storage'[i] = ServiceOf(j)'
          BY <1>5, <2>2, <2>6
    <3>2. \A j \in 1..K : Serves(j)' => \E i \in DOMAIN storage' : storage'[i].node = PackingOrder'[j]
          BY <1>5, <2>2, <2>7
    <3>3. \A i, l \in DOMAIN storage' : storage'[i].node = storage'[l].node => i = l
          BY <2>2, <2>8
    <3> QED BY <3>1, <3>2, <3>3 DEF Stored
  <2> QED BY <1>12, <2>2, <2>9, <2>10 DEF Storage
<1>17. CASE ~Serves(K)
  <2>1. storage' = storage
        BY <1>17
  <2>2. \A i \in 1..L : \E j \in 1..K : Serves(j) /\ storage'[i] = ServiceOf(j)
        BY <1>6, <1>14, <2>1
  <2>3. \A j \in 1..K : Serves(j) => \E i \in 1..L : storage'[i].node = PackingOrder[j]
        BY <1>6, <1>13, <1>17, <2>1
  <2>4. DOMAIN storage' = 1..L
        BY <1>7, <2>1
  <2>5. Stored(K)'
    <3>1. \A i \in DOMAIN storage' : \E j \in 1..K : Serves(j)' /\ storage'[i] = ServiceOf(j)'
          BY <1>5, <2>4, <2>2
    <3>2. \A j \in 1..K : Serves(j)' => \E i \in DOMAIN storage' : storage'[i].node = PackingOrder'[j]
          BY <1>5, <2>4, <2>3
    <3>3. \A i, l \in DOMAIN storage' : storage'[i].node = storage'[l].node => i = l
          BY <1>6, <2>1, <2>4
    <3> QED BY <3>1, <3>2, <3>3 DEF Stored
  <2>6. \A i \in DOMAIN storage' : storage'[i].trainers \subseteq 1..placed'["train"]
        BY <1>11, <1>12, <2>1, <2>4
  <2>7. storage' \in Seq(Storage)
        BY <1>4, <2>1
  <2> QED BY <2>5, <2>6, <2>7 DEF Storage
<1> QED BY <1>16, <1>17

\* What packing aims at follows from the plan.
LEMMA PlanSame ==
    ASSUME Steady, UNCHANGED <<inputVars, slice, pool>>
    PROVE  /\ AsSaved' <=> AsSaved
           /\ AllPlaced' <=> AllPlaced
           /\ Filled(Rounds)' <=> Filled(Rounds)
           /\ \A k \in 0..Rounds : Filled(k)' <=> Filled(k)
<1>1. /\ Rounds' = Rounds /\ PackingOrder' = PackingOrder
      /\ \A c \in GpuComponents, k \in Nat : PlacedBy(c, k)' = PlacedBy(c, k)
      /\ \A c \in GpuComponents, j \in 1..Rounds, i \in Nat :
            UnitOf(PackingOrder[j], c, i)' = UnitOf(PackingOrder[j], c, i)
      BY PlacedSame
<1>2. Rounds \in Nat
      BY ThePackingOrder
<1>3. /\ \A j \in Nat : Serves(j)' <=> Serves(j)
      /\ \A c \in GpuComponents : Tracked(c)' <=> Tracked(c)
      BY SameOrder
<1>4. planned' = planned /\ request' = request
      BY DEF inputVars, runVars
<1>5. \A j \in 1..Rounds : j \in Nat /\ j - 1 \in Nat
      BY <1>2
<1>6. \A j \in 1..Rounds, c \in GpuComponents :
         PlacedBy(c, j)' = PlacedBy(c, j) /\ PlacedBy(c, j - 1)' = PlacedBy(c, j - 1)
      BY <1>1, <1>5
<1>7. \A c \in GpuComponents : PlacedBy(c, Rounds)' = PlacedBy(c, Rounds)
  <2> SUFFICES ASSUME NEW c \in GpuComponents PROVE PlacedBy(c, Rounds)' = PlacedBy(c, Rounds)
      OBVIOUS
  <2>1. slice' = slice /\ request' = request
        BY DEF inputVars
  <2>2. GivenUnits(c, Rounds)' = GivenUnits(c, Rounds)
        BY <1>1, <2>1 DEF GivenUnits, Fan
  <2>3. Given(c, Rounds)' = Given(c, Rounds)
        BY <2>2 DEF Given
  <2>4. Fits(c)' = Fits(c)
        BY <2>1 DEF Fits
  <2> QED BY <2>1, <2>3, <2>4 DEF PlacedBy
<1>8. ASSUME NEW k \in 0..Rounds PROVE Filled(k)' <=> Filled(k)
  <2>1. \A j \in 1..k : j \in 1..Rounds
        BY <1>2
  <2>2. \A j \in 1..k : (Serves(j)' <=> Serves(j)) /\ PlacedBy("train", j)' = PlacedBy("train", j)
                           /\ PlacedBy("train", j - 1)' = PlacedBy("train", j - 1)
        BY <1>3, <1>5, <1>6, <2>1 DEF GpuComponents
  <2> QED BY <2>2 DEF Filled
<1>9. Filled(Rounds)' <=> Filled(Rounds)
  <2>1. \A j \in 1..Rounds : (Serves(j)' <=> Serves(j)) /\ PlacedBy("train", j)' = PlacedBy("train", j)
                           /\ PlacedBy("train", j - 1)' = PlacedBy("train", j - 1)
        BY <1>3, <1>5, <1>6 DEF GpuComponents
  <2> QED BY <1>1, <2>1 DEF Filled
<1>10. AllPlaced' <=> AllPlaced
      BY <1>3, <1>4, <1>7 DEF AllPlaced
<1>11. AsSaved' <=> AsSaved
  <2>1. \A c \in GpuComponents : \A j \in 1..Rounds : \A i \in 1..(PlacedBy(c, j) - PlacedBy(c, j - 1)) :
            UnitOf(PackingOrder[j], c, i)' = UnitOf(PackingOrder[j], c, i)
        BY <1>1
  <2> DEFINE Saved(c) ==
                 /\ Len(planned[c]) = PlacedBy(c, Rounds)
                 /\ \A j \in 1..Rounds : \A i \in 1..(PlacedBy(c, j) - PlacedBy(c, j - 1)) :
                        planned[c][PlacedBy(c, j - 1) + i] = <<j, UnitOf(PackingOrder[j], c, i)>>
  <2>2. ASSUME NEW c \in GpuComponents PROVE Saved(c)' <=> Saved(c)
    <3>1. (Len(planned[c]) = PlacedBy(c, Rounds))' <=> Len(planned[c]) = PlacedBy(c, Rounds)
          BY <1>4, <1>7
    <3> DEFINE Row(j) == \A i \in 1..(PlacedBy(c, j) - PlacedBy(c, j - 1)) :
                             planned[c][PlacedBy(c, j - 1) + i] = <<j, UnitOf(PackingOrder[j], c, i)>>
    <3>2. ASSUME NEW j \in 1..Rounds PROVE Row(j)' <=> Row(j)
          BY <1>4, <1>6, <2>1
    <3> HIDE DEF Row
    <3>3. (\A j \in 1..Rounds : Row(j))' <=> \A j \in 1..Rounds : Row(j)
          BY <1>1, <3>2
    <3> QED BY <3>1, <3>3 DEF Row
  <2>3. AsSaved <=> /\ planned \in [GpuComponents -> Seq(Nat \X Nat)]
                    /\ \A c \in GpuComponents : Saved(c)
        BY DEF AsSaved
  <2>4. AsSaved' <=> /\ planned' \in [GpuComponents -> Seq(Nat \X Nat)]
                     /\ \A c \in GpuComponents : Saved(c)'
        BY DEF AsSaved
  <2> HIDE DEF Saved
  <2> QED BY <1>4, <2>2, <2>3, <2>4
<1> QED BY <1>8, <1>9, <1>10, <1>11

\* The bundles of the packed nodes, one more with every step.
LEMMA BundledStep ==
    ASSUME Inputs, Planned, Shapes, Pack, Used, NEW K \in Nat \ {0}, K = node, Located(K - 1), Bundled(K - 1)
    PROVE  /\ Bundled(K)'
           /\ bundles' \in [Nodes -> Seq(Nat \cup {CpuBundle})]
           /\ \A n \in Nodes : \A i \in DOMAIN bundles'[n] : bundles'[n][i] < gpus[n] \/ bundles'[n][i] = CpuBundle
<1> DEFINE N == PackingOrder[K]
<1>1. /\ Steady /\ K \in 1..Rounds /\ N \in Nodes
      /\ UNCHANGED <<inputVars, slice, pool>>
      BY PackIs
<1>2. bundles' = [bundles EXCEPT ![N] = BundlesOf(N)]
      BY DEF Pack, BundlesOf, GpuIds, StorageBundle
<1>3. /\ bundles \in [Nodes -> Seq(Nat \cup {CpuBundle})]
      /\ \A n \in Nodes : \A i \in DOMAIN bundles[n] : bundles[n][i] < gpus[n] \/ bundles[n][i] = CpuBundle
      BY DEF Shapes
<1>4. /\ BundlesOf(N) \in Seq(Nat \cup {CpuBundle})
      /\ \A i \in DOMAIN BundlesOf(N) : BundlesOf(N)[i] < gpus[N] \/ BundlesOf(N)[i] = CpuBundle
      BY <1>1, BundlesShape DEF Steady
<1>5. Rounds \in Nat /\ \A i, j \in 1..Rounds : PackingOrder[i] = PackingOrder[j] => i = j
      BY <1>1, ThePackingOrder
<1>6. \A i \in 1..Rounds : PackingOrder[i] \in Nodes
      BY <1>1, ThePackingOrder
<1>7. PackingOrder' = PackingOrder /\ slice' = slice /\ request' = request
      BY <1>1, SameOrder DEF inputVars
<1>8. \A c \in GpuComponents : placed[c] = PlacedBy(c, K - 1)
      BY DEF Located
<1>9. Bundled(K)'
  <2> SUFFICES ASSUME request.storageGpus = 0, NEW j \in 1..K, NEW c \in GpuComponents, NEW u \in slice[PackingOrder[j]][c]
               PROVE  u + 1 \in DOMAIN bundles'[PackingOrder[j]] /\ bundles'[PackingOrder[j]][u + 1] = u
      BY <1>7 DEF Bundled
  <2>1. CASE j = K
    <3>1. u + 1 \in DOMAIN BundlesOf(N) /\ BundlesOf(N)[u + 1] = u
          BY <1>1, <1>8, <2>1, BundlesFilled
    <3> QED BY <1>1, <1>2, <1>3, <2>1, <3>1
  <2>2. CASE j # K
    <3>1. j \in 1..Rounds /\ j \in 1..(K - 1)
          BY <1>1, <1>5, <2>2
    <3>2. PackingOrder[j] # N /\ PackingOrder[j] \in Nodes
          BY <1>1, <1>5, <1>6, <2>2, <3>1
    <3>3. u + 1 \in DOMAIN bundles[PackingOrder[j]] /\ bundles[PackingOrder[j]][u + 1] = u
          BY <3>1 DEF Bundled
    <3> QED BY <1>2, <1>3, <3>2, <3>3
  <2> QED BY <2>1, <2>2
<1> HIDE DEF N
<1> QED BY <1>1, <1>2, <1>3, <1>4, <1>9

LEMMA PackStep ==
    ASSUME PlacementInv, Pack
    PROVE  PlacementInv'
<1> DEFINE K == node
           N == PackingOrder[K]
<1>1. /\ Inputs /\ Planned /\ Planning /\ ByPhase /\ Packing /\ Shapes
      BY DEF PlacementInv
<1>2. phase = "pack"
      BY DEF Pack
<1>3. /\ Located(K - 1) /\ Stored(K - 1) /\ Bundled(K - 1) /\ Filled(K - 1)
      /\ Used /\ (mode = "auto" => UsedEvenly)
      /\ (mode = "manual" => AsSaved /\ Filled(Rounds) /\ AllPlaced)
  <2>1. PICK k \in 0..Rounds : node = k + 1 /\ Located(k) /\ Stored(k) /\ Bundled(k) /\ Filled(k)
        BY <1>1, <1>2 DEF Packing
  <2>2. Rounds \in Nat
        BY <1>1, GivenTogether, RoundsAre
  <2>3. k = K - 1
        BY <2>1, <2>2
  <2> QED BY <1>1, <1>2, <2>1, <2>3 DEF Packing
<1>4. /\ Steady /\ Chosen /\ K \in 1..Rounds /\ K - 1 \in 0..Rounds /\ N \in Nodes
      /\ UNCHANGED <<inputVars, planVars>> /\ UNCHANGED <<inputVars, slice, pool>>
      /\ placed' = [c \in GpuComponents |-> PlacedBy(c, K)]
      /\ Packable(N, "train") = Takes("train", K)
      BY <1>1, <1>3, PackIs, GivenTogether DEF GpuComponents
<1>5. Rounds \in Nat /\ K \in Nat \ {0} /\ Rounds' = Rounds
  <2>1. Rounds \in Nat /\ Rounds' = Rounds
        BY <1>4, ThePackingOrder, PlacedSame
  <2> QED BY <1>4, <2>1
<1>6. ASSUME NEW k \in Nat \ {0}, k = K
      PROVE  /\ Located(k)' /\ Bundled(k)'
             /\ placed' \in [GpuComponents -> Nat]
             /\ location' \in [GpuComponents -> Seq([node : Nodes, index : Nat])]
             /\ bundles' \in [Nodes -> Seq(Nat \cup {CpuBundle})]
             /\ \A n \in Nodes : \A i \in DOMAIN bundles'[n] : bundles'[n][i] < gpus[n] \/ bundles'[n][i] = CpuBundle
  <2>1. /\ Located(k)'
        /\ placed' \in [GpuComponents -> Nat]
        /\ location' \in [GpuComponents -> Seq([node : Nodes, index : Nat])]
        BY <1>1, <1>3, <1>6, LocatedStep
  <2>2. /\ Bundled(k)'
        /\ bundles' \in [Nodes -> Seq(Nat \cup {CpuBundle})]
        /\ \A n \in Nodes : \A i \in DOMAIN bundles'[n] : bundles'[n][i] < gpus[n] \/ bundles'[n][i] = CpuBundle
        BY <1>1, <1>3, <1>6, BundledStep
  <2> QED BY <2>1, <2>2
<1>7. (Used' <=> Used) /\ (UsedEvenly' <=> UsedEvenly)
      BY <1>4, <1>5, UsedSame
<1>8. /\ AsSaved' <=> AsSaved
      /\ AllPlaced' <=> AllPlaced
      /\ Filled(Rounds)' <=> Filled(Rounds)
      BY <1>4, PlanSame
<1>9. /\ phase' \in {"failed", "pack"} /\ node' \in Nat \ {0}
      /\ \/ /\ Serves(K) /\ Takes("train", K) = 0
            /\ phase' = "failed" /\ node' = 1 /\ storage' = storage
         \/ /\ Serves(K) => Takes("train", K) # 0
            /\ phase' = "pack" /\ node' = K + 1
            /\ storage' = IF Serves(K) THEN Append(storage, StorageFor(N)) ELSE storage
  <2>1. \/ /\ Serves(K) /\ Takes("train", K) = 0
           /\ phase' = "failed" /\ node' = 1 /\ storage' = storage
        \/ /\ Serves(K) => Takes("train", K) # 0
           /\ phase' = "pack" /\ node' = K + 1
           /\ storage' = IF Serves(K) THEN Append(storage, StorageFor(N)) ELSE storage
        BY <1>4 DEF Pack, Goto, Serves
  <2> QED BY <1>5, <2>1
<1>10. /\ Inputs' /\ Planned'
       /\ gpus' = gpus /\ request' = request /\ strategy' = strategy /\ mode' = mode /\ Nodes' = Nodes
      BY <1>1, <1>4, <1>9, PlanStays
<1>11. Planning' /\ ByPhase'
      BY <1>9 DEF Planning, ByPhase, PlanPhases
<1>12. PlacedBy("train", K) = PlacedBy("train", K - 1) + Takes("train", K) /\ Takes("train", K) \in Nat
       /\ PlacedBy("train", K - 1) \in Nat
      BY <1>4, TakesIs DEF GpuComponents
<1>13. CASE Serves(K) /\ Takes("train", K) = 0 /\ phase' = "failed" /\ node' = 1 /\ storage' = storage
  <2>1. mode = "auto"
    <3>1. mode # "manual"
      <4> SUFFICES ASSUME mode = "manual" PROVE FALSE
          OBVIOUS
      <4>1. PlacedBy("train", K - 1) < PlacedBy("train", K)
            BY <1>3, <1>4, <1>13 DEF Filled
      <4> QED BY <1>12, <1>13, <4>1
    <3> QED BY <1>1, <3>1 DEF Inputs
  <2>2. request.storageGpus > 0
    <3>1. request.storageGpus # 0
      <4> SUFFICES ASSUME request.storageGpus = 0 PROVE FALSE
          OBVIOUS
      <4>1. Takes("train", K) > 0
            BY <1>3, <1>4, <1>13, EveryUnit DEF Takes, Serves, GpuComponents
      <4> QED BY <1>13, <4>1
    <3>2. request.storageGpus \in Nat
          BY <1>4, InputTypes
    <3> QED BY <3>1, <3>2
  <2>3. RaisesOnlyIfUneven'
        BY <1>10, <2>1, <2>2 DEF RaisesOnlyIfUneven
  <2>4. Packing'
    <3>1. \A k \in Nat \ {0} : k = K => k \in 0..Rounds' /\ Located(k)'
          BY <1>4, <1>5, <1>6
    <3>2. \E k \in 0..Rounds' : Located(k)'
          BY <1>5, <3>1
    <3> QED BY <1>10, <1>13, <2>1, <3>2 DEF Packing, PlanPhases
  <2>5. Shapes'
    <3>1. storage \in Seq([node : Nodes, trainers : SUBSET Nat])
          /\ \A i \in DOMAIN storage : storage[i].trainers \subseteq 1..placed["train"]
          BY <1>1 DEF Shapes
    <3>2. placed["train"] = PlacedBy("train", K - 1) /\ placed'["train"] = PlacedBy("train", K)
          BY <1>3, <1>4 DEF Located, GpuComponents
    <3>3. 1..placed["train"] \subseteq 1..placed'["train"]
          BY <1>12, <1>13, <3>2
    <3>4. storage' \in Seq([node : Nodes, trainers : SUBSET Nat])
          /\ \A i \in DOMAIN storage' : storage'[i].trainers \subseteq 1..placed'["train"]
          BY <1>13, <3>1, <3>3
    <3>5. /\ placed' \in [GpuComponents -> Nat]
          /\ location' \in [GpuComponents -> Seq([node : Nodes, index : Nat])]
          /\ bundles' \in [Nodes -> Seq(Nat \cup {CpuBundle})]
          /\ \A n \in Nodes : \A i \in DOMAIN bundles'[n] : bundles'[n][i] < gpus[n] \/ bundles'[n][i] = CpuBundle
          BY <1>5, <1>6
    <3> QED BY <1>10, <1>13, <3>4, <3>5 DEF Shapes
  <2> QED BY <1>10, <1>11, <2>3, <2>4, <2>5 DEF PlacementInv
<1>14. CASE /\ Serves(K) => Takes("train", K) # 0
            /\ phase' = "pack" /\ node' = K + 1
            /\ storage' = IF Serves(K) THEN Append(storage, StorageFor(N)) ELSE storage
  <2>1. ASSUME NEW k \in Nat \ {0}, k = K
        PROVE  /\ Stored(k)'
               /\ storage' \in Seq([node : Nodes, trainers : SUBSET Nat])
               /\ \A i \in DOMAIN storage' : storage'[i].trainers \subseteq 1..placed'["train"]
        BY <1>1, <1>3, <1>14, <2>1, StoredStep
  <2>2. ASSUME NEW k \in Nat \ {0}, k = K PROVE Filled(k)'
    <3>1. Filled(k)
      <4> SUFFICES ASSUME NEW j \in 1..k, Serves(j) PROVE PlacedBy("train", j - 1) < PlacedBy("train", j)
          BY DEF Filled
      <4>1. CASE j = K
            BY <1>12, <1>14, <4>1
      <4>2. CASE j # K
        <5>1. j \in 1..(K - 1)
              BY <1>5, <2>2, <4>2
        <5> QED BY <1>3, <5>1 DEF Filled
      <4> QED BY <4>1, <4>2
    <3>2. k \in 0..Rounds
          BY <1>4, <1>5, <2>2
    <3> QED BY <1>4, <3>1, <3>2, PlanSame
  <2>3. RaisesOnlyIfUneven'
        BY <1>14 DEF RaisesOnlyIfUneven
  <2>4. Packing'
    <3>1. \A k \in Nat \ {0} : k = K =>
              k \in 0..Rounds' /\ Located(k)' /\ node' = k + 1 /\ Stored(k)' /\ Bundled(k)' /\ Filled(k)'
          BY <1>4, <1>5, <1>6, <1>14, <2>1, <2>2
    <3>2. \E k \in 0..Rounds' : Located(k)' /\ node' = k + 1 /\ Stored(k)' /\ Bundled(k)' /\ Filled(k)'
          BY <1>5, <3>1
    <3> QED BY <1>3, <1>7, <1>8, <1>10, <1>14, <3>2 DEF Packing, PlanPhases
  <2>5. Shapes'
    <3>1. /\ storage' \in Seq([node : Nodes, trainers : SUBSET Nat])
          /\ \A i \in DOMAIN storage' : storage'[i].trainers \subseteq 1..placed'["train"]
          BY <1>5, <2>1
    <3>2. /\ placed' \in [GpuComponents -> Nat]
          /\ location' \in [GpuComponents -> Seq([node : Nodes, index : Nat])]
          /\ bundles' \in [Nodes -> Seq(Nat \cup {CpuBundle})]
          /\ \A n \in Nodes : \A i \in DOMAIN bundles'[n] : bundles'[n][i] < gpus[n] \/ bundles'[n][i] = CpuBundle
          BY <1>5, <1>6
    <3> QED BY <1>10, <1>14, <3>1, <3>2 DEF Shapes
  <2> QED BY <1>10, <1>11, <2>3, <2>4, <2>5 DEF PlacementInv
<1> QED BY <1>9, <1>13, <1>14

\* What is packed stays packed.
LEMMA PackedSame ==
    ASSUME Steady, UNCHANGED <<inputVars, slice, pool>>, UNCHANGED packVars, NEW k \in 0..Rounds
    PROVE  (Located(k) => Located(k)') /\ (Stored(k) => Stored(k)') /\ (Bundled(k) => Bundled(k)')
<1>1. /\ Rounds' = Rounds /\ PackingOrder' = PackingOrder
      /\ \A c \in GpuComponents, j \in Nat : PlacedBy(c, j)' = PlacedBy(c, j)
      /\ \A c \in GpuComponents, j \in 1..Rounds, i \in Nat :
            UnitOf(PackingOrder[j], c, i)' = UnitOf(PackingOrder[j], c, i)
      BY PlacedSame
<1>2. Rounds \in Nat /\ k \in Nat /\ \A j \in 1..k : j \in 1..Rounds /\ j \in Nat /\ j - 1 \in Nat /\ j \in Nat \ {0}
      BY ThePackingOrder
<1>3. placed' = placed /\ location' = location /\ bundles' = bundles /\ storage' = storage
      BY DEF packVars
<1>4. slice' = slice /\ request' = request
      BY DEF inputVars
<1>5. \A c \in GpuComponents : PlacedBy(c, k)' = PlacedBy(c, k)
      BY <1>1, <1>2
<1>6. \A c \in GpuComponents, j \in 1..k : PlacedBy(c, j)' = PlacedBy(c, j) /\ PlacedBy(c, j - 1)' = PlacedBy(c, j - 1)
      BY <1>1, <1>2
<1>7. ASSUME Located(k) PROVE Located(k)'
  <2>1. \A c \in GpuComponents : placed'[c] = PlacedBy(c, k)' /\ Len(location'[c]) = placed'[c]
        BY <1>3, <1>5, <1>7 DEF Located
  <2>2. ASSUME NEW c \in GpuComponents, NEW j \in 1..k, NEW i \in 1..(PlacedBy(c, j)' - PlacedBy(c, j - 1)')
        PROVE  location'[c][PlacedBy(c, j - 1)' + i] =
                   [node |-> PackingOrder'[j], index |-> UnitOf(PackingOrder[j], c, i)']
    <3>1. i \in 1..(PlacedBy(c, j) - PlacedBy(c, j - 1)) /\ i \in Nat
          BY <1>6, <2>2
    <3>2. location[c][PlacedBy(c, j - 1) + i] =
              [node |-> PackingOrder[j], index |-> UnitOf(PackingOrder[j], c, i)]
          BY <1>7, <3>1 DEF Located
    <3>3. UnitOf(PackingOrder[j], c, i)' = UnitOf(PackingOrder[j], c, i)
          BY <1>1, <1>2, <3>1
    <3> QED BY <1>1, <1>3, <1>6, <3>2, <3>3
  <2> QED BY <2>1, <2>2 DEF Located
<1>8. ASSUME Stored(k) PROVE Stored(k)'
  <2>1. \A j \in 1..k : ServiceOf(j)' = ServiceOf(j) /\ (Serves(j)' <=> Serves(j))
        BY <1>2, ServiceSame
  <2>2. \A i \in DOMAIN storage' : \E j \in 1..k : Serves(j)' /\ storage'[i] = ServiceOf(j)'
        BY <1>3, <1>8, <2>1 DEF Stored
  <2>3. \A j \in 1..k : Serves(j)' => \E i \in DOMAIN storage' : storage'[i].node = PackingOrder'[j]
        BY <1>1, <1>3, <1>8, <2>1 DEF Stored
  <2>4. \A i, l \in DOMAIN storage' : storage'[i].node = storage'[l].node => i = l
        BY <1>3, <1>8 DEF Stored
  <2> QED BY <2>2, <2>3, <2>4 DEF Stored
<1>9. Bundled(k) => Bundled(k)'
      BY <1>1, <1>3, <1>4 DEF Bundled
<1> QED BY <1>7, <1>8, <1>9

LEMMA VerifyStep ==
    ASSUME PlacementInv, Verify
    PROVE  PlacementInv'
<1>1. /\ Inputs /\ Planned /\ Planning /\ ByPhase /\ Packing /\ Shapes
      BY DEF PlacementInv
<1>2. /\ phase = "pack" /\ node > Rounds
      /\ UNCHANGED <<inputVars, planVars, packVars>> /\ UNCHANGED <<inputVars, slice, pool>> /\ UNCHANGED packVars
      BY DEF Verify, Rounds, planVars
<1>3. Steady /\ Chosen /\ Rounds \in Nat /\ Rounds' = Rounds
      BY <1>1, <1>2, GivenTogether, RoundsAre, PlacedSame
<1>4. /\ Located(Rounds) /\ Stored(Rounds) /\ Bundled(Rounds) /\ Filled(Rounds)
      /\ Used /\ (mode = "auto" => UsedEvenly)
      /\ (mode = "manual" => AsSaved /\ Filled(Rounds) /\ AllPlaced)
  <2>1. PICK k \in 0..Rounds : node = k + 1 /\ Located(k) /\ Stored(k) /\ Bundled(k) /\ Filled(k)
        BY <1>1, <1>2 DEF Packing
  <2>2. k = Rounds
        BY <1>2, <1>3, <2>1
  <2> QED BY <1>1, <1>2, <2>1, <2>2 DEF Packing
<1>5. ASSUME NEW k \in 0..Rounds, k = Rounds
      PROVE  k \in 0..Rounds' /\ Located(k)' /\ Stored(k)' /\ Bundled(k)' /\ Filled(k)'
  <2>1. Located(k) /\ Stored(k) /\ Bundled(k) /\ Filled(k)
        BY <1>4, <1>5
  <2>2. Located(k)' /\ Stored(k)' /\ Bundled(k)'
        BY <1>2, <1>3, <2>1, PackedSame
  <2>3. Filled(k)'
        BY <1>2, <1>3, <2>1, PlanSame
  <2> QED BY <1>3, <2>2, <2>3
<1>6. (Used' <=> Used) /\ (UsedEvenly' <=> UsedEvenly)
      BY <1>2, <1>3, UsedSame
<1>7. /\ AsSaved' <=> AsSaved
      /\ AllPlaced' <=> AllPlaced
      /\ Filled(Rounds)' <=> Filled(Rounds)
      BY <1>2, <1>3, PlanSame
<1>8. /\ phase' \in {"failed", "done"} /\ node' = 1
      /\ phase' = "done" <=> \A c \in GpuComponents : Tracked(c) => placed[c] = request.workers[c]
      BY DEF Verify, Goto
<1>9. /\ Inputs' /\ Planned'
      /\ gpus' = gpus /\ request' = request /\ strategy' = strategy /\ mode' = mode /\ Nodes' = Nodes
  <2>1. node' \in Nat \ {0}
        BY <1>8
  <2> QED BY <1>1, <1>2, <2>1, PlanKept
<1>10. Planning' /\ ByPhase'
      BY <1>8 DEF Planning, ByPhase, PlanPhases
<1>11. Shapes'
      BY <1>1, <1>2, <1>8, <1>9 DEF Shapes, packVars
<1>12. phase' = "done" <=> AllPlaced
      BY <1>4, <1>8 DEF AllPlaced, Located
<1>13. \E k \in 0..Rounds' : k = Rounds' /\ Located(k)' /\ Stored(k)' /\ Bundled(k)' /\ Filled(k)'
  <2>1. Rounds \in 0..Rounds
        BY <1>3
  <2>2. \E k \in 0..Rounds : k = Rounds
        BY <2>1
  <2> QED BY <1>3, <1>5, <2>2
<1>14. phase' = "failed" => mode = "auto"
      BY <1>1, <1>4, <1>12 DEF Inputs
<1>15. Packing'
      BY <1>4, <1>6, <1>7, <1>8, <1>9, <1>12, <1>13, <1>14 DEF Packing, PlanPhases
<1>16. RaisesOnlyIfUneven'
  <2>1. (StaleLimits' <=> StaleLimits) /\ \A c \in GpuComponents : Whole(c)' <=> Whole(c)
        BY <1>2, SameRequest
  <2> SUFFICES ASSUME phase' = "failed", ~(\E c \in GpuComponents : ~Whole(c)), ~(request.storageGpus > 0), ~StaleLimits
               PROVE  FALSE
      BY <1>9, <1>14, <2>1 DEF RaisesOnlyIfUneven
  <2>2. request.storageGpus = 0
    <3>1. request.storageGpus \in Nat
          BY <1>3, InputTypes
    <3> QED BY <3>1
  <2>3. PICK c \in GpuComponents : Tracked(c) /\ PlacedBy(c, Rounds) # request.workers[c]
        BY <1>12 DEF AllPlaced
  <2>4. Given(c, Rounds) > 0
        BY <1>3, <2>3, GivenAll
  <2>5. Given(c, Rounds) * Fits(c) = request.workers[c]
        BY <1>4, <1>14, <2>2, <2>4 DEF UsedEvenly
  <2>6. PlacedBy(c, Rounds) = request.workers[c]
        BY <2>5 DEF PlacedBy, Smaller
  <2> QED BY <2>3, <2>6
<1> QED BY <1>9, <1>10, <1>11, <1>15, <1>16 DEF PlacementInv
-----------------------------------------------------------------------------
(***************************************************************************)
(* Loading the pools: on nodes of one size, the k-th node in the order of  *)
(* the ids gets the slice and the pool of the k-th in the packing order.   *)
(***************************************************************************)
PoolSize(i) == Len(PoolNodes(PoolOrder[i]))

\* The pools follow each other, when nodes are counted as in the packing order.
LEMMA SavedNodesAre ==
    ASSUME Steady
    PROVE  /\ SavedNodes(0) = 0 /\ SavedNodes(3) = Rounds
           /\ \A i \in 1..3 : /\ PoolSize(i) \in Nat /\ SavedNodes(i - 1) \in Nat /\ SavedNodes(i) \in Nat
                              /\ SavedNodes(i) = SavedNodes(i - 1) + PoolSize(i)
                              /\ SavedNodes(i) <= Rounds
           /\ \A i \in 1..3 : \A m \in 1..PoolSize(i) :
                 PackingOrder[SavedNodes(i - 1) + m] = PoolNodes(PoolOrder[i])[m]
<1> DEFINE A == PoolNodes("train_pool")
           B == PoolNodes("rollout_pool")
           C == PoolNodes("global_pool")
           a == Len(A)
           b == Len(B)
           d == Len(C)
<1>1. PoolOrder[1] = "train_pool" /\ PoolOrder[2] = "rollout_pool" /\ PoolOrder[3] = "global_pool"
      BY DEF PoolOrder
<1>2. \A p : Lists(PoolNodes(p), InPool(p))
      BY PoolNodesAre DEF Steady
<1>3. A \in Seq(Nodes) /\ B \in Seq(Nodes) /\ C \in Seq(Nodes)
  <2>1. \A p : InPool(p) \subseteq Nodes
        BY DEF InPool
  <2>2. \A p : PoolNodes(p) \in Seq(InPool(p))
        BY <1>2 DEF Lists
  <2> QED BY <2>1, <2>2, Wider
<1>4. PoolSize(1) = a /\ PoolSize(2) = b /\ PoolSize(3) = d
      BY <1>1 DEF PoolSize
<1>5. PackingOrder = (A \o B) \o C
      BY DEF PackingOrder
<1> HIDE DEF A, B, C
<1>6. a \in Nat /\ b \in Nat /\ d \in Nat
      BY <1>3
<1> DEFINE f == [i \in 1..3 |-> IF i = 1 THEN a ELSE IF i = 2 THEN b ELSE d]
<1>7. \A i \in 1..3 : SavedPool(PoolOrder[i]).nodes = f[i]
      BY <1>1, <1>4 DEF SavedPool, PoolSize
<1>8. \A i \in 0..3 : SavedNodes(i) = Sum([j \in 1..i |-> f[j]])
  <2> SUFFICES ASSUME NEW i \in 0..3 PROVE SavedNodes(i) = Sum([j \in 1..i |-> f[j]])
      OBVIOUS
  <2>1. \A j \in 1..i : SavedPool(PoolOrder[j]).nodes = f[j]
        BY <1>7
  <2>2. [j \in 1..i |-> SavedPool(PoolOrder[j]).nodes] = [j \in 1..i |-> f[j]]
        BY <2>1
  <2> QED BY <2>2 DEF SavedNodes
<1>9. f[1] = a /\ f[2] = b /\ f[3] = d
      OBVIOUS
<1> HIDE DEF f
<1> DEFINE q(i) == [j \in 1..i |-> f[j]]
<1>10. \A i \in 0..3 : DOMAIN q(i) = 1..i /\ \A j \in 1..i : q(i)[j] = f[j]
      OBVIOUS
<1>11. \A i \in 0..3 : SavedNodes(i) = Sum(q(i))
      BY <1>8
<1> HIDE DEF q
<1>25. ASSUME NEW i \in 0..3
       PROVE  \E h : h[0] = 0 /\ (\A k \in 1..i : h[k] = h[k - 1] + q(i)[k]) /\ Sum(q(i)) = h[i]
  <2>1. DOMAIN q(i) = 1..i
        BY <1>10
  <2>2. i \in Nat
        OBVIOUS
  <2> QED BY <2>1, <2>2, SumSteps
<1>12. SavedNodes(0) = 0
  <2>1. PICK h : h[0] = 0 /\ Sum(q(0)) = h[0]
        BY <1>25, 0 \in 0..3
  <2> QED BY <1>11, <2>1
<1>13. SavedNodes(1) = a
  <2>1. PICK h : h[0] = 0 /\ (\A k \in 1..1 : h[k] = h[k - 1] + q(1)[k]) /\ Sum(q(1)) = h[1]
        BY <1>25, 1 \in 0..3
  <2>2. h[1] = h[0] + q(1)[1]
        BY <2>1, 1 \in 1..1, 1 - 1 = 0
  <2> QED BY <1>6, <1>9, <1>10, <1>11, <2>1, <2>2
<1>14. SavedNodes(2) = a + b
  <2>1. PICK h : h[0] = 0 /\ (\A k \in 1..2 : h[k] = h[k - 1] + q(2)[k]) /\ Sum(q(2)) = h[2]
        BY <1>25, 2 \in 0..3
  <2>2. h[1] = h[0] + q(2)[1] /\ h[2] = h[1] + q(2)[2]
        BY <2>1, 1 \in 1..2, 2 \in 1..2, 1 - 1 = 0, 2 - 1 = 1
  <2>3. q(2)[1] = a /\ q(2)[2] = b /\ SavedNodes(2) = Sum(q(2))
        BY <1>9, <1>10, <1>11, 2 \in 0..3, 1 \in 1..2, 2 \in 1..2
  <2> QED BY ONLY <1>6, <2>1, <2>2, <2>3
<1>15. SavedNodes(3) = a + b + d
  <2>1. PICK h : h[0] = 0 /\ (\A k \in 1..3 : h[k] = h[k - 1] + q(3)[k]) /\ Sum(q(3)) = h[3]
        BY <1>25, 3 \in 0..3
  <2>2. h[1] = h[0] + q(3)[1] /\ h[2] = h[1] + q(3)[2] /\ h[3] = h[2] + q(3)[3]
        BY <2>1, 1 \in 1..3, 2 \in 1..3, 3 \in 1..3, 1 - 1 = 0, 2 - 1 = 1, 3 - 1 = 2
  <2>3. q(3)[1] = a /\ q(3)[2] = b /\ q(3)[3] = d /\ SavedNodes(3) = Sum(q(3))
    <3>1. 3 \in 0..3 /\ 1 \in 1..3 /\ 2 \in 1..3 /\ 3 \in 1..3
          OBVIOUS
    <3>2. q(3)[1] = f[1] /\ q(3)[2] = f[2] /\ q(3)[3] = f[3]
          BY ONLY <1>10, <3>1
    <3>3. SavedNodes(3) = Sum(q(3))
          BY <1>11, <3>1
    <3> QED BY <1>9, <3>2, <3>3
  <2>4. h[1] = a
        BY ONLY <1>6, <2>1, <2>2, <2>3
  <2>5. h[2] = a + b
        BY ONLY <2>2, <2>3, <2>4
  <2>6. h[3] = a + b + d
        BY ONLY <2>2, <2>3, <2>5
  <2> QED BY ONLY <2>1, <2>3, <2>6
<1>16. A \o B \in Seq(Nodes) /\ Len(A \o B) = a + b /\ Len((A \o B) \o C) = (a + b) + d
  <2>1. A \o B \in Seq(Nodes)
        BY <1>3, JoinedParts
  <2>2. Len(A \o B) = a + b
        BY <1>3, JoinedParts
  <2>3. Len((A \o B) \o C) = Len(A \o B) + d
        BY <1>3, <2>1, JoinedParts
  <2> QED BY <2>1, <2>2, <2>3
<1>17. Rounds = a + b + d
      BY <1>5, <1>6, <1>16 DEF Rounds
<1>18. \A m \in 1..a : PackingOrder[0 + m] = A[m]
  <2> SUFFICES ASSUME NEW m \in 1..a PROVE PackingOrder[0 + m] = A[m]
      OBVIOUS
  <2>1. m \in 1..Len(A \o B) /\ 0 + m = m
        BY <1>6, <1>16
  <2>2. (A \o B)[m] = A[m]
        BY <1>3, JoinedParts
  <2>3. ((A \o B) \o C)[m] = (A \o B)[m]
        BY <1>3, <1>16, <2>1, JoinedParts
  <2> QED BY <1>5, <2>1, <2>2, <2>3
<1>19. \A m \in 1..b : PackingOrder[a + m] = B[m]
  <2> SUFFICES ASSUME NEW m \in 1..b PROVE PackingOrder[a + m] = B[m]
      OBVIOUS
  <2>1. a + m \in 1..Len(A \o B)
        BY <1>6, <1>16
  <2>2. (A \o B)[a + m] = B[m]
        BY <1>3, JoinedParts
  <2>3. ((A \o B) \o C)[a + m] = (A \o B)[a + m]
        BY <1>3, <1>16, <2>1, JoinedParts
  <2> QED BY <1>5, <2>2, <2>3
<1>20. \A m \in 1..d : PackingOrder[(a + b) + m] = C[m]
  <2> SUFFICES ASSUME NEW m \in 1..d PROVE PackingOrder[(a + b) + m] = C[m]
      OBVIOUS
  <2>1. ((A \o B) \o C)[Len(A \o B) + m] = C[m]
        BY <1>3, <1>16, JoinedParts
  <2> QED BY <1>5, <1>16, <2>1
<1> HIDE DEF a, b, d
<1>21. \A i \in 1..3 : i = 1 \/ i = 2 \/ i = 3
      OBVIOUS
<1>22. 1 - 1 = 0 /\ 2 - 1 = 1 /\ 3 - 1 = 2
      OBVIOUS
<1>23. \A i \in 1..3 : /\ PoolSize(i) \in Nat /\ SavedNodes(i - 1) \in Nat /\ SavedNodes(i) \in Nat
                       /\ SavedNodes(i) = SavedNodes(i - 1) + PoolSize(i)
                       /\ SavedNodes(i) <= Rounds
      BY <1>4, <1>6, <1>12, <1>13, <1>14, <1>15, <1>17, <1>21, <1>22 DEF a, b, d
<1>24. \A i \in 1..3 : \A m \in 1..PoolSize(i) :
          PackingOrder[SavedNodes(i - 1) + m] = PoolNodes(PoolOrder[i])[m]
  <2> SUFFICES ASSUME NEW i \in 1..3, NEW m \in 1..PoolSize(i)
               PROVE  PackingOrder[SavedNodes(i - 1) + m] = PoolNodes(PoolOrder[i])[m]
      OBVIOUS
  <2>1. CASE i = 1
    <3>1. PackingOrder[0 + m] = A[m] /\ SavedNodes(i - 1) = 0 /\ PoolNodes(PoolOrder[i]) = A
          BY <1>1, <1>4, <1>12, <1>18, <1>22, <2>1 DEF a, A
    <3> QED BY <3>1
  <2>2. CASE i = 2
    <3>1. PackingOrder[a + m] = B[m] /\ SavedNodes(i - 1) = a /\ PoolNodes(PoolOrder[i]) = B
          BY <1>1, <1>4, <1>13, <1>19, <1>22, <2>2 DEF b, B
    <3> QED BY <3>1
  <2>3. CASE i = 3
    <3>1. PackingOrder[(a + b) + m] = C[m] /\ SavedNodes(i - 1) = a + b /\ PoolNodes(PoolOrder[i]) = C
          BY <1>1, <1>4, <1>14, <1>20, <1>22, <2>3 DEF d, C
    <3> QED BY <3>1
  <2> QED BY <1>21, <2>1, <2>2, <2>3
<1> QED BY <1>12, <1>15, <1>17, <1>23, <1>24

\* The pool that the k-th node is in.
LEMMA PoolAtIs ==
    ASSUME Steady, NEW k \in Nat \ {0}
    PROVE  /\ PoolAt(k) \in 0..3
           /\ PoolAt(k) = 0 <=> k > Rounds
           /\ \A i \in 1..3 : PoolAt(k) = i <=> k \in (SavedNodes(i - 1) + 1)..SavedNodes(i)
<1> DEFINE n1 == SavedNodes(1)
           n2 == SavedNodes(2)
           n3 == SavedNodes(3)
           S == {i \in DOMAIN PoolOrder : k <= SavedNodes(i)}
<1>1. /\ SavedNodes(0) = 0 /\ n3 = Rounds
      /\ n1 \in Nat /\ n2 \in Nat /\ n3 \in Nat /\ n1 <= n2 /\ n2 <= n3
  <2>1. 1 \in 1..3 /\ 2 \in 1..3 /\ 3 \in 1..3 /\ 2 - 1 = 1 /\ 3 - 1 = 2
        OBVIOUS
  <2>2. PoolSize(2) \in Nat /\ PoolSize(3) \in Nat /\ n2 = n1 + PoolSize(2) /\ n3 = n2 + PoolSize(3)
        BY <2>1, SavedNodesAre
  <2>3. n1 \in Nat /\ n2 \in Nat /\ n3 \in Nat /\ SavedNodes(0) = 0 /\ n3 = Rounds
        BY <2>1, SavedNodesAre
  <2> QED BY <2>2, <2>3
<1>2. DOMAIN PoolOrder = 1..3
      BY DEF PoolOrder
<1>3. S = {i \in 1..3 : k <= SavedNodes(i)}
      BY <1>2
<1>4. PoolAt(k) = IF S # {} THEN Min(S) ELSE 0
      BY DEF PoolAt
<1> HIDE DEF n1, n2, n3, S
<1>5. (1 \in S <=> k <= n1) /\ (2 \in S <=> k <= n2) /\ (3 \in S <=> k <= n3) /\ S \subseteq 1..3
      BY <1>3 DEF n1, n2, n3
<1>6. \A i : S # {} /\ i \in S /\ (\A j \in S : i <= j) => Min(S) = i
  <2> SUFFICES ASSUME NEW i \in S, \A j \in S : i <= j PROVE Min(S) = i
      OBVIOUS
  <2>1. \A x \in S : (\A j \in S : x <= j) => x = i
        BY <1>5
  <2> QED BY <2>1 DEF Min
<1>7. PoolAt(k) = IF k <= n1 THEN 1 ELSE IF k <= n2 THEN 2 ELSE IF k <= n3 THEN 3 ELSE 0
  <2>1. CASE k <= n1
    <3>1. 1 \in S /\ \A j \in S : 1 <= j
          BY <1>5, <2>1
    <3> QED BY <1>4, <1>6, <2>1, <3>1
  <2>2. CASE ~(k <= n1) /\ k <= n2
    <3>1. 2 \in S /\ \A j \in S : 2 <= j
          BY <1>5, <2>2
    <3> QED BY <1>4, <1>6, <2>2, <3>1
  <2>3. CASE ~(k <= n1) /\ ~(k <= n2) /\ k <= n3
    <3>1. 3 \in S /\ \A j \in S : 3 <= j
          BY <1>5, <2>3
    <3> QED BY <1>4, <1>6, <2>3, <3>1
  <2>4. CASE ~(k <= n1) /\ ~(k <= n2) /\ ~(k <= n3)
    <3>1. S = {}
          BY <1>5, <2>4
    <3> QED BY <1>4, <2>4, <3>1
  <2> QED BY <2>1, <2>2, <2>3, <2>4
<1>8. \A i \in 1..3 : PoolAt(k) = i <=> k \in (SavedNodes(i - 1) + 1)..SavedNodes(i)
  <2>1. PoolAt(k) = 1 <=> k \in (0 + 1)..n1
        BY <1>1, <1>7
  <2>2. PoolAt(k) = 2 <=> k \in (n1 + 1)..n2
        BY <1>1, <1>7
  <2>3. PoolAt(k) = 3 <=> k \in (n2 + 1)..n3
        BY <1>1, <1>7
  <2>4. \A i \in 1..3 : i = 1 \/ i = 2 \/ i = 3
        OBVIOUS
  <2>5. 1 - 1 = 0 /\ 2 - 1 = 1 /\ 3 - 1 = 2
        OBVIOUS
  <2> QED BY <1>1, <2>1, <2>2, <2>3, <2>4, <2>5 DEF n1, n2, n3
<1>9. PoolAt(k) \in 0..3 /\ (PoolAt(k) = 0 <=> k > Rounds)
      BY <1>1, <1>7
<1> QED BY <1>8, <1>9

\* On nodes of g GPUs the m-th starts where the m - 1 before it end.
LEMMA OffsetIs ==
    ASSUME Chosen, NEW g \in Nat, \A n \in Nodes : gpus[n] = g,
           NEW nodes, NEW m \in Nat \ {0}, \A i \in 1..(m - 1) : nodes[i] \in Nodes
    PROVE  Offset(nodes, m) = (m - 1) * g
<1> DEFINE q == [i \in 1..(m - 1) |-> gpus[nodes[i]]]
           l == m - 1
<1>1. l \in Nat /\ DOMAIN q = 1..l /\ \A i \in 1..l : q[i] = g
      OBVIOUS
<1>2. Offset(nodes, m) = Sum(q)
      BY DEF Offset
<1> HIDE DEF q, l
<1>3. Sum(q) = l * g
      BY <1>1, SumOfEqual
<1> QED BY <1>2, <1>3 DEF l

LEMMA IndicesAre ==
    ASSUME NEW p, NEW c \in GpuComponents, NEW x
    PROVE  x \in SavedPool(p).indices[c] <=>
               \E j \in DOMAIN PoolNodes(p) : \E v \in slice[PoolNodes(p)[j]][c] : x = Offset(PoolNodes(p), j) + v
<1> DEFINE X == UNION {{Offset(PoolNodes(p), k) + u : u \in slice[PoolNodes(p)[k]][c]} : k \in DOMAIN PoolNodes(p)}
<1>1. SavedPool(p).indices[c] = X
      BY DEF SavedPool
<1>2. x \in X <=> \E j \in DOMAIN PoolNodes(p) : \E v \in slice[PoolNodes(p)[j]][c] : x = Offset(PoolNodes(p), j) + v
      OBVIOUS
<1> QED BY <1>1, <1>2

LEMMA SliceType ==
    ASSUME Steady, NEW n \in Nodes
    PROVE  slice[n] \in [GpuComponents -> SUBSET Nat]
<1>1. PICK t \in Nat, e \in Nat, v \in Nat : slice[n] = Laid(t, e, v)
      BY DEF Steady, InLine
<1>2. Laid(t, e, v) \in [GpuComponents -> SUBSET Nat]
      BY LaidIs DEF Steady
<1> QED BY <1>1, <1>2

\* Where the k-th node stands in its pool.
LEMMA PlaceInPool ==
    ASSUME Steady, NEW k \in 1..Rounds
    PROVE  \E i \in 1..3 : \E m \in 1..PoolSize(i) :
               /\ PoolAt(k) = i /\ k = SavedNodes(i - 1) + m
               /\ SavedNodes(i - 1) \in Nat /\ PoolSize(i) \in Nat
               /\ PackingOrder[k] = PoolNodes(PoolOrder[i])[m]
<1> DEFINE i == PoolAt(k)
           S == SavedNodes(i - 1)
           m == k - S
<1>1. Rounds \in Nat
      BY ThePackingOrder
<1>2. k \in Nat \ {0}
      OBVIOUS
<1>3. i \in 1..3 /\ k \in (SavedNodes(i - 1) + 1)..SavedNodes(i)
  <2>1. PoolAt(k) \in 0..3 /\ PoolAt(k) # 0
        BY <1>1, <1>2, PoolAtIs
  <2>2. \A j \in 1..3 : PoolAt(k) = j => k \in (SavedNodes(j - 1) + 1)..SavedNodes(j)
        BY <1>2, PoolAtIs
  <2> QED BY <2>1, <2>2
<1>4. PoolSize(i) \in Nat /\ S \in Nat /\ SavedNodes(i) = S + PoolSize(i)
      BY <1>3, SavedNodesAre
<1>5. m \in 1..PoolSize(i) /\ k = S + m
      BY <1>3, <1>4
<1>6. PackingOrder[S + m] = PoolNodes(PoolOrder[i])[m]
      BY <1>3, <1>5, SavedNodesAre
<1> HIDE DEF m, S, i
<1>7. PoolAt(k) = i /\ S = SavedNodes(i - 1)
      BY DEF i, S
<1> QED BY <1>3, <1>4, <1>5, <1>6, <1>7 DEF S

\* On equal nodes the k-th node is given again what the k-th in packing order had.
LEMMA LoadedSliceIs ==
    ASSUME Steady, NEW g \in Nat, \A n \in Nodes : gpus[n] = g, NEW ids \in Orders, NEW k \in Nodes
    PROVE  /\ k <= Rounds => LoadedSlice(ids, k) = slice[PackingOrder[k]]
           /\ k > Rounds => LoadedSlice(ids, k) = Laid(0, 0, 0)
<1>1. /\ Chosen /\ Nodes = 1..Len(gpus) /\ Len(gpus) \in Nat /\ k \in Nat \ {0}
      BY InputTypes DEF Steady
<1>2. Rounds \in Nat /\ \A j \in 1..Rounds : PackingOrder[j] \in Nodes
      BY ThePackingOrder
<1>3. ids \in Seq(Nodes) /\ Len(ids) = Len(gpus) /\ \A j \in 1..Len(gpus) : ids[j] \in Nodes
  <2>1. Lists(ids, Nodes) /\ Len(ids) = Len(gpus)
        BY <1>1, EachOrder
  <2>2. ids \in Seq(Nodes)
        BY <2>1 DEF Lists
  <2> QED BY <2>1, <2>2
<1>4. ASSUME k > Rounds PROVE LoadedSlice(ids, k) = Laid(0, 0, 0)
  <2>1. PoolAt(k) = 0
        BY <1>1, <1>4, PoolAtIs
  <2>2. LoadedSlice(ids, k) = [c \in GpuComponents |-> {}]
        BY <2>1 DEF LoadedSlice
  <2> DEFINE f == [c \in GpuComponents |-> {}]
             h == Laid(0, 0, 0)
  <2>3. f \in [GpuComponents -> SUBSET Nat] /\ \A c \in GpuComponents : f[c] = {}
        OBVIOUS
  <2>4. h \in [GpuComponents -> SUBSET Nat] /\ \A c \in GpuComponents : h[c] = {}
        BY <1>1, LaidIs, NoneLaid
  <2> HIDE DEF f, h
  <2>5. f = h
        BY <2>3, <2>4
  <2> QED BY <2>2, <2>5 DEF f, h
<1>5. ASSUME k <= Rounds PROVE LoadedSlice(ids, k) = slice[PackingOrder[k]]
  <2>0. k \in 1..Rounds
        BY <1>1, <1>2, <1>5
  <2>15. PICK i \in 1..3 : \E m \in 1..PoolSize(i) :
            /\ PoolAt(k) = i /\ k = SavedNodes(i - 1) + m
            /\ SavedNodes(i - 1) \in Nat /\ PoolSize(i) \in Nat
            /\ PackingOrder[k] = PoolNodes(PoolOrder[i])[m]
        BY <2>0, PlaceInPool
  <2>1. PICK m \in 1..PoolSize(i) :
            /\ PoolAt(k) = i /\ k = SavedNodes(i - 1) + m
            /\ SavedNodes(i - 1) \in Nat /\ PoolSize(i) \in Nat
            /\ PackingOrder[k] = PoolNodes(PoolOrder[i])[m]
        BY <2>15
  <2> DEFINE S == SavedNodes(i - 1)
             PN == PoolNodes(PoolOrder[i])
             size == PoolSize(i)
             part == SubSeq(ids, S + 1, k)
             from == Offset(part, k - S)
  <2>2. PN \in Seq(Nodes) /\ Len(PN) = size
    <3>1. Lists(PN, InPool(PoolOrder[i]))
          BY PoolNodesAre DEF Steady
    <3>2. InPool(PoolOrder[i]) \subseteq Nodes
          BY DEF InPool
    <3>3. PN \in Seq(InPool(PoolOrder[i]))
          BY <3>1 DEF Lists
    <3> QED BY <3>2, <3>3, Wider DEF PoolSize
  <2>3. S \in Nat /\ size \in Nat /\ m \in Nat \ {0} /\ k = S + m /\ k - S = m /\ m <= size
        BY <2>1
  <2>4. k <= Len(gpus)
        BY <1>1
  <2> HIDE DEF PN, size
  <2>5. \A j \in 1..size : PN[j] \in Nodes /\ j \in Nat \ {0}
        BY <2>2, <2>3
  <2>6. \A j \in 1..size : Offset(PN, j) = (j - 1) * g
    <3> SUFFICES ASSUME NEW j \in 1..size PROVE Offset(PN, j) = (j - 1) * g
        OBVIOUS
    <3>1. j \in Nat \ {0} /\ \A l \in 1..(j - 1) : PN[l] \in Nodes
          BY <2>3, <2>5
    <3> QED BY <1>1, <3>1, OffsetIs
  <2>7. from = (m - 1) * g
    <3> HIDE DEF S
    <3>1. ASSUME NEW j \in 1..(m - 1) PROVE part[j] = ids[S + j] /\ S + j \in 1..Len(gpus)
      <4>1. j \in Nat /\ S + j \in 1..k /\ S + 1 <= k /\ j \in 1..(k - (S + 1) + 1)
            BY <2>3
      <4>2. k \in Nat /\ S + 1 \in 1..(Len(gpus)) /\ k \in 1..(Len(gpus)) /\ Len(gpus) \in Nat
            BY <1>1, <2>3, <2>4, <4>1
      <4>3. part[j] = ids[(S + 1) + j - 1]
            BY <1>3, <4>1, <4>2
      <4>4. (S + 1) + j - 1 = S + j /\ S + j <= Len(gpus)
            BY <2>3, <4>1, <4>2
      <4> QED BY <2>3, <4>1, <4>2, <4>3, <4>4
    <3>2. \A j \in 1..(m - 1) : part[j] \in Nodes
          BY <1>3, <3>1
    <3> HIDE DEF part
    <3>3. Offset(part, m) = (m - 1) * g
          BY <1>1, <2>3, <3>2, OffsetIs
    <3> QED BY <2>3, <3>3
  <2>8. gpus[ids[k]] = g
        BY <1>1, <1>3, <2>4
  <2>9. LoadedSlice(ids, k) =
            [c \in GpuComponents |-> {u \in 0..(gpus[ids[k]] - 1) : from + u \in SavedPool(PoolOrder[i]).indices[c]}]
        BY <2>1 DEF LoadedSlice
  <2> HIDE DEF from, part, S
  <2>10. ASSUME NEW c \in GpuComponents, NEW u \in 0..(g - 1)
         PROVE  from + u \in SavedPool(PoolOrder[i]).indices[c] <=> u \in slice[PN[m]][c]
    <3>1. from + u \in SavedPool(PoolOrder[i]).indices[c] <=>
              \E j \in DOMAIN PN : \E v \in slice[PN[j]][c] : from + u = Offset(PN, j) + v
          BY IndicesAre DEF PN
    <3>2. DOMAIN PN = 1..size
          BY <2>2
    <3>3. m \in 1..size /\ Offset(PN, m) = from
          BY <2>3, <2>6, <2>7
    <3>4. ASSUME NEW j \in 1..size, NEW v \in slice[PN[j]][c], from + u = Offset(PN, j) + v
          PROVE  u \in slice[PN[m]][c]
      <4>1. g \in Nat \ {0} /\ m - 1 \in Nat /\ j - 1 \in Nat
            BY <2>3, <2>5, <2>10
      <4>2. v \in 0..(g - 1)
        <5>1. PN[j] \in Nodes /\ gpus[PN[j]] = g
              BY <2>5
        <5> QED BY <5>1, SliceFacts
      <4>3. (m - 1) * g + u = (j - 1) * g + v
            BY <2>6, <2>7, <3>4
      <4>4. m - 1 = j - 1 /\ u = v
            BY <2>10, <4>1, <4>2, <4>3, OneQuotient
      <4>5. m = j
            BY <2>3, <2>5, <4>4
      <4> QED BY <4>4, <4>5
    <3> QED BY <3>1, <3>2, <3>3, <3>4
  <2>11. slice[PN[m]] \in [GpuComponents -> SUBSET Nat] /\ \A c \in GpuComponents : slice[PN[m]][c] \subseteq 0..(g - 1)
    <3>0. m \in 1..size
          BY <2>3
    <3>1. PN[m] \in Nodes /\ gpus[PN[m]] = g
          BY <2>5, <3>0
    <3> QED BY <3>1, SliceType, SliceFacts
  <2> DEFINE f == LoadedSlice(ids, k)
             h == slice[PN[m]]
  <2>12. \A c \in GpuComponents : f[c] = h[c]
    <3> SUFFICES ASSUME NEW c \in GpuComponents PROVE f[c] = h[c]
        OBVIOUS
    <3>1. f[c] = {u \in 0..(g - 1) : from + u \in SavedPool(PoolOrder[i]).indices[c]}
          BY <2>8, <2>9
    <3>2. h[c] \subseteq 0..(g - 1)
          BY <2>11
    <3> HIDE DEF f, h
    <3>3. \A u \in 0..(g - 1) : u \in f[c] <=> u \in h[c]
          BY <2>10, <3>1 DEF h
    <3>4. f[c] \subseteq 0..(g - 1)
          BY <3>1
    <3> QED BY <3>2, <3>3, <3>4
  <2>13. DOMAIN f = GpuComponents /\ DOMAIN h = GpuComponents /\ f = [c \in GpuComponents |-> f[c]] /\ h = [c \in GpuComponents |-> h[c]]
        BY <2>9, <2>11
  <2> HIDE DEF f, h
  <2>14. f = h
        BY <2>12, <2>13
  <2> QED BY <2>1, <2>14 DEF f, h, PN
<1> QED BY <1>4, <1>5

\* What the nodes get when the pools are loaded.
NamedPool(i) == IF i = 0 THEN "none" ELSE PoolOrder[i]

Loads(ids) ==
    /\ ids \in Orders /\ order' = ids
    /\ \A k \in Nodes : slice'[ids[k]] = LoadedSlice(ids, k) /\ pool'[ids[k]] = NamedPool(PoolAt(k))
    /\ \E f : slice' = [n \in Nodes |-> f[n]]
    /\ \E f : pool' = [n \in Nodes |-> f[n]]
    /\ UNCHANGED <<gpus, request, strategy>>

LEMMA ReloadIs ==
    ASSUME Steady, Reload, Homogeneous
    PROVE  \E ids \in Orders : Loads(ids) /\ phase' = "pack" /\ node' = 1
<1>1. Chosen /\ Nodes = 1..Len(gpus) /\ Len(gpus) \in Nat
      BY InputTypes DEF Steady
<1>2. PICK ids \in Orders :
          LET At(n) == CHOOSE k \in DOMAIN ids : ids[k] = n
          IN  /\ order' = ids
              /\ slice' = [n \in Nodes |-> LoadedSlice(ids, At(n))]
              /\ pool' = [n \in Nodes |->
                     IF PoolAt(At(n)) = 0 THEN "none" ELSE PoolOrder[PoolAt(At(n))]]
              /\ Goto("pack", 1)
      BY DEF Reload
<1> DEFINE At(n) == CHOOSE k \in DOMAIN ids : ids[k] = n
<1>3. /\ order' = ids /\ slice' = [n \in Nodes |-> LoadedSlice(ids, At(n))]
      /\ pool' = [n \in Nodes |-> NamedPool(PoolAt(At(n)))]
      /\ phase' = "pack" /\ node' = 1
      BY <1>2 DEF Goto, NamedPool
<1>4. \A k \in Nodes : At(ids[k]) = k /\ ids[k] \in Nodes
  <2>1. Lists(ids, Nodes) /\ Len(ids) = Len(gpus)
        BY <1>1, EachOrder
  <2>2. DOMAIN ids = Nodes /\ (\A k, j \in Nodes : ids[k] = ids[j] => k = j) /\ \A k \in Nodes : ids[k] \in Nodes
        BY <1>1, <2>1 DEF Lists, Orders
  <2> SUFFICES ASSUME NEW k \in Nodes PROVE At(ids[k]) = k
      BY <2>2
  <2>3. At(ids[k]) \in Nodes /\ ids[At(ids[k])] = ids[k]
        BY <2>2
  <2> HIDE DEF At
  <2> QED BY <2>2, <2>3
<1> HIDE DEF At
<1>5. \A k \in Nodes : slice'[ids[k]] = LoadedSlice(ids, k) /\ pool'[ids[k]] = NamedPool(PoolAt(k))
      BY <1>3, <1>4
<1>6. (\E f : slice' = [n \in Nodes |-> f[n]]) /\ (\E f : pool' = [n \in Nodes |-> f[n]])
  <2> DEFINE f == [n \in Nodes |-> LoadedSlice(ids, At(n))]
             h == [n \in Nodes |-> NamedPool(PoolAt(At(n)))]
  <2>1. slice' = f /\ f = [n \in Nodes |-> f[n]] /\ pool' = h /\ h = [n \in Nodes |-> h[n]]
        BY <1>3
  <2> HIDE DEF f, h
  <2>2. slice' = [n \in Nodes |-> f[n]] /\ pool' = [n \in Nodes |-> h[n]]
        BY <2>1
  <2> QED BY <2>2
<1>7. UNCHANGED <<gpus, request, strategy>>
      BY DEF Reload
<1> QED BY <1>2, <1>3, <1>5, <1>6, <1>7 DEF Loads

\* Every node of one size is given what its counterpart had.
Moved(ids) ==
    /\ \A k \in 1..Rounds : slice'[ids[k]] = slice[PackingOrder[k]]
    /\ \A k \in Nodes : k > Rounds => slice'[ids[k]] = Laid(0, 0, 0)
    /\ \A k \in Nodes, i \in 1..3 : pool'[ids[k]] = PoolOrder[i] <=> k \in (SavedNodes(i - 1) + 1)..SavedNodes(i)
    /\ \A k \in Nodes : pool'[ids[k]] \in PoolNames /\ (pool'[ids[k]] = "none" <=> k > Rounds)

LEMMA PoolsDiffer ==
    /\ \A i, j \in 1..3 : PoolOrder[i] = PoolOrder[j] => i = j
    /\ \A i \in 1..3 : PoolOrder[i] # "none" /\ PoolOrder[i] \in PoolNames
BY DEF PoolOrder, PoolNames

\* Loading moves what each node had to the node of the same place in the order.
LEMMA LoadsMoves ==
    ASSUME Steady, Homogeneous, NEW ids \in Orders, Loads(ids)
    PROVE  Moved(ids)
<1>1. /\ Chosen /\ Nodes = 1..Len(gpus) /\ Len(gpus) \in Nat
      /\ \A n \in Nodes : n \in Nat \ {0} /\ gpus[n] \in Nat
      BY InputTypes DEF Steady
<1>2. Rounds \in Nat /\ Rounds <= Len(gpus)
      BY ThePackingOrder
<1>3. \A k \in Nodes : slice'[ids[k]] = LoadedSlice(ids, k) /\ pool'[ids[k]] = NamedPool(PoolAt(k))
      BY DEF Loads
<1>4. ASSUME NEW k \in Nodes
      PROVE  /\ k <= Rounds => slice'[ids[k]] = slice[PackingOrder[k]]
             /\ k > Rounds => slice'[ids[k]] = Laid(0, 0, 0)
  <2> DEFINE g == gpus[k]
  <2>1. g \in Nat /\ \A n \in Nodes : gpus[n] = g
        BY <1>1 DEF Homogeneous
  <2> HIDE DEF g
  <2> QED BY <1>3, <2>1, LoadedSliceIs
<1>5. ASSUME NEW k \in Nodes
      PROVE  /\ \A i \in 1..3 : pool'[ids[k]] = PoolOrder[i] <=> k \in (SavedNodes(i - 1) + 1)..SavedNodes(i)
             /\ pool'[ids[k]] \in PoolNames /\ (pool'[ids[k]] = "none" <=> k > Rounds)
  <2>1. /\ PoolAt(k) \in 0..3 /\ (PoolAt(k) = 0 <=> k > Rounds)
        /\ \A i \in 1..3 : PoolAt(k) = i <=> k \in (SavedNodes(i - 1) + 1)..SavedNodes(i)
        BY <1>1, PoolAtIs
  <2> DEFINE i0 == PoolAt(k)
  <2>2. pool'[ids[k]] = NamedPool(i0)
        BY <1>3
  <2> HIDE DEF i0
  <2>3. i0 \in 0..3 => i0 = 0 \/ i0 \in 1..3
        OBVIOUS
  <2>4. i0 = PoolAt(k)
        BY DEF i0
  <2>5. NamedPool(i0) \in PoolNames /\ (NamedPool(i0) = "none" <=> i0 = 0)
        BY <2>1, <2>3, <2>4, PoolsDiffer DEF NamedPool, PoolNames
  <2>6. \A i \in 1..3 : NamedPool(i0) = PoolOrder[i] <=> i0 = i
        BY <2>1, <2>3, <2>4, PoolsDiffer DEF NamedPool
  <2> QED BY <2>1, <2>2, <2>4, <2>5, <2>6
<1>6. \A k \in 1..Rounds : k \in Nodes /\ k <= Rounds
      BY <1>1, <1>2
<1> QED BY <1>4, <1>5, <1>6 DEF Moved

\* The pools that are loaded are pools of a plan.
LEMMA LoadedInLine ==
    ASSUME Steady, Homogeneous, NEW ids \in Orders, Loads(ids)
    PROVE  /\ slice' \in [Nodes -> [GpuComponents -> SUBSET Nat]] /\ pool' \in [Nodes -> PoolNames]
           /\ \A n \in Nodes : InLine(n)' /\ (pool'[n] = "none" => slice'[n] = Laid(0, 0, 0)')
<1>1. /\ Chosen /\ Nodes = 1..Len(gpus) /\ Len(gpus) \in Nat
      /\ \A n \in Nodes : n \in Nat \ {0} /\ gpus[n] \in Nat
      BY InputTypes DEF Steady
<1>2. Rounds \in Nat /\ Rounds <= Len(gpus) /\ \A k \in 1..Rounds : PackingOrder[k] \in Nodes
      BY ThePackingOrder
<1>3. Moved(ids)
      BY LoadsMoves
<1>4. \A n \in Nodes : \E k \in Nodes : ids[k] = n
  <2>1. Lists(ids, Nodes) /\ Len(ids) = Len(gpus)
        BY <1>1, EachOrder
  <2> QED BY <1>1, <2>1 DEF Lists
<1>5. gpus' = gpus /\ strategy' = strategy
      BY DEF Loads
<1>6. Laid(0, 0, 0)' = Laid(0, 0, 0)
      BY <1>5, LaidSame
<1>7. ASSUME NEW n \in Nodes
      PROVE  /\ InLine(n)' /\ (pool'[n] = "none" => slice'[n] = Laid(0, 0, 0)')
             /\ slice'[n] \in [GpuComponents -> SUBSET Nat] /\ pool'[n] \in PoolNames
  <2>1. PICK k \in Nodes : ids[k] = n
        BY <1>4
  <2>2. pool'[n] \in PoolNames /\ (pool'[n] = "none" <=> k > Rounds)
        BY <1>3, <2>1 DEF Moved
  <2>3. CASE k > Rounds
    <3>1. slice'[n] = Laid(0, 0, 0)
          BY <1>3, <2>1, <2>3 DEF Moved
    <3>2. Base(0) = 0 /\ Second(0, 0) = 0 /\ gpus[n] \in Nat
          BY <1>1 DEF Base, Second
    <3>3. /\ slice'[n] = Laid(0, 0, 0)' /\ 0 <= gpus'[n]
          /\ Base(0)' + 0 <= gpus'[n] /\ Second(0, 0)' + 0 <= gpus'[n]
          BY <1>5, <1>6, <3>1, <3>2, LaidSame
    <3>4. InLine(n)'
          BY <3>3 DEF InLine
    <3>5. Laid(0, 0, 0) \in [GpuComponents -> SUBSET Nat]
          BY <1>1, LaidIs
    <3> QED BY <2>2, <3>1, <3>3, <3>4, <3>5
  <2>4. CASE ~(k > Rounds)
    <3>1. k \in 1..Rounds /\ PackingOrder[k] \in Nodes
          BY <1>1, <1>2, <2>4
    <3>2. slice'[n] = slice[PackingOrder[k]]
          BY <1>3, <2>1, <3>1 DEF Moved
    <3>3. gpus[PackingOrder[k]] = gpus[n]
          BY <3>1 DEF Homogeneous
    <3>4. PICK t \in Nat, e \in Nat, v \in Nat :
              /\ slice[PackingOrder[k]] = Laid(t, e, v)
              /\ t <= gpus[n] /\ Base(t) + e <= gpus[n] /\ Second(t, e) + v <= gpus[n]
          BY <3>1, <3>3 DEF Steady, InLine
    <3>5. /\ slice'[n] = Laid(t, e, v)' /\ t <= gpus'[n]
          /\ Base(t)' + e <= gpus'[n] /\ Second(t, e)' + v <= gpus'[n]
          BY <1>5, <3>2, <3>4, LaidSame
    <3>6. InLine(n)'
          BY <3>5 DEF InLine
    <3>7. slice[PackingOrder[k]] \in [GpuComponents -> SUBSET Nat]
          BY <3>1, SliceType
    <3> QED BY <2>2, <2>4, <3>2, <3>6, <3>7
  <2> QED BY <2>3, <2>4
<1>8. slice' \in [Nodes -> [GpuComponents -> SUBSET Nat]] /\ pool' \in [Nodes -> PoolNames]
  <2>1. PICK f : slice' = [n \in Nodes |-> f[n]]
        BY DEF Loads
  <2>2. PICK h : pool' = [n \in Nodes |-> h[n]]
        BY DEF Loads
  <2>3. \A n \in Nodes : f[n] \in [GpuComponents -> SUBSET Nat] /\ h[n] \in PoolNames
        BY <1>7, <2>1, <2>2
  <2> QED BY <2>1, <2>2, <2>3
<1> QED BY <1>7, <1>8

\* SavedNodesAre, of this state and of the next.
CountedThrough ==
    /\ SavedNodes(0) = 0 /\ SavedNodes(3) = Rounds
    /\ \A i \in 1..3 : SavedNodes(i) = SavedNodes(i - 1) + PoolSize(i)
    /\ \A i \in 1..3 : \A m \in 1..PoolSize(i) :
          PackingOrder[SavedNodes(i - 1) + m] = PoolNodes(PoolOrder[i])[m]

LEMMA SteadyCounts == Steady => CountedThrough
BY SavedNodesAre DEF CountedThrough

GivenIfTracked == \A c \in GpuComponents : Tracked(c) <=> Given(c, Rounds) > 0

LEMMA SteadyGives == Steady => GivenIfTracked
BY GivenAll DEF GivenIfTracked

\* The pools hold the nodes of the new order, in that order.
LEMMA LoadedPools ==
    ASSUME Steady, Homogeneous, NEW ids \in Orders, Loads(ids), NEW i \in 1..3
    PROVE  /\ PoolSize(i)' = PoolSize(i)
           /\ \A m \in 1..PoolSize(i) : PoolNodes(PoolOrder[i])'[m] = ids[SavedNodes(i - 1) + m]
<1>1. /\ Chosen /\ Nodes = 1..Len(gpus) /\ Len(gpus) \in Nat
      BY InputTypes DEF Steady
<1>2. ids \in Seq(Nodes) /\ Len(ids) = Len(gpus)
  <2>1. Lists(ids, Nodes) /\ Len(ids) = Len(gpus)
        BY <1>1, EachOrder
  <2> QED BY <2>1 DEF Lists
<1>3. Moved(ids)
      BY LoadsMoves
<1>4. Rounds \in Nat /\ Rounds <= Len(gpus)
      BY ThePackingOrder
<1> DEFINE a == SavedNodes(i - 1)
           l == PoolSize(i)
           set == {n \in Nodes : pool'[n] = PoolOrder[i]}
<1>5. a \in Nat /\ l \in Nat /\ a + l = SavedNodes(i) /\ a + l <= Rounds
      BY SavedNodesAre
<1>6. \A k \in 1..Len(ids) : ids[k] \in set <=> k \in (a + 1)..(a + l)
  <2> SUFFICES ASSUME NEW k \in Nodes PROVE ids[k] \in set <=> k \in (a + 1)..(a + l)
      BY <1>1, <1>2
  <2>1. pool'[ids[k]] = PoolOrder[i] <=> k \in (SavedNodes(i - 1) + 1)..SavedNodes(i)
        BY <1>3 DEF Moved
  <2>2. ids[k] \in Nodes
        BY <1>1, <1>2
  <2> QED BY <1>5, <2>1, <2>2
<1> HIDE DEF a, l, set
<1>7. InRow(ids, set, a, l)
      BY <1>2, <1>4, <1>5, <1>6 DEF InRow
<1>8. /\ Len(Filtered(ids, set)) = l
      /\ \A m \in 1..l : Filtered(ids, set)[m] = ids[a + m]
  <2>1. ids \in Seq(Nodes) /\ a \in Nat /\ l \in Nat /\ InRow(ids, set, a, l)
        BY <1>2, <1>5, <1>7
  <2> QED BY ONLY <2>1, FilteredInterval
<1>9. PoolNodes(PoolOrder[i])' = Filtered(ids, set)
  <2>1. order' = ids /\ gpus' = gpus
        BY DEF Loads
  <2> QED BY <2>1 DEF PoolNodes, set, Nodes, PoolOrder
<1>10. PoolSize(i)' = l
      BY <1>8, <1>9 DEF PoolSize, PoolOrder
<1> QED BY <1>8, <1>9, <1>10 DEF l, a

\* After loading, the packing order is that of the nodes in the file.
LEMMA LoadedOrder ==
    ASSUME Steady, Steady', Homogeneous, NEW ids \in Orders, Loads(ids)
    PROVE  Rounds' = Rounds /\ \A k \in 1..Rounds : PackingOrder'[k] = ids[k]
<1>1. /\ SavedNodes(0) = 0 /\ SavedNodes(3) = Rounds
      /\ \A i \in 1..3 : SavedNodes(i) = SavedNodes(i - 1) + PoolSize(i)
      BY SavedNodesAre
<1>2. CountedThrough'
  <2>1. (Steady => CountedThrough)'
        BY SteadyCounts, PTL
  <2> QED BY <2>1
<1>3. /\ SavedNodes(0)' = 0 /\ SavedNodes(3)' = Rounds'
      /\ \A i \in 1..3 : SavedNodes(i)' = SavedNodes(i - 1)' + PoolSize(i)'
      /\ \A i \in 1..3 : \A m \in 1..PoolSize(i)' :
            PackingOrder'[SavedNodes(i - 1)' + m] = PoolNodes(PoolOrder[i])'[m]
      BY <1>2 DEF CountedThrough
<1>4. \A i \in 1..3 : PoolSize(i)' = PoolSize(i)
      BY LoadedPools
<1>5. SavedNodes(1)' = SavedNodes(1) /\ SavedNodes(2)' = SavedNodes(2) /\ SavedNodes(3)' = SavedNodes(3)
  <2>1. 1 \in 1..3 /\ 2 \in 1..3 /\ 3 \in 1..3 /\ 1 - 1 = 0 /\ 2 - 1 = 1 /\ 3 - 1 = 2
        OBVIOUS
  <2>2. SavedNodes(1)' = SavedNodes(1)
        BY <1>1, <1>3, <1>4, <2>1
  <2>3. SavedNodes(2)' = SavedNodes(2)
        BY <1>1, <1>3, <1>4, <2>1, <2>2
  <2>4. SavedNodes(3)' = SavedNodes(3)
        BY <1>1, <1>3, <1>4, <2>1, <2>3
  <2> QED BY <2>2, <2>3, <2>4
<1>6. \A i \in 1..3 : SavedNodes(i - 1)' = SavedNodes(i - 1)
  <2>1. \A i \in 1..3 : i - 1 = 0 \/ i - 1 = 1 \/ i - 1 = 2
        OBVIOUS
  <2> QED BY <1>1, <1>3, <1>5, <2>1
<1>7. Rounds' = Rounds
      BY <1>1, <1>3, <1>5
<1>8. ASSUME NEW k \in 1..Rounds PROVE PackingOrder'[k] = ids[k]
  <2>1. PICK i \in 1..3 : \E m \in 1..PoolSize(i) : k = SavedNodes(i - 1) + m
        BY <1>8, PlaceInPool
  <2>2. PICK m \in 1..PoolSize(i) : k = SavedNodes(i - 1) + m
        BY <2>1
  <2>3. PackingOrder'[SavedNodes(i - 1) + m] = PoolNodes(PoolOrder[i])'[m]
        BY <1>3, <1>4, <1>6, <2>2
  <2>4. PoolNodes(PoolOrder[i])'[m] = ids[SavedNodes(i - 1) + m]
        BY <2>2, LoadedPools
  <2> QED BY <2>2, <2>3, <2>4
<1> QED BY <1>7, <1>8

\* What follows from the slices in packing order is as it was.
LEMMA LoadedSame ==
    ASSUME Steady, Steady', Homogeneous, NEW ids \in Orders, Loads(ids)
    PROVE  /\ Rounds' = Rounds
           /\ \A c \in GpuComponents, k \in 0..Rounds :
                 Given(c, k)' = Given(c, k) /\ PlacedBy(c, k)' = PlacedBy(c, k)
           /\ \A c \in GpuComponents :
                 Given(c, Rounds)' = Given(c, Rounds) /\ PlacedBy(c, Rounds)' = PlacedBy(c, Rounds)
           /\ \A c \in GpuComponents : Fits(c)' = Fits(c)
           /\ \A c \in GpuComponents, j \in 1..Rounds, i \in Nat :
                 UnitOf(PackingOrder[j], c, i)' = UnitOf(PackingOrder[j], c, i)
           /\ \A j \in 1..Rounds : Serves(j)' <=> Serves(j)
           /\ \A c \in GpuComponents : Tracked(c)' <=> Tracked(c)
<1>1. Rounds' = Rounds /\ \A k \in 1..Rounds : PackingOrder'[k] = ids[k]
      BY LoadedOrder
<1>2. Rounds \in Nat
      BY ThePackingOrder
<1>3. \A j \in 1..Rounds : slice'[PackingOrder'[j]] = slice[PackingOrder[j]]
      BY <1>1, LoadsMoves DEF Moved
<1>4. gpus' = gpus /\ strategy' = strategy /\ request' = request
      BY DEF Loads
<1>5. \A c \in GpuComponents : Fits(c)' = Fits(c)
      BY <1>4 DEF Fits
<1>6. ASSUME NEW c \in GpuComponents, NEW k \in 0..Rounds
      PROVE  Given(c, k)' = Given(c, k) /\ PlacedBy(c, k)' = PlacedBy(c, k)
  <2>1. \A j \in 1..k : slice'[PackingOrder'[j]][c] = slice[PackingOrder[j]][c]
        BY <1>2, <1>3
  <2>2. [j \in 1..k |-> slice'[PackingOrder'[j]][c]] = [j \in 1..k |-> slice[PackingOrder[j]][c]]
        BY <2>1
  <2>3. GivenUnits(c, k)' = GivenUnits(c, k)
        BY <2>2 DEF GivenUnits, Fan
  <2>4. Given(c, k)' = Given(c, k)
        BY <2>3 DEF Given
  <2> QED BY <1>4, <1>5, <2>4 DEF PlacedBy
<1>7. ASSUME NEW c \in GpuComponents
      PROVE  Given(c, Rounds)' = Given(c, Rounds) /\ PlacedBy(c, Rounds)' = PlacedBy(c, Rounds)
  <2>1. \A j \in 1..Rounds : slice'[PackingOrder'[j]][c] = slice[PackingOrder[j]][c]
        BY <1>3
  <2>2. [j \in 1..Rounds |-> slice'[PackingOrder'[j]][c]] = [j \in 1..Rounds |-> slice[PackingOrder[j]][c]]
        BY <2>1
  <2>3. GivenUnits(c, Rounds)' = GivenUnits(c, Rounds)
        BY <1>1, <2>2 DEF GivenUnits, Fan
  <2>4. Given(c, Rounds)' = Given(c, Rounds)
        BY <2>3 DEF Given
  <2> QED BY <1>4, <1>5, <2>4 DEF PlacedBy
<1>8. ASSUME NEW c \in GpuComponents, NEW j \in 1..Rounds, NEW i \in Nat
      PROVE  UnitOf(PackingOrder[j], c, i)' = UnitOf(PackingOrder[j], c, i)
      BY <1>3, <1>5 DEF UnitOf
<1>9. \A j \in 1..Rounds : Serves(j)' <=> Serves(j)
      BY <1>3 DEF Serves
<1>10. ASSUME NEW c \in GpuComponents PROVE Tracked(c)' <=> Tracked(c)
  <2>1. Tracked(c) <=> Given(c, Rounds) > 0
        BY GivenAll
  <2>2. Tracked(c)' <=> Given(c, Rounds)' > 0
    <3>1. (Steady => GivenIfTracked)'
          BY SteadyGives, PTL
    <3> QED BY <3>1 DEF GivenIfTracked
  <2> QED BY <1>7, <2>1, <2>2
<1> QED BY <1>1, <1>5, <1>6, <1>7, <1>8, <1>9, <1>10

\* Every worker is found on the node of its round.
LEMMA PlacementsAre ==
    ASSUME Steady, Located(Rounds), location \in [GpuComponents -> Seq([node : Nodes, index : Nat])]
    PROVE  /\ Placements \in [GpuComponents -> Seq(Nat \X Nat)]
           /\ \A c \in GpuComponents :
                 /\ Len(Placements[c]) = PlacedBy(c, Rounds)
                 /\ \A j \in 1..Rounds : \A i \in 1..(PlacedBy(c, j) - PlacedBy(c, j - 1)) :
                       Placements[c][PlacedBy(c, j - 1) + i] = <<j, UnitOf(PackingOrder[j], c, i)>>
<1> DEFINE At(n) == {k \in DOMAIN PackingOrder : PackingOrder[k] = n}
           Row(c) == [i \in DOMAIN location[c] |-> <<Min(At(location[c][i].node)), location[c][i].index>>]
<1>1. /\ PackingOrder \in Seq(Nodes) /\ Rounds \in Nat /\ Rounds = Len(PackingOrder)
      /\ \A i, j \in 1..Rounds : PackingOrder[i] = PackingOrder[j] => i = j
      BY ThePackingOrder
<1>2. Placements = [c \in GpuComponents |-> Row(c)]
      BY DEF Placements
<1>3. \A j \in 1..Rounds : Min(At(PackingOrder[j])) = j
  <2> SUFFICES ASSUME NEW j \in 1..Rounds PROVE Min(At(PackingOrder[j])) = j
      OBVIOUS
  <2>1. At(PackingOrder[j]) = {j}
        BY <1>1
  <2> HIDE DEF At
  <2>2. j <= j
        BY <1>1
  <2>3. Min({j}) = j
        BY <2>2 DEF Min
  <2> QED BY <2>1, <2>3
<1> HIDE DEF At
<1>4. ASSUME NEW c \in GpuComponents
      PROVE  /\ Row(c) \in Seq(Nat \X Nat) /\ Len(Row(c)) = PlacedBy(c, Rounds)
             /\ \A j \in 1..Rounds : \A i \in 1..(PlacedBy(c, j) - PlacedBy(c, j - 1)) :
                   Row(c)[PlacedBy(c, j - 1) + i] = <<j, UnitOf(PackingOrder[j], c, i)>>
  <2> DEFINE all == PlacedBy(c, Rounds)
  <2>1. all \in Nat /\ location[c] \in Seq([node : Nodes, index : Nat]) /\ Len(location[c]) = all
    <3>1. Rounds \in 0..Rounds
          BY <1>1
    <3>2. all \in Nat
          BY <3>1, PlacedSteps
    <3> QED BY <3>2 DEF Located
  <2>2. DOMAIN location[c] = 1..all
        BY <2>1
  <2>3. ASSUME NEW j \in 1..Rounds, NEW i \in 1..(PlacedBy(c, j) - PlacedBy(c, j - 1))
        PROVE  /\ PlacedBy(c, j - 1) + i \in 1..all
               /\ location[c][PlacedBy(c, j - 1) + i] =
                      [node |-> PackingOrder[j], index |-> UnitOf(PackingOrder[j], c, i)]
               /\ UnitOf(PackingOrder[j], c, i) \in Nat
    <3>1. location[c][PlacedBy(c, j - 1) + i] =
              [node |-> PackingOrder[j], index |-> UnitOf(PackingOrder[j], c, i)]
          BY <2>3 DEF Located
    <3>2. i \in 1..Takes(c, j)
          BY DEF Takes
    <3>3. UnitOf(PackingOrder[j], c, i) \in slice[PackingOrder[j]][c] /\ PackingOrder[j] \in Nodes
          BY <3>2, TakesIs, ThePackingOrder
    <3>4. UnitOf(PackingOrder[j], c, i) \in Nat
          BY <3>3, SliceFacts
    <3>5. j - 1 \in 0..Rounds /\ j \in 0..Rounds /\ Rounds \in 0..Rounds /\ j \in 0..Rounds
          BY <1>1
    <3>6. PlacedBy(c, j - 1) \in Nat /\ PlacedBy(c, j) \in Nat /\ PlacedBy(c, j) <= all
          BY <3>5, PlacedSteps, PlacedGrows
    <3> DEFINE a == PlacedBy(c, j - 1)
               b == PlacedBy(c, j)
    <3>7. i \in 1..(b - a)
          OBVIOUS
    <3>8. a + i \in 1..all
      <4> HIDE DEF a, b, all
      <4>1. a \in Nat /\ b \in Nat /\ b <= all /\ all \in Nat
            BY <2>1, <3>6 DEF a, b
      <4> QED BY <3>7, <4>1
    <3> QED BY <3>1, <3>4, <3>8
  <2>4. \A w \in 1..all : \E j \in 1..Rounds : \E i \in 1..(PlacedBy(c, j) - PlacedBy(c, j - 1)) : w = PlacedBy(c, j - 1) + i
    <3>1. Rounds \in 0..Rounds
          BY <1>1
    <3> QED BY <3>1, RoundOf
  <2>5. \A w \in 1..all : Row(c)[w] = <<Min(At(location[c][w].node)), location[c][w].index>>
        BY <2>2
  <2>6. DOMAIN Row(c) = 1..all /\ Row(c) = [w \in 1..all |-> Row(c)[w]]
        BY <2>2
  <2> HIDE DEF Row
  <2>7. ASSUME NEW j \in 1..Rounds, NEW i \in 1..(PlacedBy(c, j) - PlacedBy(c, j - 1))
        PROVE  /\ Row(c)[PlacedBy(c, j - 1) + i] = <<j, UnitOf(PackingOrder[j], c, i)>>
               /\ <<j, UnitOf(PackingOrder[j], c, i)>> \in Nat \X Nat
    <3>1. /\ PlacedBy(c, j - 1) + i \in 1..all
          /\ location[c][PlacedBy(c, j - 1) + i] =
                      [node |-> PackingOrder[j], index |-> UnitOf(PackingOrder[j], c, i)]
          /\ UnitOf(PackingOrder[j], c, i) \in Nat
          BY <2>3
    <3>2. Row(c)[PlacedBy(c, j - 1) + i] =
              <<Min(At(location[c][PlacedBy(c, j - 1) + i].node)), location[c][PlacedBy(c, j - 1) + i].index>>
          BY <2>5, <3>1
    <3>3. Row(c)[PlacedBy(c, j - 1) + i] = <<Min(At(PackingOrder[j])), UnitOf(PackingOrder[j], c, i)>>
          BY <3>1, <3>2
    <3>4. j \in Nat
          BY <1>1
    <3> QED BY <1>3, <3>1, <3>3, <3>4
  <2>8. ASSUME NEW w \in 1..all PROVE Row(c)[w] \in Nat \X Nat
    <3>1. PICK j \in 1..Rounds : \E i \in 1..(PlacedBy(c, j) - PlacedBy(c, j - 1)) : w = PlacedBy(c, j - 1) + i
          BY <2>4
    <3>2. PICK i \in 1..(PlacedBy(c, j) - PlacedBy(c, j - 1)) : w = PlacedBy(c, j - 1) + i
          BY <3>1
    <3>3. /\ Row(c)[PlacedBy(c, j - 1) + i] = <<j, UnitOf(PackingOrder[j], c, i)>>
          /\ <<j, UnitOf(PackingOrder[j], c, i)>> \in Nat \X Nat
          BY <2>7
    <3> QED BY <3>2, <3>3
  <2> DEFINE r == Row(c)
             T == Nat \X Nat
  <2>9. r \in [1..all -> T]
    <3>1. r = [w \in 1..all |-> r[w]] /\ \A w \in 1..all : r[w] \in T
          BY <2>6, <2>8
    <3> HIDE DEF r, all, T
    <3> QED BY <3>1
  <2> HIDE DEF r, all, T
  <2>10. r \in Seq(T) /\ Len(r) = all
        BY <2>1, <2>9, Listed
  <2> QED BY <2>7, <2>10 DEF r, all, T
<1> HIDE DEF Row
<1>5. Placements \in [GpuComponents -> Seq(Nat \X Nat)]
      BY <1>2, <1>4
<1>6. \A c \in GpuComponents : Placements[c] = Row(c)
      BY <1>2
<1> QED BY <1>4, <1>5, <1>6

LEMMA ReloadStep ==
    ASSUME PlacementInv, Reload
    PROVE  PlacementInv'
<1>1. /\ Inputs /\ Planned /\ Planning /\ ByPhase /\ Packing /\ Shapes
      BY DEF PlacementInv
<1>2. /\ phase = "done" /\ mode = "auto" /\ mode' = "manual" /\ planned' = Placements
      /\ cursor' = [n \in Nodes |-> 0]
      /\ placed' = [c \in GpuComponents |-> 0]
      /\ location' = [c \in GpuComponents |-> <<>>]
      /\ bundles' = [n \in Nodes |-> <<>>]
      /\ storage' = <<>>
      /\ UNCHANGED <<gpus, request, strategy, remaining>>
      BY DEF Reload
<1>3. Steady /\ Chosen /\ Rounds \in Nat
      BY <1>1, GivenTogether, RoundsAre
<1>4. /\ Located(Rounds) /\ Filled(Rounds) /\ Used /\ AllPlaced
      BY <1>1, <1>2 DEF Packing
<1>5. /\ Nodes' = Nodes /\ Orders' = Orders /\ Chosen'
      /\ \A n \in Nodes : gpus[n] \in Nat
  <2>1. Nodes' = Nodes
        BY <1>2 DEF Nodes
  <2>2. Orders' = Orders
        BY <2>1 DEF Orders
  <2>3. \A n \in Nodes : gpus[n] \in Nat
        BY <1>3, InputTypes
  <2> QED BY <1>2, <1>3, <2>1, <2>2, <2>3 DEF Chosen
<1>6. \/ Homogeneous /\ \E ids \in Orders : Loads(ids) /\ phase' = "pack" /\ node' = 1
      \/ ~Homogeneous /\ phase' = "rejected" /\ node' = 1 /\ UNCHANGED <<order, slice, pool>>
  <2>1. CASE Homogeneous
        BY <1>3, <2>1, ReloadIs
  <2>2. CASE ~Homogeneous
        BY <2>2 DEF Reload, Goto
  <2> QED BY <2>1, <2>2
<1>7. /\ order' \in Orders /\ node' = 1 /\ phase' \in {"pack", "rejected"}
      /\ slice' \in [Nodes -> [GpuComponents -> SUBSET Nat]] /\ pool' \in [Nodes -> PoolNames]
      /\ \A n \in Nodes : InLine(n)' /\ (pool'[n] = "none" => slice'[n] = Laid(0, 0, 0)')
  <2>1. CASE Homogeneous /\ \E ids \in Orders : Loads(ids) /\ phase' = "pack" /\ node' = 1
    <3>1. PICK ids \in Orders : Loads(ids) /\ phase' = "pack" /\ node' = 1
          BY <2>1
    <3>2. /\ slice' \in [Nodes -> [GpuComponents -> SUBSET Nat]] /\ pool' \in [Nodes -> PoolNames]
          /\ \A n \in Nodes : InLine(n)' /\ (pool'[n] = "none" => slice'[n] = Laid(0, 0, 0)')
          BY <1>3, <2>1, <3>1, LoadedInLine
    <3>3. order' \in Orders
          BY <3>1 DEF Loads
    <3> QED BY <3>1, <3>2, <3>3
  <2>2. CASE ~Homogeneous /\ phase' = "rejected" /\ node' = 1 /\ UNCHANGED <<order, slice, pool>>
    <3>1. order' \in Orders
          BY <1>1, <2>2 DEF Inputs
    <3>2. slice' \in [Nodes -> [GpuComponents -> SUBSET Nat]] /\ pool' \in [Nodes -> PoolNames]
          BY <1>1, <2>2 DEF Planned
    <3>3. \A n \in Nodes : InLine(n) /\ (pool[n] = "none" => slice[n] = Laid(0, 0, 0))
          BY <1>1 DEF Planned
    <3>4. Laid(0, 0, 0)' = Laid(0, 0, 0)
          BY <1>2, LaidSame
    <3>5. ASSUME NEW n \in Nodes PROVE InLine(n)'
      <4>1. PICK t \in Nat, e \in Nat, v \in Nat :
                /\ slice[n] = Laid(t, e, v)
                /\ t <= gpus[n] /\ Base(t) + e <= gpus[n] /\ Second(t, e) + v <= gpus[n]
            BY <3>3 DEF InLine
      <4>2. /\ slice'[n] = Laid(t, e, v)' /\ t <= gpus'[n]
            /\ Base(t)' + e <= gpus'[n] /\ Second(t, e)' + v <= gpus'[n]
            BY <1>2, <2>2, <4>1, LaidSame
      <4> QED BY <4>2 DEF InLine
    <3> QED BY <2>2, <3>1, <3>2, <3>3, <3>4, <3>5
  <2> QED BY <1>6, <2>1, <2>2
<1>8. Inputs'
      BY <1>1, <1>2, <1>5, <1>7 DEF Inputs
<1>9. Planned'
  <2>1. node' \in Nat \ {0} /\ remaining' \in [GpuComponents -> Nat]
        BY <1>1, <1>2, <1>7 DEF Planned
  <2>2. cursor' \in [Nodes -> Nat] /\ \A n \in Nodes : cursor'[n] <= gpus'[n]
        BY <1>2, <1>5
  <2> QED BY <1>5, <1>7, <2>1, <2>2 DEF Planned
<1>10. Steady' /\ Rounds' \in Nat /\ \A c \in GpuComponents : PlacedBy(c, 0)' = 0
  <2>1. Steady'
        BY <1>8, <1>9, GivenTogether, PTL
  <2>2. Rounds' \in Nat
    <3>1. (Steady => Rounds \in Nat)'
          BY RoundsAre, PTL
    <3> QED BY <2>1, <3>1
  <2>3. \A c \in GpuComponents : PlacedBy(c, 0)' = 0
    <3>1. (Chosen => \A c \in GpuComponents : PlacedBy(c, 0) = 0)'
          BY PlacedNone, PTL
    <3> QED BY <1>5, <3>1
  <2> QED BY <2>1, <2>2, <2>3
<1>11. Located(0)'
      BY <1>2, <1>10 DEF Located
<1>12. Stored(0)' /\ Bundled(0)' /\ Filled(0)'
      BY <1>2 DEF Stored, Bundled, Filled
<1>13. phase' = "pack" => Used' /\ AsSaved' /\ Filled(Rounds)' /\ AllPlaced'
  <2> SUFFICES ASSUME phase' = "pack" PROVE Used' /\ AsSaved' /\ Filled(Rounds)' /\ AllPlaced'
      OBVIOUS
  <2>1. PICK ids \in Orders : Homogeneous /\ Loads(ids)
        BY <1>6
  <2>2. /\ Rounds' = Rounds
        /\ \A c \in GpuComponents, k \in 0..Rounds :
              Given(c, k)' = Given(c, k) /\ PlacedBy(c, k)' = PlacedBy(c, k)
        /\ \A c \in GpuComponents :
              Given(c, Rounds)' = Given(c, Rounds) /\ PlacedBy(c, Rounds)' = PlacedBy(c, Rounds)
        /\ \A c \in GpuComponents : Fits(c)' = Fits(c)
        /\ \A c \in GpuComponents, j \in 1..Rounds, i \in Nat :
              UnitOf(PackingOrder[j], c, i)' = UnitOf(PackingOrder[j], c, i)
        /\ \A j \in 1..Rounds : Serves(j)' <=> Serves(j)
        /\ \A c \in GpuComponents : Tracked(c)' <=> Tracked(c)
        BY <1>3, <1>10, <2>1, LoadedSame
  <2>3. \A j \in 1..Rounds : j \in 0..Rounds /\ j - 1 \in 0..Rounds
        BY <1>3
  <2>4. \A j \in 1..Rounds, c \in GpuComponents :
            PlacedBy(c, j)' = PlacedBy(c, j) /\ PlacedBy(c, j - 1)' = PlacedBy(c, j - 1)
        BY <2>2, <2>3
  <2>5. Used'
        BY <1>2, <1>4, <2>2 DEF Used
  <2>6. AllPlaced'
        BY <1>2, <1>4, <2>2 DEF AllPlaced
  <2>7. Filled(Rounds)'
        BY <1>4, <2>2, <2>4 DEF Filled, GpuComponents
  <2>8. /\ Placements \in [GpuComponents -> Seq(Nat \X Nat)]
        /\ \A c \in GpuComponents :
              /\ Len(Placements[c]) = PlacedBy(c, Rounds)
              /\ \A j \in 1..Rounds : \A i \in 1..(PlacedBy(c, j) - PlacedBy(c, j - 1)) :
                    Placements[c][PlacedBy(c, j - 1) + i] = <<j, UnitOf(PackingOrder[j], c, i)>>
    <3>1. location \in [GpuComponents -> Seq([node : Nodes, index : Nat])]
          BY <1>1 DEF Shapes
    <3> QED BY <1>3, <1>4, <3>1, PlacementsAre
  <2>9. AsSaved'
    <3>1. planned' \in [GpuComponents -> Seq(Nat \X Nat)]
          BY <1>2, <2>8
    <3>2. \A c \in GpuComponents : Len(planned'[c]) = PlacedBy(c, Rounds)'
          BY <1>2, <2>2, <2>8
    <3>3. ASSUME NEW c \in GpuComponents, NEW j \in 1..Rounds, NEW i \in 1..(PlacedBy(c, j)' - PlacedBy(c, j - 1)')
          PROVE  planned'[c][PlacedBy(c, j - 1)' + i] = <<j, UnitOf(PackingOrder[j], c, i)'>>
      <4>1. PlacedBy(c, j)' = PlacedBy(c, j) /\ PlacedBy(c, j - 1)' = PlacedBy(c, j - 1)
            BY <2>4
      <4>2. i \in 1..(PlacedBy(c, j) - PlacedBy(c, j - 1)) /\ i \in Nat
            BY <3>3, <4>1
      <4>3. UnitOf(PackingOrder[j], c, i)' = UnitOf(PackingOrder[j], c, i)
            BY <2>2, <4>2
      <4> QED BY <1>2, <2>8, <4>1, <4>2, <4>3
    <3> QED BY <2>2, <3>1, <3>2, <3>3 DEF AsSaved
  <2> QED BY <2>5, <2>6, <2>7, <2>9
<1>14. phase' = "rejected" => ~Homogeneous'
      BY <1>2, <1>5, <1>6 DEF Homogeneous
<1>15. Packing'
  <2>1. 0 \in 0..Rounds'
        BY <1>10
  <2>2. \E k \in 0..Rounds' : k = 0 /\ Located(k)' /\ Stored(k)' /\ Bundled(k)' /\ Filled(k)'
        BY <1>11, <1>12, <2>1
  <2> QED BY <1>2, <1>7, <1>13, <1>14, <2>2 DEF Packing, PlanPhases
<1>16. Planning' /\ ByPhase'
      BY <1>7 DEF Planning, ByPhase, PlanPhases
<1>17. Shapes'
      BY <1>2, <1>5, <1>7 DEF Shapes, PlanPhases
<1>18. RaisesOnlyIfUneven'
      BY <1>7 DEF RaisesOnlyIfUneven
<1> QED BY <1>8, <1>9, <1>15, <1>16, <1>17, <1>18 DEF PlacementInv

----------------------------------------------------------------------------
\* Steps of the buffer and of the trainers leave the placement as it is.
LEMMA PlacementStays ==
    ASSUME PlacementInv, UNCHANGED vars
    PROVE  PlacementInv'
<1>1. /\ Inputs /\ Planned /\ Planning /\ ByPhase /\ Packing /\ Shapes /\ RaisesOnlyIfUneven
      BY DEF PlacementInv
<1>2. /\ phase' = phase /\ node' = node
      /\ UNCHANGED <<inputVars, planVars, packVars>> /\ UNCHANGED <<inputVars, slice, pool>>
      /\ UNCHANGED packVars /\ UNCHANGED inputVars /\ cursor' = cursor /\ remaining' = remaining /\ UNCHANGED slice
      BY DEF vars, inputVars, planVars, packVars, runVars
<1>3. Steady /\ Chosen /\ Rounds \in Nat /\ Rounds' = Rounds
      BY <1>1, <1>2, GivenTogether, RoundsAre, PlacedSame
<1>4. /\ Inputs' /\ Planned'
      /\ gpus' = gpus /\ request' = request /\ strategy' = strategy /\ mode' = mode /\ Nodes' = Nodes
      /\ \A n \in Nodes : (TrainOnly(n)' <=> TrainOnly(n)) /\ (Untouched(n)' <=> Untouched(n))
      /\ \A n \in Nodes, c \in GpuComponents : Covered(n, c)' <=> Covered(n, c)
      /\ \A c \in GpuComponents : Account(c) => Account(c)'
  <2>1. node' \in Nat \ {0}
        BY <1>1, <1>2 DEF Planned
  <2> QED BY <1>1, <1>2, <2>1, PlanKept
<1>5. /\ RequestedParts' = RequestedParts /\ ClusterParts' = ClusterParts
      /\ StaleLimits' <=> StaleLimits
      /\ \A c \in GpuComponents : Required(c)' = Required(c) /\ (Whole(c)' <=> Whole(c))
      BY <1>2, SameRequest
<1>6. Planning'
  <2> SUFFICES ASSUME phase \in PlanPhases PROVE Planning'
      BY <1>2 DEF Planning
  <2>1. /\ mode = "auto" /\ node <= Len(gpus) + 1 /\ (\A c \in GpuComponents : Account(c))
        /\ (phase # "validate" => RequestedParts <= ClusterParts)
        BY <1>1 DEF Planning
  <2>2. \A c \in GpuComponents : Account(c)'
        BY <1>4, <2>1
  <2> QED BY <1>2, <1>4, <1>5, <2>1, <2>2 DEF Planning
<1>7. ByPhase'
  <2>1. ASSUME phase = "validate"
        PROVE  node = 1 /\ remaining = [c \in GpuComponents |-> Required(c)] /\ \A n \in Nodes : Untouched(n)'
        BY <1>1, <1>4, <2>1 DEF ByPhase
  <2>2. [c \in GpuComponents |-> Required(c)]' = [c \in GpuComponents |-> Required(c)]
        BY <1>5
  <2>3. "train" \in GpuComponents /\ "eval" \in GpuComponents /\ "env" \in GpuComponents
        BY DEF GpuComponents
  <2>4. ASSUME phase = "trainPool"
        PROVE  /\ strategy'.kind = "disaggregate"
               /\ \A n \in Nodes :
                     /\ TrainOnly(n)'
                     /\ n >= node => Untouched(n)'
                     /\ n < node => remaining["train"] = 0 \/ Covered(n, "train")'
        BY <1>1, <1>4, <2>3, <2>4 DEF ByPhase
  <2>5. ASSUME phase = "rolloutPool"
        PROVE  /\ strategy'.kind = "disaggregate" /\ remaining["train"] = 0
               /\ \A n \in Nodes :
                     /\ n >= node => TrainOnly(n)'
                     /\ n < node => \A c \in {"eval", "env"} : remaining[c] = 0 \/ Covered(n, c)'
        BY <1>1, <1>4, <2>3, <2>5 DEF ByPhase
  <2>6. ASSUME phase = "globalPool"
        PROVE  /\ strategy'.kind = "colocate"
               /\ node = 1 => remaining = [c \in GpuComponents |-> Required(c)]
               /\ \A n \in Nodes :
                     /\ n >= node => Untouched(n)'
                     /\ n < node => \A c \in GpuComponents : remaining[c] = 0 \/ Covered(n, c)'
        BY <1>1, <1>4, <2>6 DEF ByPhase
  <2> QED BY <1>1, <1>2, <1>4, <2>1, <2>2, <2>4, <2>5, <2>6 DEF ByPhase
<1>8. /\ (Used' <=> Used) /\ (UsedEvenly' <=> UsedEvenly) /\ (AsSaved' <=> AsSaved) /\ (AllPlaced' <=> AllPlaced)
      /\ Filled(Rounds)' <=> Filled(Rounds)
      /\ \A k \in 0..Rounds : Filled(k)' <=> Filled(k)
      BY <1>2, <1>3, UsedSame, PlanSame
<1>9. \E k \in 0..Rounds' :
        /\ Located(k)'
        /\ phase' = "pack" => node' = k + 1
        /\ phase' = "done" => k = Rounds'
        /\ phase' \in PlanPhases => k = 0
        /\ phase' \in {"pack", "done"} => Stored(k)' /\ Bundled(k)' /\ Filled(k)'
        /\ phase' \in PlanPhases => storage' = <<>>
  <2>1. PICK k \in 0..Rounds :
            /\ Located(k)
            /\ phase = "pack" => node = k + 1
            /\ phase = "done" => k = Rounds
            /\ phase \in PlanPhases => k = 0
            /\ phase \in {"pack", "done"} => Stored(k) /\ Bundled(k) /\ Filled(k)
            /\ phase \in PlanPhases => storage = <<>>
        BY <1>1 DEF Packing
  <2>2. (Located(k) => Located(k)') /\ (Stored(k) => Stored(k)') /\ (Bundled(k) => Bundled(k)')
        BY <1>2, <1>3, PackedSame
  <2>3. storage' = storage
        BY <1>2 DEF packVars
  <2>4. k \in 0..Rounds'
        BY <1>3
  <2>5. /\ Located(k)'
        /\ phase' = "pack" => node' = k + 1
        /\ phase' = "done" => k = Rounds'
        /\ phase' \in PlanPhases => k = 0
        /\ phase' \in {"pack", "done"} => Stored(k)' /\ Bundled(k)' /\ Filled(k)'
        /\ phase' \in PlanPhases => storage' = <<>>
        BY <1>2, <1>3, <1>8, <2>1, <2>2, <2>3
  <2> QED BY <2>4, <2>5
<1>10. Packing'
  <2>1. Homogeneous' <=> Homogeneous
        BY <1>4 DEF Homogeneous
  <2> QED BY <1>1, <1>2, <1>4, <1>8, <1>9, <2>1 DEF Packing
<1>11. Shapes'
      BY <1>1, <1>2, <1>4 DEF Shapes, packVars
<1>12. RaisesOnlyIfUneven'
      BY <1>1, <1>2, <1>4, <1>5 DEF RaisesOnlyIfUneven
<1> QED BY <1>4, <1>6, <1>7, <1>10, <1>11, <1>12 DEF PlacementInv

\* Every step of the placement keeps the invariant.
LEMMA PlacementGoes ==
    ASSUME PlacementInv, Next
    PROVE  PlacementInv'
<1>1. CASE Validate
      BY <1>1, ValidateStep
<1>2. CASE SkipNode
      BY <1>2, SkipNodeStep
<1>3. CASE TrainPool
      BY <1>3, TrainPoolStep
<1>4. CASE RolloutPool
      BY <1>4, RolloutPoolStep
<1>5. CASE GlobalPool
      BY <1>5, GlobalPoolStep
<1>6. CASE \/ NextPhase("trainPool", {"train"}, "rolloutPool")
           \/ NextPhase("rolloutPool", {"eval", "env"}, "pack")
           \/ NextPhase("globalPool", GpuComponents, "pack")
      BY <1>6, NextPhaseStep
<1>7. CASE Pack
      BY <1>7, PackStep
<1>8. CASE Verify
      BY <1>8, VerifyStep
<1>9. CASE Reload
      BY <1>9, ReloadStep
<1> QED BY <1>1, <1>2, <1>3, <1>4, <1>5, <1>6, <1>7, <1>8, <1>9 DEF Next

\* Steps of both modules.
LEMMA PlacementSteps ==
    ASSUME PlacementInv, [DPNext]_allVars
    PROVE  PlacementInv'
<1>1. CASE Place
      BY <1>1, PlacementGoes DEF Place
<1>2. CASE UNCHANGED vars
      BY <1>2, PlacementStays
<1>3. ASSUME NEW w \in Trainers, Train(w) PROVE UNCHANGED vars
      BY <1>3 DEF Train, Enter, Return, Raise
<1>4. BuildTable \/ Sample => UNCHANGED vars
      BY DEF BuildTable, Sample
<1>5. UNCHANGED allVars => UNCHANGED vars
      BY DEF allVars
<1> QED BY <1>1, <1>2, <1>3, <1>4, <1>5 DEF DPNext

\* The inductive invariant of the placement holds in every run.
THEOREM PlacementHolds == DPSpec => []PlacementInv
<1>1. DPInit => PlacementInv
      BY Starts DEF DPInit
<1>2. PlacementInv /\ [DPNext]_allVars => PlacementInv'
      BY PlacementSteps
<1> QED BY <1>1, <1>2, PTL DEF DPSpec

\* "A request of whole GPUs that passed validation": RaisesOnlyIfUneven is kept by
\* Account, the books of the parts that were asked for, given and still missing.
THEOREM RaisesRarely == DPSpec => []RaisesOnlyIfUneven
<1>1. PlacementInv => RaisesOnlyIfUneven
      BY DEF PlacementInv
<1> QED BY <1>1, PlacementHolds, PTL

----------------------------------------------------------------------------
\* Lists of one length that agree everywhere.
LEMMA SameLists ==
    ASSUME NEW T, NEW q \in Seq(T), NEW t \in Seq(T), Len(q) = Len(t), \A i \in 1..Len(q) : q[i] = t[i]
    PROVE  q = t
OBVIOUS

\* Where a placed worker is, and the round that placed it.
PlacedIn(c, w, j, i) ==
    /\ w = PlacedBy(c, j - 1) + i
    /\ location[c][w] = [node |-> PackingOrder[j], index |-> UnitOf(PackingOrder[j], c, i)]
    /\ PackingOrder[j] \in Nodes
    /\ UnitOf(PackingOrder[j], c, i) \in slice[PackingOrder[j]][c]
    /\ w \in (PlacedBy(c, j - 1) + 1)..PlacedBy(c, j)

\* A located worker has its round and its place in that round.
LEMMA WorkerIs ==
    ASSUME Steady, NEW k \in 0..Rounds, Located(k), NEW c \in GpuComponents, NEW w \in 1..placed[c]
    PROVE  \E j \in 1..k : \E i \in Nat \ {0} : PlacedIn(c, w, j, i)
<1>1. w \in 1..PlacedBy(c, k)
      BY DEF Located
<1>2. PICK j \in 1..k : \E i \in 1..(PlacedBy(c, j) - PlacedBy(c, j - 1)) : w = PlacedBy(c, j - 1) + i
      BY <1>1, RoundOf
<1>3. PICK i \in 1..(PlacedBy(c, j) - PlacedBy(c, j - 1)) : w = PlacedBy(c, j - 1) + i
      BY <1>2
<1>4. Rounds \in Nat /\ j \in 1..Rounds /\ PackingOrder[j] \in Nodes
  <2>1. Rounds \in Nat
        BY ThePackingOrder
  <2>2. j \in 1..Rounds
        BY <2>1
  <2> QED BY <2>1, <2>2, ThePackingOrder
<1>5. location[c][w] = [node |-> PackingOrder[j], index |-> UnitOf(PackingOrder[j], c, i)]
      BY <1>3 DEF Located
<1>6. i \in 1..Takes(c, j)
      BY DEF Takes
<1>7. UnitOf(PackingOrder[j], c, i) \in slice[PackingOrder[j]][c]
      BY <1>4, <1>6, TakesIs
<1>8. PlacedBy(c, j - 1) \in Nat /\ PlacedBy(c, j) \in Nat
  <2>1. j \in 0..Rounds /\ j - 1 \in 0..Rounds
        BY <1>4
  <2> QED BY <2>1, PlacedSteps
<1>9. i \in Nat \ {0} /\ w \in (PlacedBy(c, j - 1) + 1)..PlacedBy(c, j)
  <2> DEFINE a == PlacedBy(c, j - 1)
             b == PlacedBy(c, j)
  <2>1. a \in Nat /\ b \in Nat /\ w = a + i /\ i \in 1..(b - a)
        BY <1>3, <1>8
  <2> HIDE DEF a, b
  <2>2. i \in Nat \ {0} /\ w \in (a + 1)..b
        BY <2>1
  <2> QED BY <2>2 DEF a, b
<1> QED BY <1>3, <1>4, <1>5, <1>7, <1>9 DEF PlacedIn

\* A worker is placed in one round.
LEMMA OneRound ==
    ASSUME Steady, NEW c \in GpuComponents, NEW j \in 1..Rounds, NEW l \in 1..Rounds, NEW w,
           w \in (PlacedBy(c, j - 1) + 1)..PlacedBy(c, j), w \in (PlacedBy(c, l - 1) + 1)..PlacedBy(c, l)
    PROVE  j = l
<1>1. Rounds \in Nat
      BY ThePackingOrder
<1>2. \A i \in 0..Rounds : PlacedBy(c, i) \in Nat
      BY PlacedSteps
<1>3. ASSUME NEW x \in 1..Rounds, NEW y \in 1..Rounds, x < y,
             w \in (PlacedBy(c, x - 1) + 1)..PlacedBy(c, x), w \in (PlacedBy(c, y - 1) + 1)..PlacedBy(c, y)
      PROVE  FALSE
  <2>1. /\ y - 1 \in 0..Rounds /\ x \in 0..(y - 1) /\ x \in 0..Rounds /\ x - 1 \in 0..Rounds /\ y \in 0..Rounds
        BY <1>1, <1>3
  <2>2. PlacedBy(c, x) <= PlacedBy(c, y - 1)
        BY <2>1, PlacedGrows
  <2> DEFINE a == PlacedBy(c, x)
             b == PlacedBy(c, y - 1)
             d == PlacedBy(c, x - 1)
             e == PlacedBy(c, y)
  <2>3. a \in Nat /\ b \in Nat /\ a <= b /\ d \in Nat /\ e \in Nat
        BY <1>2, <2>1, <2>2
  <2>4. w \in (d + 1)..a /\ w \in (b + 1)..e
        BY <1>3
  <2> HIDE DEF a, b, d, e
  <2> QED BY <2>3, <2>4
<1>4. j \in Int /\ l \in Int
      BY <1>1
<1>5. ~(j < l) /\ ~(l < j)
      BY <1>3
<1> QED BY <1>4, <1>5

\* Workers on one GPU of a node: their place on the node is between two multiples of Fits.
LEMMA WorkersOfUnit ==
    ASSUME Steady, NEW k \in 0..Rounds, Located(k), NEW c \in GpuComponents, NEW n \in Nodes, NEW u,
           request.need[c] # 0, DOMAIN location[c] = 1..placed[c]
    PROVE  LET S == {i \in DOMAIN location[c] : location[c][i] = [node |-> n, index |-> u]}
           IN  \E x \in Nat : S \subseteq (x + 1)..(x + Fits(c))
<1> DEFINE S == {i \in DOMAIN location[c] : location[c][i] = [node |-> n, index |-> u]}
           fit == Fits(c)
           from == Min(slice[n][c])
<1>1. fit \in Nat \ {0}
      BY FitsWell DEF Steady
<1>2. CASE S = {}
  <2>1. 0 \in Nat
        OBVIOUS
  <2> QED BY <1>2, <2>1
<1>3. CASE S # {}
  <2>1. \A w \in S : \E j \in 1..k : \E i \in Nat \ {0} :
            /\ PlacedIn(c, w, j, i) /\ PackingOrder[j] = n /\ UnitOf(n, c, i) = u
    <3> SUFFICES ASSUME NEW w \in S
                 PROVE  \E j \in 1..k : \E i \in Nat \ {0} :
                            /\ PlacedIn(c, w, j, i) /\ PackingOrder[j] = n /\ UnitOf(n, c, i) = u
        OBVIOUS
    <3>1. w \in 1..placed[c] /\ location[c][w] = [node |-> n, index |-> u]
          OBVIOUS
    <3>2. PICK j \in 1..k : \E i \in Nat \ {0} : PlacedIn(c, w, j, i)
          BY <3>1, WorkerIs
    <3>3. PICK i \in Nat \ {0} : PlacedIn(c, w, j, i)
          BY <3>2
    <3>4. [node |-> PackingOrder[j], index |-> UnitOf(PackingOrder[j], c, i)] = [node |-> n, index |-> u]
          BY <3>1, <3>3 DEF PlacedIn
    <3>5. PackingOrder[j] = n /\ UnitOf(PackingOrder[j], c, i) = u
      <4>1. [node |-> PackingOrder[j], index |-> UnitOf(PackingOrder[j], c, i)].node = [node |-> n, index |-> u].node
            BY <3>4
      <4>2. [node |-> PackingOrder[j], index |-> UnitOf(PackingOrder[j], c, i)].index = [node |-> n, index |-> u].index
            BY <3>4
      <4> QED BY <4>1, <4>2
    <3> QED BY <3>3, <3>5
  <2> HIDE DEF S
  <2>2. PICK w0 \in S : TRUE
        BY <1>3
  <2>3. PICK j \in 1..k : \E i \in Nat \ {0} : PlacedIn(c, w0, j, i) /\ PackingOrder[j] = n /\ UnitOf(n, c, i) = u
        BY <2>1, <2>2
  <2>4. PICK i0 \in Nat \ {0} : PlacedIn(c, w0, j, i0) /\ PackingOrder[j] = n /\ UnitOf(n, c, i0) = u
        BY <2>3
  <2>5. Rounds \in Nat /\ j \in 1..Rounds /\ (\A l \in 1..k : l \in 1..Rounds)
        /\ (\A l \in 1..Rounds : PackingOrder[l] = PackingOrder[j] => l = j)
    <3>1. Rounds \in Nat
          BY ThePackingOrder
    <3>2. j \in 1..Rounds /\ \A l \in 1..k : l \in 1..Rounds
          BY <3>1
    <3> QED BY <3>1, <3>2, ThePackingOrder
  <2>6. PlacedBy(c, j - 1) \in Nat
    <3>1. j - 1 \in 0..Rounds
          BY <2>5
    <3> QED BY <3>1, PlacedSteps
  <2>7. from \in Nat
    <3>1. slice[n][c] # {}
          BY <2>4 DEF PlacedIn
    <3> QED BY <3>1, SliceFacts
  <2> DEFINE a == PlacedBy(c, j - 1)
             q == (i0 - 1) \div fit
             x == a + q * fit
  <2>8. q \in Nat /\ u = from + q
    <3>1. i0 - 1 \in Nat
          OBVIOUS
    <3>2. q \in Nat
          BY <1>1, <3>1, Division
    <3> QED BY <2>4, <3>2 DEF UnitOf
  <2>9. x \in Nat
    <3> HIDE DEF q, a, fit
    <3>1. q * fit \in Nat
          BY <1>1, <2>8, Product
    <3> DEFINE p == q * fit
    <3> HIDE DEF p
    <3>2. p \in Nat /\ a \in Nat /\ x = a + p
          BY <2>6, <3>1 DEF p, a
    <3> HIDE DEF x
    <3> QED BY <3>2
  <2>10. ASSUME NEW w \in S PROVE w \in (x + 1)..(x + fit)
    <3>1. PICK l \in 1..k : \E i \in Nat \ {0} : PlacedIn(c, w, l, i) /\ PackingOrder[l] = n /\ UnitOf(n, c, i) = u
          BY <2>1
    <3>2. PICK i \in Nat \ {0} : PlacedIn(c, w, l, i) /\ PackingOrder[l] = n /\ UnitOf(n, c, i) = u
          BY <3>1
    <3>3. l = j
          BY <2>4, <2>5, <3>2
    <3>4. w = a + i
          BY <3>2, <3>3 DEF PlacedIn
    <3>5. u = from + (i - 1) \div fit
          BY <3>2 DEF UnitOf
    <3> DEFINE m == i - 1
               d == m \div fit
               r == m % fit
    <3>6. m \in Nat /\ d \in Nat /\ r \in 0..(fit - 1) /\ m = d * fit + r
      <4>1. m \in Nat
            OBVIOUS
      <4> HIDE DEF m, fit
      <4> QED BY <1>1, <4>1, Division
    <3>7. d = q
      <4>1. u = from + d
            BY <3>5
      <4> HIDE DEF d, q, from
      <4> QED BY <2>7, <2>8, <3>6, <4>1
    <3>8. w = a + m + 1
      <4> HIDE DEF a
      <4> QED BY <2>6, <3>4 DEF a
    <3> HIDE DEF m, d, r, q, a
    <3>9. m = q * fit + r
          BY <3>6, <3>7
    <3> DEFINE p == q * fit
    <3>10. p \in Nat
          BY <1>1, <2>8, Product
    <3>11. x = a + p /\ m = p + r /\ a \in Nat
          BY <2>6, <3>9 DEF a
    <3> HIDE DEF p, x, fit
    <3>12. x \in Nat /\ w = x + r + 1
          BY <3>6, <3>8, <3>10, <3>11
    <3> QED BY <1>1, <3>6, <3>12
  <2>11. S \subseteq (x + 1)..(x + Fits(c))
        BY <2>10
  <2> HIDE DEF x
  <2> QED BY <2>9, <2>11 DEF S
<1> QED BY <1>2, <1>3

----------------------------------------------------------------------------
\* What the invariant says once everything is packed.
LEMMA WhenDone ==
    ASSUME PlacementInv
    PROVE  /\ Steady /\ Rounds \in Nat
           /\ \E k \in 0..Rounds : Located(k)
           /\ phase = "done" => Located(Rounds) /\ Stored(Rounds) /\ Bundled(Rounds)
           /\ location \in [GpuComponents -> Seq([node : Nodes, index : Nat])]
           /\ \A c \in GpuComponents : DOMAIN location[c] = 1..placed[c] /\ placed[c] \in Nat
<1>1. Steady /\ Rounds \in Nat
      BY GivenTogether, RoundsAre DEF PlacementInv
<1>2. /\ \E k \in 0..Rounds : Located(k)
      /\ phase = "done" => Located(Rounds) /\ Stored(Rounds) /\ Bundled(Rounds)
      BY DEF PlacementInv, Packing
<1>3. location \in [GpuComponents -> Seq([node : Nodes, index : Nat])] /\ placed \in [GpuComponents -> Nat]
      BY DEF PlacementInv, Shapes
<1>4. ASSUME NEW c \in GpuComponents PROVE DOMAIN location[c] = 1..placed[c]
  <2>1. Len(location[c]) = placed[c]
        BY <1>2 DEF Located
  <2>2. location[c] \in Seq([node : Nodes, index : Nat])
        BY <1>3
  <2> QED BY <2>1, <2>2
<1> QED BY <1>1, <1>2, <1>3, <1>4

LEMMA PlacementTyped ==
    ASSUME PlacementInv
    PROVE  TypeOK
<1>1. /\ Inputs /\ Planned /\ Planning /\ Packing /\ Shapes
      BY DEF PlacementInv
<1>2. /\ Steady /\ Chosen /\ Rounds \in Nat /\ Rounds <= Len(gpus) /\ Len(gpus) \in Nat
      /\ \A n \in Nodes : gpus[n] \in Nat
  <2>1. Steady /\ Chosen
        BY <1>1, GivenTogether
  <2> QED BY <2>1, ThePackingOrder, InputTypes
<1>3. PICK k \in 0..Rounds : Located(k)
      BY WhenDone
<1>4. /\ phase \in {"validate", "trainPool", "rolloutPool", "globalPool", "pack", "done", "rejected", "failed"}
      /\ mode \in {"auto", "manual"} /\ order \in Orders
      /\ remaining \in [GpuComponents -> Nat]
      BY <1>1 DEF Shapes, PlanPhases, Inputs, Planned
<1>5. node \in 1..(Len(gpus) + 1)
  <2>1. node \in Nat \ {0}
        BY <1>1 DEF Planned
  <2>2. phase \in PlanPhases => node <= Len(gpus) + 1
        BY <1>1 DEF Planning
  <2>3. phase = "pack" => \E l \in 0..Rounds : node = l + 1
        BY <1>1 DEF Packing
  <2>4. phase = "pack" => node <= Len(gpus) + 1
        BY <1>2, <2>3
  <2>5. phase \in {"done", "failed", "rejected"} => node = 1
        BY <1>1 DEF Shapes
  <2>6. node <= Len(gpus) + 1
        BY <1>2, <1>4, <2>2, <2>4, <2>5 DEF PlanPhases
  <2> QED BY <1>2, <2>1, <2>6
<1>6. ASSUME NEW n \in Nodes
      PROVE  /\ cursor[n] \in 0..gpus[n]
             /\ \A c \in GpuComponents : slice[n][c] \subseteq 0..(gpus[n] - 1)
             /\ pool[n] \in {"none"} \cup Range(PoolOrder)
             /\ Range(bundles[n]) \subseteq 0..(gpus[n] - 1) \cup {CpuBundle}
  <2>1. cursor[n] \in Nat /\ cursor[n] <= gpus[n]
        BY <1>1 DEF Planned
  <2>2. cursor[n] \in 0..gpus[n]
        BY <1>2, <2>1
  <2>3. \A c \in GpuComponents : slice[n][c] \subseteq 0..(gpus[n] - 1)
        BY <1>2, SliceFacts
  <2>4. pool[n] \in {"none"} \cup Range(PoolOrder)
    <3>1. pool[n] \in PoolNames
          BY <1>1 DEF Planned
    <3>2. PoolOrder[1] = "train_pool" /\ PoolOrder[2] = "rollout_pool" /\ PoolOrder[3] = "global_pool"
          /\ DOMAIN PoolOrder = 1..3
          BY DEF PoolOrder
    <3>3. {"train_pool", "rollout_pool", "global_pool"} \subseteq Range(PoolOrder)
          BY <3>2 DEF Range
    <3> QED BY <3>1, <3>3 DEF PoolNames
  <2>5. ASSUME NEW b \in Range(bundles[n]) PROVE b \in 0..(gpus[n] - 1) \cup {CpuBundle}
    <3>1. PICK i \in DOMAIN bundles[n] : b = bundles[n][i]
          BY DEF Range
    <3>2. bundles[n] \in Seq(Nat \cup {CpuBundle}) /\ (bundles[n][i] < gpus[n] \/ bundles[n][i] = CpuBundle)
          BY <1>1 DEF Shapes
    <3>3. b \in Nat \cup {CpuBundle}
          BY <3>1, <3>2
    <3> QED BY <1>2, <3>1, <3>2, <3>3
  <2> QED BY <2>2, <2>3, <2>4, <2>5
<1>7. ASSUME NEW c \in GpuComponents
      PROVE  /\ placed[c] \in 0..request.workers[c]
             /\ Len(location[c]) = placed[c]
             /\ \A at \in Range(location[c]) : at.node \in Nodes /\ at.index \in slice[at.node][c]
  <2>1. placed[c] = PlacedBy(c, k) /\ Len(location[c]) = placed[c]
        BY <1>3 DEF Located
  <2>2. request.workers[c] \in Nat /\ PlacedBy(c, k) \in Nat /\ PlacedBy(c, k) <= request.workers[c]
        BY <1>2, InputTypes, PlacedSteps
  <2>3. placed[c] \in 0..request.workers[c]
        BY <2>1, <2>2
  <2>4. ASSUME NEW at \in Range(location[c]) PROVE at.node \in Nodes /\ at.index \in slice[at.node][c]
    <3>1. PICK w \in DOMAIN location[c] : at = location[c][w]
          BY DEF Range
    <3>2. w \in 1..placed[c]
          BY <3>1, WhenDone
    <3>3. PICK j \in 1..k : \E i \in Nat \ {0} : PlacedIn(c, w, j, i)
          BY <1>2, <1>3, <3>2, WorkerIs
    <3>4. PICK i \in Nat \ {0} : PlacedIn(c, w, j, i)
          BY <3>3
    <3> QED BY <3>1, <3>4 DEF PlacedIn
  <2> QED BY <2>1, <2>3, <2>4
<1>8. ASSUME NEW s \in Range(storage) PROVE s.node \in Nodes /\ s.trainers \subseteq 1..placed["train"]
  <2>1. PICK i \in DOMAIN storage : s = storage[i]
        BY DEF Range
  <2>2. storage \in Seq([node : Nodes, trainers : SUBSET Nat]) /\ storage[i].trainers \subseteq 1..placed["train"]
        BY <1>1 DEF Shapes
  <2> DEFINE T == [node : Nodes, trainers : SUBSET Nat]
  <2>3. storage[i] \in T
    <3>1. storage \in Seq(T)
          BY <2>2
    <3> HIDE DEF T
    <3> QED BY <3>1
  <2> QED BY <2>1, <2>2, <2>3
<1> QED BY <1>4, <1>5, <1>6, <1>7, <1>8 DEF TypeOK

\* Slices do not overlap, and the workers on a unit fit on it.
LEMMA GpusDedicated ==
    ASSUME PlacementInv
    PROVE  DedicatedGpus
<1>1. Steady /\ Chosen
      BY WhenDone DEF Steady
<1>2. PICK k \in 0..Rounds : Located(k)
      BY WhenDone
<1>3. ASSUME NEW n \in Nodes, NEW c \in GpuComponents, NEW d \in GpuComponents \ {c}, ~MayShare(c, d)
      PROVE  slice[n][c] \cap slice[n][d] = {}
  <2>1. InLine(n) /\ c # d
        BY <1>1 DEF Steady
  <2> QED BY <1>1, <1>3, <2>1, KeptApart
<1>4. ASSUME NEW n \in Nodes, NEW c \in GpuComponents, NEW u \in 0..(gpus[n] - 1)
      PROVE  PartsOn(n, u, c) <= Parts
  <2> DEFINE S == {i \in DOMAIN location[c] : location[c][i] = [node |-> n, index |-> u]}
             need == request.need[c]
  <2>1. PartsOn(n, u, c) = need * Cardinality(S)
        BY DEF PartsOn
  <2>2. Parts \in Nat \ {0} /\ need \in Nat /\ Fits(c) \in Nat
        BY <1>1, InputTypes
  <2>3. DOMAIN location[c] = 1..placed[c] /\ placed[c] \in Nat
        BY WhenDone
  <2>4. IsFiniteSet(S) /\ Cardinality(S) \in Nat
    <3>1. S \subseteq 1..placed[c]
          BY <2>3
    <3> HIDE DEF S
    <3>2. IsFiniteSet(1..placed[c])
          BY <2>3, 1 \in Int, placed[c] \in Int, FS_Interval
    <3> QED BY <3>1, <3>2, FS_Subset, FS_CardinalityType
  <2> DEFINE count == Cardinality(S)
  <2>5. CASE need = 0
    <3>1. need * count = 0
      <4> HIDE DEF count
      <4> QED BY <2>4, <2>5 DEF count
    <3> QED BY <2>1, <2>2, <3>1
  <2>6. CASE need # 0
    <3>1. PICK x \in Nat : S \subseteq (x + 1)..(x + Fits(c))
          BY <1>1, <1>2, <2>3, <2>6, WorkersOfUnit
    <3>2. IsFiniteSet((x + 1)..(x + Fits(c))) /\ Cardinality((x + 1)..(x + Fits(c))) = Fits(c)
          BY <2>2, FromZero
    <3>3. count <= Fits(c)
          BY <3>1, <3>2, FS_Subset
    <3>4. Fits(c) * need <= Parts
          BY <1>1, <2>6, FitsWell
    <3>5. count * need <= Fits(c) * need
      <4> HIDE DEF count, need
      <4> QED BY <2>2, <2>4, <3>3, Monotone DEF count
    <3>6. need * count = count * need /\ count * need \in Nat /\ Fits(c) * need \in Nat
      <4> HIDE DEF count, need
      <4>1. count \in Nat /\ need \in Nat /\ Fits(c) \in Nat
            BY <2>2, <2>4 DEF count
      <4> QED BY <4>1, Product, Distributes
    <3> DEFINE y == count * need
               z == Fits(c) * need
    <3>7. y <= z /\ z <= Parts /\ y \in Nat /\ z \in Nat /\ PartsOn(n, u, c) = y
          BY <2>1, <3>4, <3>5, <3>6
    <3> HIDE DEF y, z
    <3> QED BY <2>2, <3>7
  <2> QED BY <2>5, <2>6
<1> QED BY <1>3, <1>4 DEF DedicatedGpus

\* The bundle of every worker, and the one storage of every train worker.
LEMMA WorkersBound ==
    ASSUME PlacementInv
    PROVE  BoundAsPacked
<1> SUFFICES ASSUME phase = "done"
             PROVE  /\ request.storageGpus = 0 =>
                         \A c \in GpuComponents : \A at \in Range(location[c]) :
                             at.index < Len(bundles[at.node]) /\ bundles[at.node][at.index + 1] = at.index
                    /\ \A w \in 1..placed["train"] :
                          /\ \E s \in Range(storage) : w \in s.trainers /\ s.node = location["train"][w].node
                          /\ Cardinality({i \in DOMAIN storage : w \in storage[i].trainers}) = 1
    BY DEF BoundAsPacked
<1>1. /\ Steady /\ Rounds \in Nat /\ Located(Rounds) /\ Stored(Rounds) /\ Bundled(Rounds) /\ Rounds \in 0..Rounds
      /\ \A c \in GpuComponents : DOMAIN location[c] = 1..placed[c]
      BY WhenDone
<1>2. ASSUME request.storageGpus = 0, NEW c \in GpuComponents, NEW at \in Range(location[c])
      PROVE  at.index < Len(bundles[at.node]) /\ bundles[at.node][at.index + 1] = at.index
  <2>1. PICK w \in 1..placed[c] : at = location[c][w]
        BY <1>1 DEF Range
  <2>2. PICK j \in 1..Rounds : \E i \in Nat \ {0} : PlacedIn(c, w, j, i)
        BY <1>1, WorkerIs
  <2>3. PICK i \in Nat \ {0} : PlacedIn(c, w, j, i)
        BY <2>2
  <2> DEFINE n == PackingOrder[j]
             u == UnitOf(n, c, i)
  <2>4. at.node = n /\ at.index = u /\ n \in Nodes /\ u \in slice[n][c]
        BY <2>1, <2>3 DEF PlacedIn
  <2>5. u + 1 \in DOMAIN bundles[n] /\ bundles[n][u + 1] = u
        BY <1>1, <1>2, <2>4 DEF Bundled
  <2>6. bundles[n] \in Seq(Nat \cup {CpuBundle})
        BY <2>4 DEF PlacementInv, Shapes
  <2>7. u \in Nat
        BY <1>1, <2>4, SliceFacts
  <2> HIDE DEF n, u
  <2>8. u < Len(bundles[n])
        BY <2>5, <2>6, <2>7
  <2> QED BY <2>4, <2>5, <2>8
<1>3. ASSUME NEW w \in 1..placed["train"]
      PROVE  /\ \E s \in Range(storage) : w \in s.trainers /\ s.node = location["train"][w].node
             /\ Cardinality({i \in DOMAIN storage : w \in storage[i].trainers}) = 1
  <2>1. "train" \in GpuComponents
        BY DEF GpuComponents
  <2>2. PICK j \in 1..Rounds : \E i \in Nat \ {0} : PlacedIn("train", w, j, i)
        BY <1>1, <2>1, WorkerIs
  <2>3. PICK i \in Nat \ {0} : PlacedIn("train", w, j, i)
        BY <2>2
  <2>4. Serves(j)
        BY <2>3 DEF PlacedIn, Serves
  <2>5. PICK l \in DOMAIN storage : storage[l].node = PackingOrder[j]
        BY <1>1, <2>4 DEF Stored
  <2>6. ASSUME NEW m \in DOMAIN storage
        PROVE  \E x \in 1..Rounds : /\ storage[m].node = PackingOrder[x]
                                    /\ storage[m].trainers = (PlacedBy("train", x - 1) + 1)..PlacedBy("train", x)
        BY <1>1 DEF Stored, ServiceOf
  <2>7. w \in storage[l].trainers
    <3>1. PICK x \in 1..Rounds : /\ storage[l].node = PackingOrder[x]
                                 /\ storage[l].trainers = (PlacedBy("train", x - 1) + 1)..PlacedBy("train", x)
          BY <2>6
    <3>2. x = j
          BY <1>1, <2>5, <3>1, ThePackingOrder
    <3> QED BY <2>3, <3>1, <3>2 DEF PlacedIn
  <2>8. storage[l].node = location["train"][w].node
        BY <2>3, <2>5 DEF PlacedIn
  <2>9. storage[l] \in Range(storage)
        BY DEF Range
  <2>10. ASSUME NEW m \in DOMAIN storage, w \in storage[m].trainers PROVE m = l
    <3>1. PICK x \in 1..Rounds : /\ storage[m].node = PackingOrder[x]
                                 /\ storage[m].trainers = (PlacedBy("train", x - 1) + 1)..PlacedBy("train", x)
          BY <2>6
    <3>2. w \in (PlacedBy("train", x - 1) + 1)..PlacedBy("train", x)
          BY <2>10, <3>1
    <3>3. w \in (PlacedBy("train", j - 1) + 1)..PlacedBy("train", j)
          BY <2>3 DEF PlacedIn
    <3>4. x = j
          BY <1>1, <2>1, <3>2, <3>3, OneRound
    <3> QED BY <1>1, <2>5, <3>1, <3>4 DEF Stored
  <2>11. {m \in DOMAIN storage : w \in storage[m].trainers} = {l}
        BY <2>7, <2>10
  <2>12. Cardinality({l}) = 1
        BY FS_Singleton
  <2> QED BY <2>7, <2>8, <2>9, <2>11, <2>12
<1> QED BY <1>2, <1>3

\* A loaded placement is the one that was saved.
LEMMA LoadedAsSaved ==
    ASSUME PlacementInv
    PROVE  ReloadedAsPlanned
<1> SUFFICES ASSUME mode = "manual"
             PROVE  (Homogeneous => phase # "rejected") /\ (phase = "done" => Placements = planned)
    BY DEF ReloadedAsPlanned
<1>1. Homogeneous => phase # "rejected"
      BY DEF PlacementInv, Packing
<1>2. ASSUME phase = "done" PROVE Placements = planned
  <2>1. /\ Steady /\ Rounds \in Nat /\ Rounds \in 0..Rounds /\ Located(Rounds)
        /\ location \in [GpuComponents -> Seq([node : Nodes, index : Nat])]
    <3>1. Steady /\ Rounds \in Nat /\ Located(Rounds)
          BY <1>2, WhenDone
    <3>2. location \in [GpuComponents -> Seq([node : Nodes, index : Nat])]
          BY DEF PlacementInv, Shapes
    <3>3. Rounds \in 0..Rounds
          BY <3>1
    <3> QED BY <3>1, <3>2, <3>3
  <2>2. AsSaved
        BY <1>2 DEF PlacementInv, Packing
  <2>3. /\ Placements \in [GpuComponents -> Seq(Nat \X Nat)]
        /\ \A c \in GpuComponents :
              /\ Len(Placements[c]) = PlacedBy(c, Rounds)
              /\ \A j \in 1..Rounds : \A i \in 1..(PlacedBy(c, j) - PlacedBy(c, j - 1)) :
                    Placements[c][PlacedBy(c, j - 1) + i] = <<j, UnitOf(PackingOrder[j], c, i)>>
        BY <2>1, PlacementsAre
  <2>4. ASSUME NEW c \in GpuComponents PROVE Placements[c] = planned[c]
    <3>1. /\ Placements[c] \in Seq(Nat \X Nat) /\ planned[c] \in Seq(Nat \X Nat)
          /\ Len(Placements[c]) = PlacedBy(c, Rounds) /\ Len(planned[c]) = PlacedBy(c, Rounds)
          BY <2>2, <2>3 DEF AsSaved
    <3>2. ASSUME NEW w \in 1..PlacedBy(c, Rounds) PROVE Placements[c][w] = planned[c][w]
      <4>1. PICK j \in 1..Rounds : \E i \in 1..(PlacedBy(c, j) - PlacedBy(c, j - 1)) : w = PlacedBy(c, j - 1) + i
            BY <2>1, RoundOf
      <4>2. PICK i \in 1..(PlacedBy(c, j) - PlacedBy(c, j - 1)) : w = PlacedBy(c, j - 1) + i
            BY <4>1
      <4>3. Placements[c][PlacedBy(c, j - 1) + i] = <<j, UnitOf(PackingOrder[j], c, i)>>
            BY <2>3
      <4>4. planned[c][PlacedBy(c, j - 1) + i] = <<j, UnitOf(PackingOrder[j], c, i)>>
            BY <2>2 DEF AsSaved
      <4> QED BY <4>2, <4>3, <4>4
    <3> DEFINE T == Nat \X Nat
               q == Placements[c]
               t == planned[c]
    <3>3. q \in Seq(T) /\ t \in Seq(T) /\ Len(q) = Len(t) /\ \A i \in 1..Len(q) : q[i] = t[i]
          BY <3>1, <3>2
    <3> HIDE DEF T, q, t
    <3>4. q = t
          BY <3>3, SameLists
    <3> QED BY <3>4 DEF q, t
  <2>5. planned \in [GpuComponents -> Seq(Nat \X Nat)]
        BY <2>2 DEF AsSaved
  <2> DEFINE Y == Seq(Nat \X Nat)
  <2>6. Placements \in [GpuComponents -> Y] /\ planned \in [GpuComponents -> Y]
        BY <2>3, <2>5
  <2> HIDE DEF Y
  <2> QED BY <2>4, <2>6
<1> QED BY <1>1, <1>2

\* Placement, binding and a second placement agree with the plan (PlacedAsPlanned),
\* for every cluster, request, strategy and numbering of the nodes.
THEOREM PlacedRight == DPSpec => []PlacedAsPlanned
<1>1. PlacementInv => PlacedAsPlanned
      BY GpusDedicated, WorkersBound, LoadedAsSaved DEF PlacedAsPlanned
<1> QED BY <1>1, PlacementHolds, PTL

----------------------------------------------------------------------------
(***************************************************************************)
(* The inductive invariant of DataParallel: once the table is built, the   *)
(* placement is done and stays; table and data sets are what the checks    *)
(* that let them pass say of them.                                         *)
(***************************************************************************)
DealtWith(s) ==
    /\ Storages(s) # {} /\ ~EnvsRefused(s) /\ ~TrainersRefused(s)
    /\ shardOf = [e \in Envs |-> StorageOfEnv(s, e)]
    /\ workersOf = [i \in Storages(s) |-> TrainersOf(s, i)]

HandedOut ==
    [w \in UNION Range(workersOf) |->
        [storage |-> StorageOfTrainer(w), rows |-> RowsFor(w, StorageOfTrainer(w))]]

Dealt ==
    /\ stage \in {"none", "sample", "train", "refused"}
    /\ stage # "none" => phase = "done"
    /\ stage \in {"sample", "train"} => setup \in Setups[request] /\ DealtWith(setup)
    /\ stage = "train" => ~SampleRefused /\ given = HandedOut

Counting ==
    /\ entered \in [Trainers -> Nat]
    /\ status \in [Trainers -> {"idle", "trains", "trained", "raised"}]

DataInv == PlacementInv /\ Dealt /\ Counting

\* No step of the placement changes the request.
LEMMA RequestStays ==
    ASSUME Next
    PROVE  request' = request
<1>1. inputVars' = inputVars => request' = request
      BY DEF inputVars
<1>2. ASSUME NEW p, NEW name, Carry(p, name) PROVE request' = request
      BY <1>1, <1>2 DEF Carry
<1>3. TrainPool \/ RolloutPool \/ GlobalPool => request' = request
      BY <1>2 DEF TrainPool, RolloutPool, GlobalPool
<1>4. ASSUME NEW from, NEW C, NEW to, NextPhase(from, C, to) PROVE request' = request
      BY <1>1, <1>4 DEF NextPhase
<1>5. Validate \/ SkipNode \/ Pack \/ Verify => request' = request
      BY <1>1 DEF Validate, SkipNode, Pack, Verify
<1>6. Reload => request' = request
      BY DEF Reload
<1> QED BY <1>3, <1>4, <1>5, <1>6 DEF Next

\* What the table says does not change while the placement does not.
LEMMA TablesSame ==
    ASSUME UNCHANGED vars, NEW s, s = setup'
    PROVE  /\ Storages(setup)' = Storages(s) /\ Envs' = Envs /\ Trainers' = Trainers
           /\ EnvsRefused(setup)' <=> EnvsRefused(s)
           /\ TrainersRefused(setup)' <=> TrainersRefused(s)
           /\ \A e : StorageOfEnv(setup, e)' = StorageOfEnv(s, e)
           /\ \A i : TrainersOf(setup, i)' = TrainersOf(s, i)
<1>1. storage' = storage /\ location' = location /\ request' = request
      BY DEF vars, inputVars, packVars
<1>2. Storages(setup)' = Storages(s) /\ Envs' = Envs /\ Trainers' = Trainers
      BY <1>1 DEF Storages, Envs, Trainers
<1>3. \A c, n : WorkersOn(c, n)' = WorkersOn(c, n)
      BY <1>1 DEF WorkersOn
<1>4. \A c : EvenlyServed(c)' <=> EvenlyServed(c)
      BY <1>1 DEF EvenlyServed, WorkersOn
<1>5. \A e : Near(setup, e)' = Near(s, e)
      BY <1>1, <1>2 DEF Near
<1>6. EnvsRefused(setup)' <=> EnvsRefused(s)
      BY <1>2, <1>4, <1>5 DEF EnvsRefused
<1>7. TrainersRefused(setup)' <=> TrainersRefused(s)
      BY <1>1, <1>2, <1>4 DEF TrainersRefused
<1>8. \A e : StorageOfEnv(setup, e)' = StorageOfEnv(s, e)
  <2> SUFFICES ASSUME NEW e PROVE StorageOfEnv(setup, e)' = StorageOfEnv(s, e)
      OBVIOUS
  <2>1. (CHOOSE i \in Near(setup, e)' : TRUE) = (CHOOSE i \in Near(s, e) : TRUE)
        BY <1>5
  <2> DEFINE x == CHOOSE i \in Near(setup, e)' : TRUE
             y == CHOOSE i \in Near(s, e) : TRUE
  <2>2. StorageOfEnv(setup, e)' = IF s.nearEnvs THEN x ELSE 1 + ((e - 1) % Cardinality(Storages(setup)'))
        BY DEF StorageOfEnv
  <2>3. StorageOfEnv(s, e) = IF s.nearEnvs THEN y ELSE 1 + ((e - 1) % Cardinality(Storages(s)))
        BY DEF StorageOfEnv
  <2>4. x = y
        BY <2>1
  <2> HIDE DEF x, y
  <2> QED BY <1>2, <2>2, <2>3, <2>4
<1>9. \A i : TrainersOf(setup, i)' = TrainersOf(s, i)
  <2> SUFFICES ASSUME NEW i PROVE TrainersOf(setup, i)' = TrainersOf(s, i)
      OBVIOUS
  <2>1. WorkersOn("train", storage[i].node)' = WorkersOn("train", storage[i].node)
        BY <1>1 DEF WorkersOn
  <2> QED BY <1>2, <2>1 DEF TrainersOf
<1> QED BY <1>2, <1>6, <1>7, <1>8, <1>9

\* A table that is built deals environments and trainers out as DealtWith says.
LEMMA DealtSame ==
    ASSUME UNCHANGED vars, NEW s, s = setup', Storages(s) # {}, ~EnvsRefused(s), ~TrainersRefused(s),
           shardOf' = [e \in Envs |-> StorageOfEnv(s, e)],
           workersOf' = [i \in Storages(s) |-> TrainersOf(s, i)]
    PROVE  DealtWith(setup)'
<1>1. /\ Storages(setup)' = Storages(s) /\ Envs' = Envs
      /\ EnvsRefused(setup)' <=> EnvsRefused(s)
      /\ TrainersRefused(setup)' <=> TrainersRefused(s)
      /\ \A e : StorageOfEnv(setup, e)' = StorageOfEnv(s, e)
      /\ \A i : TrainersOf(setup, i)' = TrainersOf(s, i)
      BY TablesSame
<1>2. shardOf' = [e \in Envs |-> StorageOfEnv(setup, e)]'
      BY <1>1
<1>3. workersOf' = [i \in Storages(setup) |-> TrainersOf(setup, i)]'
      BY <1>1
<1> QED BY <1>1, <1>2, <1>3 DEF DealtWith

\* A sample is what table and setup make of it.
LEMMA SampleSame ==
    ASSUME UNCHANGED vars, UNCHANGED <<setup, shardOf, workersOf>>
    PROVE  HandedOut' = HandedOut /\ (SampleRefused' <=> SampleRefused)
<1>1. /\ Storages(setup)' = Storages(setup) /\ Envs' = Envs
      /\ setup' = setup /\ shardOf' = shardOf /\ workersOf' = workersOf
      BY DEF vars, inputVars, packVars, Storages, Envs
<1>2. \A i : SizeOf(i)' = SizeOf(i)
      BY <1>1 DEF SizeOf
<1>3. TotalSize' = TotalSize
      BY <1>1, <1>2 DEF TotalSize
<1>4. \A i : Drawn(i)' = Drawn(i)
      BY <1>1, <1>2 DEF Drawn
<1>5. \A i : CannotDraw(i)' <=> CannotDraw(i)
      BY <1>1, <1>2, <1>4 DEF CannotDraw
<1>6. TooFewRows' <=> TooFewRows
      BY <1>1, <1>3 DEF TooFewRows
<1>7. SampleRefused' <=> SampleRefused
      BY <1>1, <1>2, <1>5, <1>6 DEF SampleRefused
<1>8. \A w : StorageOfTrainer(w)' = StorageOfTrainer(w)
      BY <1>1 DEF StorageOfTrainer
<1>9. \A n, m : SplitLength(n, m)' = SplitLength(n, m)
      BY <1>1 DEF SplitLength
<1>10. \A w, i : Rank(w, i)' = Rank(w, i)
      BY <1>1 DEF Rank
<1>11. \A w, i : RowsFor(w, i)' = RowsFor(w, i)
      BY <1>1, <1>4, <1>9, <1>10 DEF RowsFor
<1>12. HandedOut' = HandedOut
      BY <1>1, <1>8, <1>11 DEF HandedOut
<1> QED BY <1>7, <1>12

LEMMA DataStarts ==
    ASSUME DPInit
    PROVE  DataInv
<1>1. PlacementInv
      BY Starts DEF DPInit
<1>2. Dealt
      BY DEF DPInit, Dealt
<1>3. Counting
      BY DEF DPInit, Counting
<1> QED BY <1>1, <1>2, <1>3 DEF DataInv

\* Each step keeps the invariant.
LEMMA DataSteps ==
    ASSUME DataInv, [DPNext]_allVars
    PROVE  DataInv'
<1>1. PlacementInv'
      BY PlacementSteps DEF DataInv
<1>2. Dealt /\ Counting
      BY DEF DataInv
<1>3. UNCHANGED vars => Trainers' = Trainers /\ phase' = phase /\ request' = request
      BY DEF vars, inputVars, Trainers
<1>4. CASE Place
  <2>1. stage = "none" /\ UNCHANGED dpVars /\ request' = request
        BY <1>4, RequestStays DEF Place
  <2>2. Dealt'
        BY <2>1 DEF Dealt, dpVars
  <2>3. Counting'
        BY <1>2, <2>1 DEF Counting, dpVars, Trainers
  <2> QED BY <1>1, <2>2, <2>3 DEF DataInv
<1>5. CASE BuildTable
  <2>1. UNCHANGED vars /\ phase = "done" /\ UNCHANGED <<given, entered, status>>
        BY <1>5 DEF BuildTable
  <2>2. PICK s \in Setups[request] :
            /\ setup' = s
            /\ IF Storages(s) = {} \/ EnvsRefused(s) \/ TrainersRefused(s)
               THEN stage' = "refused" /\ UNCHANGED <<shardOf, workersOf>>
               ELSE /\ stage' = "sample"
                    /\ shardOf' = [e \in Envs |-> StorageOfEnv(s, e)]
                    /\ workersOf' = [i \in Storages(s) |-> TrainersOf(s, i)]
        BY <1>5 DEF BuildTable
  <2>3. stage' = "refused" \/ (stage' = "sample" /\ DealtWith(setup)')
        BY <2>1, <2>2, DealtSame
  <2>4. Dealt'
        BY <1>3, <2>1, <2>2, <2>3 DEF Dealt
  <2>5. Counting'
        BY <1>2, <1>3, <2>1 DEF Counting
  <2> QED BY <1>1, <2>4, <2>5 DEF DataInv
<1>6. ASSUME UNCHANGED vars, UNCHANGED <<setup, shardOf, workersOf>>, DealtWith(setup)
      PROVE  DealtWith(setup)'
  <2>1. setup' = setup /\ shardOf' = shardOf /\ workersOf' = workersOf
        BY <1>6
  <2>2. /\ Storages(setup) # {} /\ ~EnvsRefused(setup) /\ ~TrainersRefused(setup)
        /\ shardOf' = [e \in Envs |-> StorageOfEnv(setup, e)]
        /\ workersOf' = [i \in Storages(setup) |-> TrainersOf(setup, i)]
        BY <1>6, <2>1 DEF DealtWith
  <2>3. \A s : s = setup => setup' = s /\ Storages(s) # {} /\ ~EnvsRefused(s) /\ ~TrainersRefused(s)
                            /\ shardOf' = [e \in Envs |-> StorageOfEnv(s, e)]
                            /\ workersOf' = [i \in Storages(s) |-> TrainersOf(s, i)]
        BY <2>1, <2>2
  <2>4. \A s : s = setup => DealtWith(setup)'
        BY <1>6, <2>3, DealtSame
  <2> QED BY <2>4
<1>7. CASE Sample
  <2>1. /\ UNCHANGED vars /\ UNCHANGED <<setup, shardOf, workersOf>> /\ entered' = entered /\ stage = "sample"
        BY <1>7 DEF Sample
  <2>2. \/ stage' = "refused" /\ UNCHANGED <<given, status>>
        \/ /\ ~SampleRefused /\ stage' = "train" /\ given' = HandedOut
           /\ status' = [w \in Trainers |-> "trains"]
        BY <1>7 DEF Sample, HandedOut
  <2>3. HandedOut' = HandedOut /\ (SampleRefused' <=> SampleRefused)
        BY <2>1, SampleSame
  <2>4. setup \in Setups[request] /\ DealtWith(setup)' /\ phase = "done"
        BY <1>2, <1>6, <2>1 DEF Dealt
  <2>5. Dealt'
        BY <1>3, <2>1, <2>2, <2>3, <2>4 DEF Dealt
  <2>6. Counting'
        BY <1>2, <1>3, <2>1, <2>2 DEF Counting
  <2> QED BY <1>1, <2>5, <2>6 DEF DataInv
<1>8. ASSUME UNCHANGED vars, UNCHANGED <<setup, stage, shardOf, workersOf, given>>
      PROVE  Dealt'
  <2>1. HandedOut' = HandedOut /\ (SampleRefused' <=> SampleRefused)
        BY <1>8, SampleSame
  <2>2. DealtWith(setup) => DealtWith(setup)'
        BY <1>6, <1>8
  <2> QED BY <1>2, <1>3, <1>8, <2>1, <2>2 DEF Dealt
<1>9. CASE \E w \in Trainers : Train(w)
  <2>1. PICK w \in Trainers : Train(w)
        BY <1>9
  <2>2. UNCHANGED vars /\ UNCHANGED <<setup, stage, shardOf, workersOf, given>>
        BY <2>1 DEF Train, Enter, Return, Raise
  <2>3. \/ entered' = [entered EXCEPT ![w] = @ + 1] /\ status' = status
        \/ entered' = entered /\ status' = [status EXCEPT ![w] = "trained"]
        \/ entered' = entered /\ status' = [status EXCEPT ![w] = "raised"]
        BY <2>1 DEF Train, Enter, Return, Raise
  <2>4. Counting'
        BY <1>2, <1>3, <2>2, <2>3 DEF Counting
  <2> QED BY <1>1, <1>8, <2>2, <2>4 DEF DataInv
<1>10. CASE UNCHANGED allVars
  <2>1. UNCHANGED vars /\ UNCHANGED <<setup, stage, shardOf, workersOf, given>> /\ entered' = entered /\ status' = status
        BY <1>10 DEF allVars, dpVars
  <2>2. Counting'
        BY <1>2, <1>3, <2>1 DEF Counting
  <2> QED BY <1>1, <1>8, <2>1, <2>2 DEF DataInv
<1> QED BY <1>4, <1>5, <1>7, <1>9, <1>10 DEF DPNext

\* The inductive invariant of both modules holds in every run.
THEOREM DataHolds == DPSpec => []DataInv
<1>1. DPInit => DataInv
      BY DataStarts
<1>2. DataInv /\ [DPNext]_allVars => DataInv'
      BY DataSteps
<1> QED BY <1>1, <1>2, PTL DEF DPSpec

----------------------------------------------------------------------------
\* Storages, environments and train workers of a table.
LEMMA SetupIs ==
    ASSUME NEW r \in Requests, NEW s \in Setups[r]
    PROVE  /\ s \in Setup
           /\ s.rows \in Nat /\ s.batch \in Nat /\ s.dropLast \in BOOLEAN /\ s.nearTrainers \in BOOLEAN
           /\ s.nearEnvs \in BOOLEAN /\ s.sharded \in BOOLEAN
<1>1. s \in Setup
      BY SetupsAssumption
<1> QED BY <1>1 DEF Setup

\* The members of 1..n, counted.
LEMMA FirstOnes ==
    ASSUME NEW n \in Nat
    PROVE  IsFiniteSet(1..n) /\ Cardinality(1..n) = n
<1>1. 0 \in Nat /\ (0 + 1)..(0 + n) = 1..n
      OBVIOUS
<1> QED BY <1>1, FromZero

\* There are as many storages as nodes that serve, or one.
LEMMA StoragesAre ==
    ASSUME PlacementInv, NEW s, Storages(s) # {}
    PROVE  \E m \in Nat \ {0} :
               /\ Storages(s) = 1..m /\ IsFiniteSet(Storages(s)) /\ Cardinality(Storages(s)) = m
               /\ m = IF s.sharded THEN Len(storage) ELSE 1
<1> DEFINE m == IF s.sharded THEN Len(storage) ELSE 1
           T == [node : Nodes, trainers : SUBSET Nat]
<1>1. m \in Nat
  <2>1. storage \in Seq(T)
        BY DEF PlacementInv, Shapes
  <2> HIDE DEF T
  <2>2. Len(storage) \in Nat
        BY <2>1
  <2> QED BY <2>2
<1>2. Storages(s) = 1..m
      BY DEF Storages
<1> HIDE DEF m
<1>3. m \in Nat \ {0}
      BY <1>1, <1>2
<1>4. IsFiniteSet(1..m) /\ Cardinality(1..m) = m
      BY <1>1, FirstOnes
<1> QED BY <1>2, <1>3, <1>4 DEF m

\* An environment has a storage, of its own node if that is asked for.
LEMMA EnvStored ==
    ASSUME PlacementInv, NEW s, Storages(s) # {}, ~EnvsRefused(s), NEW e \in Envs
    PROVE  /\ StorageOfEnv(s, e) \in Storages(s)
           /\ s.nearEnvs => StorageOfEnv(s, e) \in Near(s, e)
<1>1. CASE s.nearEnvs
  <2>1. Near(s, e) # {}
        BY <1>1 DEF EnvsRefused
  <2>2. StorageOfEnv(s, e) = CHOOSE i \in Near(s, e) : TRUE
        BY <1>1 DEF StorageOfEnv
  <2>3. StorageOfEnv(s, e) \in Near(s, e)
        BY <2>1, <2>2
  <2> QED BY <2>3 DEF Near
<1>2. CASE ~s.nearEnvs
  <2>1. PICK m \in Nat \ {0} : Storages(s) = 1..m /\ Cardinality(Storages(s)) = m
        BY StoragesAre
  <2>2. StorageOfEnv(s, e) = 1 + ((e - 1) % m)
        BY <1>2, <2>1 DEF StorageOfEnv
  <2>3. e - 1 \in Nat
    <3>1. request.workers["env"] \in Nat
          BY WhenDone, InputTypes DEF Steady, GpuComponents
    <3>2. e \in 1..request.workers["env"]
          BY DEF Envs
    <3> QED BY <3>1, <3>2
  <2>4. (e - 1) % m \in 0..(m - 1)
        BY <2>1, <2>3, Division
  <2> DEFINE x == (e - 1) % m
  <2> HIDE DEF x
  <2>5. 1 + x \in 1..m
        BY <2>1, <2>4 DEF x
  <2> QED BY <1>2, <2>1, <2>2, <2>5 DEF x
<1> QED BY <1>1, <1>2

\* Workers in blocks of one size.
Block(share, i) == ((i - 1) * share + 1)..(i * share)

InBlocks(m, share, all) ==
    /\ \A i \in 1..m : /\ Block(share, i) \subseteq 1..all
                       /\ IsFiniteSet(Block(share, i)) /\ Cardinality(Block(share, i)) = share
    /\ \A i, l \in 1..m : \A w : w \in Block(share, i) /\ w \in Block(share, l) => i = l
    /\ \A w \in 1..all : \E i \in 1..m : w \in Block(share, i)

\* Consecutive blocks of one size cover all and are apart.
LEMMA Blocks ==
    ASSUME NEW m \in Nat \ {0}, NEW share \in Nat, NEW all \in Nat, all = share * m
    PROVE  InBlocks(m, share, all)
<1>1. ASSUME NEW i \in 1..m
      PROVE  \E a \in Nat : a = (i - 1) * share /\ i * share = a + share /\ Block(share, i) = (a + 1)..(a + share)
  <2>1. i - 1 \in Nat /\ (i - 1) + 1 = i
        OBVIOUS
  <2> DEFINE p == i - 1
  <2>2. p \in Nat /\ p + 1 = i
        BY <2>1
  <2> HIDE DEF p
  <2>3. p * share \in Nat /\ (p + 1) * share = p * share + share
        BY <2>2, Product
  <2> QED BY <2>2, <2>3 DEF Block, p
<1>2. ASSUME NEW i \in 1..m
      PROVE  /\ Block(share, i) \subseteq 1..all
             /\ IsFiniteSet(Block(share, i)) /\ Cardinality(Block(share, i)) = share
  <2>1. PICK a \in Nat : i * share = a + share /\ Block(share, i) = (a + 1)..(a + share)
        BY <1>1
  <2>2. i * share <= m * share /\ m * share = share * m
        BY Monotone, Distributes
  <2>3. a + share <= all
        BY <2>1, <2>2
  <2>4. Block(share, i) \subseteq 1..all
    <3>1. (a + 1)..(a + share) \subseteq 1..all
          BY <2>3
    <3>2. Block(share, i) = (a + 1)..(a + share)
          BY <2>1
    <3> QED BY <3>1, <3>2
  <2>5. IsFiniteSet((a + 1)..(a + share)) /\ Cardinality((a + 1)..(a + share)) = share
        BY FromZero
  <2>6. Block(share, i) = (a + 1)..(a + share)
        BY <2>1
  <2> QED BY <2>4, <2>5, <2>6
<1>3. ASSUME NEW i \in 1..m, NEW l \in 1..m, NEW w, w \in Block(share, i), w \in Block(share, l)
      PROVE  i = l
  <2>1. PICK a \in Nat : a = (i - 1) * share /\ Block(share, i) = (a + 1)..(a + share)
        BY <1>1
  <2>2. PICK b \in Nat : b = (l - 1) * share /\ Block(share, l) = (b + 1)..(b + share)
        BY <1>1
  <2>3. w \in (a + 1)..(a + share) /\ w \in (b + 1)..(b + share)
        BY <1>3, <2>1, <2>2
  <2> DEFINE r1 == w - a - 1
             r2 == w - b - 1
             x == i - 1
             y == l - 1
  <2>4. share \in Nat \ {0} /\ r1 \in 0..(share - 1) /\ r2 \in 0..(share - 1) /\ a + r1 = b + r2
        BY <2>3
  <2>5. x \in Nat /\ y \in Nat
        OBVIOUS
  <2>6. x * share + r1 = y * share + r2
    <3> HIDE DEF r1, r2
    <3> QED BY <2>1, <2>2, <2>4
  <2> HIDE DEF r1, r2, x, y
  <2>7. x = y
        BY <2>4, <2>5, <2>6, OneQuotient
  <2> QED BY <2>7 DEF x, y
<1>4. ASSUME NEW w \in 1..all PROVE \E i \in 1..m : w \in Block(share, i)
  <2>1. share # 0
    <3>1. share = 0 => all = 0
          OBVIOUS
    <3> QED BY <3>1
  <2> DEFINE k == w - 1
             q == k \div share
             r == k % share
  <2>2. k \in Nat /\ k + 1 = w /\ k + 1 <= all
        OBVIOUS
  <2> HIDE DEF k
  <2>3. q \in Nat /\ r \in 0..(share - 1) /\ k = q * share + r
        BY <2>1, <2>2, Division
  <2>4. q < m
    <3>1. all = m * share
          BY Distributes
    <3>2. k < m * share
          BY <2>2, <3>1
    <3> QED BY <2>1, <2>2, <3>2, QuotientBelow
  <2> HIDE DEF q, r
  <2>5. q + 1 \in 1..m /\ (q + 1) - 1 = q
        BY <2>3, <2>4
  <2>6. PICK a \in Nat : a = ((q + 1) - 1) * share /\ Block(share, q + 1) = (a + 1)..(a + share)
        BY <1>1, <2>5
  <2> DEFINE p == q * share
  <2>7. a = p /\ k = p + r
        BY <2>3, <2>5, <2>6
  <2> HIDE DEF p
  <2>8. w \in (a + 1)..(a + share)
        BY <2>2, <2>3, <2>7
  <2> QED BY <2>5, <2>6, <2>8
<1> QED BY <1>2, <1>3, <1>4 DEF InBlocks

----------------------------------------------------------------------------
\* Every train worker has one storage, every storage as many workers as the others.
DealtOut(s, world) ==
    /\ Trainers # {}
    /\ \A i \in Storages(s) :
          TrainersOf(s, i) \subseteq Trainers /\ IsFiniteSet(TrainersOf(s, i)) /\ Cardinality(TrainersOf(s, i)) = world
    /\ \A i, l \in Storages(s) : \A w : w \in TrainersOf(s, i) /\ w \in TrainersOf(s, l) => i = l
    /\ \A w \in Trainers : \E i \in Storages(s) : w \in TrainersOf(s, i)

\* When the placement is done and a storage has been placed, every train worker has been.
LEMMA TrainersPlaced ==
    ASSUME PlacementInv, phase = "done", NEW i \in DOMAIN storage
    PROVE  placed["train"] = request.workers["train"]
<1>1. /\ Steady /\ Rounds \in Nat /\ Located(Rounds) /\ Stored(Rounds) /\ "train" \in GpuComponents
      BY WhenDone DEF GpuComponents
<1>2. PICK j \in 1..Rounds : Serves(j)
      BY <1>1 DEF Stored
<1>3. PackingOrder[j] \in Nodes /\ pool[PackingOrder[j]] # "none"
      BY <1>1, ThePackingOrder
<1>4. Tracked("train")
      BY <1>2, <1>3 DEF Tracked, Serves
<1>5. AllPlaced
      BY DEF PlacementInv, Packing
<1> QED BY <1>1, <1>4, <1>5 DEF AllPlaced, Located

\* With affinity a storage has the workers of its node.
LEMMA NearWorkers ==
    ASSUME PlacementInv, phase = "done", NEW s, s.nearTrainers, Storages(s) # {}, ~TrainersRefused(s)
    PROVE  \E world \in Nat : DealtOut(s, world)
<1>1. EvenlyServed("train") /\ DOMAIN storage = Storages(s)
      BY DEF TrainersRefused
<1>2. \A i \in Storages(s) : TrainersOf(s, i) = WorkersOn("train", storage[i].node)
      BY DEF TrainersOf
<1>3. PICK i0 \in DOMAIN storage : TRUE
      BY <1>1
<1>4. /\ DOMAIN location["train"] = 1..placed["train"] /\ placed["train"] \in Nat
      /\ placed["train"] = request.workers["train"] /\ Stored(Rounds)
      BY <1>3, WhenDone, TrainersPlaced DEF GpuComponents
<1>5. Trainers = 1..placed["train"] /\ IsFiniteSet(Trainers)
      BY <1>4, FirstOnes DEF Trainers
<1>6. ASSUME NEW i \in Storages(s)
      PROVE  TrainersOf(s, i) \subseteq Trainers /\ IsFiniteSet(TrainersOf(s, i)) /\ Cardinality(TrainersOf(s, i)) \in Nat
  <2>1. TrainersOf(s, i) \subseteq Trainers
        BY <1>2, <1>4, <1>5 DEF WorkersOn
  <2> QED BY <1>5, <2>1, FS_Subset, FS_CardinalityType
<1>12. Trainers # {}
      BY <1>1, <1>2, <1>6 DEF EvenlyServed
<1> DEFINE world == Cardinality(TrainersOf(s, i0))
<1>7. \A i \in Storages(s) : Cardinality(TrainersOf(s, i)) = world
      BY <1>1, <1>2 DEF EvenlyServed
<1>8. ASSUME NEW i \in Storages(s), NEW l \in Storages(s), NEW w, w \in TrainersOf(s, i), w \in TrainersOf(s, l)
      PROVE  i = l
  <2>1. storage[i].node = storage[l].node
        BY <1>2, <1>8 DEF WorkersOn
  <2> QED BY <1>1, <1>4, <2>1 DEF Stored
<1>9. ASSUME NEW w \in Trainers PROVE \E i \in Storages(s) : w \in TrainersOf(s, i)
  <2>1. PICK x \in Range(storage) : x.node = location["train"][w].node
        BY <1>5, WorkersBound DEF BoundAsPacked
  <2>2. PICK i \in DOMAIN storage : x = storage[i]
        BY DEF Range
  <2> QED BY <1>1, <1>2, <1>4, <1>5, <2>1, <2>2 DEF WorkersOn
<1>10. world \in Nat
      BY <1>1, <1>6
<1> HIDE DEF world
<1>11. DealtOut(s, world)
      BY <1>6, <1>7, <1>8, <1>9, <1>12 DEF DealtOut
<1> QED BY <1>10, <1>11

\* Without, the workers are dealt out in blocks.
LEMMA BlocksOfWorkers ==
    ASSUME PlacementInv, NEW s, ~s.nearTrainers, Storages(s) # {}, ~TrainersRefused(s)
    PROVE  \E world \in Nat : DealtOut(s, world)
<1>1. PICK m \in Nat \ {0} : Storages(s) = 1..m /\ Cardinality(Storages(s)) = m
      BY StoragesAre
<1> DEFINE all == request.workers["train"]
           share == all \div m
<1>2. all \in Nat
      BY WhenDone, InputTypes DEF Steady, GpuComponents
<1>3. Trainers = 1..all /\ Cardinality(Trainers) = all
  <2>1. Trainers = 1..all
        BY DEF Trainers
  <2> QED BY <1>2, <2>1, FirstOnes
<1>4. all % m = 0 /\ Trainers # {}
      BY <1>1, <1>3 DEF TrainersRefused
<1>5. \A i \in Storages(s) : TrainersOf(s, i) = Block(share, i)
      BY <1>1, <1>3 DEF TrainersOf, Block
<1> HIDE DEF all
<1>6. share \in Nat /\ all = share * m
  <2>1. share \in Nat /\ all = share * m + (all % m)
        BY <1>1, <1>2, Division
  <2>2. share * m \in Nat
        BY <1>1, <2>1, Product
  <2> DEFINE p == share * m
  <2> HIDE DEF p, share
  <2>3. p \in Nat /\ all = p + (all % m) /\ p = share * m
        BY <2>1, <2>2 DEF p
  <2>4. all = p
        BY <1>4, <2>3
  <2> QED BY <2>1, <2>3, <2>4
<1> HIDE DEF share
<1>7. InBlocks(m, share, all)
      BY <1>1, <1>2, <1>6, Blocks
<1>8. DealtOut(s, share)
      BY <1>1, <1>3, <1>4, <1>5, <1>7 DEF DealtOut, InBlocks
<1> QED BY <1>6, <1>8

\* Every storage has as many trainers, and every trainer one storage.
LEMMA WorkersDealt ==
    ASSUME PlacementInv, phase = "done", NEW s, Storages(s) # {}, ~TrainersRefused(s)
    PROVE  \E world \in Nat : DealtOut(s, world)
BY NearWorkers, BlocksOfWorkers

----------------------------------------------------------------------------
\* The place of a number in a set: Rank of the workers of a storage.
RankIn(W, w) == Cardinality({v \in W : v < w})

Ranked(W, n) ==
    /\ \A w \in W : RankIn(W, w) \in 0..(n - 1)
    /\ \A v, w \in W : RankIn(W, v) = RankIn(W, w) => v = w
    /\ \A r \in 0..(n - 1) : \E w \in W : RankIn(W, w) = r

\* Ranks within a finite set of numbers are a numbering of it.
LEMMA Ranks ==
    ASSUME NEW n \in Nat, NEW W, W \subseteq Nat, IsFiniteSet(W), Cardinality(W) = n
    PROVE  Ranked(W, n)
<1> DEFINE Below(w) == {v \in W : v < w}
<1>1. ASSUME NEW w \in W
      PROVE  IsFiniteSet(Below(w)) /\ RankIn(W, w) = Cardinality(Below(w)) /\ Cardinality(Below(w)) \in Nat
  <2>1. Below(w) \subseteq W
        OBVIOUS
  <2>2. RankIn(W, w) = Cardinality(Below(w))
        BY DEF RankIn
  <2> HIDE DEF Below
  <2> QED BY <2>1, <2>2, FS_Subset, FS_CardinalityType
<1>2. ASSUME NEW w \in W PROVE RankIn(W, w) \in 0..(n - 1)
  <2>1. Below(w) \subseteq W \ {w}
    <3>1. w \in Nat
          OBVIOUS
    <3> QED BY <3>1
  <2>2. IsFiniteSet(W \ {w}) /\ Cardinality(W \ {w}) = n - 1
        BY FS_RemoveElement
  <2>3. Cardinality(Below(w)) <= n - 1
    <3> HIDE DEF Below
    <3> QED BY <2>1, <2>2, FS_Subset
  <2> DEFINE a == Cardinality(Below(w))
  <2>4. a \in Nat /\ a <= n - 1 /\ RankIn(W, w) = a
        BY <1>1, <2>3
  <2> HIDE DEF a
  <2> QED BY <2>4
<1>3. ASSUME NEW v \in W, NEW w \in W, v < w PROVE RankIn(W, v) < RankIn(W, w)
  <2>1. v \in Nat /\ w \in Nat
        OBVIOUS
  <2>2. Below(v) \cup {v} \subseteq Below(w) /\ v \notin Below(v)
    <3>1. ASSUME NEW x \in Below(v) PROVE x \in Below(w) /\ x # v
      <4>1. x \in W /\ x < v /\ x \in Nat
            OBVIOUS
      <4> QED BY <1>3, <2>1, <4>1
    <3>2. v \in Below(w)
          BY <1>3
    <3> HIDE DEF Below
    <3> QED BY <3>1, <3>2
  <2>3. IsFiniteSet(Below(v)) /\ IsFiniteSet(Below(w))
        BY <1>1
  <2>4. Cardinality(Below(v) \cup {v}) = Cardinality(Below(v)) + 1
    <3> HIDE DEF Below
    <3> QED BY <2>2, <2>3, FS_AddElement
  <2>5. Cardinality(Below(v) \cup {v}) <= Cardinality(Below(w))
    <3> HIDE DEF Below
    <3> QED BY <2>2, <2>3, FS_Subset
  <2> DEFINE a == Cardinality(Below(v))
             b == Cardinality(Below(w))
  <2>6. a \in Nat /\ b \in Nat /\ a + 1 <= b /\ RankIn(W, v) = a /\ RankIn(W, w) = b
        BY <1>1, <2>4, <2>5
  <2> HIDE DEF a, b
  <2> QED BY <2>6
<1>4. ASSUME NEW v \in W, NEW w \in W, RankIn(W, v) = RankIn(W, w) PROVE v = w
  <2>1. v \in Nat /\ w \in Nat
        OBVIOUS
  <2>2. RankIn(W, v) \in Nat /\ RankIn(W, w) \in Nat
        BY <1>2
  <2>3. ~(v < w) /\ ~(w < v)
        BY <1>3, <1>4, <2>2
  <2> QED BY <2>1, <2>3
<1> DEFINE R == 0..(n - 1)
           f == [w \in W |-> RankIn(W, w)]
<1>5. f \in [W -> R] /\ \A v, w \in W : f[v] = f[w] => v = w
      BY <1>2, <1>4
<1>6. IsFiniteSet(R) /\ Cardinality(R) = n
  <2>1. n \in Nat
        OBVIOUS
  <2> QED BY ONLY <2>1, ZeroTo
<1>7. f \in Surjection(W, R)
  <2> HIDE DEF f, R
  <2>1. f \in Injection(W, R)
        BY <1>5 DEF Injection, IsInjective
  <2> QED BY <1>6, <2>1, FS_Injection
<1>8. ASSUME NEW r \in R PROVE \E w \in W : RankIn(W, w) = r
  <2>1. \E w \in W : f[w] = r
    <3> HIDE DEF f, R
    <3> QED BY <1>7, <1>8 DEF Surjection
  <2> QED BY <2>1
<1> QED BY <1>2, <1>4, <1>8 DEF Ranked

\* Every world-th of the first k * world indices: there are k.
Stride(l, world, r) == {q \in 1..l : (q - 1) % world = r}

\* A stride over a multiple of world has as many positions for each rank.
LEMMA Strided ==
    ASSUME NEW world \in Nat \ {0}, NEW k \in Nat, NEW l \in Nat, l = k * world, NEW r \in 0..(world - 1)
    PROVE  IsFiniteSet(Stride(l, world, r)) /\ Cardinality(Stride(l, world, r)) = k
<1> DEFINE S == 0..(k - 1)
           T == Stride(l, world, r)
           f == [x \in S |-> x * world + r + 1]
<1>1. IsFiniteSet(S) /\ Cardinality(S) = k
  <2>1. 0 \in Nat /\ 0..(0 + k - 1) = S
        OBVIOUS
  <2> QED BY <2>1, FromZero
<1>2. ASSUME NEW x \in S
      PROVE  x \in Nat /\ x * world + r \in Nat /\ x * world + r + 1 \in T /\ (x * world + r) \div world = x
  <2>1. x \in Nat /\ x + 1 <= k
        OBVIOUS
  <2>2. x * world \in Nat /\ (x + 1) * world = x * world + world /\ (x + 1) * world <= k * world
        BY <2>1, Product, Monotone
  <2>3. (x * world + r) % world = r /\ (x * world + r) \div world = x
        BY <2>1, Quotient
  <2> DEFINE p == x * world
             y == p + r
  <2>4. p \in Nat /\ p + world <= l
        BY <2>2
  <2> HIDE DEF p
  <2>5. y \in Nat /\ y + 1 \in 1..l /\ (y + 1) - 1 = y
        BY <2>4
  <2>6. y % world = r
        BY <2>3 DEF p
  <2> HIDE DEF y
  <2>7. y + 1 \in T
        BY <2>5, <2>6 DEF Stride
  <2> QED BY <2>1, <2>3, <2>5, <2>7 DEF p, y
<1>3. f \in [S -> T]
  <2> HIDE DEF S, T
  <2> QED BY <1>2
<1>4. ASSUME NEW x \in S, NEW y \in S, f[x] = f[y] PROVE x = y
  <2>1. x * world + r + 1 = y * world + r + 1
        BY <1>4
  <2>2. x * world + r \in Nat /\ y * world + r \in Nat /\ x \in Nat /\ y \in Nat
        BY <1>2
  <2> DEFINE a == x * world + r
             b == y * world + r
  <2>3. a = b
    <3>1. a \in Nat /\ b \in Nat /\ a + 1 = b + 1
          BY <2>1, <2>2
    <3> HIDE DEF a, b
    <3> QED BY <3>1
  <2> QED BY <2>2, <2>3, OneQuotient
<1>5. ASSUME NEW q \in T PROVE \E x \in S : f[x] = q
  <2>1. q \in 1..l /\ (q - 1) % world = r
        BY DEF Stride
  <2> DEFINE m == q - 1
             x == m \div world
  <2>2. m \in Nat /\ m < l /\ q = m + 1 /\ m % world = r
        BY <2>1
  <2> HIDE DEF m
  <2>3. x \in Nat /\ m = x * world + r
        BY <2>2, Division
  <2>4. x < k
        BY <2>2, QuotientBelow
  <2> HIDE DEF x
  <2>5. x \in S
        BY <2>3, <2>4
  <2>6. f[x] = x * world + r + 1
        BY <2>5
  <2> QED BY <2>2, <2>3, <2>5, <2>6
<1> HIDE DEF S, T, f
<1>6. IsFiniteSet(T) /\ Cardinality(T) = Cardinality(S)
      BY <1>1, <1>3, <1>4, <1>5, SameCount
<1> QED BY <1>1, <1>6 DEF T

----------------------------------------------------------------------------
\* How many indices are split among world workers: a multiple of world unless a split
\* is padded short; at most one more each than there are, which are the first again.
LengthRight(n, world, l) ==
    l \in Nat /\ l <= n + n /\ l < n + world /\ (n < l => n % world # 0)

\* Padding goes up to the next multiple of world, dropping down to the last one.
LEMMA LengthIs ==
    ASSUME NEW n \in Nat, NEW world \in Nat \ {0}, setup.dropLast \in BOOLEAN
    PROVE  /\ LengthRight(n, world, SplitLength(n, world))
           /\ setup.dropLast =>
                 /\ SplitLength(n, world) <= n /\ n - SplitLength(n, world) < world
                 /\ \E k \in Nat : SplitLength(n, world) = k * world
           /\ ~setup.dropLast =>
                 /\ n <= SplitLength(n, world)
                 /\ Missing(n, world) <= n => \E k \in Nat : SplitLength(n, world) = k * world
<1> DEFINE q == n \div world
           t == n % world
           p == q * world
           x == SplitLength(n, world)
<1>1. q \in Nat /\ t \in 0..(world - 1) /\ n = q * world + t
      BY Division
<1>2. p \in Nat /\ (q + 1) * world = p + world
      BY <1>1, Product
<1>3. n = p + t
      BY <1>1
<1>4. CASE setup.dropLast
  <2>1. x = n - t
        BY <1>4 DEF SplitLength
  <2> HIDE DEF x, t, p
  <2>2. x = p /\ x \in Nat /\ x <= n /\ n - x < world
        BY <1>1, <1>2, <1>3, <2>1
  <2>3. LengthRight(n, world, x)
        BY <2>2 DEF LengthRight
  <2>4. \E k \in Nat : x = k * world
        BY <1>1, <2>2 DEF p
  <2> QED BY <1>4, <2>2, <2>3, <2>4 DEF x
<1>5. CASE ~setup.dropLast
  <2> DEFINE lack == Missing(n, world)
             pad == Padding(n, world)
  <2>1. x = n + pad
        BY <1>5 DEF SplitLength
  <2>2. t = 0 => lack = 0
    <3> SUFFICES ASSUME t = 0 PROVE lack = 0
        OBVIOUS
    <3>1. lack = world % world
          BY DEF Missing
    <3>2. 1 * world + 0 = world /\ 1 \in Nat /\ 0 \in 0..(world - 1)
          OBVIOUS
    <3>3. (1 * world + 0) % world = 0
          BY <3>2, Quotient
    <3> QED BY <3>1, <3>2, <3>3
  <2>3. t # 0 => lack = world - t
    <3> SUFFICES ASSUME t # 0 PROVE lack = world - t
        OBVIOUS
    <3> DEFINE y == world - t
    <3>1. lack = y % world
          BY DEF Missing
    <3>2. y \in 0..(world - 1)
      <4> HIDE DEF t
      <4> QED BY <1>1
    <3> HIDE DEF y
    <3>3. 0 * world + y = y /\ 0 \in Nat
          BY <3>2
    <3>4. (0 * world + y) % world = y
          BY <3>2, <3>3, Quotient
    <3> QED BY <3>1, <3>3, <3>4 DEF y
  <2> HIDE DEF lack, t, p, q
  <2>4. lack \in Nat /\ lack < world
        BY <1>1, <2>2, <2>3
  <2>5. pad \in Nat /\ pad <= lack /\ pad <= n /\ (lack <= n => pad = lack)
    <3>1. pad = Smaller(lack, n)
          BY DEF Padding, lack
    <3> QED BY <2>4, <3>1, LesserOf
  <2> HIDE DEF pad, x
  <2>6. x \in Nat /\ n <= x /\ x <= n + n /\ x < n + world
        BY <2>1, <2>4, <2>5
  <2>7. n < x => t # 0
        BY <2>1, <2>2, <2>5
  <2>8. LengthRight(n, world, x)
        BY <2>6, <2>7 DEF LengthRight, t
  <2>9. lack <= n => \E k \in Nat : x = k * world
    <3> SUFFICES ASSUME lack <= n PROVE \E k \in Nat : x = k * world
        OBVIOUS
    <3>1. CASE t = 0
      <4>1. x = p
            BY <1>2, <1>3, <2>1, <2>2, <2>5, <3>1
      <4> QED BY <1>1, <4>1 DEF p
    <3>2. CASE t # 0
      <4>1. x = p + world
            BY <1>1, <1>2, <1>3, <2>1, <2>3, <2>5, <3>2
      <4>2. q + 1 \in Nat
            BY <1>1
      <4> QED BY <1>2, <4>1, <4>2
    <3> QED BY <3>1, <3>2
  <2> QED BY <1>5, <2>6, <2>8, <2>9 DEF x, lack
<1> QED BY <1>4, <1>5

\* The row that the p-th of n indices stands for, and the rows of the worker of rank r.
Wrapped(n, p) == 1 + ((p - 1) % n)
RowsOf(n, l, world, r) == {Wrapped(n, p) : p \in Stride(l, world, r)}

\* Padding takes rows from the start again.
LEMMA WrappedIs ==
    ASSUME NEW n \in Nat, NEW l \in Nat, l <= n + n, NEW p \in 1..l
    PROVE  /\ p <= n => Wrapped(n, p) = p
           /\ n < p => Wrapped(n, p) = p - n
           /\ Wrapped(n, p) \in 1..n
<1>1. n \in Nat \ {0} /\ p \in Nat \ {0}
      OBVIOUS
<1>2. ASSUME p <= n PROVE Wrapped(n, p) = p
  <2> DEFINE m == p - 1
  <2>1. m \in 0..(n - 1) /\ 0 * n + m = m /\ 0 \in Nat /\ 1 + m = p
        BY <1>1, <1>2
  <2> HIDE DEF m
  <2>2. (0 * n + m) % n = m
        BY <1>1, <2>1, Quotient
  <2> QED BY <2>1, <2>2 DEF Wrapped, m
<1>3. ASSUME n < p PROVE Wrapped(n, p) = p - n
  <2> DEFINE m == p - 1
             y == p - 1 - n
  <2>1. y \in 0..(n - 1) /\ 1 * n + y = m /\ 1 \in Nat /\ 1 + y = p - n
        BY <1>1, <1>3
  <2> HIDE DEF m, y
  <2>2. (1 * n + y) % n = y
        BY <1>1, <2>1, Quotient
  <2> QED BY <2>1, <2>2 DEF Wrapped, m
<1>4. Wrapped(n, p) \in 1..n
      BY <1>1, <1>2, <1>3
<1> QED BY <1>2, <1>3, <1>4

\* No worker has a row twice.
LEMMA RowsCounted ==
    ASSUME NEW n \in Nat, NEW world \in Nat \ {0}, NEW l, LengthRight(n, world, l),
           NEW k \in Nat, l = k * world, NEW r \in 0..(world - 1)
    PROVE  IsFiniteSet(RowsOf(n, l, world, r)) /\ Cardinality(RowsOf(n, l, world, r)) = k
<1> DEFINE S == Stride(l, world, r)
           T == RowsOf(n, l, world, r)
           f == [p \in S |-> Wrapped(n, p)]
<1>1. l \in Nat /\ l <= n + n /\ (n < l => n % world # 0)
      BY DEF LengthRight
<1>2. IsFiniteSet(S) /\ Cardinality(S) = k
      BY <1>1, Strided
<1>3. \A p \in S : p \in 1..l /\ (p - 1) % world = r
      BY DEF Stride
<1>4. f \in [S -> T] /\ \A z \in T : \E p \in S : f[p] = z
      BY DEF RowsOf
<1>5. ASSUME NEW p \in S, NEW q \in S, p <= n, n < q, p = q - n PROVE FALSE
  <2> DEFINE a == p - 1
             b == q - 1
             x == a \div world
             y == b \div world
  <2>1. p \in 1..l /\ q \in 1..l /\ a % world = r /\ b % world = r
        BY <1>3
  <2>2. a \in Nat /\ b \in Nat /\ b = a + n
        BY <1>1, <1>5, <2>1
  <2> HIDE DEF a, b
  <2>3. x \in Nat /\ y \in Nat /\ a = x * world + r /\ b = y * world + r
        BY <2>1, <2>2, Division
  <2> HIDE DEF x, y
  <2>4. x * world \in Nat /\ y * world \in Nat
        BY <2>3, Product
  <2> DEFINE v == x * world
             w == y * world
  <2>5. v \in Nat /\ w \in Nat /\ w = v + n
    <3>1. v \in Nat /\ w \in Nat /\ a = v + r /\ b = w + r
          BY <2>3, <2>4
    <3> HIDE DEF v, w
    <3> QED BY <2>2, <3>1
  <2>6. x <= y
    <3>1. x * world <= y * world
      <4>1. v <= w
        <5> HIDE DEF v, w
        <5> QED BY <2>5
      <4> QED BY <4>1
    <3> QED BY <2>3, <3>1, Cancel
  <2> DEFINE d == y - x
             e == d * world
  <2>7. d \in Nat /\ x + d = y
        BY <2>3, <2>6
  <2> HIDE DEF d
  <2>8. (x + d) * world = x * world + d * world /\ e \in Nat
        BY <2>3, <2>7, Distributes, Product
  <2>9. n = e
    <3>1. w = v + e
          BY <2>7, <2>8
    <3> HIDE DEF v, w, e
    <3> QED BY <2>5, <2>8, <3>1
  <2>10. (d * world + 0) % world = 0
    <3>1. 0 \in 0..(world - 1)
          OBVIOUS
    <3> QED BY <2>7, <3>1, Quotient
  <2>11. n % world = 0
    <3>1. e + 0 = e
          BY <2>8
    <3> QED BY <2>9, <2>10, <3>1
  <2>12. n < l
        BY <1>1, <1>5, <2>1
  <2> QED BY <1>1, <2>11, <2>12
<1>6. ASSUME NEW p \in S, NEW q \in S, f[p] = f[q] PROVE p = q
  <2>1. p \in 1..l /\ q \in 1..l /\ Wrapped(n, p) = Wrapped(n, q)
        BY <1>3, <1>6
  <2>2. /\ (p <= n => Wrapped(n, p) = p) /\ (n < p => Wrapped(n, p) = p - n)
        /\ (q <= n => Wrapped(n, q) = q) /\ (n < q => Wrapped(n, q) = q - n)
        BY <1>1, <2>1, WrappedIs
  <2>3. p \in Nat /\ q \in Nat
        BY <1>1, <2>1
  <2>4. ~(p <= n /\ n < q) /\ ~(q <= n /\ n < p)
        BY <1>5, <2>1, <2>2
  <2> QED BY <2>1, <2>2, <2>3, <2>4
<1> HIDE DEF S, T, f
<1>7. IsFiniteSet(T) /\ Cardinality(T) = Cardinality(S)
      BY <1>2, <1>4, <1>6, SameCount
<1> QED BY <1>2, <1>7 DEF T

----------------------------------------------------------------------------
\* What the workers of a storage are given together, and what two of them have both.
LEMMA UsedRows ==
    ASSUME NEW n \in Nat, NEW world \in Nat \ {0}, NEW l, LengthRight(n, world, l),
           NEW W, Ranked(W, world)
    PROVE  LET used == UNION {RowsOf(n, l, world, RankIn(W, w)) : w \in W}
           IN  (l <= n => used = 1..l) /\ (n <= l => used = 1..n)
<1> DEFINE used == UNION {RowsOf(n, l, world, RankIn(W, w)) : w \in W}
<1>1. l \in Nat /\ l <= n + n
      BY DEF LengthRight
<1>2. ASSUME NEW x \in used PROVE \E p \in 1..l : x = Wrapped(n, p)
  <2>1. PICK w \in W : x \in RowsOf(n, l, world, RankIn(W, w))
        OBVIOUS
  <2>2. PICK p \in Stride(l, world, RankIn(W, w)) : x = Wrapped(n, p)
        BY <2>1 DEF RowsOf
  <2>3. p \in 1..l
        BY DEF Stride
  <2> QED BY <2>2, <2>3
<1>3. ASSUME NEW p \in 1..l PROVE Wrapped(n, p) \in used
  <2>1. (p - 1) % world \in 0..(world - 1)
    <3>1. p - 1 \in Nat
          BY <1>1
    <3> QED BY <3>1, Division
  <2>2. PICK w \in W : RankIn(W, w) = (p - 1) % world
        BY <2>1 DEF Ranked
  <2>3. p \in Stride(l, world, RankIn(W, w))
        BY <2>2 DEF Stride
  <2>4. Wrapped(n, p) \in RowsOf(n, l, world, RankIn(W, w))
        BY <2>3 DEF RowsOf
  <2> QED BY <2>4
<1> HIDE DEF used
<1>4. ASSUME l <= n PROVE used = 1..l
  <2>1. \A p \in 1..l : Wrapped(n, p) = p
    <3> SUFFICES ASSUME NEW p \in 1..l PROVE Wrapped(n, p) = p
        OBVIOUS
    <3>1. p <= n
          BY <1>1, <1>4
    <3> QED BY <1>1, <3>1, WrappedIs
  <2>2. \A x \in used : x \in 1..l
        BY <1>2, <2>1
  <2>3. \A x \in 1..l : x \in used
        BY <1>3, <2>1
  <2> QED BY <2>2, <2>3
<1>5. ASSUME n <= l PROVE used = 1..n
  <2>1. \A p \in 1..l : Wrapped(n, p) \in 1..n
        BY <1>1, WrappedIs
  <2>2. \A x \in used : x \in 1..n
        BY <1>2, <2>1
  <2>3. ASSUME NEW x \in 1..n PROVE x \in used
    <3>1. x \in 1..l /\ x <= n
          BY <1>1, <1>5
    <3>2. Wrapped(n, x) = x
          BY <1>1, <3>1, WrappedIs
    <3> QED BY <1>3, <3>1, <3>2
  <2> QED BY <2>2, <2>3
<1> QED BY <1>4, <1>5 DEF used

\* Only padding is given twice.
LEMMA BothHave ==
    ASSUME NEW n \in Nat, NEW world \in Nat \ {0}, NEW l, LengthRight(n, world, l),
           NEW W, Ranked(W, world), NEW v \in W, NEW w \in W, v # w, NEW x,
           x \in RowsOf(n, l, world, RankIn(W, v)), x \in RowsOf(n, l, world, RankIn(W, w))
    PROVE  n < l /\ x \in 1..(l - n)
<1>1. l \in Nat /\ l <= n + n
      BY DEF LengthRight
<1>2. PICK p \in Stride(l, world, RankIn(W, v)) : x = Wrapped(n, p)
      BY DEF RowsOf
<1>3. PICK q \in Stride(l, world, RankIn(W, w)) : x = Wrapped(n, q)
      BY DEF RowsOf
<1>4. p \in 1..l /\ q \in 1..l /\ (p - 1) % world = RankIn(W, v) /\ (q - 1) % world = RankIn(W, w)
      BY DEF Stride
<1>5. p # q
      BY <1>4 DEF Ranked
<1>6. /\ (p <= n => Wrapped(n, p) = p) /\ (n < p => Wrapped(n, p) = p - n)
      /\ (q <= n => Wrapped(n, q) = q) /\ (n < q => Wrapped(n, q) = q - n)
      BY <1>1, <1>4, WrappedIs
<1>7. p \in Nat /\ q \in Nat /\ p <= l /\ q <= l /\ p > 0 /\ q > 0
      BY <1>1, <1>4
<1> HIDE DEF Wrapped
<1>8. \/ p <= n /\ n < q /\ x = p /\ x = q - n
      \/ q <= n /\ n < p /\ x = q /\ x = p - n
      BY <1>2, <1>3, <1>5, <1>6, <1>7
<1> QED BY <1>1, <1>7, <1>8

\* Of more than one, two are different.
LEMMA TwoOf ==
    ASSUME NEW S, IsFiniteSet(S), Cardinality(S) > 1
    PROVE  \E x, y \in S : x # y
<1> SUFFICES ASSUME \A x, y \in S : x = y PROVE FALSE
    OBVIOUS
<1>1. CASE S = {}
      BY <1>1, FS_EmptySet
<1>2. CASE S # {}
  <2>1. PICK x \in S : TRUE
        BY <1>2
  <2>2. S = {x}
        BY <2>1
  <2>3. Cardinality({x}) = 1
        BY FS_Singleton
  <2>4. Cardinality(S) = 1
        BY <2>2, <2>3
  <2> QED BY <2>4
<1> QED BY <1>1, <1>2

\* The positions of a set that more than one worker of W is given.
SharedOf(used, n, l, world, W) ==
    {p \in used : Cardinality({w \in W : p \in RowsOf(n, l, world, RankIn(W, w))}) > 1}

LEMMA SharedRows ==
    ASSUME NEW n \in Nat, NEW world \in Nat \ {0}, NEW l, LengthRight(n, world, l),
           NEW W, IsFiniteSet(W), Ranked(W, world), NEW used
    PROVE  /\ l <= n => SharedOf(used, n, l, world, W) = {}
           /\ IsFiniteSet(SharedOf(used, n, l, world, W))
           /\ Cardinality(SharedOf(used, n, l, world, W)) < world
<1> DEFINE Having(p) == {w \in W : p \in RowsOf(n, l, world, RankIn(W, w))}
           shared == SharedOf(used, n, l, world, W)
<1>1. ASSUME NEW p \in shared PROVE n < l /\ p \in 1..(l - n)
  <2>1. IsFiniteSet(Having(p))
    <3>1. Having(p) \subseteq W
          OBVIOUS
    <3> HIDE DEF Having
    <3> QED BY <3>1, FS_Subset
  <2>2. Cardinality(Having(p)) > 1
        BY DEF SharedOf
  <2>3. PICK v \in Having(p), w \in Having(p) : v # w
    <3> HIDE DEF Having, shared
    <3> QED BY <2>1, <2>2, TwoOf
  <2>4. /\ v \in W /\ w \in W
        /\ p \in RowsOf(n, l, world, RankIn(W, v)) /\ p \in RowsOf(n, l, world, RankIn(W, w))
        OBVIOUS
  <2> QED BY <2>3, <2>4, BothHave
<1> HIDE DEF shared
<1>2. l \in Nat /\ l < n + world
      BY DEF LengthRight
<1>3. l <= n => shared = {}
      BY <1>1, <1>2
<1>4. CASE shared = {}
  <2>1. IsFiniteSet(shared) /\ Cardinality(shared) < world
        BY <1>4, FS_EmptySet
  <2> QED BY <1>3, <2>1 DEF shared
<1>5. CASE shared # {}
  <2> DEFINE d == l - n
  <2>1. n < l
        BY <1>1, <1>5
  <2>2. d \in Nat /\ d < world /\ \A p \in shared : p \in 1..d
        BY <1>1, <1>2, <2>1
  <2> HIDE DEF d
  <2>3. IsFiniteSet(1..d) /\ Cardinality(1..d) = d
        BY <2>2, FirstOnes
  <2>4. shared \subseteq 1..d
        BY <2>2
  <2>5. IsFiniteSet(shared) /\ Cardinality(shared) <= d
        BY <2>3, <2>4, FS_Subset
  <2>6. Cardinality(shared) \in Nat
        BY <2>5, FS_CardinalityType
  <2>7. Cardinality(shared) < world
        BY <2>2, <2>5, <2>6
  <2> QED BY <1>3, <2>5, <2>7 DEF shared
<1> QED BY <1>4, <1>5

----------------------------------------------------------------------------
\* The table and the sample of a run that has them.
Served(world) ==
    /\ world \in Nat /\ Trainers # {}
    /\ DOMAIN workersOf = Storages(setup)
    /\ \A i \in Storages(setup) :
          workersOf[i] \subseteq Trainers /\ IsFiniteSet(workersOf[i]) /\ Cardinality(workersOf[i]) = world
    /\ \A i, l \in Storages(setup) : \A w : w \in workersOf[i] /\ w \in workersOf[l] => i = l
    /\ \A w \in Trainers : \E i \in Storages(setup) : w \in workersOf[i]

LEMMA TableIs ==
    ASSUME DataInv, stage \in {"sample", "train"}
    PROVE  /\ PlacementInv /\ phase = "done" /\ request \in Requests /\ setup \in Setups[request]
           /\ DealtWith(setup)
           /\ \E world \in Nat : Served(world)
<1>1. /\ PlacementInv /\ phase = "done" /\ request \in Requests /\ setup \in Setups[request]
      /\ DealtWith(setup)
  <2>1. PlacementInv /\ Dealt
        BY DEF DataInv
  <2>2. request \in Requests
        BY <2>1 DEF PlacementInv, Inputs
  <2> QED BY <2>1, <2>2 DEF Dealt
<1>2. /\ Storages(setup) # {} /\ ~TrainersRefused(setup)
      /\ workersOf = [i \in Storages(setup) |-> TrainersOf(setup, i)]
      BY <1>1 DEF DealtWith
<1>3. PICK world \in Nat : DealtOut(setup, world)
      BY <1>1, <1>2, WorkersDealt
<1>4. Served(world)
      BY <1>2, <1>3 DEF DealtOut, Served
<1> QED BY <1>1, <1>4

LEMMA DrawnIs ==
    ASSUME DataInv, stage \in {"sample", "train"}, NEW i \in Storages(setup)
    PROVE  SizeOf(i) \in Nat /\ Drawn(i) \in Nat
<1>1. /\ PlacementInv /\ request \in Requests /\ setup \in Setups[request] /\ Storages(setup) # {}
      BY TableIs DEF DealtWith
<1>2. setup.rows \in Nat /\ setup.batch \in Nat
      BY <1>1, SetupIs
<1>3. request.workers["env"] \in Nat
      BY <1>1, WhenDone, InputTypes DEF Steady, GpuComponents
<1>4. SizeOf(i) \in Nat
  <2> DEFINE S == {e \in Envs : shardOf[e] = i}
             count == Cardinality(S)
  <2>1. IsFiniteSet(Envs) /\ S \subseteq Envs
        BY <1>3, FirstOnes DEF Envs
  <2>2. count \in Nat
    <3> HIDE DEF S
    <3> QED BY <2>1, FS_Subset, FS_CardinalityType
  <2>3. SizeOf(i) = setup.rows * count
        BY DEF SizeOf
  <2> HIDE DEF count
  <2> QED BY <1>2, <2>2, <2>3, Product
<1>5. PICK m \in Nat \ {0} : Cardinality(Storages(setup)) = m
      BY <1>1, StoragesAre
<1>6. setup.batch \div m \in Nat
      BY <1>2, Division
<1> QED BY <1>4, <1>5, <1>6 DEF Drawn

\* The rows of a worker, by its rank among the workers of its storage.
LEMMA RowsAre ==
    ASSUME NEW world, Served(world), NEW i \in Storages(setup), NEW w
    PROVE  RowsFor(w, i) = RowsOf(Drawn(i), SplitLength(Drawn(i), world), world, RankIn(workersOf[i], w))
<1>1. Cardinality(workersOf[i]) = world
      BY DEF Served
<1>2. Rank(w, i) = RankIn(workersOf[i], w)
      BY DEF Rank, RankIn
<1> QED BY <1>1, <1>2 DEF RowsFor, RowsOf, Stride, Wrapped

\* What a train worker is given.
LEMMA GivenAre ==
    ASSUME DataInv, stage = "train", NEW world, Served(world)
    PROVE  /\ DOMAIN given = Trainers /\ ~SampleRefused
           /\ \A w \in Trainers : \A i \in Storages(setup) : w \in workersOf[i] =>
                 given[w].storage = i /\ given[w].rows = RowsFor(w, i)
<1>1. given = HandedOut /\ ~SampleRefused
      BY DEF DataInv, Dealt
<1>2. UNION Range(workersOf) = Trainers
  <2>1. \A i \in Storages(setup) : workersOf[i] \subseteq Trainers /\ workersOf[i] \in Range(workersOf)
        BY DEF Served, Range
  <2>2. \A x \in Range(workersOf) : x \subseteq Trainers
        BY DEF Served, Range
  <2>3. \A w \in Trainers : \E i \in Storages(setup) : w \in workersOf[i]
        BY DEF Served
  <2>4. \A w \in Trainers : w \in UNION Range(workersOf)
        BY <2>1, <2>3
  <2> QED BY <2>2, <2>4
<1>3. DOMAIN given = Trainers
      BY <1>1, <1>2 DEF HandedOut
<1>4. ASSUME NEW w \in Trainers, NEW i \in Storages(setup), w \in workersOf[i]
      PROVE  given[w].storage = i /\ given[w].rows = RowsFor(w, i)
  <2>1. StorageOfTrainer(w) = i
        BY <1>4 DEF StorageOfTrainer, Served
  <2>2. given[w] = [storage |-> StorageOfTrainer(w), rows |-> RowsFor(w, StorageOfTrainer(w))]
        BY <1>1, <1>2 DEF HandedOut
  <2> QED BY <2>1, <2>2
<1> QED BY <1>1, <1>3, <1>4

\* Every row that is given has been drawn.
LEMMA RowsDrawn ==
    ASSUME NEW n \in Nat, NEW world \in Nat \ {0}, setup.dropLast \in BOOLEAN, NEW r
    PROVE  RowsOf(n, SplitLength(n, world), world, r) \subseteq 1..n
<1> DEFINE l == SplitLength(n, world)
<1>1. l \in Nat /\ l <= n + n
      BY LengthIs DEF LengthRight
<1> HIDE DEF l
<1>2. ASSUME NEW x \in RowsOf(n, l, world, r) PROVE x \in 1..n
  <2>1. PICK p \in Stride(l, world, r) : x = Wrapped(n, p)
        BY DEF RowsOf
  <2>2. p \in 1..l
        BY DEF Stride
  <2> QED BY <1>1, <2>1, <2>2, WrappedIs
<1> QED BY <1>2 DEF l

LEMMA DataTyped ==
    ASSUME DataInv
    PROVE  DPTypeOK
<1>1. PlacementInv /\ Dealt /\ Counting /\ TypeOK
      BY PlacementTyped DEF DataInv
<1>2. ASSUME stage \in {"sample", "train"}
      PROVE  /\ setup \in Setups[request]
             /\ shardOf \in [Envs -> Storages(setup)]
             /\ workersOf \in [Storages(setup) -> SUBSET Trainers]
  <2>1. setup \in Setups[request] /\ DealtWith(setup)
        BY <1>2, TableIs
  <2>2. \A e \in Envs : StorageOfEnv(setup, e) \in Storages(setup)
        BY <1>1, <2>1, EnvStored DEF DealtWith
  <2>3. shardOf \in [Envs -> Storages(setup)]
        BY <2>1, <2>2 DEF DealtWith
  <2>4. PICK world \in Nat : Served(world)
        BY <1>2, TableIs
  <2>5. workersOf \in [Storages(setup) -> SUBSET Trainers]
    <3>1. workersOf = [i \in Storages(setup) |-> workersOf[i]]
          BY <2>1 DEF DealtWith
    <3>2. \A i \in Storages(setup) : workersOf[i] \in SUBSET Trainers
          BY <2>4 DEF Served
    <3> QED BY <3>1, <3>2
  <2> QED BY <2>1, <2>3, <2>5
<1>3. ASSUME stage = "train", NEW w \in DOMAIN given
      PROVE  given[w].storage \in Storages(setup) /\ given[w].rows \subseteq 1..Drawn(given[w].storage)
  <2>1. stage \in {"sample", "train"}
        BY <1>3
  <2>2. PICK world \in Nat : Served(world)
        BY <2>1, TableIs
  <2>3. w \in Trainers
        BY <1>3, <2>2, GivenAre
  <2>4. PICK i \in Storages(setup) : w \in workersOf[i]
        BY <2>2, <2>3 DEF Served
  <2>5. given[w].storage = i /\ given[w].rows = RowsFor(w, i)
        BY <1>3, <2>2, <2>3, <2>4, GivenAre
  <2>6. world \in Nat \ {0}
    <3>1. IsFiniteSet(workersOf[i]) /\ Cardinality(workersOf[i]) = world
          BY <2>2 DEF Served
    <3> QED BY <2>4, <3>1, FS_EmptySet
  <2>7. Drawn(i) \in Nat /\ setup.dropLast \in BOOLEAN
        BY <2>1, DrawnIs, TableIs, SetupIs
  <2>8. RowsFor(w, i) = RowsOf(Drawn(i), SplitLength(Drawn(i), world), world, RankIn(workersOf[i], w))
        BY <2>2, RowsAre
  <2>9. RowsFor(w, i) \subseteq 1..Drawn(i)
        BY <2>6, <2>7, <2>8, RowsDrawn
  <2> QED BY <2>5, <2>9
<1> QED BY <1>1, <1>2, <1>3 DEF DPTypeOK, Dealt, Counting

\* Tables and data sets have the shapes of DPTypeOK, and the placement those of TypeOK.
THEOREM TypeCorrect == DPSpec => []DPTypeOK
<1>1. DataInv => DPTypeOK
      BY DataTyped
<1> QED BY <1>1, DataHolds, PTL

----------------------------------------------------------------------------
\* What is drawn is split evenly among the workers of each storage, and as much is
\* drawn from every storage.
LEMMA SplitIsEven ==
    ASSUME DataInv, stage = "train"
    PROVE  SplitEvenly
<1>1. /\ stage \in {"sample", "train"}
      /\ PlacementInv /\ request \in Requests /\ setup \in Setups[request] /\ DealtWith(setup)
      BY TableIs
<1>2. PICK world \in Nat : Served(world)
      BY <1>1, TableIs
<1>3. /\ DOMAIN given = Trainers /\ ~SampleRefused
      /\ \A w \in Trainers : \A i \in Storages(setup) : w \in workersOf[i] =>
            given[w].storage = i /\ given[w].rows = RowsFor(w, i)
      BY <1>2, GivenAre
<1>4. request.workers["train"] \in Nat
      BY <1>1, WhenDone, InputTypes DEF Steady, GpuComponents
<1>5. world \in Nat \ {0}
  <2>1. PICK w \in Trainers : TRUE
        BY <1>2 DEF Served
  <2>2. PICK i \in Storages(setup) : w \in workersOf[i]
        BY <1>2, <2>1 DEF Served
  <2>3. IsFiniteSet(workersOf[i]) /\ Cardinality(workersOf[i]) = world
        BY <1>2 DEF Served
  <2> QED BY <2>2, <2>3, FS_EmptySet
<1>6. setup.dropLast \in BOOLEAN
      BY <1>1, SetupIs
<1> DEFINE L(i) == SplitLength(Drawn(i), world)
<1>7. ASSUME NEW i \in Storages(setup)
      PROVE  /\ Drawn(i) \in Nat /\ LengthRight(Drawn(i), world, L(i))
             /\ workersOf[i] \subseteq Trainers /\ IsFiniteSet(workersOf[i])
             /\ Cardinality(workersOf[i]) = world /\ Ranked(workersOf[i], world)
             /\ \A w : RowsFor(w, i) = RowsOf(Drawn(i), L(i), world, RankIn(workersOf[i], w))
  <2>1. Drawn(i) \in Nat
        BY <1>1, DrawnIs
  <2>2. LengthRight(Drawn(i), world, L(i))
        BY <1>5, <1>6, <2>1, LengthIs
  <2>3. workersOf[i] \subseteq Trainers /\ IsFiniteSet(workersOf[i]) /\ Cardinality(workersOf[i]) = world
        BY <1>2 DEF Served
  <2>4. workersOf[i] \subseteq Nat
        BY <1>4, <2>3 DEF Trainers
  <2>5. Ranked(workersOf[i], world)
        BY <1>5, <2>3, <2>4, Ranks
  <2>6. \A w : RowsFor(w, i) = RowsOf(Drawn(i), L(i), world, RankIn(workersOf[i], w))
        BY <1>2, RowsAre
  <2> QED BY <2>1, <2>2, <2>3, <2>5, <2>6
<1>8. ASSUME NEW i \in Storages(setup)
      PROVE  {w \in Trainers : given[w].storage = i} = workersOf[i]
  <2>1. ASSUME NEW w \in workersOf[i] PROVE w \in Trainers /\ given[w].storage = i
        BY <1>3, <1>7, <2>1
  <2>2. ASSUME NEW w \in Trainers, given[w].storage = i PROVE w \in workersOf[i]
    <3>1. PICK l \in Storages(setup) : w \in workersOf[l]
          BY <1>2 DEF Served
    <3> QED BY <1>3, <2>2, <3>1
  <2> QED BY <2>1, <2>2
<1>9. ASSUME ~PadsShort, NEW v \in Trainers, NEW w \in Trainers
      PROVE  Cardinality(given[v].rows) = Cardinality(given[w].rows)
  <2>1. PICK i \in Storages(setup) : v \in workersOf[i]
        BY <1>2 DEF Served
  <2>2. PICK l \in Storages(setup) : w \in workersOf[l]
        BY <1>2 DEF Served
  <2>3. Drawn(i) = Drawn(l)
    <3>1. SizeOf(i) = SizeOf(l)
          BY <1>3 DEF SampleRefused
    <3> QED BY <3>1 DEF Drawn
  <2> DEFINE n == Drawn(i)
  <2>4. n \in Nat /\ LengthRight(n, world, L(i)) /\ L(l) = L(i)
        BY <1>7, <2>3
  <2>5. ~setup.dropLast => Missing(n, world) <= n
    <3> SUFFICES ASSUME ~setup.dropLast PROVE Missing(n, world) <= n
        OBVIOUS
    <3>1. ~(Missing(n, world) > n)
          BY <1>7, <1>9 DEF PadsShort
    <3>2. Missing(n, world) \in Int
      <4>1. n % world \in 0..(world - 1)
            BY <1>5, <2>4, Division
      <4> DEFINE m == world - (n % world)
      <4>2. m \in Nat
        <5> DEFINE t == n % world
        <5> HIDE DEF t
        <5>1. t \in 0..(world - 1) /\ m = world - t
              BY <4>1 DEF t
        <5> HIDE DEF m
        <5> QED BY <1>5, <5>1
      <4> HIDE DEF m
      <4>3. m % world \in 0..(world - 1)
            BY <1>5, <4>2, Division
      <4> QED BY <1>5, <4>3 DEF Missing, m
    <3> HIDE DEF n
    <3> QED BY <2>4, <3>1, <3>2
  <2>6. PICK k \in Nat : L(i) = k * world
        BY <1>5, <1>6, <2>4, <2>5, LengthIs
  <2>7. RankIn(workersOf[i], v) \in 0..(world - 1) /\ RankIn(workersOf[l], w) \in 0..(world - 1)
        BY <1>7, <2>1, <2>2 DEF Ranked
  <2>8. Cardinality(RowsOf(n, L(i), world, RankIn(workersOf[i], v))) = k
        /\ Cardinality(RowsOf(n, L(i), world, RankIn(workersOf[l], w))) = k
    <3> HIDE DEF L, n
    <3> QED BY <1>5, <2>4, <2>6, <2>7, RowsCounted
  <2>9. given[v].rows = RowsFor(v, i) /\ given[w].rows = RowsFor(w, l)
        BY <1>3, <2>1, <2>2
  <2>10. /\ RowsFor(v, i) = RowsOf(n, L(i), world, RankIn(workersOf[i], v))
         /\ RowsFor(w, l) = RowsOf(n, L(i), world, RankIn(workersOf[l], w))
        BY <1>7, <2>3, <2>4
  <2> QED BY <2>8, <2>9, <2>10
<1>10. ASSUME NEW i \in Storages(setup)
       PROVE  LET served == {w \in Trainers : given[w].storage = i}
                  used == UNION {given[w].rows : w \in served}
                  shared == {p \in used : Cardinality({w \in served : p \in given[w].rows}) > 1}
              IN  /\ setup.dropLast => shared = {} /\ Drawn(i) - Cardinality(used) < Cardinality(served)
                  /\ ~setup.dropLast =>
                      used = 1..Drawn(i) /\ Cardinality(shared) < Cardinality(served)
  <2> DEFINE W == workersOf[i]
             n == Drawn(i)
             l == L(i)
             Has(w) == RowsOf(n, l, world, RankIn(W, w))
             served == {w \in Trainers : given[w].storage = i}
             used == UNION {given[w].rows : w \in served}
             shared == {p \in used : Cardinality({w \in served : p \in given[w].rows}) > 1}
             all == UNION {Has(w) : w \in W}
             both == SharedOf(all, n, l, world, W)
  <2>1. n \in Nat /\ LengthRight(n, world, l) /\ IsFiniteSet(W) /\ Cardinality(W) = world /\ Ranked(W, world)
        BY <1>7
  <2>2. served = W
        BY <1>8
  <2>3. \A w \in W : given[w].rows = Has(w)
        BY <1>3, <1>7
  <2>4. used = all
        BY <2>2, <2>3
  <2>5. \A p : {w \in served : p \in given[w].rows} = {w \in W : p \in Has(w)}
        BY <2>2, <2>3
  <2>6. shared = both
        BY <2>4, <2>5 DEF SharedOf
  <2>7. (l <= n => all = 1..l) /\ (n <= l => all = 1..n)
        BY <1>5, <2>1, UsedRows
  <2>8. (l <= n => both = {}) /\ Cardinality(both) < world
    <3> HIDE DEF W, n, l, all
    <3> QED BY <1>5, <2>1, SharedRows
  <2>9. /\ setup.dropLast => l <= n /\ n - l < world
        /\ ~setup.dropLast => n <= l
        BY <1>5, <1>6, <2>1, LengthIs
  <2>10. l \in Nat /\ Cardinality(1..l) = l
    <3>1. l \in Nat
          BY <2>1 DEF LengthRight
    <3> QED BY <3>1, FirstOnes
  <2>11. ASSUME setup.dropLast PROVE both = {} /\ n - Cardinality(all) < world
    <3>1. l <= n /\ n - l < world /\ both = {} /\ all = 1..l
          BY <2>7, <2>8, <2>9, <2>11
    <3>2. Cardinality(all) = l
          BY <2>10, <3>1
    <3> QED BY <3>1, <3>2
  <2>12. ASSUME ~setup.dropLast PROVE all = 1..n /\ Cardinality(both) < world
        BY <2>7, <2>8, <2>9, <2>12
  <2> HIDE DEF served, used, shared, all, both
  <2>13. /\ setup.dropLast => shared = {} /\ n - Cardinality(used) < Cardinality(served)
         /\ ~setup.dropLast => used = 1..n /\ Cardinality(shared) < Cardinality(served)
        BY <2>1, <2>2, <2>4, <2>6, <2>11, <2>12
  <2> QED BY <2>13 DEF served, used, shared
<1>11. ASSUME setup.nearEnvs, setup.nearTrainers, NEW w \in Trainers, NEW e \in Envs, shardOf[e] = given[w].storage
       PROVE  location["env"][e].node = location["train"][w].node
  <2>1. PICK i \in Storages(setup) : w \in workersOf[i]
        BY <1>2 DEF Served
  <2>2. shardOf[e] = i
        BY <1>3, <1>11, <2>1
  <2>3. shardOf[e] = StorageOfEnv(setup, e)
        BY <1>1 DEF DealtWith
  <2>4. i \in Near(setup, e)
        BY <1>1, <1>11, <2>2, <2>3, EnvStored DEF DealtWith
  <2>5. storage[i].node = location["env"][e].node
        BY <2>4 DEF Near
  <2>6. workersOf[i] = WorkersOn("train", storage[i].node)
        BY <1>1, <1>11 DEF DealtWith, TrainersOf
  <2>7. location["train"][w].node = storage[i].node
        BY <2>1, <2>6 DEF WorkersOn
  <2> QED BY <2>5, <2>7
<1> QED BY <1>3, <1>9, <1>10, <1>11 DEF SplitEvenly

\* "Evenly split data across workers" (SplitEvenly), for every placement, setup and sample.
THEOREM SplitRight == DPSpec => []SplitEvenly
<1>1. DataInv => SplitEvenly
  <2>1. stage = "train" => (DataInv => SplitEvenly)
        BY SplitIsEven
  <2>2. stage # "train" => SplitEvenly
        BY DEF SplitEvenly
  <2> QED BY <2>1, <2>2
<1> QED BY <1>1, DataHolds, PTL
=============================================================================
