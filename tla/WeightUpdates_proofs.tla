------------------------ MODULE WeightUpdates_proofs -----------------------
(***************************************************************************)
(* Proofs about WeightTransfer and the modules it is made of, for any      *)
(* placement of policies on nodes, any strategy and any number of syncs;   *)
(* and, at the end, about AsyncEvalPolicy, whose updater takes the         *)
(* transferred weights in beside the requests, for any finite set of them. *)
(***************************************************************************)
EXTENDS WeightTransfer, AsyncEvalPolicy, FiniteSetTheorems, SequenceTheorems, WellFoundedInduction, TLAPS

-----------------------------------------------------------------------------
(***************************************************************************)
(* Induction over the natural numbers, stated with a set, and what it says *)
(* of the sequences that the plan and the groups are built from.           *)
(***************************************************************************)
LEMMA Least ==
    ASSUME NEW T, T \subseteq Nat, T # {}
    PROVE  \E x \in T : \A y \in T : x <= y
<1> DEFINE R == {ss \in Nat \X Nat : ss[1] < ss[2]}
<1>1. IsWellFoundedOn(R, Nat)
  <2>1. R = OpToRel(<, Nat)
        BY DEF OpToRel
  <2> QED BY <2>1, NatLessThanWellFounded
<1>2. PICK x \in T : \A y \in T : ~(<<y, x>> \in R)
  <2> HIDE DEF R
  <2> QED BY <1>1, WFMin
<1> SUFFICES ASSUME NEW y \in T, ~(x <= y) PROVE FALSE
    BY <1>2
<1>3. <<y, x>> \in Nat \X Nat /\ y < x
      OBVIOUS
<1>4. <<y, x>> \in R
      BY <1>3
<1> QED BY <1>2, <1>4

\* Induction over the natural numbers, for a set in place of a formula.
LEMMA SetInduction ==
    ASSUME NEW S, 0 \in S, \A n \in Nat : n \in S => n + 1 \in S
    PROVE  Nat \subseteq S
<1> SUFFICES ASSUME Nat \ S # {} PROVE FALSE
    OBVIOUS
<1>1. PICK x \in Nat \ S : \A y \in Nat \ S : x <= y
      BY Least
<1>2. x - 1 \in Nat /\ ~(x <= x - 1) /\ (x - 1) + 1 = x
      BY <1>1
<1> QED BY <1>1, <1>2

\* What the function inside FlattenSeq satisfies.
FlattensTo(f, ss, n) == f = [i \in 1..n |-> IF i = 1 THEN ss[i] ELSE f[i - 1] \o ss[i]]

\* The recursive function inside FlattenSeq exists, for any sequence of sequences.
LEMMA FlattenExists ==
    ASSUME NEW T, NEW ss \in Seq(Seq(T)), NEW n \in 1..Len(ss)
    PROVE  \E f : FlattensTo(f, ss, n)
<1> DEFINE S == {k \in Nat : k \in 1..Len(ss) => \E f : FlattensTo(f, ss, k)}
<1>1. 0 \in S
      OBVIOUS
<1>2. ASSUME NEW k \in Nat, k \in S PROVE k + 1 \in S
  <2> SUFFICES ASSUME k + 1 \in 1..Len(ss) PROVE \E f : FlattensTo(f, ss, k + 1)
      OBVIOUS
  <2>1. CASE k = 0
    <3> DEFINE g == [i \in 1..1 |-> ss[1]]
    <3>1. g = [i \in 1..1 |-> IF i = 1 THEN ss[i] ELSE g[i - 1] \o ss[i]]
          OBVIOUS
    <3>2. FlattensTo(g, ss, 1)
          BY <3>1 DEF FlattensTo
    <3> QED BY <2>1, <3>2
  <2>2. CASE k # 0
    <3>1. k \in 1..Len(ss)
          BY <2>2
    <3>2. PICK f : FlattensTo(f, ss, k)
          BY <1>2, <3>1
    <3> DEFINE g == [i \in 1..(k + 1) |-> IF i = k + 1 THEN f[k] \o ss[k + 1] ELSE f[i]]
    <3>3. \A i \in 1..k : f[i] = IF i = 1 THEN ss[i] ELSE f[i - 1] \o ss[i]
          BY <3>2 DEF FlattensTo
    <3>4. \A i \in 1..(k + 1) : g[i] = IF i = 1 THEN ss[i] ELSE g[i - 1] \o ss[i]
      <4> SUFFICES ASSUME NEW i \in 1..(k + 1)
                   PROVE  g[i] = IF i = 1 THEN ss[i] ELSE g[i - 1] \o ss[i]
          OBVIOUS
      <4>1. CASE i = k + 1
        <5>1. i - 1 = k /\ k \in 1..(k + 1) /\ k # k + 1 /\ i # 1
              BY <2>2, <4>1
        <5>2. g[k] = f[k]
              BY <5>1
        <5> QED BY <4>1, <5>1, <5>2
      <4>2. CASE i # k + 1 /\ i = 1
            BY <3>3, <4>2
      <4>3. CASE i # k + 1 /\ i # 1
        <5>1. i \in 1..k /\ i - 1 \in 1..(k + 1) /\ i - 1 # k + 1
              BY <4>3
        <5>2. g[i] = f[i] /\ g[i - 1] = f[i - 1]
              BY <4>3, <5>1
        <5> QED BY <3>3, <4>3, <5>1, <5>2
      <4> QED BY <4>1, <4>2, <4>3
    <3>5. g = [i \in 1..(k + 1) |-> IF i = 1 THEN ss[i] ELSE g[i - 1] \o ss[i]]
      <4>1. g = [i \in 1..(k + 1) |-> g[i]]
            OBVIOUS
      <4> HIDE DEF g
      <4> QED BY <3>4, <4>1
    <3> QED BY <3>5 DEF FlattensTo
  <2> QED BY <2>1, <2>2
<1>3. Nat \subseteq S
  <2> HIDE DEF S
  <2> QED BY <1>1, <1>2, SetInduction
<1> QED BY <1>3

\* FlattenSeq is the last value of that function.
LEMMA FlattenIs ==
    ASSUME NEW T, NEW ss \in Seq(Seq(T)), ss # <<>>
    PROVE  \E f : FlattensTo(f, ss, Len(ss)) /\ FlattenSeq(ss) = f[Len(ss)]
<1> DEFINE f == CHOOSE g : FlattensTo(g, ss, Len(ss))
<1>1. Len(ss) \in 1..Len(ss) /\ Len(ss) # 0
      OBVIOUS
<1>2. \E g : FlattensTo(g, ss, Len(ss))
      BY <1>1, FlattenExists
<1>3. FlattensTo(f, ss, Len(ss))
      BY <1>2
<1>4. FlattenSeq(ss) = f[Len(ss)]
      BY <1>1 DEF FlattenSeq, FlattensTo
<1> QED BY <1>3, <1>4

\* The places in the first n of some sequences, and that two flattened sequences take their
\* elements from the same places, each from one.
Places(ss, n) == {pl \in (1..n) \X (Nat \ {0}) : pl[2] <= Len(ss[pl[1]])}

Aligned(F, G, ss, tt, n) ==
    /\ Len(F) = Len(G)
    /\ \E at \in [1..Len(F) -> Places(ss, n)] :
          /\ \A r \in 1..Len(F) :
                /\ F[r] = ss[at[r][1]][at[r][2]]
                /\ G[r] = tt[at[r][1]][at[r][2]]
          /\ \A pl \in Places(ss, n) : \E r \in 1..Len(F) : at[r] = pl
          /\ \A r, q \in 1..Len(F) : at[r] = at[q] => r = q

\* The places in one more sequence.
LEMMA PlacesNext ==
    ASSUME NEW ss, NEW n \in Nat, Len(ss[n + 1]) \in Nat
    PROVE  /\ \A pl \in Places(ss, n) : pl \in Places(ss, n + 1) /\ pl[1] # n + 1
           /\ \A pl \in Places(ss, n + 1) :
                  pl \in Places(ss, n) \/ (pl = <<n + 1, pl[2]>> /\ pl[2] \in 1..Len(ss[n + 1]))
<1>1. \A k \in 1..n : k \in 1..(n + 1) /\ k # n + 1
      OBVIOUS
<1>2. \A k \in 1..(n + 1) : k \in 1..n \/ k = n + 1
      OBVIOUS
<1>3. \A j \in Nat \ {0} : j <= Len(ss[n + 1]) => j \in 1..Len(ss[n + 1])
      OBVIOUS
<1>4. \A pl \in Places(ss, n) : pl \in Places(ss, n + 1) /\ pl[1] # n + 1
      BY <1>1 DEF Places
<1>5. ASSUME NEW pl \in Places(ss, n + 1)
      PROVE  pl \in Places(ss, n) \/ (pl = <<n + 1, pl[2]>> /\ pl[2] \in 1..Len(ss[n + 1]))
  <2>1. /\ pl = <<pl[1], pl[2]>> /\ pl[1] \in 1..(n + 1) /\ pl[2] \in Nat \ {0}
        /\ pl[2] <= Len(ss[pl[1]])
        BY DEF Places
  <2>2. CASE pl[1] \in 1..n
        BY <2>1, <2>2 DEF Places
  <2>3. CASE pl[1] = n + 1
        BY <1>3, <2>1, <2>3
  <2> QED BY <1>2, <2>1, <2>2, <2>3
<1> QED BY <1>4, <1>5

\* Appending one more pair of parts of the same length keeps two concatenations aligned.
LEMMA AlignedNext ==
    ASSUME NEW T, NEW U, NEW ss \in Seq(Seq(T)), NEW tt \in Seq(Seq(U)),
           NEW n \in Nat, n + 1 \in DOMAIN ss, n + 1 \in DOMAIN tt,
           Len(ss[n + 1]) = Len(tt[n + 1]),
           NEW F \in Seq(T), NEW G \in Seq(U), Aligned(F, G, ss, tt, n)
    PROVE  Aligned(F \o ss[n + 1], G \o tt[n + 1], ss, tt, n + 1)
<1> DEFINE s == ss[n + 1]
           t == tt[n + 1]
           L == Len(F)
           H == Len(F \o s)
<1>1. s \in Seq(T) /\ t \in Seq(U) /\ Len(s) = Len(t)
      OBVIOUS
<1>2. /\ L \in Nat /\ Len(s) \in Nat /\ Len(G) = L /\ H = L + Len(s) /\ Len(G \o t) = H
      /\ \A r \in 1..H : (F \o s)[r] = IF r <= L THEN F[r] ELSE s[r - L]
      /\ \A r \in 1..H : (G \o t)[r] = IF r <= L THEN G[r] ELSE t[r - L]
  <2>1. Len(F) = Len(G)
        BY DEF Aligned
  <2> HIDE DEF s, t
  <2>2. L \in Nat /\ Len(s) \in Nat /\ H = L + Len(s) /\ Len(G \o t) = H
    <3>1. Len(F \o s) = Len(F) + Len(s)
          BY <1>1, ConcatProperties
    <3>2. Len(G \o t) = Len(G) + Len(t)
          BY <1>1, ConcatProperties
    <3>3. Len(F) \in Nat /\ Len(s) \in Nat
          BY <1>1
    <3> QED BY <1>1, <2>1, <3>1, <3>2, <3>3
  <2>3. \A r \in 1..H : (F \o s)[r] = IF r <= L THEN F[r] ELSE s[r - L]
        BY <1>1
  <2>4. \A r \in 1..Len(G \o t) : (G \o t)[r] = IF r <= Len(G) THEN G[r] ELSE t[r - Len(G)]
        BY <1>1
  <2> HIDE DEF L, H
  <2>5. Len(G) = L
        BY <2>1 DEF L
  <2> QED BY <2>2, <2>3, <2>4, <2>5
<1>3. PICK at \in [1..L -> Places(ss, n)] :
          /\ \A r \in 1..L : F[r] = ss[at[r][1]][at[r][2]] /\ G[r] = tt[at[r][1]][at[r][2]]
          /\ \A pl \in Places(ss, n) : \E r \in 1..L : at[r] = pl
          /\ \A r, q \in 1..L : at[r] = at[q] => r = q
      BY DEF Aligned
<1> DEFINE at1 == [r \in 1..H |-> IF r <= L THEN at[r] ELSE <<n + 1, r - L>>]
<1>4. \A pl \in Places(ss, n) : pl \in Places(ss, n + 1) /\ pl[1] # n + 1
      BY <1>2, PlacesNext
<1>5. \A r \in 1..H : r <= L => at1[r] = at[r] /\ r \in 1..L
      BY <1>2
<1>6. \A r \in 1..H : ~(r <= L) => at1[r] = <<n + 1, r - L>> /\ r - L \in 1..Len(s)
      BY <1>2
<1>7. \A i \in 1..Len(s) : <<n + 1, i>> \in Places(ss, n + 1)
      BY <1>1, <1>2 DEF Places
<1>8. \A pl \in Places(ss, n + 1) :
          pl \in Places(ss, n) \/ (pl = <<n + 1, pl[2]>> /\ pl[2] \in 1..Len(s))
      BY <1>2, PlacesNext
<1>9. at1 \in [1..H -> Places(ss, n + 1)]
  <2>1. \A r \in 1..H : at1[r] \in Places(ss, n + 1)
        BY <1>4, <1>5, <1>6, <1>7
  <2> QED BY <2>1
<1> HIDE DEF at1, s, t, L, H
<1>10. ASSUME NEW r \in 1..H
       PROVE  /\ (F \o s)[r] = ss[at1[r][1]][at1[r][2]]
              /\ (G \o t)[r] = tt[at1[r][1]][at1[r][2]]
  <2>1. CASE r <= L
        BY <1>2, <1>3, <1>5, <2>1
  <2>2. CASE ~(r <= L)
    <3>1. at1[r] = <<n + 1, r - L>> /\ (F \o s)[r] = s[r - L] /\ (G \o t)[r] = t[r - L]
          BY <1>2, <1>6, <2>2
    <3>2. at1[r][1] = n + 1 /\ at1[r][2] = r - L
          BY <3>1
    <3> QED BY <3>1, <3>2 DEF s, t
  <2> QED BY <2>1, <2>2
<1>11. ASSUME NEW pl \in Places(ss, n + 1) PROVE \E r \in 1..H : at1[r] = pl
  <2>1. CASE pl \in Places(ss, n)
    <3>1. PICK r \in 1..L : at[r] = pl
          BY <1>3, <2>1
    <3>2. r \in 1..H /\ r <= L
          BY <1>2
    <3> QED BY <1>5, <3>1, <3>2
  <2>2. CASE pl = <<n + 1, pl[2]>> /\ pl[2] \in 1..Len(s)
    <3>1. /\ pl[2] + L \in 1..H /\ ~(pl[2] + L <= L) /\ (pl[2] + L) - L = pl[2]
      <4>1. \A k \in 1..Len(s) : k + L \in 1..H /\ ~(k + L <= L) /\ (k + L) - L = k
        <5>1. L \in Nat /\ Len(s) \in Nat /\ H = L + Len(s)
              BY <1>2
        <5> QED BY <5>1
      <4> QED BY <2>2, <4>1
    <3>2. at1[pl[2] + L] = pl
          BY <1>6, <2>2, <3>1
    <3> QED BY <3>1, <3>2
  <2> QED BY <1>8, <2>1, <2>2
<1>a. \A x \in 1..H : x <= L => at1[x][1] # n + 1
      BY <1>3, <1>4, <1>5
<1>b. \A y \in 1..H : ~(y <= L) => at1[y][1] = n + 1
  <2>1. \A y \in 1..H : ~(y <= L) => at1[y] = <<n + 1, y - L>>
        BY <1>6
  <2> QED BY <2>1
<1>12. ASSUME NEW r \in 1..H, NEW q \in 1..H, at1[r] = at1[q] PROVE r = q
  <2>1. CASE r <= L /\ q <= L
        BY <1>3, <1>5, <1>12, <2>1
  <2>2. CASE ~(r <= L) /\ ~(q <= L)
    <3>1. at1[r] = <<n + 1, r - L>> /\ at1[q] = <<n + 1, q - L>>
          BY <1>6, <2>2
    <3>2. at1[r][2] = r - L /\ at1[q][2] = q - L
          BY <3>1
    <3>3. L \in Nat
          BY <1>2
    <3>4. r - L = q - L
          BY <1>12, <3>2
    <3> QED BY <3>3, <3>4
  <2>3. ASSUME NEW x \in 1..H, NEW y \in 1..H, x <= L, ~(y <= L) PROVE at1[x] # at1[y]
    <3>1. at1[x][1] # n + 1
          BY <1>a, <2>3
    <3>2. at1[y][1] = n + 1
          BY <1>b, <2>3
    <3> QED BY <3>1, <3>2
  <2> QED BY <1>12, <2>1, <2>2, <2>3
<1>13. Len(F \o s) = Len(G \o t)
       BY <1>2 DEF H
<1>14. H = Len(F \o s)
       BY DEF H
<1>15. Aligned(F \o s, G \o t, ss, tt, n + 1)
  <2>1. \E a \in [1..H -> Places(ss, n + 1)] :
           /\ \A r \in 1..H :
                 /\ (F \o s)[r] = ss[a[r][1]][a[r][2]]
                 /\ (G \o t)[r] = tt[a[r][1]][a[r][2]]
           /\ \A pl \in Places(ss, n + 1) : \E r \in 1..H : a[r] = pl
           /\ \A r, q \in 1..H : a[r] = a[q] => r = q
        BY <1>9, <1>10, <1>11, <1>12
  <2> QED BY <1>13, <2>1 DEF Aligned, H
<1> QED BY <1>15 DEF s, t

\* Two lists of parts of the same lengths flatten to sequences that correspond entry by entry.
LEMMA FlattenAligned ==
    ASSUME NEW T, NEW U, NEW ss \in Seq(Seq(T)), NEW tt \in Seq(Seq(U)), Len(ss) = Len(tt),
           \A i \in DOMAIN ss : Len(ss[i]) = Len(tt[i])
    PROVE  /\ FlattenSeq(ss) \in Seq(T) /\ FlattenSeq(tt) \in Seq(U)
           /\ Aligned(FlattenSeq(ss), FlattenSeq(tt), ss, tt, Len(ss))
<1>1. Aligned(<<>>, <<>>, ss, tt, 0)
  <2>1. Places(ss, 0) = {}
        BY DEF Places
  <2> DEFINE at == [r \in 1..0 |-> r]
  <2>2. at \in [1..Len(<<>>) -> Places(ss, 0)] /\ Len(<<>>) = 0
        BY <2>1
  <2> HIDE DEF at
  <2> QED BY <2>1, <2>2 DEF Aligned
<1>2. CASE ss = <<>>
  <2>1. tt = <<>> /\ Len(ss) = 0
        BY <1>2
  <2>2. FlattenSeq(ss) = <<>> /\ FlattenSeq(tt) = <<>>
        BY <1>2, <2>1 DEF FlattenSeq
  <2>3. <<>> \in Seq(T) /\ <<>> \in Seq(U)
        OBVIOUS
  <2> QED BY <1>1, <2>1, <2>2, <2>3
<1>3. CASE ss # <<>>
  <2> DEFINE n == Len(ss)
  <2>1. n \in Nat \ {0} /\ tt # <<>> /\ Len(tt) = n /\ DOMAIN ss = 1..n /\ DOMAIN tt = 1..n
        BY <1>3
  <2>2. PICK f : FlattensTo(f, ss, n) /\ FlattenSeq(ss) = f[n]
        BY <1>3, FlattenIs
  <2>3. PICK g : FlattensTo(g, tt, n) /\ FlattenSeq(tt) = g[n]
        BY <2>1, FlattenIs
  <2> HIDE DEF n
  <2>4. /\ \A i \in 1..n : f[i] = IF i = 1 THEN ss[i] ELSE f[i - 1] \o ss[i]
        /\ \A i \in 1..n : g[i] = IF i = 1 THEN tt[i] ELSE g[i - 1] \o tt[i]
        BY <2>2, <2>3 DEF FlattensTo
  <2> DEFINE Fits(i) == f[i] \in Seq(T) /\ g[i] \in Seq(U) /\ Aligned(f[i], g[i], ss, tt, i)
             S == {i \in Nat : i \in 1..n => Fits(i)}
  <2>5. 0 \in S
        OBVIOUS
  <2>6. ASSUME NEW i \in Nat, i \in S PROVE i + 1 \in S
    <3> SUFFICES ASSUME i + 1 \in 1..n PROVE Fits(i + 1)
        OBVIOUS
    <3>1. /\ i + 1 \in DOMAIN ss /\ i + 1 \in DOMAIN tt /\ Len(ss[i + 1]) = Len(tt[i + 1])
          /\ ss[i + 1] \in Seq(T) /\ tt[i + 1] \in Seq(U)
      <4>1. i + 1 \in DOMAIN ss /\ i + 1 \in DOMAIN tt
            BY <2>1
      <4>2. ss[i + 1] \in Seq(T)
            BY <4>1
      <4>3. tt[i + 1] \in Seq(U)
            BY <4>1
      <4> QED BY <4>1, <4>2, <4>3
    <3>2. CASE i = 0
      <4>1. f[1] = ss[1] /\ g[1] = tt[1] /\ ss[1] \in Seq(T) /\ tt[1] \in Seq(U)
            BY <2>4, <3>1, <3>2
      <4>2. <<>> \o ss[1] = ss[1] /\ <<>> \o tt[1] = tt[1]
            BY <4>1, ConcatEmptySeq
      <4>3. <<>> \in Seq(T) /\ <<>> \in Seq(U)
            OBVIOUS
      <4>4. Aligned(<<>> \o ss[0 + 1], <<>> \o tt[0 + 1], ss, tt, 0 + 1)
            BY <1>1, <3>1, <3>2, <4>3, AlignedNext
      <4> QED BY <3>2, <4>1, <4>2, <4>4
    <3>3. CASE i # 0
      <4>1. i \in 1..n /\ (i + 1) - 1 = i /\ i + 1 # 1
            BY <2>1, <3>3
      <4>2. f[i + 1] = f[i] \o ss[i + 1] /\ g[i + 1] = g[i] \o tt[i + 1]
            BY <2>4, <4>1
      <4>3. Fits(i)
            BY <2>6, <4>1
      <4>4. Aligned(f[i] \o ss[i + 1], g[i] \o tt[i + 1], ss, tt, i + 1)
            BY <3>1, <4>3, AlignedNext
      <4>5. f[i + 1] \in Seq(T) /\ g[i + 1] \in Seq(U)
            BY <3>1, <4>2, <4>3, ConcatProperties
      <4> QED BY <4>2, <4>4, <4>5
    <3> QED BY <3>2, <3>3
  <2>7. Nat \subseteq S
    <3> HIDE DEF S
    <3> QED BY <2>5, <2>6, SetInduction
  <2>8. Fits(n)
        BY <2>1, <2>7
  <2> QED BY <2>2, <2>3, <2>8 DEF n
<1> QED BY <1>2, <1>3

\* What is needed of a single flattened sequence.
LEMMA Flattened ==
    ASSUME NEW T, NEW ss \in Seq(Seq(T))
    PROVE  LET F == FlattenSeq(ss)
           IN  /\ F \in Seq(T)
               /\ \A r \in DOMAIN F : \E i \in DOMAIN ss : \E k \in DOMAIN ss[i] : F[r] = ss[i][k]
               /\ \A i \in DOMAIN ss : \A k \in DOMAIN ss[i] : \E r \in DOMAIN F : F[r] = ss[i][k]
               /\ (\A i, j \in DOMAIN ss : \A k \in DOMAIN ss[i] : \A l \in DOMAIN ss[j] :
                       ss[i][k] = ss[j][l] => i = j /\ k = l)
                  => IsInjective(F)
<1> DEFINE F == FlattenSeq(ss)
           n == Len(ss)
<1>1. n \in Nat /\ DOMAIN ss = 1..n /\ \A i \in 1..n : ss[i] \in Seq(T) /\ Len(ss[i]) \in Nat
                                                      /\ DOMAIN ss[i] = 1..Len(ss[i])
      OBVIOUS
<1>2. F \in Seq(T) /\ Aligned(F, F, ss, ss, n)
      BY FlattenAligned
<1> HIDE DEF F, n
<1>3. DOMAIN F = 1..Len(F)
      BY <1>2
<1>4. PICK at \in [1..Len(F) -> Places(ss, n)] :
          /\ \A r \in 1..Len(F) : F[r] = ss[at[r][1]][at[r][2]]
          /\ \A pl \in Places(ss, n) : \E r \in 1..Len(F) : at[r] = pl
          /\ \A r, q \in 1..Len(F) : at[r] = at[q] => r = q
      BY <1>2 DEF Aligned
<1>5. \A pl \in Places(ss, n) :
          pl[1] \in DOMAIN ss /\ pl[2] \in DOMAIN ss[pl[1]] /\ pl = <<pl[1], pl[2]>>
      BY <1>1 DEF Places
<1>6. \A i \in DOMAIN ss : \A k \in DOMAIN ss[i] : <<i, k>> \in Places(ss, n)
      BY <1>1 DEF Places
<1>7. \A r \in DOMAIN F : at[r] \in Places(ss, n)
      BY <1>3
<1>8. \A r \in DOMAIN F : \E i \in DOMAIN ss : \E k \in DOMAIN ss[i] : F[r] = ss[i][k]
      BY <1>3, <1>4, <1>5, <1>7
<1>9. ASSUME NEW i \in DOMAIN ss, NEW k \in DOMAIN ss[i] PROVE \E r \in DOMAIN F : F[r] = ss[i][k]
  <2>1. PICK r \in 1..Len(F) : at[r] = <<i, k>>
        BY <1>4, <1>6
  <2>2. F[r] = ss[i][k]
        BY <1>4, <2>1
  <2> QED BY <1>3, <2>2
<1>10. ASSUME \A i, j \in DOMAIN ss : \A k \in DOMAIN ss[i] : \A l \in DOMAIN ss[j] :
                  ss[i][k] = ss[j][l] => i = j /\ k = l
       PROVE  IsInjective(F)
  <2> SUFFICES ASSUME NEW r \in DOMAIN F, NEW q \in DOMAIN F, F[r] = F[q] PROVE r = q
      BY DEF IsInjective
  <2>1. at[r] \in Places(ss, n) /\ at[q] \in Places(ss, n)
        BY <1>7
  <2>2. ss[at[r][1]][at[r][2]] = ss[at[q][1]][at[q][2]]
        BY <1>3, <1>4
  <2>3. at[r][1] = at[q][1] /\ at[r][2] = at[q][2]
        BY <1>5, <1>10, <2>1, <2>2
  <2>4. at[r] = at[q]
        BY <1>5, <2>1, <2>3
  <2> QED BY <1>3, <1>4, <2>4
<1> QED BY <1>2, <1>8, <1>9, <1>10 DEF F

\* Numbers in order: each of them, once.
Ascends(s) == \A i, j \in DOMAIN s : i < j => s[i] < s[j]

\* A finite set of numbers can be put in ascending order: InOrder has something to choose.
LEMMA AscentExists ==
    ASSUME NEW S, S \subseteq Nat, IsFiniteSet(S)
    PROVE  \E s \in [1..Cardinality(S) -> S] : Ascends(s)
<1> DEFINE Sized(n) == {A \in SUBSET Nat : IsFiniteSet(A) /\ Cardinality(A) = n}
           N == {n \in Nat : \A A \in Sized(n) : \E s \in [1..n -> A] : Ascends(s)}
<1>1. 0 \in N
  <2> SUFFICES ASSUME NEW A \in Sized(0) PROVE \E s \in [1..0 -> A] : Ascends(s)
      OBVIOUS
  <2> DEFINE s == [i \in 1..0 |-> i]
  <2>1. s \in [1..0 -> A] /\ \A i \in DOMAIN s : FALSE
        OBVIOUS
  <2> QED BY <2>1 DEF Ascends
<1>2. ASSUME NEW n \in Nat, n \in N PROVE n + 1 \in N
  <2> SUFFICES ASSUME NEW A \in Sized(n + 1) PROVE \E s \in [1..(n + 1) -> A] : Ascends(s)
      OBVIOUS
  <2>1. A \subseteq Nat /\ IsFiniteSet(A) /\ Cardinality(A) = n + 1 /\ A # {}
        BY FS_EmptySet
  <2>2. PICK m \in A : \A y \in A : m <= y
        BY <2>1, Least
  <2>3. A \ {m} \in Sized(n)
    <3>1. IsFiniteSet(A \ {m}) /\ Cardinality(A \ {m}) = Cardinality(A) - 1
          BY <2>1, <2>2, FS_RemoveElement
    <3>2. Cardinality(A \ {m}) = n
          BY <2>1, <3>1
    <3> QED BY <2>1, <3>1, <3>2
  <2>4. PICK f \in [1..n -> A \ {m}] : Ascends(f)
        BY <1>2, <2>3
  <2> DEFINE s == [i \in 1..(n + 1) |-> IF i = 1 THEN m ELSE f[i - 1]]
  <2>5. \A i \in 1..(n + 1) : i # 1 => i - 1 \in 1..n /\ s[i] = f[i - 1] /\ s[i] \in A \ {m}
        OBVIOUS
  <2>6. s \in [1..(n + 1) -> A] /\ s[1] = m
        OBVIOUS
  <2> HIDE DEF s
  <2>7. ASSUME NEW i \in 1..(n + 1), NEW j \in 1..(n + 1), i < j PROVE s[i] < s[j]
    <3>1. j # 1 /\ s[j] \in A \ {m} /\ m \in Nat /\ s[j] \in Nat /\ m <= s[j]
      <4>1. j # 1
            BY <2>7
      <4>2. s[j] \in A \ {m}
            BY <2>5, <4>1
      <4> QED BY <2>1, <2>2, <4>1, <4>2
    <3>2. CASE i = 1
          BY <2>6, <3>1, <3>2
    <3>3. CASE i # 1
      <4>1. i - 1 \in 1..n /\ j - 1 \in 1..n /\ i - 1 < j - 1
            BY <2>5, <2>7, <3>1, <3>3
      <4>2. f[i - 1] < f[j - 1]
            BY <2>4, <4>1 DEF Ascends
      <4> QED BY <2>5, <3>1, <3>3, <4>2
    <3> QED BY <3>2, <3>3
  <2> QED BY <2>6, <2>7 DEF Ascends
<1>3. Nat \subseteq N
  <2> HIDE DEF N
  <2> QED BY <1>1, <1>2, SetInduction
<1> QED BY <1>3, FS_CardinalityType

\* InOrder lists each number of a finite set once.
LEMMA InOrderLists ==
    ASSUME NEW S, S \subseteq Nat, IsFiniteSet(S)
    PROVE  LET s == InOrder(S)
           IN  /\ s \in Seq(S) /\ Len(s) = Cardinality(S)
               /\ \A i, j \in DOMAIN s : s[i] = s[j] => i = j
               /\ \A x \in S : \E i \in DOMAIN s : s[i] = x
<1> DEFINE s == InOrder(S)
           n == Cardinality(S)
<1>1. s \in [1..n -> S] /\ Ascends(s)
      BY AscentExists DEF InOrder, Ascends
<1>2. n \in Nat
      BY FS_CardinalityType
<1> HIDE DEF s, n
<1>3. \A i, j \in 1..n : s[i] = s[j] => i = j
  <2> SUFFICES ASSUME NEW i \in 1..n, NEW j \in 1..n, s[i] = s[j], i # j PROVE FALSE
      OBVIOUS
  <2>1. \A k \in 1..n : s[k] \in Nat
        BY <1>1
  <2>2. (i < j \/ j < i) /\ DOMAIN s = 1..n
        BY <1>1, <1>2
  <2> QED BY <1>1, <2>1, <2>2 DEF Ascends
<1>4. s \in Injection(1..n, S)
      BY <1>1, <1>3 DEF Injection, IsInjective
<1>5. Cardinality(1..n) = n
      BY <1>2, FS_Interval
<1>6. s \in Surjection(1..n, S)
      BY <1>4, <1>5, FS_Injection DEF n
<1>7. s \in Seq(S) /\ Len(s) = n /\ DOMAIN s = 1..n
      BY <1>1, <1>2
<1> QED BY <1>3, <1>6, <1>7 DEF Surjection, s, n

-----------------------------------------------------------------------------
(***************************************************************************)
(* The plan: which transfer reaches which evaluation policy.               *)
(***************************************************************************)
TrainSet == ToSet(TrainList)
EvalSet == ToSet(EvalList)

\* What the assumption on placements says of the one that was chosen.
LEMMA Placed ==
    ASSUME PlanInit
    PROVE  /\ Nodes = 1..Len(placement) /\ Len(placement) \in Nat
           /\ \A n \in Nodes : placement[n].train \in Nat /\ placement[n].eval \in Nat
           /\ \A n \in Nodes : placement[n].train > 0 \/ placement[n].eval > 0
           /\ \E n \in Nodes : placement[n].train > 0
<1> DEFINE Node == [train : Nat, eval : Nat] \ {[train |-> 0, eval |-> 0]}
<1>1. placement \in Seq(Node) /\ \E n \in Nodes : placement[n].train > 0
      BY TransferPlanAssumption DEF PlanInit, Nodes
<1>2. \A x \in Node : /\ x.train \in Nat /\ x.eval \in Nat
                      /\ x.train > 0 \/ x.eval > 0
  <2> SUFFICES ASSUME NEW x \in [train : Nat, eval : Nat], x.train = 0, x.eval = 0
               PROVE  x = [train |-> 0, eval |-> 0]
      OBVIOUS
  <2> QED OBVIOUS
<1>3. \A n \in Nodes : placement[n] \in Node
      BY <1>1 DEF Nodes
<1> HIDE DEF Node
<1>4. Nodes = 1..Len(placement) /\ Len(placement) \in Nat
      BY <1>1 DEF Nodes
<1> QED BY <1>1, <1>2, <1>3, <1>4

\* Two names of policies are equal only if node, kind and number are.
LEMMA SameTriple ==
    \A n, k, i, m, l, j : <<n, k, i>> = <<m, l, j>> => n = m /\ k = l /\ i = j
OBVIOUS

\* init_placement_info lists each train and each evaluation policy once.
LEMMA PolicyLists ==
    ASSUME PlanInit
    PROVE  /\ TrainList \in Seq(TrainSet) /\ EvalList \in Seq(EvalSet)
           /\ IsInjective(TrainList) /\ IsInjective(EvalList)
           /\ \A p : p \in TrainSet <=>
                  \E n \in Nodes : \E i \in 1..placement[n].train : p = <<n, "train", i>>
           /\ \A p : p \in EvalSet <=>
                  \E n \in Nodes : \E i \in 1..placement[n].eval : p = <<n, "eval", i>>
<1> DEFINE Named(kind) == {<<n, kind, i>> : n \in Nat, i \in Nat}
           trains == [n \in Nodes |-> TrainOn(n)]
           evals == [n \in Nodes |-> EvalOn(n)]
<1>1. /\ Nodes = 1..Len(placement) /\ Len(placement) \in Nat
      /\ \A n \in Nodes : n \in Nat /\ placement[n].train \in Nat /\ placement[n].eval \in Nat
      BY Placed
<1>2. ASSUME NEW n \in Nodes
      PROVE  /\ TrainOn(n) \in Seq(Named("train")) /\ DOMAIN TrainOn(n) = 1..placement[n].train
             /\ \A i \in 1..placement[n].train : TrainOn(n)[i] = <<n, "train", i>>
  <2>1. DOMAIN TrainOn(n) = 1..placement[n].train
        BY DEF TrainOn
  <2>2. \A i \in 1..placement[n].train : TrainOn(n)[i] = <<n, "train", i>> /\ i \in Nat
        BY <1>1 DEF TrainOn
  <2>3. \A i \in 1..placement[n].train : TrainOn(n)[i] \in Named("train")
    <3>1. \A a, b \in Nat : <<a, "train", b>> \in Named("train")
          OBVIOUS
    <3> HIDE DEF Named
    <3> QED BY <1>1, <2>2, <3>1
  <2> HIDE DEF Named
  <2>4. TrainOn(n) \in [1..placement[n].train -> Named("train")]
        BY <2>3 DEF TrainOn
  <2>5. placement[n].train \in Nat
        BY <1>1
  <2>6. TrainOn(n) \in Seq(Named("train"))
        BY <2>4, <2>5
  <2> QED BY <2>1, <2>2, <2>6
<1>3. ASSUME NEW n \in Nodes
      PROVE  /\ EvalOn(n) \in Seq(Named("eval")) /\ DOMAIN EvalOn(n) = 1..placement[n].eval
             /\ \A i \in 1..placement[n].eval : EvalOn(n)[i] = <<n, "eval", i>>
  <2>1. DOMAIN EvalOn(n) = 1..placement[n].eval
        BY DEF EvalOn
  <2>2. \A i \in 1..placement[n].eval : EvalOn(n)[i] = <<n, "eval", i>> /\ i \in Nat
        BY <1>1 DEF EvalOn
  <2>3. \A i \in 1..placement[n].eval : EvalOn(n)[i] \in Named("eval")
    <3>1. \A a, b \in Nat : <<a, "eval", b>> \in Named("eval")
          OBVIOUS
    <3> HIDE DEF Named
    <3> QED BY <1>1, <2>2, <3>1
  <2> HIDE DEF Named
  <2>4. EvalOn(n) \in [1..placement[n].eval -> Named("eval")]
        BY <2>3 DEF EvalOn
  <2>5. placement[n].eval \in Nat
        BY <1>1
  <2>6. EvalOn(n) \in Seq(Named("eval"))
        BY <2>4, <2>5
  <2> QED BY <2>1, <2>2, <2>6
<1> HIDE DEF Named
<1>4. trains \in Seq(Seq(Named("train"))) /\ DOMAIN trains = Nodes
      BY <1>1, <1>2
<1>5. evals \in Seq(Seq(Named("eval"))) /\ DOMAIN evals = Nodes
      BY <1>1, <1>3
<1>6. \A i, j \in DOMAIN trains : \A k \in DOMAIN trains[i] : \A l \in DOMAIN trains[j] :
          trains[i][k] = trains[j][l] => i = j /\ k = l
  <2> SUFFICES ASSUME NEW i \in Nodes, NEW j \in Nodes,
                      NEW k \in DOMAIN TrainOn(i), NEW l \in DOMAIN TrainOn(j), TrainOn(i)[k] = TrainOn(j)[l]
               PROVE  i = j /\ k = l
      OBVIOUS
  <2>1. TrainOn(i)[k] = <<i, "train", k>> /\ TrainOn(j)[l] = <<j, "train", l>>
        BY <1>2
  <2>2. <<i, "train", k>> = <<j, "train", l>>
        BY <2>1
  <2> QED BY <2>2, SameTriple
<1>7. \A i, j \in DOMAIN evals : \A k \in DOMAIN evals[i] : \A l \in DOMAIN evals[j] :
          evals[i][k] = evals[j][l] => i = j /\ k = l
  <2> SUFFICES ASSUME NEW i \in Nodes, NEW j \in Nodes,
                      NEW k \in DOMAIN EvalOn(i), NEW l \in DOMAIN EvalOn(j), EvalOn(i)[k] = EvalOn(j)[l]
               PROVE  i = j /\ k = l
      OBVIOUS
  <2>1. EvalOn(i)[k] = <<i, "eval", k>> /\ EvalOn(j)[l] = <<j, "eval", l>>
        BY <1>3
  <2>2. <<i, "eval", k>> = <<j, "eval", l>>
        BY <2>1
  <2> QED BY <2>2, SameTriple
<1>8. TrainList = FlattenSeq(trains) /\ EvalList = FlattenSeq(evals)
      BY DEF TrainList, EvalList
<1>9. \A n \in Nodes : trains[n] = TrainOn(n) /\ evals[n] = EvalOn(n)
      OBVIOUS
<1> HIDE DEF trains, evals
<1>10. /\ TrainList \in Seq(Named("train")) /\ IsInjective(TrainList)
       /\ \A r \in DOMAIN TrainList : \E n \in Nodes : \E k \in DOMAIN TrainOn(n) :
              TrainList[r] = TrainOn(n)[k]
       /\ \A n \in Nodes : \A k \in DOMAIN TrainOn(n) : \E r \in DOMAIN TrainList :
              TrainList[r] = TrainOn(n)[k]
       BY <1>4, <1>6, <1>8, <1>9, Flattened
<1>11. /\ EvalList \in Seq(Named("eval")) /\ IsInjective(EvalList)
       /\ \A r \in DOMAIN EvalList : \E n \in Nodes : \E k \in DOMAIN EvalOn(n) :
              EvalList[r] = EvalOn(n)[k]
       /\ \A n \in Nodes : \A k \in DOMAIN EvalOn(n) : \E r \in DOMAIN EvalList :
              EvalList[r] = EvalOn(n)[k]
       BY <1>5, <1>7, <1>8, <1>9, Flattened
<1>12. \A p : p \in TrainSet <=>
                  \E n \in Nodes : \E i \in 1..placement[n].train : p = <<n, "train", i>>
  <2> TAKE p
  <2>1. p \in TrainSet <=> \E r \in DOMAIN TrainList : TrainList[r] = p
        BY DEF TrainSet, ToSet
  <2>2. (\E r \in DOMAIN TrainList : TrainList[r] = p)
            <=> \E n \in Nodes : \E k \in DOMAIN TrainOn(n) : TrainOn(n)[k] = p
        BY <1>10
  <2>3. (\E n \in Nodes : \E k \in DOMAIN TrainOn(n) : TrainOn(n)[k] = p)
            <=> \E n \in Nodes : \E i \in 1..placement[n].train : p = <<n, "train", i>>
        BY <1>2
  <2> QED BY <2>1, <2>2, <2>3
<1>13. \A p : p \in EvalSet <=>
                  \E n \in Nodes : \E i \in 1..placement[n].eval : p = <<n, "eval", i>>
  <2> TAKE p
  <2>1. p \in EvalSet <=> \E r \in DOMAIN EvalList : EvalList[r] = p
        BY DEF EvalSet, ToSet
  <2>2. (\E r \in DOMAIN EvalList : EvalList[r] = p)
            <=> \E n \in Nodes : \E k \in DOMAIN EvalOn(n) : EvalOn(n)[k] = p
        BY <1>11
  <2>3. (\E n \in Nodes : \E k \in DOMAIN EvalOn(n) : EvalOn(n)[k] = p)
            <=> \E n \in Nodes : \E i \in 1..placement[n].eval : p = <<n, "eval", i>>
        BY <1>3
  <2> QED BY <2>1, <2>2, <2>3
<1>14. TrainList \in Seq(TrainSet) /\ EvalList \in Seq(EvalSet)
       BY <1>10, <1>11 DEF TrainSet, EvalSet, ToSet
<1> QED BY <1>10, <1>11, <1>12, <1>13, <1>14

\* The policies on a node; train and evaluation policies are apart.
LEMMA OnNodes ==
    ASSUME PlanInit, NEW n \in Nodes
    PROVE  /\ TrainOn(n) \in Seq(TrainSet) /\ Len(TrainOn(n)) = placement[n].train
           /\ EvalOn(n) \in Seq(EvalSet) /\ Len(EvalOn(n)) = placement[n].eval
           /\ \A i \in DOMAIN TrainOn(n) : TrainOn(n)[i] = <<n, "train", i>>
           /\ \A i \in DOMAIN EvalOn(n) : EvalOn(n)[i] = <<n, "eval", i>>
<1>1. placement[n].train \in Nat /\ placement[n].eval \in Nat
      BY Placed
<1>2. TrainOn(n) \in Seq(TrainSet) /\ Len(TrainOn(n)) = placement[n].train
  <2>1. \A i \in 1..placement[n].train : <<n, "train", i>> \in TrainSet
        BY PolicyLists
  <2>2. TrainOn(n) \in [1..placement[n].train -> TrainSet]
        BY <2>1 DEF TrainOn
  <2> QED BY <1>1, <2>2
<1>3. EvalOn(n) \in Seq(EvalSet) /\ Len(EvalOn(n)) = placement[n].eval
  <2>1. \A i \in 1..placement[n].eval : <<n, "eval", i>> \in EvalSet
        BY PolicyLists
  <2>2. EvalOn(n) \in [1..placement[n].eval -> EvalSet]
        BY <2>1 DEF EvalOn
  <2> QED BY <1>1, <2>2
<1> QED BY <1>2, <1>3 DEF TrainOn, EvalOn

\* No policy both trains and evaluates.
LEMMA Apart == ASSUME PlanInit PROVE TrainSet \cap EvalSet = {}
<1> SUFFICES ASSUME NEW p \in TrainSet, p \in EvalSet PROVE FALSE
    OBVIOUS
<1>1. PICK n \in Nodes, i \in Nat : p = <<n, "train", i>>
      BY Placed, PolicyLists
<1>2. PICK m \in Nodes, k \in Nat : p = <<m, "eval", k>>
      BY Placed, PolicyLists
<1>3. p[2] = "train" /\ p[2] = "eval"
      BY <1>1, <1>2
<1> QED BY <1>3

\* Lists of nodes.
LEMMA NodeLists ==
    ASSUME PlanInit, NEW S \in SUBSET Nodes
    PROVE  /\ InOrder(S) \in Seq(S)
           /\ \A i, j \in DOMAIN InOrder(S) : InOrder(S)[i] = InOrder(S)[j] => i = j
           /\ \A n \in S : \E i \in DOMAIN InOrder(S) : InOrder(S)[i] = n
<1>1. Nodes = 1..Len(placement) /\ Len(placement) \in Nat
      BY Placed
<1>2. IsFiniteSet(Nodes) /\ S \subseteq Nat
      BY <1>1, FS_Interval
<1>3. IsFiniteSet(S)
      BY <1>2, FS_Subset
<1> QED BY <1>2, <1>3, InOrderLists

\* InOrder, of numbers up to a bound.
LEMMA NumberLists ==
    ASSUME NEW n \in Nat, NEW S \in SUBSET (1..n)
    PROVE  /\ InOrder(S) \in Seq(S)
           /\ \A i, j \in DOMAIN InOrder(S) : InOrder(S)[i] = InOrder(S)[j] => i = j
           /\ \A k \in S : \E i \in DOMAIN InOrder(S) : InOrder(S)[i] = k
<1>1. IsFiniteSet(1..n) /\ S \subseteq Nat
      BY FS_Interval
<1>2. IsFiniteSet(S)
      BY <1>1, FS_Subset
<1> QED BY <1>1, <1>2, InOrderLists

\* A node receives from itself if it trains, and otherwise from the one it is dealt out to.
LEMMA Receivers ==
    ASSUME PlanInit, NEW n \in Nodes, placement[n].train > 0
    PROVE  /\ ReceiverNodes(n) \in Seq({m \in Nodes : placement[m].eval > 0})
           /\ \A i, j \in DOMAIN ReceiverNodes(n) : ReceiverNodes(n)[i] = ReceiverNodes(n)[j] => i = j
           /\ \A i \in DOMAIN ReceiverNodes(n) :
                  \/ ReceiverNodes(n)[i] = n
                  \/ /\ placement[ReceiverNodes(n)[i]].train = 0
                     /\ \E k \in DOMAIN EvalNodes :
                            EvalNodes[k] = ReceiverNodes(n)[i] /\ RouterOf(k) = n
           /\ placement[n].eval > 0 => \E i \in DOMAIN ReceiverNodes(n) : ReceiverNodes(n)[i] = n
           /\ \A k \in DOMAIN EvalNodes : RouterOf(k) = n =>
                  \E i \in DOMAIN ReceiverNodes(n) : ReceiverNodes(n)[i] = EvalNodes[k]
<1> DEFINE own == IF placement[n].eval > 0 THEN <<n>> ELSE <<>>
           S == {k \in DOMAIN EvalNodes : RouterOf(k) = n}
           served == InOrder(S)
           rest == [i \in DOMAIN served |-> EvalNodes[served[i]]]
           Fed == {m \in Nodes : placement[m].eval > 0}
           Poor == {m \in Nodes : placement[m].train = 0}
           R == ReceiverNodes(n)
<1>1. R = own \o rest
      BY DEF ReceiverNodes
<1>2. /\ EvalNodes \in Seq(Poor)
      /\ \A i, j \in DOMAIN EvalNodes : EvalNodes[i] = EvalNodes[j] => i = j
      BY NodeLists DEF EvalNodes
<1>3. DOMAIN EvalNodes = 1..Len(EvalNodes) /\ Len(EvalNodes) \in Nat
      BY <1>2
<1>4. /\ served \in Seq(S)
      /\ \A i, j \in DOMAIN served : served[i] = served[j] => i = j
      /\ \A k \in S : \E i \in DOMAIN served : served[i] = k
      BY <1>3, NumberLists
<1>5. Poor \subseteq Fed /\ \A m \in Poor : m # n
      BY Placed
<1>6. own \in Seq(Fed) /\ Len(own) = IF placement[n].eval > 0 THEN 1 ELSE 0
  <2>1. CASE placement[n].eval > 0
    <3>1. n \in Fed /\ own = <<n>>
          BY <2>1
    <3> HIDE DEF Fed
    <3> QED BY <2>1, <3>1
  <2>2. CASE ~(placement[n].eval > 0)
        BY <2>2
  <2> QED BY <2>1, <2>2
<1>7. \A i \in DOMAIN own : own[i] = n /\ i = 1 /\ placement[n].eval > 0
      OBVIOUS
<1>8. Len(own) \in {0, 1} /\ (placement[n].eval > 0 => Len(own) = 1 /\ own[1] = n)
      OBVIOUS
<1> HIDE DEF own, served
<1>9. \A i \in DOMAIN served : served[i] \in DOMAIN EvalNodes /\ RouterOf(served[i]) = n
      BY <1>4
<1> HIDE DEF S
<1>10. /\ Len(rest) = Len(served) /\ DOMAIN rest = 1..Len(served) /\ DOMAIN served = 1..Len(served)
       /\ Len(served) \in Nat
       BY <1>4
<1>11. \A i \in DOMAIN served : rest[i] = EvalNodes[served[i]] /\ rest[i] \in Poor
       BY <1>2, <1>9
<1>12. rest \in Seq(Poor)
       BY <1>2, <1>9, <1>10
<1>13. \A i, j \in DOMAIN rest : rest[i] = rest[j] => i = j
       BY <1>2, <1>4, <1>9, <1>10, <1>11
<1> HIDE DEF rest
<1>14. rest \in Seq(Fed)
       BY <1>5, <1>12
<1> HIDE DEF Fed, Poor
<1>15. /\ R \in Seq(Fed) /\ Len(R) = Len(own) + Len(rest) /\ DOMAIN R = 1..Len(R)
       /\ \A i \in 1..Len(R) : R[i] = IF i <= Len(own) THEN own[i] ELSE rest[i - Len(own)]
  <2>1. R \in Seq(Fed) /\ Len(R) = Len(own) + Len(rest)
        BY <1>1, <1>6, <1>14, ConcatProperties
  <2>2. \A i \in 1..(Len(own) + Len(rest)) :
            R[i] = IF i <= Len(own) THEN own[i] ELSE rest[i - Len(own)]
    <3>1. own \in Seq(Fed) /\ rest \in Seq(Fed)
          BY <1>6, <1>14
    <3>2. \A i \in 1..(Len(own) + Len(rest)) :
              (own \o rest)[i] = IF i <= Len(own) THEN own[i] ELSE rest[i - Len(own)]
          BY <3>1, ConcatProperties
    <3> QED BY <1>1, <3>2
  <2>3. DOMAIN R = 1..Len(R)
        BY <2>1
  <2> QED BY <2>1, <2>2, <2>3
<1> HIDE DEF R
<1>16. \A i \in DOMAIN R : \/ i <= Len(own) /\ i = 1 /\ R[i] = n
                           \/ /\ ~(i <= Len(own)) /\ i - Len(own) \in DOMAIN rest
                              /\ R[i] = rest[i - Len(own)] /\ R[i] \in Poor
  <2> TAKE i \in DOMAIN R
  <2>1. CASE i <= Len(own)
    <3>1. i \in DOMAIN own
          BY <1>6, <1>15, <2>1
    <3> QED BY <1>7, <1>15, <2>1, <3>1
  <2>2. CASE ~(i <= Len(own))
    <3>1. i - Len(own) \in DOMAIN rest
          BY <1>8, <1>10, <1>15, <2>2
    <3> QED BY <1>10, <1>11, <1>15, <2>2, <3>1
  <2> QED BY <2>1, <2>2
<1>17. ASSUME NEW i \in DOMAIN R, NEW j \in DOMAIN R, R[i] = R[j] PROVE i = j
  <2>1. CASE i <= Len(own) /\ j <= Len(own)
        BY <1>16, <2>1
  <2>2. CASE ~(i <= Len(own)) /\ ~(j <= Len(own))
    <3>1. i - Len(own) = j - Len(own)
          BY <1>13, <1>16, <1>17, <2>2
    <3> QED BY <1>8, <1>15, <3>1
  <2> QED BY <1>5, <1>16, <1>17, <2>1, <2>2
<1>18. ASSUME NEW i \in DOMAIN R
       PROVE  \/ R[i] = n
              \/ placement[R[i]].train = 0 /\ \E k \in DOMAIN EvalNodes : EvalNodes[k] = R[i] /\ RouterOf(k) = n
  <2>1. CASE R[i] = n
        BY <2>1
  <2>2. CASE i - Len(own) \in DOMAIN rest /\ R[i] = rest[i - Len(own)] /\ R[i] \in Poor
    <3>1. placement[R[i]].train = 0
          BY <2>2 DEF Poor
    <3> QED BY <1>9, <1>10, <1>11, <2>2, <3>1
  <2> QED BY <1>16, <2>1, <2>2
<1>19. placement[n].eval > 0 => \E i \in DOMAIN R : R[i] = n
  <2> SUFFICES ASSUME placement[n].eval > 0 PROVE 1 \in DOMAIN R /\ R[1] = n
      OBVIOUS
  <2>1. Len(own) = 1 /\ own[1] = n /\ Len(rest) \in Nat
        BY <1>8, <1>10
  <2> QED BY <1>15, <2>1
<1>20. ASSUME NEW k \in DOMAIN EvalNodes, RouterOf(k) = n PROVE \E i \in DOMAIN R : R[i] = EvalNodes[k]
  <2>1. PICK i \in DOMAIN served : served[i] = k
        BY <1>4, <1>20 DEF S
  <2>2. i \in 1..Len(rest) /\ rest[i] = EvalNodes[k]
        BY <1>10, <1>11, <2>1
  <2>3. i + Len(own) \in 1..Len(R) /\ ~(i + Len(own) <= Len(own)) /\ (i + Len(own)) - Len(own) = i
        BY <1>8, <1>10, <1>15, <2>2
  <2> QED BY <1>15, <2>2, <2>3
<1> QED BY <1>15, <1>17, <1>18, <1>19, <1>20 DEF R, Fed

\* No node receives from two others, and each with evaluation policies from one.
LEMMA OneRouter ==
    ASSUME PlanInit, NEW n \in Nodes, NEW m \in Nodes,
           placement[n].train > 0, placement[m].train > 0,
           NEW i \in DOMAIN ReceiverNodes(n), NEW j \in DOMAIN ReceiverNodes(m),
           ReceiverNodes(n)[i] = ReceiverNodes(m)[j]
    PROVE  n = m /\ i = j
<1> DEFINE r == ReceiverNodes(n)[i]
           From(q) == r = q \/ (placement[r].train = 0
                                   /\ \E k \in DOMAIN EvalNodes : EvalNodes[k] = r /\ RouterOf(k) = q)
<1>a. From(n)
      BY Receivers
<1>b. From(m)
  <2>1. r = ReceiverNodes(m)[j]
        OBVIOUS
  <2> HIDE DEF r
  <2>2. \/ ReceiverNodes(m)[j] = m
        \/ /\ placement[ReceiverNodes(m)[j]].train = 0
           /\ \E k \in DOMAIN EvalNodes : EvalNodes[k] = ReceiverNodes(m)[j] /\ RouterOf(k) = m
        BY Receivers
  <2> QED BY <2>1, <2>2
<1>1. From(n) /\ From(m)
      BY <1>a, <1>b
<1>2. \A k, l \in DOMAIN EvalNodes : EvalNodes[k] = EvalNodes[l] => k = l
      BY NodeLists DEF EvalNodes
<1>3. placement[n].train # 0 /\ placement[m].train # 0
      BY Placed
<1> HIDE DEF r
<1>4. n = m
      BY <1>1, <1>2, <1>3
<1> QED BY <1>4, Receivers

\* Every node with evaluation policies receives from some node with train policies (router_map).
LEMMA SomeRouter ==
    ASSUME PlanInit, NEW m \in Nodes, placement[m].eval > 0
    PROVE  \E n \in Nodes : /\ placement[n].train > 0
                            /\ \E i \in DOMAIN ReceiverNodes(n) : ReceiverNodes(n)[i] = m
<1>1. placement[m].train \in Nat
      BY Placed
<1>2. CASE placement[m].train > 0
      BY <1>2, Receivers
<1>3. CASE placement[m].train = 0
  <2> DEFINE routers == IF TrainNodes # <<>> THEN TrainNodes ELSE MixedNodes
  <2>1. PICK k \in DOMAIN EvalNodes : EvalNodes[k] = m
        BY <1>3, NodeLists DEF EvalNodes
  <2>2. k \in Nat \ {0}
    <3>1. EvalNodes \in Seq(Nodes)
          BY NodeLists DEF EvalNodes
    <3> QED BY <2>1, <3>1
  <2>3. /\ TrainNodes \in Seq({n \in Nodes : placement[n].train > 0})
        /\ MixedNodes \in Seq({n \in Nodes : placement[n].train > 0})
    <3>1. /\ TrainNodes \in Seq({n \in Nodes : placement[n].train > 0 /\ placement[n].eval = 0})
          /\ MixedNodes \in Seq({n \in Nodes : placement[n].train > 0 /\ placement[n].eval > 0})
          BY NodeLists DEF TrainNodes, MixedNodes
    <3> QED BY <3>1
  <2>4. TrainNodes # <<>> \/ MixedNodes # <<>>
    <3>1. PICK n \in Nodes : placement[n].train > 0 /\ placement[n].eval \in Nat
          BY Placed
    <3>2. CASE placement[n].eval = 0
      <4>1. \E i \in DOMAIN TrainNodes : TrainNodes[i] = n
            BY <3>1, <3>2, NodeLists DEF TrainNodes
      <4> QED BY <4>1
    <3>3. CASE placement[n].eval > 0
      <4>1. \E i \in DOMAIN MixedNodes : MixedNodes[i] = n
            BY <3>1, <3>3, NodeLists DEF MixedNodes
      <4> QED BY <4>1
    <3> QED BY <3>1, <3>2, <3>3
  <2>5. routers \in Seq({n \in Nodes : placement[n].train > 0}) /\ routers # <<>>
        BY <2>3, <2>4
  <2>6. RouterOf(k) = routers[((k - 1) % Len(routers)) + 1]
        BY DEF RouterOf
  <2> HIDE DEF routers
  <2>7. Len(routers) \in Nat \ {0} /\ DOMAIN routers = 1..Len(routers)
        BY <2>5
  <2>8. (k - 1) % Len(routers) \in 0..(Len(routers) - 1)
        BY <2>2, <2>7
  <2>9. ((k - 1) % Len(routers)) + 1 \in DOMAIN routers
        BY <2>7, <2>8
  <2>10. RouterOf(k) \in Nodes /\ placement[RouterOf(k)].train > 0
        BY <2>5, <2>6, <2>9
  <2>11. \A q \in Nodes : placement[q].train > 0 /\ RouterOf(k) = q
             => \E i \in DOMAIN ReceiverNodes(q) : ReceiverNodes(q)[i] = EvalNodes[k]
         BY Receivers
  <2> QED BY <2>1, <2>10, <2>11
<1> QED BY <1>1, <1>2, <1>3

\* What a transfer is, and whom it reaches: policies that share a buffer, all of them.
Transfer == [sender : TrainSet, to : Nodes, intra : BOOLEAN, receivers : Seq(EvalSet)]

Reaches(t, e) == IF strategy = "Shared" THEN e[1] = t.to ELSE e \in ToSet(t.receivers)

\* The train policies of a node take its transfers in turn, so a sender is one of them.
LEMMA SenderIsTrain ==
    ASSUME PlanInit, NEW n \in Nodes, placement[n].train > 0, NEW i \in Nat \ {0}
    PROVE  Sender(n, i) \in TrainSet
<1> DEFINE all == TrainOn(n)
           k == ((i - 1) % placement[n].train) + 1
<1>1. placement[n].train \in Nat \ {0}
      BY Placed
<1>2. (i - 1) % placement[n].train \in 0..(placement[n].train - 1)
      BY <1>1
<1>3. k \in 1..placement[n].train
      BY <1>1, <1>2
<1>4. all \in Seq(TrainSet) /\ Len(all) = placement[n].train
      BY <1>1, OnNodes
<1>5. Sender(n, i) = all[k]
      BY DEF Sender
<1> HIDE DEF all, k
<1>6. \A j \in 1..Len(all) : all[j] \in TrainSet
      BY <1>4
<1> QED BY <1>3, <1>4, <1>5, <1>6

\* The transfers of a node (build_transfer_info_for_disaggregated): one for each node it serves.
LEMMA SentFrom ==
    ASSUME PlanInit, strategy # "None", NEW n \in Nodes, placement[n].train > 0
    PROVE  /\ TransfersOf(n) \in Seq(Transfer)
           /\ DOMAIN TransfersOf(n) = DOMAIN ReceiverNodes(n)
           /\ \A i \in DOMAIN ReceiverNodes(n) :
                 /\ TransfersOf(n)[i].to = ReceiverNodes(n)[i]
                 /\ \A e \in ToSet(TransfersOf(n)[i].receivers) : e[1] = ReceiverNodes(n)[i]
                 /\ strategy = "Double" => TransfersOf(n)[i].receivers = EvalOn(ReceiverNodes(n)[i])
<1> DEFINE R == ReceiverNodes(n)
           T == TransfersOf(n)
<1>1. /\ R \in Seq({m \in Nodes : placement[m].eval > 0})
      /\ DOMAIN R = 1..Len(R) /\ Len(R) \in Nat
      BY Receivers
<1>2. DOMAIN T = DOMAIN R
      BY DEF TransfersOf
<1>3. ASSUME NEW i \in DOMAIN R
      PROVE  /\ T[i] \in Transfer
             /\ T[i].to = R[i]
             /\ \A e \in ToSet(T[i].receivers) : e[1] = R[i]
             /\ strategy = "Double" => T[i].receivers = EvalOn(R[i])
  <2> DEFINE to == R[i]
             receivers == IF strategy = "Double" THEN EvalOn(to)
                          ELSE IF to = n THEN <<>>
                          ELSE <<EvalOn(to)[1]>>
  <2>1. T[i] = [sender |-> Sender(n, i), to |-> to, intra |-> to = n, receivers |-> receivers]
        BY DEF TransfersOf
  <2>2. to \in Nodes /\ placement[to].eval > 0
        BY <1>1
  <2>3. Sender(n, i) \in TrainSet
        BY <1>1, SenderIsTrain
  <2> HIDE DEF T, to, R
  <2>4. /\ EvalOn(to) \in Seq(EvalSet) /\ Len(EvalOn(to)) = placement[to].eval
        /\ \A k \in DOMAIN EvalOn(to) : EvalOn(to)[k] = <<to, "eval", k>>
        /\ placement[to].eval \in Nat
        BY <2>2, OnNodes, Placed
  <2>5. 1 \in DOMAIN EvalOn(to)
        BY <2>2, <2>4
  <2>6. \A k \in DOMAIN EvalOn(to) : EvalOn(to)[k] \in EvalSet /\ EvalOn(to)[k][1] = to
        BY <2>4
  <2>7. receivers \in Seq(EvalSet) /\ \A e \in ToSet(receivers) : e[1] = to
    <3>1. CASE receivers = EvalOn(to)
          BY <2>4, <2>6, <3>1 DEF ToSet
    <3>2. CASE receivers = <<>>
      <4>1. ToSet(<<>>) = {}
            BY DEF ToSet
      <4> HIDE DEF receivers
      <4> QED BY <3>2, <4>1
    <3>3. CASE receivers = <<EvalOn(to)[1]>>
          BY <2>5, <2>6, <3>3 DEF ToSet
    <3> QED BY <3>1, <3>2, <3>3
  <2>8. strategy = "Double" => receivers = EvalOn(to)
        OBVIOUS
  <2> HIDE DEF receivers
  <2>9. T[i].to = to /\ T[i].receivers = receivers
        BY <2>1
  <2>10. T[i] \in Transfer
         BY <2>1, <2>2, <2>3, <2>7 DEF Transfer
  <2> QED BY <2>7, <2>8, <2>9, <2>10 DEF to
<1> HIDE DEF R, T
<1>4. T \in [1..Len(R) -> Transfer]
  <2>1. T = [i \in DOMAIN R |-> T[i]]
        BY DEF T, R, TransfersOf
  <2> QED BY <1>1, <1>3, <2>1
<1> QED BY <1>1, <1>2, <1>3, <1>4 DEF R, T

\* The plan: what a transfer is; every evaluation policy is reached, by one sender only.
Planned ==
    /\ transferInfo \in Seq(Transfer)
    /\ \A e \in EvalSet : \E i \in DOMAIN transferInfo : Reaches(transferInfo[i], e)
    /\ \A i \in DOMAIN transferInfo : \A e \in ToSet(transferInfo[i].receivers) :
           e[1] = transferInfo[i].to
    /\ \A i, j \in DOMAIN transferInfo : \A e \in EvalSet :
           Reaches(transferInfo[i], e) /\ Reaches(transferInfo[j], e)
           => transferInfo[i] = transferInfo[j]

\* The plan of build_transfer_info_for_colocated reaches every evaluation policy.
LEMMA PlannedColocated == ASSUME PlanInit, strategy = "None" PROVE Planned
<1> DEFINE n == Len(EvalList)
           Pair(i) == [sender |-> TrainList[i], to |-> EvalList[i][1], intra |-> FALSE,
                       receivers |-> <<EvalList[i]>>]
<1>1. /\ TrainList \in Seq(TrainSet) /\ EvalList \in Seq(EvalSet) /\ IsInjective(EvalList)
      /\ n \in Nat /\ DOMAIN EvalList = 1..n /\ n <= Len(TrainList) /\ Len(TrainList) \in Nat
      BY PolicyLists DEF PlanInit
<1>2. transferInfo = [i \in 1..n |-> Pair(i)]
      BY <1>1 DEF PlanInit, Transfers, Pairs
<1>3. \A i \in 1..n : EvalList[i] \in EvalSet /\ TrainList[i] \in TrainSet
  <2> HIDE DEF n
  <2>1. \A i \in 1..n : i \in 1..Len(TrainList)
        BY <1>1
  <2>2. \A i \in 1..Len(TrainList) : TrainList[i] \in TrainSet
        BY <1>1
  <2>3. \A i \in 1..n : EvalList[i] \in EvalSet
        BY <1>1
  <2> QED BY <2>1, <2>2, <2>3
<1>4. \A e \in EvalSet : e[1] \in Nodes
      BY PolicyLists
<1>5. \A i \in 1..n : /\ Pair(i) \in Transfer
                      /\ Pair(i).receivers = <<EvalList[i]>> /\ Pair(i).to = EvalList[i][1]
      BY <1>3, <1>4 DEF Transfer
<1> HIDE DEF Pair, n
<1>6. \A i \in 1..n : transferInfo[i] = Pair(i)
      BY <1>2
<1>7. transferInfo \in [1..n -> Transfer] /\ DOMAIN transferInfo = 1..n
      BY <1>2, <1>5
<1>8. transferInfo \in Seq(Transfer)
      BY <1>1, <1>7
<1>9. \A i \in 1..n : ToSet(transferInfo[i].receivers) = {EvalList[i]}
  <2> TAKE i \in 1..n
  <2>1. transferInfo[i].receivers = <<EvalList[i]>>
        BY <1>5, <1>6
  <2>2. ToSet(<<EvalList[i]>>) = {EvalList[i]}
        BY DEF ToSet
  <2> QED BY <2>1, <2>2
<1>10. \A i \in 1..n : \A e : Reaches(transferInfo[i], e) <=> e = EvalList[i]
       BY <1>9 DEF Reaches
<1>11. \A e \in EvalSet : \E i \in 1..n : e = EvalList[i]
       BY <1>1 DEF EvalSet, ToSet
<1>12. \A i, j \in 1..n : EvalList[i] = EvalList[j] => i = j
       BY <1>1 DEF IsInjective
<1>13. \A i \in 1..n : \A e \in ToSet(transferInfo[i].receivers) : e[1] = transferInfo[i].to
       BY <1>5, <1>6, <1>9
<1> QED BY <1>7, <1>8, <1>10, <1>11, <1>12, <1>13 DEF Planned

\* The plan of build_transfer_info_for_disaggregated reaches every evaluation policy.
LEMMA PlannedApart == ASSUME PlanInit, strategy # "None" PROVE Planned
<1> DEFINE order == MixedNodes \o TrainNodes
           parts == [j \in DOMAIN order |-> TransfersOf(order[j])]
           Senders == {n \in Nodes : placement[n].train > 0}
           Part(n, i) == n \in Senders /\ i \in DOMAIN ReceiverNodes(n)
<1>1. MixedNodes \in Seq(Senders) /\ TrainNodes \in Seq(Senders)
  <2>1. /\ TrainNodes \in Seq({n \in Nodes : placement[n].train > 0 /\ placement[n].eval = 0})
        /\ MixedNodes \in Seq({n \in Nodes : placement[n].train > 0 /\ placement[n].eval > 0})
        BY NodeLists DEF TrainNodes, MixedNodes
  <2> QED BY <2>1
<1>2. \A n \in Senders : \E j \in DOMAIN order : order[j] = n
  <2> SUFFICES ASSUME NEW n \in Nodes, placement[n].train > 0
               PROVE  \E j \in DOMAIN order : order[j] = n
      OBVIOUS
  <2>1. placement[n].eval \in Nat
        BY Placed
  <2> HIDE DEF Senders
  <2>2. /\ DOMAIN order = 1..(Len(MixedNodes) + Len(TrainNodes))
        /\ \A i \in 1..Len(MixedNodes) : order[i] = MixedNodes[i]
        /\ \A i \in 1..Len(TrainNodes) : order[Len(MixedNodes) + i] = TrainNodes[i]
        /\ DOMAIN MixedNodes = 1..Len(MixedNodes) /\ DOMAIN TrainNodes = 1..Len(TrainNodes)
        /\ Len(MixedNodes) \in Nat /\ Len(TrainNodes) \in Nat
        BY <1>1
  <2> HIDE DEF order
  <2>3. CASE placement[n].eval = 0
    <3>1. PICK i \in DOMAIN TrainNodes : TrainNodes[i] = n
          BY <2>3, NodeLists DEF TrainNodes
    <3>2. Len(MixedNodes) + i \in DOMAIN order
          BY <2>2, <3>1
    <3> QED BY <2>2, <3>1, <3>2
  <2>4. CASE placement[n].eval > 0
    <3>1. PICK i \in DOMAIN MixedNodes : MixedNodes[i] = n
          BY <2>4, NodeLists DEF MixedNodes
    <3>2. i \in DOMAIN order
          BY <2>2, <3>1
    <3> QED BY <2>2, <3>1, <3>2
  <2> QED BY <2>1, <2>3, <2>4
<1>3. order \in Seq(Senders)
      BY <1>1
<1>4. \A n \in Senders : /\ TransfersOf(n) \in Seq(Transfer)
                         /\ DOMAIN TransfersOf(n) = DOMAIN ReceiverNodes(n)
      BY SentFrom
<1>5. transferInfo = FlattenSeq(parts)
      BY DEF PlanInit, Transfers
<1> HIDE DEF order, Senders
<1>6. /\ parts \in Seq(Seq(Transfer)) /\ DOMAIN parts = DOMAIN order
      /\ \A j \in DOMAIN order : parts[j] = TransfersOf(order[j]) /\ order[j] \in Senders
  <2>1. DOMAIN order = 1..Len(order) /\ Len(order) \in Nat
        BY <1>3
  <2>2. \A j \in DOMAIN order : order[j] \in Senders /\ TransfersOf(order[j]) \in Seq(Transfer)
        BY <1>3, <1>4
  <2>3. parts \in [1..Len(order) -> Seq(Transfer)]
        BY <2>1, <2>2
  <2> QED BY <2>1, <2>2, <2>3
<1> HIDE DEF parts
<1>7. /\ transferInfo \in Seq(Transfer)
      /\ \A r \in DOMAIN transferInfo : \E j \in DOMAIN parts : \E k \in DOMAIN parts[j] :
             transferInfo[r] = parts[j][k]
      /\ \A j \in DOMAIN parts : \A k \in DOMAIN parts[j] : \E r \in DOMAIN transferInfo :
             transferInfo[r] = parts[j][k]
      BY <1>5, <1>6, Flattened
<1>8. \A r \in DOMAIN transferInfo : \E n, i : Part(n, i) /\ transferInfo[r] = TransfersOf(n)[i]
      BY <1>4, <1>6, <1>7
<1>9. \A n, i : Part(n, i) => \E r \in DOMAIN transferInfo : transferInfo[r] = TransfersOf(n)[i]
      BY <1>2, <1>4, <1>6, <1>7
<1>10. \A n, i : Part(n, i) =>
           /\ TransfersOf(n)[i].to = ReceiverNodes(n)[i]
           /\ \A e \in ToSet(TransfersOf(n)[i].receivers) : e[1] = ReceiverNodes(n)[i]
           /\ strategy = "Double" => TransfersOf(n)[i].receivers = EvalOn(ReceiverNodes(n)[i])
       BY SentFrom DEF Senders
<1>11. strategy \in {"Double", "Shared"}
       BY TransferPlanAssumption DEF PlanInit
<1>12. \A n, i : Part(n, i) => \A e : Reaches(TransfersOf(n)[i], e) => e[1] = ReceiverNodes(n)[i]
       BY <1>10, <1>11 DEF Reaches
<1>13. \A e \in EvalSet : \E n, i : Part(n, i) /\ Reaches(TransfersOf(n)[i], e)
  <2> TAKE e \in EvalSet
  <2>1. PICK m \in Nodes : \E l \in 1..placement[m].eval : e = <<m, "eval", l>>
        BY PolicyLists
  <2>2. placement[m].eval \in Nat /\ placement[m].eval > 0
        BY <2>1, Placed
  <2>3. PICK n, i : /\ n \in Nodes /\ placement[n].train > 0
                    /\ i \in DOMAIN ReceiverNodes(n) /\ ReceiverNodes(n)[i] = m
        BY <2>2, SomeRouter
  <2>4. Part(n, i) /\ e[1] = m
        BY <2>1, <2>3 DEF Senders
  <2>5. CASE strategy = "Shared"
        BY <1>10, <2>3, <2>4, <2>5 DEF Reaches
  <2>6. CASE strategy = "Double"
    <3>1. e \in ToSet(EvalOn(m))
          BY <2>1 DEF EvalOn, ToSet
    <3> QED BY <1>10, <2>3, <2>4, <2>6, <3>1 DEF Reaches
  <2> QED BY <1>11, <2>5, <2>6
<1>14. \A n, i, m, j : Part(n, i) /\ Part(m, j) /\ ReceiverNodes(n)[i] = ReceiverNodes(m)[j]
           => n = m /\ i = j
       BY OneRouter DEF Senders
<1> HIDE DEF Part
<1>15. ASSUME NEW r \in DOMAIN transferInfo, NEW q \in DOMAIN transferInfo, NEW e \in EvalSet,
              Reaches(transferInfo[r], e), Reaches(transferInfo[q], e)
       PROVE  transferInfo[r] = transferInfo[q]
  <2>1. PICK n, i : Part(n, i) /\ transferInfo[r] = TransfersOf(n)[i]
        BY <1>8
  <2>2. PICK m, j : Part(m, j) /\ transferInfo[q] = TransfersOf(m)[j]
        BY <1>8
  <2>3. ReceiverNodes(n)[i] = ReceiverNodes(m)[j]
        BY <1>12, <1>15, <2>1, <2>2
  <2> QED BY <1>14, <2>1, <2>2, <2>3
<1>16. \A e \in EvalSet : \E r \in DOMAIN transferInfo : Reaches(transferInfo[r], e)
  <2> TAKE e \in EvalSet
  <2>1. PICK n, i : Part(n, i) /\ Reaches(TransfersOf(n)[i], e)
        BY <1>13
  <2>2. PICK r \in DOMAIN transferInfo : transferInfo[r] = TransfersOf(n)[i]
        BY <1>9, <2>1
  <2> QED BY <2>1, <2>2
<1>17. \A r \in DOMAIN transferInfo : \A e \in ToSet(transferInfo[r].receivers) :
           e[1] = transferInfo[r].to
       BY <1>8, <1>10
<1> QED BY <1>7, <1>15, <1>16, <1>17 DEF Planned

\* Whatever the strategy, the plan reaches every evaluation policy, from train policies only.
LEMMA PlanIsPlanned == ASSUME PlanInit PROVE Planned
BY PlannedColocated, PlannedApart

-----------------------------------------------------------------------------
(***************************************************************************)
(* The groups: everyone's place on its node, the steps of the script and   *)
(* what a policy remembers of them.                                        *)
(***************************************************************************)
Everyone == ToSet(AllPolicies)

\* The policies that get a rank in init_comm_group are the train and evaluation policies.
LEMMA WhoIsThere ==
    ASSUME PlanInit
    PROVE  /\ TrainList \in Seq(Everyone)
           /\ strategy # "None" => TrainSet \subseteq Everyone /\ EvalSet \subseteq Everyone
           /\ \A p : p \in Everyone <=>
                  p \in TrainSet \/ (strategy # "None" /\ p \in EvalSet)
<1>1. TrainList \in Seq(TrainSet) /\ EvalList \in Seq(EvalSet)
      BY PolicyLists
<1>2. CASE strategy = "None"
      BY <1>1, <1>2 DEF Everyone, AllPolicies, TrainSet
<1>3. CASE strategy # "None"
  <2> DEFINE all == TrainList \o EvalList
             U == TrainSet \cup EvalSet
  <2>1. /\ all \in Seq(U) /\ Len(all) = Len(TrainList) + Len(EvalList)
        /\ Len(TrainList) \in Nat /\ Len(EvalList) \in Nat
        /\ DOMAIN TrainList = 1..Len(TrainList) /\ DOMAIN EvalList = 1..Len(EvalList)
        /\ DOMAIN all = 1..Len(all)
        /\ \A i \in 1..(Len(TrainList) + Len(EvalList)) :
               all[i] = IF i <= Len(TrainList) THEN TrainList[i] ELSE EvalList[i - Len(TrainList)]
    <3>1. TrainList \in Seq(U) /\ EvalList \in Seq(U)
          BY <1>1
    <3> HIDE DEF U
    <3> QED BY <3>1, ConcatProperties
  <2>2. AllPolicies = all
        BY <1>3 DEF AllPolicies
  <2> HIDE DEF all
  <2>3. \A p \in ToSet(all) : p \in TrainSet \/ p \in EvalSet
        BY <2>1 DEF ToSet
  <2>4. \A p \in TrainSet : p \in ToSet(all)
    <3> SUFFICES ASSUME NEW i \in DOMAIN TrainList PROVE TrainList[i] \in ToSet(all)
        BY DEF TrainSet, ToSet
    <3>1. i \in DOMAIN all /\ all[i] = TrainList[i]
          BY <2>1
    <3> QED BY <3>1 DEF ToSet
  <2>5. \A p \in EvalSet : p \in ToSet(all)
    <3> SUFFICES ASSUME NEW i \in DOMAIN EvalList PROVE EvalList[i] \in ToSet(all)
        BY DEF EvalSet, ToSet
    <3>1. i + Len(TrainList) \in DOMAIN all /\ all[i + Len(TrainList)] = EvalList[i]
          BY <2>1
    <3> QED BY <3>1 DEF ToSet
  <2>6. \A p : p \in Everyone <=> p \in TrainSet \/ p \in EvalSet
        BY <2>2, <2>3, <2>4, <2>5 DEF Everyone
  <2> QED BY <1>1, <1>3, <2>6
<1> QED BY <1>2, <1>3

\* Policies of node n, each once.
Alone(s, n) ==
    /\ \A i, j \in DOMAIN s : s[i] = s[j] => i = j
    /\ \A i \in DOMAIN s : s[i][1] = n

Differ(s, t) == \A i \in DOMAIN s : \A j \in DOMAIN t : s[i] # t[j]

Holds(c, s) == \A i \in DOMAIN s : \E k \in DOMAIN c : c[k] = s[i]

\* Two lists without repetition and without a common entry make one such list.
LEMMA AloneTogether ==
    ASSUME NEW V, NEW n, NEW s \in Seq(V), NEW t \in Seq(V),
           Alone(s, n), Alone(t, n), Differ(s, t)
    PROVE  s \o t \in Seq(V) /\ Alone(s \o t, n) /\ Holds(s \o t, s) /\ Holds(s \o t, t)
<1> USE DEF Alone, Differ, Holds
<1> DEFINE c == s \o t
<1>1. /\ c \in Seq(V) /\ DOMAIN c = 1..(Len(s) + Len(t))
      /\ DOMAIN s = 1..Len(s) /\ DOMAIN t = 1..Len(t) /\ Len(s) \in Nat /\ Len(t) \in Nat
      /\ \A i \in 1..(Len(s) + Len(t)) : c[i] = IF i <= Len(s) THEN s[i] ELSE t[i - Len(s)]
      BY ConcatProperties
<1> HIDE DEF c
<1>2. \A k \in DOMAIN c : \/ k \in DOMAIN s /\ c[k] = s[k]
                          \/ k - Len(s) \in DOMAIN t /\ c[k] = t[k - Len(s)]
      BY <1>1
<1>3. Alone(c, n)
  <2>1. \A i \in DOMAIN c : c[i][1] = n
        BY <1>2
  <2>2. ASSUME NEW i \in DOMAIN c, NEW j \in DOMAIN c, c[i] = c[j] PROVE i = j
    <3>1. CASE i \in DOMAIN s /\ j \in DOMAIN s /\ c[i] = s[i] /\ c[j] = s[j]
          BY <2>2, <3>1
    <3>2. CASE /\ i - Len(s) \in DOMAIN t /\ j - Len(s) \in DOMAIN t
               /\ c[i] = t[i - Len(s)] /\ c[j] = t[j - Len(s)]
      <4>1. i - Len(s) = j - Len(s)
            BY <2>2, <3>2
      <4> QED BY <1>1, <4>1
    <3> QED BY <1>2, <2>2, <3>1, <3>2
  <2> QED BY <2>1, <2>2
<1>4. \A i \in DOMAIN s : i \in DOMAIN c /\ c[i] = s[i]
      BY <1>1
<1>5. \A i \in DOMAIN t : i + Len(s) \in DOMAIN c /\ c[i + Len(s)] = t[i]
      BY <1>1
<1> QED BY <1>1, <1>3, <1>4, <1>5 DEF c

\* The policies of a node, in the order of its GPUs.
LEMMA OnTheirNode ==
    ASSUME PlanInit, NEW n \in Nodes
    PROVE  /\ SortedOn(n) \in Seq(Everyone)
           /\ \A i, j \in DOMAIN SortedOn(n) : SortedOn(n)[i] = SortedOn(n)[j] => i = j
           /\ \A i \in DOMAIN SortedOn(n) : SortedOn(n)[i][1] = n
           /\ \A p \in Everyone : p[1] = n => \E i \in DOMAIN SortedOn(n) : SortedOn(n)[i] = p
<1> DEFINE a == TrainOn(n)
           b == EvalOn(n)
           U == TrainSet \cup EvalSet
<1>1. /\ a \in Seq(TrainSet) /\ b \in Seq(EvalSet)
      /\ Len(a) = placement[n].train /\ Len(b) = placement[n].eval
      /\ \A i \in DOMAIN a : a[i] = <<n, "train", i>>
      /\ \A i \in DOMAIN b : b[i] = <<n, "eval", i>>
      BY OnNodes
<1>2. Alone(a, n) /\ Alone(b, n) /\ Differ(a, b) /\ Differ(b, a)
  <2> HIDE DEF a, b
  <2> QED BY <1>1, SameTriple DEF Alone, Differ
<1>3. \A p \in Everyone : p[1] = n =>
          \/ \E i \in DOMAIN a : a[i] = p
          \/ strategy # "None" /\ \E i \in DOMAIN b : b[i] = p
  <2> TAKE p \in Everyone
  <2> SUFFICES ASSUME p[1] = n
               PROVE  \/ \E i \in DOMAIN a : a[i] = p
                      \/ strategy # "None" /\ \E i \in DOMAIN b : b[i] = p
      OBVIOUS
  <2>1. CASE p \in TrainSet
    <3>1. PICK m \in Nodes : \E i \in 1..placement[m].train : p = <<m, "train", i>>
          BY <2>1, PolicyLists
    <3>2. m = n
          BY <3>1
    <3>3. PICK i \in 1..placement[n].train : p = <<n, "train", i>>
          BY <3>1, <3>2
    <3>4. DOMAIN a = 1..placement[n].train
          BY DEF TrainOn
    <3> QED BY <1>1, <3>3, <3>4
  <2>2. CASE strategy # "None" /\ p \in EvalSet
    <3>1. PICK m \in Nodes : \E i \in 1..placement[m].eval : p = <<m, "eval", i>>
          BY <2>2, PolicyLists
    <3>2. m = n
          BY <3>1
    <3>3. PICK i \in 1..placement[n].eval : p = <<n, "eval", i>>
          BY <3>1, <3>2
    <3>4. DOMAIN b = 1..placement[n].eval
          BY DEF EvalOn
    <3> QED BY <1>1, <2>2, <3>3, <3>4
  <2> QED BY <2>1, <2>2, WhoIsThere
<1>4. SortedOn(n) = IF strategy = "None" THEN a ELSE IF evalFirst THEN b \o a ELSE a \o b
      BY DEF SortedOn
<1> HIDE DEF a, b
<1>6. CASE strategy = "None"
  <2>1. a \in Seq(Everyone)
        BY <1>1, <1>6, WhoIsThere
  <2> QED BY <1>2, <1>3, <1>4, <1>6, <2>1 DEF Alone
<1>7. CASE strategy # "None"
  <2>1. a \in Seq(Everyone) /\ b \in Seq(Everyone)
    <3>1. TrainSet \subseteq Everyone /\ EvalSet \subseteq Everyone
          BY <1>7, WhoIsThere
    <3> QED BY <1>1, <3>1
  <2>2. a \o b \in Seq(Everyone) /\ Alone(a \o b, n) /\ Holds(a \o b, a) /\ Holds(a \o b, b)
        BY <1>2, <2>1, AloneTogether
  <2>3. b \o a \in Seq(Everyone) /\ Alone(b \o a, n) /\ Holds(b \o a, a) /\ Holds(b \o a, b)
        BY <1>2, <2>1, AloneTogether
  <2>4. SortedOn(n) = a \o b \/ SortedOn(n) = b \o a
        BY <1>4, <1>7
  <2> DEFINE c == SortedOn(n)
  <2>5. c \in Seq(Everyone) /\ Alone(c, n) /\ Holds(c, a) /\ Holds(c, b)
        BY <2>2, <2>3, <2>4
  <2> HIDE DEF c
  <2> QED BY <1>3, <2>5 DEF Alone, Holds, c
<1> QED BY <1>6, <1>7

\* A group for a transfer is made of its sender and its receivers.
GroupsAreTransfers ==
    \A k \in Groups :
        strategy # "None" /\ \E i \in DOMAIN transferInfo :
            /\ transferInfo[i].receivers # <<>>
            /\ script[k].of = <<transferInfo[i].sender>> \o transferInfo[i].receivers

\* The place of a policy in the order of all, from which its rank comes, and LOCAL_RANK.
LEMMA Seats ==
    ASSUME PlanInit
    PROVE  /\ SortedActors \in Seq(Everyone) /\ Len(LocalRanks) = Len(SortedActors)
           /\ \A r \in DOMAIN SortedActors :
                 LET n == SortedActors[r][1]
                 IN  /\ n \in Nodes /\ LocalRanks[r] \in DOMAIN SortedOn(n)
                     /\ SortedOn(n)[LocalRanks[r]] = SortedActors[r]
           /\ \A p \in Everyone : \E r \in DOMAIN SortedActors : SortedActors[r] = p
<1> DEFINE ss == [n \in Nodes |-> SortedOn(n)]
           tt == [n \in Nodes |-> [i \in DOMAIN SortedOn(n) |-> i]]
           N == Len(placement)
<1>1. Nodes = 1..N /\ N \in Nat
      BY Placed
<1>2. \A n \in Nodes : /\ SortedOn(n) \in Seq(Everyone)
                       /\ \A i \in DOMAIN SortedOn(n) : SortedOn(n)[i][1] = n
                       /\ \A p \in Everyone : p[1] = n =>
                              \E i \in DOMAIN SortedOn(n) : SortedOn(n)[i] = p
      BY OnTheirNode
<1>3. ss \in Seq(Seq(Everyone)) /\ DOMAIN ss = Nodes /\ Len(ss) = N
  <2> HIDE DEF N
  <2>1. ss \in [1..N -> Seq(Everyone)]
        BY <1>1, <1>2
  <2> QED BY <1>1, <2>1
<1>4. \A n \in Nodes : /\ [i \in DOMAIN SortedOn(n) |-> i] \in Seq(Nat)
                       /\ Len([i \in DOMAIN SortedOn(n) |-> i]) = Len(SortedOn(n))
  <2> TAKE n \in Nodes
  <2> DEFINE s == SortedOn(n)
             t == [i \in DOMAIN s |-> i]
  <2>1. DOMAIN s = 1..Len(s) /\ Len(s) \in Nat
        BY <1>2
  <2> HIDE DEF s
  <2>2. t \in Seq(Nat) /\ Len(t) = Len(s)
        BY <2>1
  <2> QED BY <2>2 DEF s
<1>5. tt \in Seq(Seq(Nat)) /\ DOMAIN tt = Nodes /\ Len(tt) = N
  <2> HIDE DEF N
  <2>1. tt \in [1..N -> Seq(Nat)]
        BY <1>1, <1>4
  <2> QED BY <1>1, <2>1
<1>6. \A n \in Nodes : ss[n] = SortedOn(n) /\ tt[n] = [i \in DOMAIN SortedOn(n) |-> i]
      OBVIOUS
<1>7. SortedActors = FlattenSeq(ss) /\ LocalRanks = FlattenSeq(tt)
      BY DEF SortedActors, LocalRanks
<1> HIDE DEF ss, tt, N
<1>8. \A i \in DOMAIN ss : Len(ss[i]) = Len(tt[i])
      BY <1>3, <1>4, <1>6
<1>9. /\ SortedActors \in Seq(Everyone) /\ LocalRanks \in Seq(Nat)
      /\ Aligned(SortedActors, LocalRanks, ss, tt, N)
  <2>1. Len(ss) = Len(tt)
        BY <1>3, <1>5
  <2>2. /\ FlattenSeq(ss) \in Seq(Everyone) /\ FlattenSeq(tt) \in Seq(Nat)
        /\ Aligned(FlattenSeq(ss), FlattenSeq(tt), ss, tt, Len(ss))
        BY <1>3, <1>5, <1>8, <2>1, FlattenAligned
  <2> QED BY <1>3, <1>7, <2>2
<1> DEFINE L == Len(SortedActors)
<1>10. /\ Len(LocalRanks) = L /\ L \in Nat /\ DOMAIN SortedActors = 1..L
       BY <1>9 DEF Aligned
<1>11. PICK at \in [1..L -> Places(ss, N)] :
           /\ \A r \in 1..L : /\ SortedActors[r] = ss[at[r][1]][at[r][2]]
                              /\ LocalRanks[r] = tt[at[r][1]][at[r][2]]
           /\ \A pl \in Places(ss, N) : \E r \in 1..L : at[r] = pl
       BY <1>9 DEF Aligned
<1> HIDE DEF L
<1>12. \A pl \in Places(ss, N) : pl[1] \in Nodes /\ pl[2] \in DOMAIN SortedOn(pl[1])
  <2> TAKE pl \in Places(ss, N)
  <2>1. pl[1] \in Nodes /\ pl[2] \in Nat \ {0} /\ pl[2] <= Len(ss[pl[1]])
        BY <1>1 DEF Places
  <2>2. ss[pl[1]] = SortedOn(pl[1]) /\ SortedOn(pl[1]) \in Seq(Everyone)
        BY <1>2, <1>6, <2>1
  <2> QED BY <2>1, <2>2
<1>13. ASSUME NEW r \in DOMAIN SortedActors
       PROVE  LET n == SortedActors[r][1]
              IN  /\ n \in Nodes /\ LocalRanks[r] \in DOMAIN SortedOn(n)
                  /\ SortedOn(n)[LocalRanks[r]] = SortedActors[r]
  <2> DEFINE n == at[r][1]
             i == at[r][2]
  <2>1. r \in 1..L
        BY <1>10
  <2>2. n \in Nodes /\ i \in DOMAIN SortedOn(n)
    <3>1. at[r] \in Places(ss, N)
          BY <2>1
    <3> QED BY <1>12, <3>1
  <2>3. SortedActors[r] = ss[n][i] /\ LocalRanks[r] = tt[n][i]
        BY <1>11, <2>1
  <2> HIDE DEF n, i
  <2>4. SortedActors[r] = SortedOn(n)[i] /\ LocalRanks[r] = i
        BY <1>6, <2>2, <2>3
  <2>5. SortedActors[r][1] = n
        BY <1>2, <2>2, <2>4
  <2> QED BY <2>2, <2>4, <2>5
<1>14. ASSUME NEW p \in Everyone PROVE \E r \in DOMAIN SortedActors : SortedActors[r] = p
  <2>1. p[1] \in Nodes
    <3>1. p \in TrainSet \/ p \in EvalSet
          BY WhoIsThere
    <3>2. CASE p \in TrainSet
      <4>1. PICK m \in Nodes : \E i \in 1..placement[m].train : p = <<m, "train", i>>
            BY <3>2, PolicyLists
      <4> QED BY <4>1
    <3>3. CASE p \in EvalSet
      <4>1. PICK m \in Nodes : \E i \in 1..placement[m].eval : p = <<m, "eval", i>>
            BY <3>3, PolicyLists
      <4> QED BY <4>1
    <3> QED BY <3>1, <3>2, <3>3
  <2>2. PICK i \in DOMAIN SortedOn(p[1]) : SortedOn(p[1])[i] = p
        BY <1>2, <2>1
  <2>3. <<p[1], i>> \in Places(ss, N)
    <3>1. ss[p[1]] = SortedOn(p[1]) /\ SortedOn(p[1]) \in Seq(Everyone)
          BY <1>2, <1>6, <2>1
    <3>2. i \in Nat \ {0} /\ i <= Len(ss[p[1]])
          BY <2>2, <3>1
    <3> QED BY <1>1, <2>1, <3>2 DEF Places
  <2>4. PICK r \in 1..L : at[r] = <<p[1], i>>
        BY <1>11, <2>3
  <2>5. SortedActors[r] = ss[p[1]][i]
        BY <1>11, <2>4
  <2> QED BY <1>6, <1>10, <2>1, <2>2, <2>5
<1> QED BY <1>9, <1>10, <1>13, <1>14 DEF L

\* A sequence that begins with x and goes on in G.
Begins(s, x, G) == s \in Seq(G \cup {x}) /\ s # <<>> /\ s[1] = x /\ \A k \in 2..Len(s) : s[k] \in G

\* What is appended to a script leaves its beginning as it was.
LEMMA GoesOn ==
    ASSUME NEW x, NEW G, NEW s, NEW t \in Seq(G), Begins(s, x, G)
    PROVE  Begins(s \o t, x, G) /\ Holds(s \o t, s) /\ Holds(s \o t, t)
<1> DEFINE c == s \o t
           U == G \cup {x}
<1>1. /\ s \in Seq(U) /\ s # <<>> /\ s[1] = x /\ \A k \in 2..Len(s) : s[k] \in G
      /\ t \in Seq(U)
      BY DEF Begins
<1> HIDE DEF U
<1>2. /\ c \in Seq(U) /\ Len(c) = Len(s) + Len(t) /\ DOMAIN c = 1..(Len(s) + Len(t))
      /\ DOMAIN s = 1..Len(s) /\ DOMAIN t = 1..Len(t) /\ Len(s) \in Nat \ {0} /\ Len(t) \in Nat
      /\ \A i \in 1..(Len(s) + Len(t)) : c[i] = IF i <= Len(s) THEN s[i] ELSE t[i - Len(s)]
      BY <1>1, ConcatProperties
<1> HIDE DEF c
<1>3. \A k \in 2..Len(c) : c[k] \in G
  <2> TAKE k \in 2..Len(c)
  <2>1. CASE k <= Len(s)
        BY <1>1, <1>2, <2>1
  <2>2. CASE ~(k <= Len(s))
    <3>1. k - Len(s) \in DOMAIN t /\ c[k] = t[k - Len(s)]
          BY <1>2, <2>2
    <3> QED BY <3>1
  <2> QED BY <2>1, <2>2
<1>4. \A i \in DOMAIN s : i \in DOMAIN c /\ c[i] = s[i]
      BY <1>2
<1>5. \A i \in DOMAIN t : i + Len(s) \in DOMAIN c /\ c[i + Len(s)] = t[i]
      BY <1>2
<1>6. Holds(c, s) /\ Holds(c, t)
      BY <1>4, <1>5 DEF Holds
<1>7. c[1] = x /\ c # <<>>
      BY <1>1, <1>2
<1>8. Begins(c, x, G)
      BY <1>2, <1>3, <1>7 DEF Begins, U
<1> QED BY <1>6, <1>8 DEF c

\* The steps that form a list of groups are steps of the script.
LEMMA FormedSteps ==
    ASSUME NEW G, NEW mode, NEW groups, NEW n \in Nat, DOMAIN groups = 1..n,
           \A i \in 1..n :
               [call |-> "init_single_comm_group", mode |-> mode, of |-> groups[i]] \in G
    PROVE  Form(mode, groups) \in Seq(G)
<1>1. Form(mode, groups) \in [1..n -> G]
      BY DEF Form
<1> QED BY <1>1

\* What the script is made of after its first step.
OfTransfer(list) ==
    strategy # "None" /\ \E i \in DOMAIN transferInfo :
        /\ transferInfo[i].receivers # <<>>
        /\ list = <<transferInfo[i].sender>> \o transferInfo[i].receivers

Expected(s) ==
    \/ s.call \in {"dist_barrier", "init_train"} /\ s.mode = "GLOBAL"
    \/ /\ s.call = "init_single_comm_group"
       /\ \/ s.mode = "INTRA_NODE" /\ \E n \in Nodes : s.of = SortedOn(n)
          \/ s.mode = "WEIGHT_TRANSFER" /\ OfTransfer(s.of)
          \/ s.mode = "TRAIN_DATA_PARALLEL" /\ s.of = TrainList

\* The groups of init_comm_group are those of the nodes, sorted, and those of the transfers.
LEMMA GroupLists ==
    ASSUME PlanInit
    PROVE  /\ \E n \in Nat : DOMAIN NodeActors = 1..n
           /\ \A i \in DOMAIN NodeActors : \E n \in Nodes : NodeActors[i] = SortedOn(n)
           /\ \A n \in Nodes : SortedOn(n) # <<>> =>
                  \E i \in DOMAIN NodeActors : NodeActors[i] = SortedOn(n)
           /\ \E n \in Nat : DOMAIN TransferActors = 1..n
           /\ strategy # "None" => \A i \in DOMAIN TransferActors : OfTransfer(TransferActors[i])
<1> DEFINE used == {n \in Nodes : SortedOn(n) # <<>>}
           sent == {i \in DOMAIN transferInfo : transferInfo[i].receivers # <<>>}
           sends == InOrder(sent)
<1>1. /\ NodesInUse \in Seq(used) /\ \A n \in used : \E i \in DOMAIN NodesInUse : NodesInUse[i] = n
      BY NodeLists DEF NodesInUse
<1>2. /\ DOMAIN NodeActors = DOMAIN NodesInUse
      /\ \A i \in DOMAIN NodesInUse : NodeActors[i] = SortedOn(NodesInUse[i])
      BY DEF NodeActors
<1>3. \E n \in Nat : DOMAIN NodesInUse = 1..n
  <2> HIDE DEF used
  <2> QED BY <1>1
<1>4. \A i \in DOMAIN NodesInUse : NodesInUse[i] \in Nodes
      BY <1>1
<1>5. transferInfo \in Seq(Transfer)
      BY PlanIsPlanned DEF Planned
<1>6. DOMAIN transferInfo = 1..Len(transferInfo) /\ Len(transferInfo) \in Nat
      BY <1>5
<1>7. sends \in Seq(sent)
      BY <1>6, NumberLists
<1>8. TransferActors = [j \in DOMAIN sends |->
          <<transferInfo[sends[j]].sender>> \o transferInfo[sends[j]].receivers]
      BY DEF TransferActors
<1> HIDE DEF sends
<1>9. \A j \in DOMAIN sends : sends[j] \in DOMAIN transferInfo /\ transferInfo[sends[j]].receivers # <<>>
      BY <1>7
<1>10. \E n \in Nat : DOMAIN sends = 1..n
  <2> HIDE DEF sent
  <2> QED BY <1>7
<1>11. strategy # "None" => \A j \in DOMAIN TransferActors : OfTransfer(TransferActors[j])
       BY <1>8, <1>9 DEF OfTransfer
<1> QED BY <1>1, <1>2, <1>3, <1>4, <1>8, <1>10, <1>11

\* What the driver has the policies do: first init_process_group, then groups and barriers.
LEMMA ScriptSteps ==
    ASSUME PlanInit, script = Script
    PROVE  /\ DOMAIN script = 1..Len(script) /\ Len(script) \in Nat \ {0}
           /\ script[1].call = "init_distributed_env" /\ script[1].mode = "GLOBAL"
           /\ \A k \in DOMAIN script : k = 1 \/ Expected(script[k])
           /\ \A n \in Nodes : SortedOn(n) # <<>> => \E k \in DOMAIN script :
                  script[k].mode = "INTRA_NODE" /\ script[k].of = SortedOn(n)
<1> DEFINE Lists == ToSet(NodeActors) \cup ToSet(TransferActors) \cup {TrainList, <<>>}
           Names == {"init_single_comm_group", "dist_barrier", "init_train"}
           Step == [call : Names, mode : Modes \cup {"GLOBAL"}, of : Lists]
           Good == {s \in Step : Expected(s)}
           first == [call |-> "init_distributed_env", mode |-> "GLOBAL", of |-> <<>>]
<1>1. /\ \A i \in DOMAIN NodeActors : NodeActors[i] \in Lists
      /\ \A i \in DOMAIN TransferActors : TransferActors[i] \in Lists
      /\ TrainList \in Lists /\ <<>> \in Lists
      BY DEF ToSet
<1> HIDE DEF Lists
<1>2. \A call \in Names, mode \in Modes \cup {"GLOBAL"}, list \in Lists :
          Expected([call |-> call, mode |-> mode, of |-> list])
          => [call |-> call, mode |-> mode, of |-> list] \in Good
      OBVIOUS
<1>3. \A s \in Good : Expected(s)
      OBVIOUS
<1> HIDE DEF Good
<1>4. \A call \in {"dist_barrier", "init_train"} : Meeting(call) \in Seq(Good)
  <2> TAKE call \in {"dist_barrier", "init_train"}
  <2> DEFINE s == [call |-> call, mode |-> "GLOBAL", of |-> <<>>]
  <2>1. Expected(s)
        BY DEF Expected
  <2>2. s \in Good
        BY <1>1, <1>2, <2>1
  <2>3. Meeting(call) = <<s>>
        BY DEF Meeting
  <2> HIDE DEF s
  <2> QED BY <2>2, <2>3
<1> DEFINE F == Form("INTRA_NODE", NodeActors)
<1>5. F \in Seq(Good)
  <2>1. PICK n \in Nat : DOMAIN NodeActors = 1..n
        BY GroupLists
  <2>2. \A i \in 1..n : NodeActors[i] \in Lists /\ \E m \in Nodes : NodeActors[i] = SortedOn(m)
        BY <1>1, <2>1, GroupLists
  <2>3. \A i \in 1..n : Expected([call |-> "init_single_comm_group", mode |-> "INTRA_NODE",
                                  of |-> NodeActors[i]])
        BY <2>2 DEF Expected
  <2>4. \A i \in 1..n :
            [call |-> "init_single_comm_group", mode |-> "INTRA_NODE", of |-> NodeActors[i]] \in Good
        BY <1>2, <2>2, <2>3 DEF Modes
  <2> QED BY <2>1, <2>4, FormedSteps
<1>6. strategy # "None" => Form("WEIGHT_TRANSFER", TransferActors) \in Seq(Good)
  <2> SUFFICES ASSUME strategy # "None" PROVE Form("WEIGHT_TRANSFER", TransferActors) \in Seq(Good)
      OBVIOUS
  <2>1. PICK n \in Nat : DOMAIN TransferActors = 1..n
        BY GroupLists
  <2>2. \A i \in 1..n : TransferActors[i] \in Lists /\ OfTransfer(TransferActors[i])
        BY <1>1, <2>1, GroupLists
  <2>3. \A i \in 1..n : Expected([call |-> "init_single_comm_group", mode |-> "WEIGHT_TRANSFER",
                                  of |-> TransferActors[i]])
        BY <2>2 DEF Expected
  <2>4. \A i \in 1..n : [call |-> "init_single_comm_group", mode |-> "WEIGHT_TRANSFER",
                         of |-> TransferActors[i]] \in Good
        BY <1>2, <2>2, <2>3 DEF Modes
  <2> QED BY <2>1, <2>4, FormedSteps
<1>7. Form("TRAIN_DATA_PARALLEL", <<TrainList>>) \in Seq(Good)
  <2>1. DOMAIN <<TrainList>> = 1..1 /\ \A i \in 1..1 : <<TrainList>>[i] = TrainList
        OBVIOUS
  <2>2. Expected([call |-> "init_single_comm_group", mode |-> "TRAIN_DATA_PARALLEL", of |-> TrainList])
        BY DEF Expected
  <2>3. \A i \in 1..1 : [call |-> "init_single_comm_group", mode |-> "TRAIN_DATA_PARALLEL",
                         of |-> <<TrainList>>[i]] \in Good
        BY <1>1, <1>2, <2>1, <2>2 DEF Modes
  <2> QED BY <2>1, <2>3, FormedSteps
<1> DEFINE bar == Meeting("dist_barrier")
           X == IF strategy = "None" \/ transferInfo = <<>> THEN <<>>
                ELSE Form("WEIGHT_TRANSFER", TransferActors) \o Meeting("dist_barrier")
           Y == IF TrainList = <<>> THEN <<>>
                ELSE Form("TRAIN_DATA_PARALLEL", <<TrainList>>) \o Meeting("dist_barrier")
                         \o Meeting("init_train")
<1>8. X \in Seq(Good)
      BY <1>4, <1>6, ConcatProperties
<1>9. Y \in Seq(Good)
      BY <1>4, <1>7, ConcatProperties
<1>10. bar \in Seq(Good)
       BY <1>4
<1>11. script = (((<<first>> \o F) \o bar) \o X) \o Y
       BY DEF Script, Meeting
<1>12. \A i \in DOMAIN NodeActors : /\ i \in DOMAIN F /\ F[i].mode = "INTRA_NODE"
                                    /\ F[i].of = NodeActors[i]
       BY DEF Form
<1>13. first.call = "init_distributed_env" /\ first.mode = "GLOBAL"
       OBVIOUS
<1> HIDE DEF X, Y, bar, F, first
<1>14. Begins(<<first>>, first, Good)
       BY DEF Begins
<1>15. Begins(<<first>> \o F, first, Good) /\ Holds(<<first>> \o F, F)
       BY <1>5, <1>14, GoesOn
<1> DEFINE s1 == <<first>> \o F
           s2 == s1 \o bar
           s3 == s2 \o X
<1> HIDE DEF s1
<1>16. Begins(s1 \o bar, first, Good) /\ Holds(s1 \o bar, s1)
       BY <1>10, <1>15, GoesOn DEF s1
<1> HIDE DEF s2
<1>17. Begins(s2 \o X, first, Good) /\ Holds(s2 \o X, s2)
       BY <1>8, <1>16, GoesOn DEF s2
<1> HIDE DEF s3
<1>18. Begins(s3 \o Y, first, Good) /\ Holds(s3 \o Y, s3)
       BY <1>9, <1>17, GoesOn DEF s3
<1>19. Begins(script, first, Good) /\ Holds(script, s3)
       BY <1>11, <1>18 DEF s1, s2, s3
<1>20. Holds(script, F)
  <2>1. \A c, d, e : Holds(c, d) /\ Holds(d, e) => Holds(c, e)
        BY DEF Holds
  <2>2. Holds(s1, F)
        BY <1>15 DEF s1
  <2>3. Holds(s2, s1)
        BY <1>16 DEF s2
  <2>4. Holds(s3, s2)
        BY <1>17 DEF s3
  <2> QED BY <1>19, <2>1, <2>2, <2>3, <2>4
<1>21. /\ DOMAIN script = 1..Len(script) /\ Len(script) \in Nat \ {0}
       /\ script[1] = first /\ \A k \in 2..Len(script) : script[k] \in Good
       BY <1>19 DEF Begins
<1>22. \A k \in DOMAIN script : k = 1 \/ Expected(script[k])
       BY <1>3, <1>21
<1>23. ASSUME NEW n \in Nodes, SortedOn(n) # <<>>
       PROVE  \E k \in DOMAIN script : script[k].mode = "INTRA_NODE" /\ script[k].of = SortedOn(n)
  <2>1. PICK i \in DOMAIN NodeActors : NodeActors[i] = SortedOn(n)
        BY <1>23, GroupLists
  <2>2. PICK k \in DOMAIN script : script[k] = F[i]
        BY <1>12, <1>20 DEF Holds
  <2> QED BY <1>12, <2>1, <2>2
<1> QED BY <1>13, <1>21, <1>22, <1>23

\* No group for a transfer but those of the plan.
LEMMA GroupsFollowPlan == ASSUME PlanInit, script = Script PROVE GroupsAreTransfers
<1>1. ASSUME NEW k \in Groups PROVE OfTransfer(script[k].of)
      BY <1>1, ScriptSteps DEF Groups, Expected
<1> QED BY <1>1 DEF GroupsAreTransfers, OfTransfer

-----------------------------------------------------------------------------
(***************************************************************************)
(* The syncs: where tasks, sends, receives and buffers stand.              *)
(***************************************************************************)
\* Where tasks, sends and receives stand.
Types ==
    /\ phase \in {"setup", "trained", "sync", "notified"} /\ version \in 1..MaxSyncs
    /\ tasks \in [TrainSet -> Seq(DOMAIN transferInfo)]
    /\ sending \in [TrainSet -> {"no", "broadcasting", "sent"}]
    /\ receiving \in [EvalSet -> {"no", "called", "broadcasting", "received"}]
    /\ holds \in [Buffers -> Empty..version]

OwnTasks == \A p \in TrainSet : \A k \in DOMAIN tasks[p] : transferInfo[tasks[p][k]].sender = p

Resting == phase # "sync" => \A p \in TrainSet : tasks[p] = <<>>

Sends ==
    \A p \in TrainSet : sending[p] # "no" =>
        tasks[p] # <<>> /\ strategy # "None" /\ Current(p).receivers # <<>>

\* Who receives was called by a sender that still waits for it.
Receives ==
    \A e \in EvalSet : receiving[e] # "no" =>
        IF strategy = "None" THEN phase = "sync" /\ receiving[e] = "received"
        ELSE \E p \in TrainSet : sending[p] # "no" /\ e \in ToSet(Current(p).receivers)

\* After a broadcast a receiver has the weights or has stored them.
Sent ==
    \A p \in TrainSet : sending[p] = "sent" => \A e \in ToSet(Current(p).receivers) :
        receiving[e] = "received" \/ (receiving[e] = "no" /\ holds[Buffer(e)] = version)

\* A buffer that is not current yet: a transfer to it is still to come or under way.
ToCome(e) == \E p \in TrainSet : \E k \in DOMAIN tasks[p] : Reaches(transferInfo[tasks[p][k]], e)

Supplied(e) ==
    \/ holds[Buffer(e)] = version
    \/ ToCome(e)
    \/ strategy = "None" /\ receiving[e] # "no"

AllSupplied == phase \in {"sync", "notified"} => \A e \in EvalSet : Supplied(e)

SyncInv == Types /\ OwnTasks /\ Resting /\ Sends /\ Receives /\ Sent /\ AllSupplied

TransferInv == PlanInit /\ script = Script /\ SyncInv

\* What no step changes.
Steady == UNCHANGED planVars /\ evalFirst' = evalFirst /\ script' = script

\* A step leaves the plan and the script, and what is defined from them, as they are.
LEMMA PlanStays ==
    ASSUME Steady
    PROVE  /\ PlanInit => PlanInit'
           /\ script = Script => (script = Script)'
           /\ TrainSet' = TrainSet /\ EvalSet' = EvalSet /\ Buffers' = Buffers
           /\ transferInfo' = transferInfo /\ strategy' = strategy
           /\ \A e : Buffer(e)' = Buffer(e)
<1>1. placement' = placement /\ strategy' = strategy /\ transferInfo' = transferInfo
      BY DEF Steady, planVars
<1>2. evalFirst' = evalFirst /\ script' = script
      BY DEF Steady
<1>3. TrainList' = TrainList /\ EvalList' = EvalList
      BY <1>1 DEF TrainList, EvalList, TrainOn, EvalOn, Nodes
<1>4. TrainSet' = TrainSet /\ EvalSet' = EvalSet
      BY <1>3 DEF TrainSet, EvalSet
<1>5. \A e : Buffer(e)' = Buffer(e)
      BY <1>1 DEF Buffer
<1>6. Buffers' = Buffers
      BY <1>1, <1>3 DEF Buffers, Buffer
<1>7. Transfers' = Transfers
      BY <1>1 DEF Transfers, Pairs, TrainList, EvalList, Nodes, TrainOn, EvalOn, MixedNodes,
                  TrainNodes, TransfersOf, Sender, ReceiverNodes, RouterOf, EvalNodes
<1>8. PlanInit => PlanInit'
      BY <1>1, <1>3, <1>7 DEF PlanInit
<1>9. Script' = Script
  <2>1. NodeActors' = NodeActors
        BY <1>1, <1>2 DEF NodeActors, NodesInUse, SortedOn, TrainOn, EvalOn, Nodes
  <2>2. TransferActors' = TransferActors
        BY <1>1 DEF TransferActors
  <2> QED BY <1>1, <1>3, <2>1, <2>2 DEF Script, Form
<1> QED BY <1>1, <1>2, <1>4, <1>5, <1>6, <1>8, <1>9

\* No step changes the placement, the strategy, the plan, the script or the order of GPUs.
LEMMA StepsAreSteady == [Next]_vars => Steady
<1> USE DEF Steady, planVars, commVars
<1>1. FormGroups => Steady
      BY DEF FormGroups, CommNext, Submit, Enter, Meet
<1>2. SetupEnds \/ StartSync \/ EndSync \/ Train => Steady
      BY DEF SetupEnds, StartSync, EndSync, Train
<1>3. \A p : WriteShared(p) \/ Send(p) \/ SendIpc(p) \/ SendEnds(p) => Steady
      BY DEF WriteShared, Send, SendIpc, SendEnds
<1>4. \A e : Receive(e) \/ Store(e) => Steady
      BY DEF Receive, Store
<1>5. \A k : Broadcast(k) => Steady
      BY DEF Broadcast
<1>6. UNCHANGED vars => Steady
      BY DEF vars
<1> QED BY <1>1, <1>2, <1>3, <1>4, <1>5, <1>6 DEF Next

\* What the invariant says of the task that a policy is at.
LEMMA TaskAtHand ==
    ASSUME TransferInv, NEW p \in TrainSet, tasks[p] # <<>>
    PROVE  /\ Current(p) \in Transfer /\ Current(p).sender = p
           /\ 1 \in DOMAIN tasks[p] /\ Current(p) = transferInfo[tasks[p][1]]
           /\ Tail(tasks[p]) \in Seq(DOMAIN transferInfo)
           /\ \A k \in DOMAIN Tail(tasks[p]) :
                  k + 1 \in DOMAIN tasks[p] /\ Tail(tasks[p])[k] = tasks[p][k + 1]
           /\ \A k \in DOMAIN tasks[p] :
                  \/ k = 1
                  \/ k - 1 \in DOMAIN Tail(tasks[p]) /\ Tail(tasks[p])[k - 1] = tasks[p][k]
<1> DEFINE todo == tasks[p]
<1>1. todo \in Seq(DOMAIN transferInfo) /\ todo # <<>>
      BY DEF TransferInv, SyncInv, Types
<1>2. transferInfo \in Seq(Transfer)
      BY PlanIsPlanned DEF TransferInv, Planned
<1>3. \A k \in DOMAIN todo : transferInfo[todo[k]].sender = p
      BY DEF TransferInv, SyncInv, OwnTasks
<1>4. Current(p) = transferInfo[Head(todo)]
      BY DEF Current
<1> HIDE DEF todo
<1>5. 1 \in DOMAIN todo /\ Head(todo) = todo[1] /\ todo[1] \in DOMAIN transferInfo
      BY <1>1
<1>6. Current(p) \in Transfer
      BY <1>2, <1>4, <1>5
<1>7. Tail(todo) \in Seq(DOMAIN transferInfo) /\ Len(Tail(todo)) = Len(todo) - 1 /\ Len(todo) \in Nat
      BY <1>1
<1>8. \A k \in DOMAIN Tail(todo) : k + 1 \in DOMAIN todo /\ Tail(todo)[k] = todo[k + 1]
      BY <1>1, <1>7
<1>9. \A k \in DOMAIN todo : k = 1 \/ (k - 1 \in DOMAIN Tail(todo) /\ Tail(todo)[k - 1] = todo[k])
  <2> SUFFICES ASSUME NEW k \in DOMAIN todo, k # 1
               PROVE  k - 1 \in DOMAIN Tail(todo) /\ Tail(todo)[k - 1] = todo[k]
      OBVIOUS
  <2>1. k - 1 \in DOMAIN Tail(todo)
        BY <1>1, <1>7
  <2> QED BY <1>1, <1>8, <2>1
<1> QED BY <1>3, <1>4, <1>5, <1>6, <1>7, <1>8, <1>9 DEF todo

\* Two senders do not reach the same policy, and the buffer of one that a transfer
\* is received by is the buffer of all whom it reaches.
LEMMA TwoSenders ==
    ASSUME TransferInv, NEW p \in TrainSet, NEW q \in TrainSet, NEW e \in EvalSet,
           tasks[p] # <<>>, tasks[q] # <<>>, Reaches(Current(p), e), Reaches(Current(q), e)
    PROVE  p = q
<1>1. Planned
      BY PlanIsPlanned DEF TransferInv
<1>2. \E i, j \in DOMAIN transferInfo : Current(p) = transferInfo[i] /\ Current(q) = transferInfo[j]
  <2>1. /\ 1 \in DOMAIN tasks[p] /\ Current(p) = transferInfo[tasks[p][1]]
        /\ 1 \in DOMAIN tasks[q] /\ Current(q) = transferInfo[tasks[q][1]]
        BY TaskAtHand
  <2>2. tasks[p] \in Seq(DOMAIN transferInfo) /\ tasks[q] \in Seq(DOMAIN transferInfo)
        BY DEF TransferInv, SyncInv, Types
  <2>3. tasks[p][1] \in DOMAIN transferInfo /\ tasks[q][1] \in DOMAIN transferInfo
        BY <2>1, <2>2
  <2> QED BY <2>1, <2>3
<1>3. Current(p) = Current(q)
      BY <1>1, <1>2 DEF Planned
<1>4. Current(p).sender = p /\ Current(q).sender = q
      BY TaskAtHand
<1> QED BY <1>3, <1>4

\* Whom the transfer at the head of a sender's tasks reaches.
LEMMA TheReached ==
    ASSUME TransferInv, NEW p \in TrainSet, tasks[p] # <<>>, NEW r \in ToSet(Current(p).receivers)
    PROVE  /\ r \in EvalSet /\ Reaches(Current(p), r)
           /\ \A e \in EvalSet : Buffer(e) = Buffer(r) => Reaches(Current(p), e)
           /\ \A e \in EvalSet : Reaches(Current(p), e) /\ strategy = "Shared" => Buffer(e) = Buffer(r)
<1>1. Planned
      BY PlanIsPlanned DEF TransferInv
<1>2. PICK i \in DOMAIN transferInfo : Current(p) = transferInfo[i]
  <2>1. 1 \in DOMAIN tasks[p] /\ Current(p) = transferInfo[tasks[p][1]]
        BY TaskAtHand
  <2>2. tasks[p] \in Seq(DOMAIN transferInfo)
        BY DEF TransferInv, SyncInv, Types
  <2>3. tasks[p][1] \in DOMAIN transferInfo
        BY <2>1, <2>2
  <2> QED BY <2>1, <2>3
<1>3. Current(p).receivers \in Seq(EvalSet)
      BY TaskAtHand DEF Transfer
<1>4. r \in EvalSet
      BY <1>3 DEF ToSet
<1>5. r[1] = Current(p).to
      BY <1>1, <1>2 DEF Planned
<1>6. CASE strategy = "Shared"
  <2>1. \A e \in EvalSet : Buffer(e) = <<e[1], "buffer", 1>>
        BY <1>6 DEF Buffer
  <2>2. \A e \in EvalSet : Reaches(Current(p), e) <=> e[1] = Current(p).to
        BY <1>6 DEF Reaches
  <2>3. \A e \in EvalSet : Buffer(e) = Buffer(r) <=> e[1] = r[1]
        BY <1>4, <2>1
  <2> QED BY <1>4, <1>5, <2>2, <2>3
<1>7. CASE strategy # "Shared"
  <2>1. \A e : Buffer(e) = e
        BY <1>7 DEF Buffer
  <2>2. \A e : Reaches(Current(p), e) <=> e \in ToSet(Current(p).receivers)
        BY <1>7 DEF Reaches
  <2> QED BY <1>4, <1>7, <2>1, <2>2
<1> QED BY <1>6, <1>7

-----------------------------------------------------------------------------
(***************************************************************************)
(* TransferInv is inductive.                                               *)
(***************************************************************************)
LEMMA InitTransfer == Init => TransferInv
<1> SUFFICES ASSUME Init PROVE TransferInv
    OBVIOUS
<1>1. PlanInit /\ script = Script
      BY DEF Init, CommInit
<1>2. /\ phase = "setup" /\ version = 1
      /\ tasks = [p \in TrainSet |-> <<>>] /\ sending = [p \in TrainSet |-> "no"]
      /\ receiving = [e \in EvalSet |-> "no"] /\ holds = [b \in Buffers |-> Empty]
      BY DEF Init, TrainSet, EvalSet
<1>3. Types
      BY <1>2, MaxSyncsAssumption DEF Types, Empty
<1>4. OwnTasks
      BY <1>2 DEF OwnTasks
<1>5. Resting /\ Sends /\ Sent
      BY <1>2 DEF Resting, Sends, Sent
<1>6. Receives
      BY <1>2 DEF Receives
<1>7. AllSupplied
      BY <1>2 DEF AllSupplied
<1> QED BY <1>1, <1>3, <1>4, <1>5, <1>6, <1>7 DEF TransferInv, SyncInv

\* Where nothing is left to send, nobody sends, and nobody receives but, colocated,
\* during a sync.
LEMMA NothingLeft ==
    ASSUME TransferInv, \A p \in TrainSet : tasks[p] = <<>>
    PROVE  /\ \A p \in TrainSet : sending[p] = "no"
           /\ \A e \in EvalSet : receiving[e] # "no" => strategy = "None" /\ phase = "sync"
<1>1. \A p \in TrainSet : sending[p] = "no"
      BY DEF TransferInv, SyncInv, Sends
<1>2. ASSUME NEW e \in EvalSet, receiving[e] # "no" PROVE strategy = "None" /\ phase = "sync"
      BY <1>1, <1>2 DEF TransferInv, SyncInv, Receives
<1> QED BY <1>1, <1>2

\* Forming groups, training and the end of a sync take no weights anywhere.
LEMMA StepsOutsideSync ==
    ASSUME TransferInv, Steady,
           FormGroups \/ SetupEnds \/ EndSync \/ Train \/ UNCHANGED vars
    PROVE  SyncInv'
<1>1. UNCHANGED taskVars /\ UNCHANGED holds
      BY DEF FormGroups, SetupEnds, EndSync, Train, vars, taskVars
<1>2. UNCHANGED <<tasks, sending, receiving, holds>>
      BY <1>1 DEF taskVars
<1>3. \A p : Current(p)' = Current(p)
      BY <1>2, PlanStays DEF Current
<1>4. \/ phase' = phase /\ version' = version
      \/ phase # "sync" /\ phase' = "trained" /\ version' \in {version, version + 1} /\ version' \in 1..MaxSyncs
      \/ EndSync
  <2>1. FormGroups \/ UNCHANGED vars => phase' = phase /\ version' = version
        BY DEF FormGroups, vars
  <2>2. version \in 1..MaxSyncs
        BY DEF TransferInv, SyncInv, Types
  <2>3. SetupEnds => phase # "sync" /\ phase' = "trained" /\ version' = version
        BY DEF SetupEnds
  <2>4. Train => phase # "sync" /\ phase' = "trained" /\ version' = version + 1 /\ version < MaxSyncs
        BY DEF Train
  <2> QED BY <2>1, <2>2, <2>3, <2>4, MaxSyncsAssumption
<1>5. CASE phase' = phase /\ version' = version
  <2> USE <1>2, <1>3, <1>5, PlanStays DEF TransferInv, SyncInv
  <2>1. Types'
        BY DEF Types, Empty
  <2>2. OwnTasks'
        BY DEF OwnTasks
  <2>3. Resting' /\ Sends'
        BY DEF Resting, Sends
  <2>4. Receives'
        BY DEF Receives
  <2>5. Sent'
        BY DEF Sent
  <2>6. AllSupplied'
        BY DEF AllSupplied, Supplied, ToCome, Reaches
  <2> QED BY <2>1, <2>2, <2>3, <2>4, <2>5, <2>6
<1>6. CASE /\ phase # "sync" /\ phase' = "trained"
           /\ version' \in {version, version + 1} /\ version' \in 1..MaxSyncs
  <2>1. \A p \in TrainSet : tasks[p] = <<>>
        BY <1>6 DEF TransferInv, SyncInv, Resting
  <2>2. /\ \A p \in TrainSet : sending[p] = "no"
        /\ \A e \in EvalSet : receiving[e] = "no"
        BY <1>6, <2>1, NothingLeft
  <2>3. Types'
    <3>1. version \in 1..MaxSyncs /\ MaxSyncs \in Nat
          BY MaxSyncsAssumption DEF TransferInv, SyncInv, Types
    <3>2. \A i \in Empty..version : i \in Empty..version'
          BY <1>6, <3>1 DEF Empty
    <3>3. holds \in [Buffers -> Empty..version]
          BY DEF TransferInv, SyncInv, Types
    <3>4. holds \in [Buffers -> Empty..version']
          BY <3>2, <3>3
    <3> QED BY <1>2, <1>6, <3>4, PlanStays DEF TransferInv, SyncInv, Types, Empty
  <2>4. OwnTasks'
        BY <1>2, PlanStays DEF TransferInv, SyncInv, OwnTasks
  <2>5. Resting' /\ Sends' /\ Receives' /\ Sent'
        BY <1>2, <2>1, <2>2, PlanStays DEF Resting, Sends, Receives, Sent
  <2>6. AllSupplied'
        BY <1>6 DEF AllSupplied
  <2> QED BY <2>3, <2>4, <2>5, <2>6 DEF SyncInv
<1>7. CASE EndSync
  <2>1. /\ phase = "sync" /\ phase' = "notified" /\ version' = version
        /\ \A p \in DOMAIN tasks : tasks[p] = <<>>
        /\ strategy = "None" => \A e \in DOMAIN receiving : receiving[e] = "no"
        BY <1>7 DEF EndSync
  <2>2. DOMAIN tasks = TrainSet /\ DOMAIN receiving = EvalSet
        BY DEF TransferInv, SyncInv, Types
  <2>3. /\ \A p \in TrainSet : sending[p] = "no"
        /\ \A e \in EvalSet : receiving[e] = "no"
        BY <2>1, <2>2, NothingLeft
  <2>4. Types'
        BY <1>2, <2>1, PlanStays DEF TransferInv, SyncInv, Types, Empty
  <2>5. OwnTasks'
        BY <1>2, PlanStays DEF TransferInv, SyncInv, OwnTasks
  <2>6. Resting' /\ Sends' /\ Receives' /\ Sent'
        BY <1>2, <2>1, <2>2, <2>3, PlanStays DEF Resting, Sends, Receives, Sent
  <2>7. AllSupplied'
        BY <1>2, <2>1, PlanStays
           DEF TransferInv, SyncInv, AllSupplied, Supplied, ToCome, Reaches
  <2> QED BY <2>4, <2>5, <2>6, <2>7 DEF SyncInv
<1> QED BY <1>4, <1>5, <1>6, <1>7

\* send_weights hands every transfer of the plan to its sender.
LEMMA StartSyncStep == ASSUME TransferInv, Steady, StartSync PROVE SyncInv'
<1> DEFINE Own(p) == {i \in DOMAIN transferInfo : transferInfo[i].sender = p}
<1>1. /\ phase = "trained" /\ phase' = "sync"
      /\ tasks' = [p \in DOMAIN tasks |-> InOrder(Own(p))]
      /\ UNCHANGED <<version, sending, receiving, holds>>
      BY DEF StartSync
<1>2. /\ \A p \in TrainSet : sending[p] = "no"
      /\ \A e \in EvalSet : receiving[e] = "no"
  <2>1. \A p \in TrainSet : tasks[p] = <<>>
        BY <1>1 DEF TransferInv, SyncInv, Resting
  <2> QED BY <1>1, <2>1, NothingLeft
<1>3. transferInfo \in Seq(Transfer) /\ Planned
      BY PlanIsPlanned DEF TransferInv, Planned
<1>4. ASSUME NEW p \in TrainSet
      PROVE  /\ InOrder(Own(p)) \in Seq(Own(p))
             /\ \A i \in Own(p) : \E k \in DOMAIN InOrder(Own(p)) : InOrder(Own(p))[k] = i
  <2>1. DOMAIN transferInfo = 1..Len(transferInfo) /\ Len(transferInfo) \in Nat
        BY <1>3
  <2>2. Own(p) \in SUBSET (1..Len(transferInfo))
        BY <2>1
  <2> HIDE DEF Own
  <2> QED BY <2>1, <2>2, NumberLists
<1>5. DOMAIN tasks = TrainSet
      BY DEF TransferInv, SyncInv, Types
<1>6. \A p \in TrainSet : /\ tasks'[p] \in Seq(Own(p))
                          /\ \A i \in Own(p) : \E k \in DOMAIN tasks'[p] : tasks'[p][k] = i
      BY <1>1, <1>4, <1>5
<1>7. \A p \in TrainSet : tasks'[p] \in Seq(DOMAIN transferInfo)
  <2> TAKE p \in TrainSet
  <2>1. Own(p) \subseteq DOMAIN transferInfo
        OBVIOUS
  <2> HIDE DEF Own
  <2> QED BY <1>6, <2>1
<1>8. tasks' \in [TrainSet -> Seq(DOMAIN transferInfo)]
      BY <1>1, <1>5, <1>7
<1>9. \A i \in DOMAIN transferInfo : transferInfo[i].sender \in TrainSet
  <2> HIDE DEF Own
  <2>1. \A i \in DOMAIN transferInfo : transferInfo[i] \in Transfer
        BY <1>3
  <2> QED BY <2>1 DEF Transfer
<1>10. Types'
       BY <1>1, <1>8, PlanStays DEF TransferInv, SyncInv, Types, Empty
<1>11. OwnTasks'
  <2>1. ASSUME NEW p \in TrainSet, NEW k \in DOMAIN tasks'[p] PROVE transferInfo[tasks'[p][k]].sender = p
    <3>1. tasks'[p][k] \in Own(p)
      <4> HIDE DEF Own
      <4> QED BY <1>6
    <3> QED BY <3>1
  <2> QED BY <2>1, PlanStays DEF OwnTasks
<1>12. Resting' /\ Sends' /\ Receives' /\ Sent'
       BY <1>1, <1>2, PlanStays DEF Resting, Sends, Receives, Sent
<1>13. AllSupplied'
  <2>1. ASSUME NEW e \in EvalSet
        PROVE  \E p \in TrainSet : \E k \in DOMAIN tasks'[p] : Reaches(transferInfo[tasks'[p][k]], e)
    <3>1. PICK i \in DOMAIN transferInfo : Reaches(transferInfo[i], e)
          BY <1>3 DEF Planned
    <3>2. transferInfo[i].sender \in TrainSet /\ i \in Own(transferInfo[i].sender)
          BY <1>9
    <3> QED BY <1>6, <3>1, <3>2
  <2> QED BY <2>1, PlanStays DEF AllSupplied, Supplied, ToCome, Reaches
<1> QED BY <1>10, <1>11, <1>12, <1>13 DEF SyncInv

\* A sender whose task ends has supplied whom that task reaches and turns to the next one.
LEMMA TaskEnds ==
    ASSUME TransferInv, Steady, NEW p \in TrainSet, tasks[p] # <<>>, TaskDone(p)
    PROVE  /\ tasks' \in [TrainSet -> Seq(DOMAIN transferInfo)] /\ OwnTasks'
           /\ \A q \in TrainSet \ {p} : tasks'[q] = tasks[q] /\ Current(q)' = Current(q)
           /\ \A e : ToCome(e) => Reaches(Current(p), e) \/ ToCome(e)'
<1> DEFINE left == Tail(tasks[p])
<1>1. tasks \in [TrainSet -> Seq(DOMAIN transferInfo)]
      BY DEF TransferInv, SyncInv, Types
<1>2. tasks' = [tasks EXCEPT ![p] = left]
      BY DEF TaskDone
<1>3. /\ left \in Seq(DOMAIN transferInfo) /\ Current(p) = transferInfo[tasks[p][1]]
      /\ \A k \in DOMAIN left : k + 1 \in DOMAIN tasks[p] /\ left[k] = tasks[p][k + 1]
      /\ \A k \in DOMAIN tasks[p] : k = 1 \/ (k - 1 \in DOMAIN left /\ left[k - 1] = tasks[p][k])
      BY TaskAtHand
<1> HIDE DEF left
<1>4. tasks' \in [TrainSet -> Seq(DOMAIN transferInfo)]
      BY <1>1, <1>2, <1>3
<1>5. tasks'[p] = left /\ \A q \in TrainSet \ {p} : tasks'[q] = tasks[q]
      BY <1>1, <1>2
<1>6. \A q \in TrainSet \ {p} : Current(q)' = Current(q)
      BY <1>5, PlanStays DEF Current
<1>7. OwnTasks'
  <2>1. \A q \in TrainSet : \A k \in DOMAIN tasks[q] : transferInfo[tasks[q][k]].sender = q
        BY DEF TransferInv, SyncInv, OwnTasks
  <2>2. \A k \in DOMAIN left : transferInfo[left[k]].sender = p
        BY <1>3, <2>1
  <2>3. \A q \in TrainSet : \A k \in DOMAIN tasks'[q] : transferInfo[tasks'[q][k]].sender = q
        BY <1>5, <2>1, <2>2
  <2> QED BY <2>3, PlanStays DEF OwnTasks
<1>8. ASSUME NEW e, ToCome(e) PROVE Reaches(Current(p), e) \/ ToCome(e)'
  <2>1. PICK q \in TrainSet : \E k \in DOMAIN tasks[q] : Reaches(transferInfo[tasks[q][k]], e)
        BY <1>8 DEF ToCome
  <2>2. PICK k \in DOMAIN tasks[q] : Reaches(transferInfo[tasks[q][k]], e)
        BY <2>1
  <2>3. \A i : Reaches(transferInfo[i], e)' <=> Reaches(transferInfo[i], e)
        BY PlanStays DEF Reaches
  <2>4. CASE q # p
        BY <1>5, <2>2, <2>3, <2>4, PlanStays DEF ToCome, Reaches
  <2>5. CASE q = p /\ k = 1
        BY <1>3, <2>2, <2>5
  <2>6. CASE q = p /\ k # 1
    <3>1. k - 1 \in DOMAIN tasks'[p] /\ tasks'[p][k - 1] = tasks[p][k]
          BY <1>3, <1>5, <2>2, <2>6
    <3> QED BY <2>2, <2>6, <3>1, PlanStays DEF ToCome, Reaches
  <2> QED BY <2>4, <2>5, <2>6
<1> QED BY <1>4, <1>5, <1>6, <1>7, <1>8

\* A task ends when all whom it reaches hold what it sent, or, colocated, receive it.
LEMMA SendEndsStep ==
    ASSUME TransferInv, Steady, NEW p \in TrainSet,
           WriteShared(p) \/ SendIpc(p) \/ SendEnds(p)
    PROVE  SyncInv'
<1> USE DEF TransferInv, SyncInv
<1>1. tasks[p] # <<>> /\ TaskDone(p) /\ phase' = phase /\ version' = version
  <2>1. sending[p] = "sent" => tasks[p] # <<>>
        BY DEF Sends
  <2> QED BY <2>1 DEF WriteShared, SendIpc, SendEnds, Idle
<1>2. /\ tasks' \in [TrainSet -> Seq(DOMAIN transferInfo)] /\ OwnTasks'
      /\ \A q \in TrainSet \ {p} : tasks'[q] = tasks[q] /\ Current(q)' = Current(q)
      /\ \A e : ToCome(e) => Reaches(Current(p), e) \/ ToCome(e)'
      BY <1>1, TaskEnds
<1>3. phase = "sync"
      BY <1>1 DEF Resting
<1>4. Resting' /\ phase' = "sync"
      BY <1>1, <1>3 DEF Resting
<1>5. /\ sending \in [TrainSet -> {"no", "broadcasting", "sent"}]
      /\ receiving \in [EvalSet -> {"no", "called", "broadcasting", "received"}]
      /\ holds \in [Buffers -> Empty..version]
      /\ version \in Nat \ {0}
  <2>1. version \in 1..MaxSyncs
        BY DEF Types
  <2> QED BY <2>1, MaxSyncsAssumption DEF Types
<1>6. CASE WriteShared(p)
  <2>1. /\ sending[p] = "no" /\ strategy = "Shared"
        /\ holds' = [holds EXCEPT ![<<Current(p).to, "buffer", 1>>] = version]
        /\ sending' = sending /\ receiving' = receiving
        BY <1>6 DEF WriteShared, Idle
  <2>2. /\ \A b \in Buffers : holds'[b] = holds[b] \/ holds'[b] = version
        /\ holds' \in [Buffers -> Empty..version]
    <3> DEFINE key == <<Current(p).to, "buffer", 1>>
    <3>1. version \in Empty..version
          BY <1>5 DEF Empty
    <3>2. holds' = [holds EXCEPT ![key] = version]
          BY <2>1
    <3> HIDE DEF key
    <3> QED BY <1>5, <3>1, <3>2
  <2>3. \A e \in EvalSet : Buffer(e) \in Buffers
        BY DEF Buffers, EvalSet
  <2>4. Types'
        BY <1>1, <1>2, <2>1, <2>2, PlanStays DEF Types, Empty
  <2>5. Sends'
        BY <1>2, <2>1, PlanStays DEF Sends
  <2>6. Receives'
        BY <1>2, <2>1, PlanStays DEF Receives
  <2>7. Sent'
    <3> SUFFICES ASSUME NEW q \in TrainSet, sending[q] = "sent", NEW e \in ToSet(Current(q).receivers)
                 PROVE  receiving[e] = "received" \/ (receiving[e] = "no" /\ holds'[Buffer(e)] = version)
      <4>1. \A q \in TrainSet : sending[q] = "sent" => Current(q)' = Current(q)
            BY <1>2, <2>1
      <4> QED BY <1>1, <2>1, <4>1, PlanStays DEF Sent
    <3>1. tasks[q] # <<>>
          BY DEF Sends
    <3>2. e \in EvalSet
          BY <3>1, TheReached
    <3> QED BY <2>2, <2>3, <3>2 DEF Sent
  <2>8. AllSupplied'
    <3>1. ASSUME NEW e \in EvalSet, Reaches(Current(p), e) PROVE holds'[Buffer(e)] = version
      <4>1. Buffer(e) = <<Current(p).to, "buffer", 1>>
            BY <2>1, <3>1 DEF Reaches, Buffer
      <4> QED BY <1>5, <2>1, <2>3, <4>1
    <3>2. \A e \in EvalSet : holds'[Buffer(e)] = version \/ ToCome(e)'
          BY <1>2, <1>3, <2>1, <2>2, <2>3, <3>1 DEF AllSupplied, Supplied
    <3> QED BY <1>1, <3>2, PlanStays DEF AllSupplied, Supplied
  <2> QED BY <1>2, <1>4, <2>4, <2>5, <2>6, <2>7, <2>8
<1>7. CASE SendIpc(p)
  <2>1. /\ strategy = "None" /\ sending' = sending /\ holds' = holds
        /\ receiving' = [e \in DOMAIN receiving |->
                            IF e \in ToSet(Current(p).receivers) THEN "received" ELSE receiving[e]]
        BY <1>7 DEF SendIpc, Calls
  <2>2. /\ receiving' \in [EvalSet -> {"no", "called", "broadcasting", "received"}]
        /\ \A e \in EvalSet : receiving'[e] = receiving[e] \/ receiving'[e] = "received"
        /\ \A e \in EvalSet : e \in ToSet(Current(p).receivers) => receiving'[e] = "received"
        BY <1>5, <2>1
  <2>3. \A q \in TrainSet : sending[q] = "no"
        BY <2>1 DEF Sends
  <2>4. Types'
        BY <1>1, <1>2, <2>1, <2>2, PlanStays DEF Types, Empty
  <2>5. Sends' /\ Sent'
        BY <2>1, <2>3, PlanStays DEF Sends, Sent
  <2>6. Receives'
        BY <1>4, <2>1, <2>2, PlanStays DEF Receives
  <2>7. AllSupplied'
    <3>1. \A e \in EvalSet : Reaches(Current(p), e) => receiving'[e] # "no"
          BY <2>1, <2>2 DEF Reaches
    <3>2. \A e \in EvalSet : receiving[e] # "no" => receiving'[e] # "no"
          BY <2>2
    <3>3. \A e \in EvalSet : holds[Buffer(e)] = version \/ ToCome(e)' \/ receiving'[e] # "no"
          BY <1>2, <1>3, <3>1, <3>2 DEF AllSupplied, Supplied
    <3> QED BY <1>1, <2>1, <3>3, PlanStays DEF AllSupplied, Supplied
  <2> QED BY <1>2, <1>4, <2>4, <2>5, <2>6, <2>7
<1>8. CASE SendEnds(p)
  <2>1. /\ sending[p] = "sent" /\ sending' = [sending EXCEPT ![p] = "no"]
        /\ \A e \in ToSet(Current(p).receivers) : receiving[e] = "no"
        /\ receiving' = receiving /\ holds' = holds
        BY <1>8 DEF SendEnds
  <2>2. /\ sending' \in [TrainSet -> {"no", "broadcasting", "sent"}] /\ sending'[p] = "no"
        /\ \A q \in TrainSet \ {p} : sending'[q] = sending[q]
        BY <1>5, <2>1
  <2>3. Types'
        BY <1>1, <1>2, <2>1, <2>2, PlanStays DEF Types, Empty
  <2>4. \A q \in TrainSet : sending'[q] # "no" =>
            /\ q # p /\ sending[q] = sending'[q] /\ tasks'[q] = tasks[q] /\ Current(q)' = Current(q)
        BY <1>2, <2>2
  <2>5. Sends'
        BY <2>4, PlanStays DEF Sends
  <2>6. strategy # "None" /\ Current(p).receivers # <<>>
        BY <2>1 DEF Sends
  <2>7. Receives'
    <3> SUFFICES ASSUME NEW e \in EvalSet, receiving[e] # "no"
                 PROVE  \E q \in TrainSet : sending'[q] # "no" /\ e \in ToSet((Current(q)').receivers)
        BY <2>1, <2>6, PlanStays DEF Receives
    <3>1. PICK q \in TrainSet : sending[q] # "no" /\ e \in ToSet(Current(q).receivers)
          BY <2>6 DEF Receives
    <3>2. q # p
          BY <2>1, <3>1
    <3> QED BY <1>2, <2>2, <3>1, <3>2
  <2>8. Sent'
        BY <1>1, <2>1, <2>4, PlanStays DEF Sent
  <2>9. \A e \in EvalSet : Reaches(Current(p), e) => holds[Buffer(e)] = version
    <3> SUFFICES ASSUME NEW e \in EvalSet, Reaches(Current(p), e) PROVE holds[Buffer(e)] = version
        OBVIOUS
    <3>1. \A r \in ToSet(Current(p).receivers) : holds[Buffer(r)] = version
          BY <2>1 DEF Sent
    <3>2. CASE strategy = "Shared"
      <4>1. Current(p).receivers \in Seq(EvalSet)
            BY <1>1, TaskAtHand DEF Transfer
      <4>2. PICK r : r \in ToSet(Current(p).receivers)
        <5> DEFINE all == Current(p).receivers
        <5>1. all \in Seq(EvalSet) /\ all # <<>>
              BY <2>6, <4>1
        <5> HIDE DEF all
        <5>2. 1 \in DOMAIN all
              BY <5>1
        <5>3. all[1] \in ToSet(all)
              BY <5>2 DEF ToSet
        <5> QED BY <5>3 DEF all
      <4>3. Buffer(e) = Buffer(r)
            BY <1>1, <3>2, <4>2, TheReached
      <4> QED BY <3>1, <4>2, <4>3
    <3>3. CASE strategy # "Shared"
          BY <3>1, <3>3 DEF Reaches
    <3> QED BY <3>2, <3>3
  <2>10. AllSupplied'
    <3>1. \A e \in EvalSet : holds[Buffer(e)] = version \/ ToCome(e)'
          BY <1>2, <1>3, <2>6, <2>9 DEF AllSupplied, Supplied
    <3> QED BY <1>1, <2>1, <3>1, PlanStays DEF AllSupplied, Supplied
  <2> QED BY <1>2, <1>4, <2>3, <2>5, <2>7, <2>8, <2>10
<1> QED BY <1>6, <1>7, <1>8

\* A step of a transfer that does not end its task.
LEMMA TasksKept ==
    ASSUME TransferInv, Steady, tasks' = tasks, phase' = phase
    PROVE  /\ OwnTasks' /\ Resting'
           /\ \A q : Current(q)' = Current(q)
           /\ \A e : ToCome(e)' <=> ToCome(e)
<1> USE PlanStays DEF TransferInv, SyncInv
<1>1. OwnTasks'
      BY DEF OwnTasks
<1>2. Resting'
      BY DEF Resting
<1>3. \A q : Current(q)' = Current(q)
      BY DEF Current
<1>4. \A e : ToCome(e)' <=> ToCome(e)
      BY DEF ToCome, Reaches
<1> QED BY <1>1, <1>2, <1>3, <1>4

\* A sender calls its receivers (or writes the shared buffer, or copies on its own device).
LEMMA SendStep == ASSUME TransferInv, Steady, NEW p \in TrainSet, Send(p) PROVE SyncInv'
<1> USE DEF TransferInv, SyncInv
<1>1. /\ tasks[p] # <<>> /\ sending[p] = "no" /\ strategy # "None" /\ Current(p).receivers # <<>>
      /\ sending' = [sending EXCEPT ![p] = "broadcasting"]
      /\ receiving' = [e \in DOMAIN receiving |->
                          IF e \in ToSet(Current(p).receivers) THEN "called" ELSE receiving[e]]
      /\ UNCHANGED <<phase, version, tasks, holds>>
      BY DEF Send, Idle, Calls
<1>2. /\ sending \in [TrainSet -> {"no", "broadcasting", "sent"}]
      /\ receiving \in [EvalSet -> {"no", "called", "broadcasting", "received"}]
      BY DEF Types
<1>3. /\ sending' \in [TrainSet -> {"no", "broadcasting", "sent"}] /\ sending'[p] = "broadcasting"
      /\ \A q \in TrainSet \ {p} : sending'[q] = sending[q]
      BY <1>1, <1>2
<1>4. /\ receiving' \in [EvalSet -> {"no", "called", "broadcasting", "received"}]
      /\ \A e \in EvalSet : e \notin ToSet(Current(p).receivers) => receiving'[e] = receiving[e]
      BY <1>1, <1>2
<1>5. /\ OwnTasks' /\ Resting'
      /\ \A q : Current(q)' = Current(q)
      /\ \A e : ToCome(e)' <=> ToCome(e)
      BY <1>1, TasksKept
<1>6. Types'
      BY <1>1, <1>3, <1>4, PlanStays DEF Types, Empty
<1>7. Sends'
      BY <1>1, <1>3, <1>5, PlanStays DEF Sends
<1>8. Receives'
  <2> SUFFICES ASSUME NEW e \in EvalSet, receiving'[e] # "no"
               PROVE  \E q \in TrainSet : sending'[q] # "no" /\ e \in ToSet(Current(q).receivers)
      BY <1>1, <1>5, PlanStays DEF Receives
  <2>1. CASE e \in ToSet(Current(p).receivers)
        BY <1>3, <2>1
  <2>2. CASE e \notin ToSet(Current(p).receivers)
    <3>1. PICK q \in TrainSet : sending[q] # "no" /\ e \in ToSet(Current(q).receivers)
          BY <1>1, <1>4, <2>2 DEF Receives
    <3> QED BY <1>3, <2>2, <3>1
  <2> QED BY <2>1, <2>2
<1>9. Sent'
  <2> SUFFICES ASSUME NEW q \in TrainSet, sending'[q] = "sent", NEW e \in ToSet(Current(q).receivers)
               PROVE  receiving'[e] = "received" \/ (receiving'[e] = "no" /\ holds[Buffer(e)] = version)
      BY <1>1, <1>5, PlanStays DEF Sent
  <2>1. q # p /\ sending[q] = "sent"
        BY <1>3
  <2>2. tasks[q] # <<>>
        BY <2>1 DEF Sends
  <2>3. e \in EvalSet /\ Reaches(Current(q), e)
        BY <2>2, TheReached
  <2>4. e \notin ToSet(Current(p).receivers)
    <3> SUFFICES ASSUME e \in ToSet(Current(p).receivers) PROVE FALSE
        OBVIOUS
    <3>1. Reaches(Current(p), e)
          BY <1>1, TheReached
    <3> QED BY <1>1, <2>1, <2>2, <2>3, <3>1, TwoSenders
  <2> QED BY <1>4, <2>1, <2>3, <2>4 DEF Sent
<1>10. AllSupplied'
       BY <1>1, <1>5, PlanStays DEF AllSupplied, Supplied
<1> QED BY <1>5, <1>6, <1>7, <1>8, <1>9, <1>10

\* A receiver takes up the call at the head of its mailbox.
LEMMA ReceiveStep == ASSUME TransferInv, Steady, NEW e \in EvalSet, Receive(e) PROVE SyncInv'
<1> USE DEF TransferInv, SyncInv
<1>1. /\ receiving[e] = "called"
      /\ receiving' = [receiving EXCEPT ![e] = "broadcasting"]
      /\ holds' = [holds EXCEPT ![Buffer(e)] = Empty]
      /\ UNCHANGED <<phase, version, tasks, sending>>
      BY DEF Receive
<1>2. /\ receiving \in [EvalSet -> {"no", "called", "broadcasting", "received"}]
      /\ holds \in [Buffers -> Empty..version] /\ Empty \in Empty..version
  <2>1. version \in 1..MaxSyncs
        BY DEF Types
  <2> QED BY <2>1, MaxSyncsAssumption DEF Types, Empty
<1>3. /\ receiving' \in [EvalSet -> {"no", "called", "broadcasting", "received"}]
      /\ receiving'[e] = "broadcasting" /\ \A r \in EvalSet \ {e} : receiving'[r] = receiving[r]
      BY <1>1, <1>2
<1>4. /\ holds' \in [Buffers -> Empty..version]
      /\ \A r \in EvalSet : Buffer(r) # Buffer(e) => holds'[Buffer(r)] = holds[Buffer(r)]
  <2>1. \A r \in EvalSet : Buffer(r) \in Buffers
        BY DEF Buffers, EvalSet
  <2> QED BY <1>1, <1>2, <2>1
<1>5. /\ OwnTasks' /\ Resting'
      /\ \A q : Current(q)' = Current(q)
      /\ \A r : ToCome(r)' <=> ToCome(r)
      BY <1>1, TasksKept
<1>6. strategy # "None"
      BY <1>1 DEF Receives
<1>7. PICK s \in TrainSet : sending[s] # "no" /\ e \in ToSet(Current(s).receivers)
      BY <1>1, <1>6 DEF Receives
<1>8. tasks[s] # <<>>
      BY <1>7 DEF Sends
<1>9. Types'
      BY <1>1, <1>3, <1>4, PlanStays DEF Types, Empty
<1>10. Sends'
       BY <1>1, <1>5, PlanStays DEF Sends
<1>11. Receives'
  <2>1. \A r \in EvalSet : receiving'[r] # "no" => receiving[r] # "no"
        BY <1>1, <1>3
  <2> QED BY <1>1, <1>5, <1>6, <2>1, PlanStays DEF Receives
<1>12. Sent'
  <2> SUFFICES ASSUME NEW q \in TrainSet, sending[q] = "sent", NEW r \in ToSet(Current(q).receivers)
               PROVE  receiving'[r] = "received" \/ (receiving'[r] = "no" /\ holds'[Buffer(r)] = version)
      BY <1>1, <1>5, PlanStays DEF Sent
  <2>1. tasks[q] # <<>>
        BY DEF Sends
  <2>2. r \in EvalSet
        BY <2>1, TheReached
  <2>3. Buffer(e) # Buffer(r)
    <3> SUFFICES ASSUME Buffer(e) = Buffer(r) PROVE FALSE
        OBVIOUS
    <3>1. Reaches(Current(q), e) /\ Reaches(Current(s), e)
          BY <1>7, <1>8, <2>1, TheReached
    <3>2. q = s
          BY <1>8, <2>1, <3>1, TwoSenders
    <3> QED BY <1>1, <1>7, <3>2 DEF Sent
  <2>4. r # e
        BY <2>3
  <2> QED BY <1>3, <1>4, <2>2, <2>3, <2>4 DEF Sent
<1>13. AllSupplied'
  <2>1. \A r \in EvalSet : Buffer(r) = Buffer(e) => ToCome(r)
    <3> SUFFICES ASSUME NEW r \in EvalSet, Buffer(r) = Buffer(e) PROVE ToCome(r)
        OBVIOUS
    <3>1. Reaches(Current(s), r)
          BY <1>7, <1>8, TheReached
    <3>2. 1 \in DOMAIN tasks[s] /\ Current(s) = transferInfo[tasks[s][1]]
          BY <1>8, TaskAtHand
    <3> QED BY <3>1, <3>2 DEF ToCome
  <2> QED BY <1>1, <1>4, <1>5, <1>6, <2>1, PlanStays DEF AllSupplied, Supplied
<1> QED BY <1>5, <1>9, <1>10, <1>11, <1>12, <1>13

\* A receiver stores what was broadcast, which is the current version.
LEMMA StoreStep == ASSUME TransferInv, Steady, NEW e \in EvalSet, Store(e) PROVE SyncInv'
<1> USE DEF TransferInv, SyncInv
<1>1. /\ receiving[e] = "received"
      /\ receiving' = [receiving EXCEPT ![e] = "no"]
      /\ holds' = [holds EXCEPT ![Buffer(e)] = version]
      /\ UNCHANGED <<phase, version, tasks, sending>>
      BY DEF Store
<1>2. /\ receiving \in [EvalSet -> {"no", "called", "broadcasting", "received"}]
      /\ holds \in [Buffers -> Empty..version] /\ version \in Empty..version
  <2>1. version \in 1..MaxSyncs
        BY DEF Types
  <2> QED BY <2>1, MaxSyncsAssumption DEF Types, Empty
<1>3. /\ receiving' \in [EvalSet -> {"no", "called", "broadcasting", "received"}]
      /\ receiving'[e] = "no" /\ \A r \in EvalSet \ {e} : receiving'[r] = receiving[r]
      BY <1>1, <1>2
<1>4. /\ holds' \in [Buffers -> Empty..version] /\ holds'[Buffer(e)] = version
      /\ \A r \in EvalSet : holds'[Buffer(r)] \in {holds[Buffer(r)], version}
  <2>1. \A r \in EvalSet : Buffer(r) \in Buffers
        BY DEF Buffers, EvalSet
  <2> QED BY <1>1, <1>2, <2>1
<1>5. /\ OwnTasks' /\ Resting'
      /\ \A q : Current(q)' = Current(q)
      /\ \A r : ToCome(r)' <=> ToCome(r)
      BY <1>1, TasksKept
<1>6. Types'
      BY <1>1, <1>3, <1>4, PlanStays DEF Types, Empty
<1>7. Sends'
      BY <1>1, <1>5, PlanStays DEF Sends
<1>8. \A r \in EvalSet : receiving'[r] # "no" => r # e /\ receiving'[r] = receiving[r]
      BY <1>3
<1>9. Receives'
      BY <1>1, <1>5, <1>8, PlanStays DEF Receives
<1>10. Sent'
  <2> SUFFICES ASSUME NEW q \in TrainSet, sending[q] = "sent", NEW r \in ToSet(Current(q).receivers)
               PROVE  receiving'[r] = "received" \/ (receiving'[r] = "no" /\ holds'[Buffer(r)] = version)
      BY <1>1, <1>5, PlanStays DEF Sent
  <2>1. tasks[q] # <<>>
        BY DEF Sends
  <2>2. r \in EvalSet
        BY <2>1, TheReached
  <2>3. receiving[r] = "received" \/ (receiving[r] = "no" /\ holds[Buffer(r)] = version)
        BY DEF Sent
  <2> QED BY <1>3, <1>4, <2>2, <2>3
<1>11. AllSupplied'
  <2>1. \A r \in EvalSet : receiving[r] # "no" => receiving'[r] # "no" \/ holds'[Buffer(r)] = version
        BY <1>3, <1>4
  <2>2. \A r \in EvalSet : holds[Buffer(r)] = version => holds'[Buffer(r)] = version
        BY <1>4
  <2> QED BY <1>1, <1>5, <2>1, <2>2, PlanStays DEF AllSupplied, Supplied
<1> QED BY <1>5, <1>6, <1>7, <1>9, <1>10, <1>11

\* Head and tail of a sequence that begins with x.
LEMMA HeadTailConcat ==
    ASSUME NEW S, NEW x, NEW s \in Seq(S)
    PROVE  Head(<<x>> \o s) = x /\ Tail(<<x>> \o s) = s
OBVIOUS

\* Who joins a broadcast is in one and the same transfer.
LEMMA JoinedTransfer ==
    ASSUME TransferInv, NEW k \in Groups, Joined(k) = ToSet(script[k].of)
    PROVE  /\ strategy # "None" /\ SenderIn(k) \in TrainSet
           /\ sending[SenderIn(k)] = "broadcasting"
           /\ Current(SenderIn(k)).receivers = ReceiversIn(k)
           /\ \A e \in ToSet(ReceiversIn(k)) : e \in EvalSet /\ receiving[e] = "broadcasting"
<1> USE DEF TransferInv, SyncInv
<1>1. Planned /\ transferInfo \in Seq(Transfer)
      BY PlanIsPlanned DEF Planned
<1>2. GroupsAreTransfers
      BY GroupsFollowPlan
<1>3. strategy # "None"
      BY <1>2 DEF GroupsAreTransfers
<1>4. PICK i \in DOMAIN transferInfo :
          /\ transferInfo[i].receivers # <<>>
          /\ script[k].of = <<transferInfo[i].sender>> \o transferInfo[i].receivers
      BY <1>2 DEF GroupsAreTransfers
<1> DEFINE s == transferInfo[i].sender
           rs == transferInfo[i].receivers
           of == script[k].of
<1>5. s \in TrainSet /\ rs \in Seq(EvalSet) /\ rs # <<>>
  <2>1. transferInfo[i] \in Transfer
        BY <1>1
  <2> QED BY <1>4, <2>1 DEF Transfer
<1>6. of = <<s>> \o rs /\ SenderIn(k) = Head(of) /\ ReceiversIn(k) = Tail(of)
      BY <1>4 DEF SenderIn, ReceiversIn
<1>7. \A r \in ToSet(rs) : r \in EvalSet /\ Reaches(transferInfo[i], r)
  <2>1. \A r \in ToSet(rs) : r \in EvalSet
        BY <1>5 DEF ToSet
  <2>2. \A r \in ToSet(rs) : r[1] = transferInfo[i].to
        BY <1>1 DEF Planned
  <2> QED BY <2>1, <2>2 DEF Reaches
<1> HIDE DEF s, rs, of
<1>8. Head(of) = s /\ Tail(of) = rs
      BY <1>5, <1>6, HeadTailConcat
<1>9. \A x : x \in ToSet(of) <=> x = s \/ x \in ToSet(rs)
  <2>1. /\ DOMAIN of = 1..(1 + Len(rs)) /\ of[1] = s /\ Len(rs) \in Nat
        /\ \A j \in 1..Len(rs) : of[j + 1] = rs[j]
    <3>1. of = <<s>> \o rs /\ <<s>> \in Seq({s} \cup EvalSet) /\ rs \in Seq({s} \cup EvalSet) /\ Len(<<s>>) = 1
          BY <1>5, <1>6
    <3>2. /\ of \in Seq({s} \cup EvalSet) /\ Len(of) = Len(<<s>>) + Len(rs)
          /\ \A j \in 1..(Len(<<s>>) + Len(rs)) :
                 of[j] = IF j <= Len(<<s>>) THEN <<s>>[j] ELSE rs[j - Len(<<s>>)]
          BY <3>1, ConcatProperties
    <3> QED BY <1>5, <3>1, <3>2
  <2>2. DOMAIN rs = 1..Len(rs)
        BY <1>5
  <2>3. \A j \in DOMAIN of : j = 1 \/ (j - 1 \in DOMAIN rs /\ of[j] = rs[j - 1])
        BY <2>1, <2>2
  <2>4. \A j \in DOMAIN rs : j + 1 \in DOMAIN of /\ of[j + 1] = rs[j]
        BY <2>1, <2>2
  <2>5. 1 \in DOMAIN of
        BY <2>1
  <2>6. ASSUME NEW x, x \in ToSet(of) PROVE x = s \/ x \in ToSet(rs)
    <3>1. PICK j \in DOMAIN of : of[j] = x
          BY <2>6 DEF ToSet
    <3>2. CASE j = 1
          BY <2>1, <3>1, <3>2
    <3>3. CASE j - 1 \in DOMAIN rs /\ of[j] = rs[j - 1]
          BY <3>1, <3>3 DEF ToSet
    <3> QED BY <2>3, <3>2, <3>3
  <2>7. ASSUME NEW x, x \in ToSet(rs) PROVE x \in ToSet(of)
    <3>1. PICK j \in DOMAIN rs : rs[j] = x
          BY <2>7 DEF ToSet
    <3>2. of[j + 1] = x /\ j + 1 \in DOMAIN of
          BY <2>4, <3>1
    <3> QED BY <3>2 DEF ToSet
  <2>8. s \in ToSet(of)
        BY <2>1, <2>5 DEF ToSet
  <2> QED BY <2>6, <2>7, <2>8
<1>10. \A x \in Joined(k) : \/ x \in TrainSet /\ sending[x] = "broadcasting"
                            \/ x \in EvalSet /\ receiving[x] = "broadcasting"
       BY DEF Joined, Types
<1>11. s \in Joined(k) /\ \A r \in ToSet(rs) : r \in Joined(k)
       BY <1>9 DEF of
<1>12. sending[s] = "broadcasting" /\ \A r \in ToSet(rs) : receiving[r] = "broadcasting"
       BY <1>5, <1>7, <1>10, <1>11, Apart
<1>13. PICK r : r \in ToSet(rs)
  <2>1. 1 \in DOMAIN rs
        BY <1>5
  <2>2. rs[1] \in ToSet(rs)
        BY <2>1 DEF ToSet
  <2> QED BY <2>2
<1>14. PICK q \in TrainSet : sending[q] # "no" /\ r \in ToSet(Current(q).receivers)
       BY <1>3, <1>7, <1>12, <1>13 DEF Receives
<1>15. tasks[q] # <<>>
       BY <1>14 DEF Sends
<1>16. Reaches(Current(q), r) /\ Current(q).sender = q
       BY <1>14, <1>15, TaskAtHand, TheReached
<1>17. \E j \in DOMAIN transferInfo : Current(q) = transferInfo[j]
  <2>1. 1 \in DOMAIN tasks[q] /\ Current(q) = transferInfo[tasks[q][1]]
        BY <1>15, TaskAtHand
  <2>2. tasks[q] \in Seq(DOMAIN transferInfo)
        BY DEF Types
  <2>3. tasks[q][1] \in DOMAIN transferInfo
        BY <2>1, <2>2
  <2> QED BY <2>1, <2>3
<1>18. Current(q) = transferInfo[i]
       BY <1>1, <1>7, <1>13, <1>16, <1>17 DEF Planned
<1>19. q = s /\ Current(s).receivers = rs
       BY <1>16, <1>18 DEF s, rs
<1> QED BY <1>3, <1>5, <1>6, <1>7, <1>8, <1>12, <1>19

\* A broadcast ends for all its members at once, with the weights of its sender.
LEMMA BroadcastStep == ASSUME TransferInv, Steady, NEW k \in Groups, Broadcast(k) PROVE SyncInv'
<1> DEFINE s == SenderIn(k)
           rs == ReceiversIn(k)
<1>1. /\ Joined(k) = ToSet(script[k].of)
      /\ sending' = [sending EXCEPT ![s] = "sent"]
      /\ receiving' = [e \in DOMAIN receiving |-> IF e \in ToSet(rs) THEN "received" ELSE receiving[e]]
      /\ UNCHANGED <<phase, version, tasks, holds>>
      BY DEF Broadcast, Calls
<1>2. /\ strategy # "None" /\ s \in TrainSet /\ sending[s] = "broadcasting"
      /\ Current(s).receivers = rs
      /\ \A e \in ToSet(rs) : e \in EvalSet /\ receiving[e] = "broadcasting"
      BY <1>1, JoinedTransfer
<1> HIDE DEF s, rs
<1> USE DEF TransferInv, SyncInv
<1>3. /\ sending \in [TrainSet -> {"no", "broadcasting", "sent"}]
      /\ receiving \in [EvalSet -> {"no", "called", "broadcasting", "received"}]
      BY DEF Types
<1>4. /\ sending' \in [TrainSet -> {"no", "broadcasting", "sent"}]
      /\ \A q \in TrainSet : sending'[q] = IF q = s THEN "sent" ELSE sending[q]
      BY <1>1, <1>2, <1>3
<1>5. /\ receiving' \in [EvalSet -> {"no", "called", "broadcasting", "received"}]
      /\ \A e \in EvalSet : receiving'[e] = IF e \in ToSet(rs) THEN "received" ELSE receiving[e]
      BY <1>1, <1>3
<1>6. /\ OwnTasks' /\ Resting'
      /\ \A q : Current(q)' = Current(q)
      /\ \A e : ToCome(e)' <=> ToCome(e)
      BY <1>1, TasksKept
<1>7. Types'
      BY <1>1, <1>4, <1>5, PlanStays DEF Types, Empty
<1>8. \A q \in TrainSet : sending'[q] # "no" <=> sending[q] # "no"
      BY <1>2, <1>4
<1>9. Sends'
      BY <1>1, <1>6, <1>8, PlanStays DEF Sends
<1>10. \A e \in EvalSet : receiving'[e] # "no" <=> receiving[e] # "no"
       BY <1>2, <1>5
<1>11. Receives'
       BY <1>1, <1>2, <1>6, <1>8, <1>10, PlanStays DEF Receives
<1>12. Sent'
  <2> SUFFICES ASSUME NEW q \in TrainSet, sending'[q] = "sent", NEW e \in ToSet(Current(q).receivers)
               PROVE  receiving'[e] = "received" \/ (receiving'[e] = "no" /\ holds[Buffer(e)] = version)
      BY <1>1, <1>6, PlanStays DEF Sent
  <2>1. CASE q = s
        BY <1>2, <1>5, <2>1
  <2>2. CASE q # s
    <3>1. sending[q] = "sent"
          BY <1>4, <2>2
    <3>2. e \in EvalSet
      <4>1. tasks[q] # <<>>
            BY <3>1 DEF Sends
      <4> QED BY <4>1, TheReached
    <3> QED BY <1>5, <3>1, <3>2 DEF Sent
  <2> QED BY <2>1, <2>2
<1>13. AllSupplied'
       BY <1>1, <1>2, <1>6, PlanStays DEF AllSupplied, Supplied
<1> QED BY <1>6, <1>7, <1>9, <1>11, <1>12, <1>13

-----------------------------------------------------------------------------
(***************************************************************************)
(* The groups: how far the policies are with the script.                   *)
(***************************************************************************)
RankOf(p) == CHOOSE r \in DOMAIN SortedActors : SortedActors[r] = p

Member(p, m, k) == script[k].mode = m /\ p \in ToSet(script[k].of)

\* Who has entered a step was called for it.
CommShape ==
    /\ driver \in 1..(Len(script) + 1)
    /\ entered \subseteq {p \in Everyone : calls[p] # <<>>}
    /\ calls \in [Everyone -> Seq(1..(driver - 1))]
    /\ rank \in [Everyone -> 0..Len(SortedActors)]
    /\ group \in [Everyone -> [Modes -> 0..(driver - 1)]]

\* The ranks are known, or nobody is past the first step.
Ranked ==
    \/ \A p \in Everyone : rank[p] = RankOf(p)
    \/ driver = 1
    \/ \A p \in Everyone : calls[p] # <<>> /\ Head(calls[p]) = 1

\* A policy remembers a group that it is a member of, or is still to be called into all.
Remembers ==
    \A p \in Everyone, m \in Modes :
        IF group[p][m] = 0
        THEN \A k \in 1..(driver - 1) : Member(p, m, k) => k \in ToSet(calls[p])
        ELSE Member(p, m, group[p][m])

CommInv == PlanInit /\ script = Script /\ CommShape /\ Ranked /\ Remembers

\* A step leaves the ranks and the groups of the script as they are.
LEMMA GroupsStay ==
    ASSUME Steady
    PROVE  /\ Everyone' = Everyone /\ SortedActors' = SortedActors /\ TrainList' = TrainList
           /\ \A p : RankOf(p)' = RankOf(p)
           /\ \A p, m, k : Member(p, m, k)' <=> Member(p, m, k)
<1>1. placement' = placement /\ strategy' = strategy /\ evalFirst' = evalFirst /\ script' = script
      BY DEF Steady, planVars
<1>2. TrainList' = TrainList /\ EvalList' = EvalList
      BY <1>1 DEF TrainList, EvalList, TrainOn, EvalOn, Nodes
<1>3. Everyone' = Everyone
      BY <1>1, <1>2 DEF Everyone, AllPolicies
<1>4. SortedActors' = SortedActors
      BY <1>1 DEF SortedActors, SortedOn, TrainOn, EvalOn, Nodes
<1>5. \A p : RankOf(p)' = RankOf(p)
      BY <1>4 DEF RankOf
<1>6. \A p, m, k : Member(p, m, k)' <=> Member(p, m, k)
      BY <1>1 DEF Member
<1> QED BY <1>2, <1>3, <1>4, <1>5, <1>6

\* The rank of a policy is its place in sorted_policy_actors.
LEMMA RankIsPlace ==
    ASSUME PlanInit, NEW p \in Everyone
    PROVE  RankOf(p) \in 1..Len(SortedActors) /\ SortedActors[RankOf(p)] = p
<1>1. SortedActors \in Seq(Everyone) /\ \E r \in DOMAIN SortedActors : SortedActors[r] = p
      BY Seats
<1>2. RankOf(p) \in DOMAIN SortedActors /\ SortedActors[RankOf(p)] = p
      BY <1>1 DEF RankOf
<1> QED BY <1>1, <1>2

\* The members of a group have ranks, and no one else has theirs.
LEMMA MembersAreThere ==
    ASSUME PlanInit, script = Script, NEW k \in DOMAIN script, script[k].mode # "GLOBAL"
    PROVE  /\ script[k].of \in Seq(Everyone) /\ script[k].mode \in Modes
           /\ script[k].call = "init_single_comm_group"
<1>1. Expected(script[k]) /\ script[k].call = "init_single_comm_group"
      BY ScriptSteps DEF Expected
<1>2. script[k].mode \in Modes
      BY <1>1 DEF Expected, Modes
<1>3. CASE \E n \in Nodes : script[k].of = SortedOn(n)
      BY <1>1, <1>2, <1>3, OnTheirNode
<1>4. CASE script[k].of = TrainList
      BY <1>1, <1>2, <1>4, WhoIsThere
<1>5. CASE OfTransfer(script[k].of)
  <2>1. PICK i \in DOMAIN transferInfo :
            script[k].of = <<transferInfo[i].sender>> \o transferInfo[i].receivers
        BY <1>5 DEF OfTransfer
  <2>2. transferInfo \in Seq(Transfer)
        BY PlanIsPlanned DEF Planned
  <2>3. transferInfo[i] \in Transfer
        BY <2>2
  <2> DEFINE s == transferInfo[i].sender
             rs == transferInfo[i].receivers
  <2>4. s \in TrainSet /\ rs \in Seq(EvalSet)
        BY <2>3 DEF Transfer
  <2>5. s \in Everyone /\ EvalSet \subseteq Everyone
        BY <1>5, <2>4, WhoIsThere DEF OfTransfer
  <2>6. script[k].of = <<s>> \o rs
        BY <2>1
  <2> HIDE DEF s, rs
  <2>7. <<s>> \in Seq(Everyone) /\ rs \in Seq(Everyone)
        BY <2>4, <2>5
  <2>8. script[k].of \in Seq(Everyone)
        BY <2>6, <2>7, ConcatProperties
  <2> QED BY <1>1, <1>2, <2>8
<1> QED BY <1>1, <1>3, <1>4, <1>5 DEF Expected

\* A policy finds its rank among those of a group exactly if it is in the group.
LEMMA MembersByRank ==
    ASSUME PlanInit, script = Script, \A p \in Everyone : rank[p] = RankOf(p),
           NEW k \in DOMAIN script, script[k].mode # "GLOBAL", NEW p \in Everyone
    PROVE  rank[p] \in ToSet(RanksOf(k)) <=> p \in ToSet(script[k].of)
<1> DEFINE of == script[k].of
           ranks == RanksOf(k)
<1>1. of \in Seq(Everyone)
      BY MembersAreThere
<1>2. ranks = [i \in DOMAIN of |-> rank[of[i]]]
      BY DEF RanksOf
<1> HIDE DEF of, ranks
<1>3. \A i \in DOMAIN of : of[i] \in Everyone
      BY <1>1
<1>4. \A q \in Everyone : rank[q] = rank[p] => q = p
      BY RankIsPlace
<1>5. ASSUME rank[p] \in ToSet(ranks) PROVE p \in ToSet(of)
  <2>1. PICK i \in DOMAIN of : rank[of[i]] = rank[p]
        BY <1>2, <1>5 DEF ToSet
  <2>2. of[i] = p
        BY <1>3, <1>4, <2>1
  <2> QED BY <2>2 DEF ToSet
<1>6. ASSUME p \in ToSet(of) PROVE rank[p] \in ToSet(ranks)
  <2>1. PICK i \in DOMAIN of : of[i] = p
        BY <1>6 DEF ToSet
  <2>2. i \in DOMAIN ranks /\ ranks[i] = rank[p]
        BY <1>2, <2>1
  <2> QED BY <2>2 DEF ToSet
<1> QED BY <1>5, <1>6 DEF of, ranks

\* CommInv holds before anything is submitted.
LEMMA InitComm == Init => CommInv
<1> SUFFICES ASSUME Init PROVE CommInv
    OBVIOUS
<1>1. /\ PlanInit /\ script = Script /\ driver = 1 /\ entered = {}
      /\ calls = [p \in Everyone |-> <<>>] /\ rank = [p \in Everyone |-> 0]
      /\ group = [p \in Everyone |-> [m \in Modes |-> 0]]
      BY DEF Init, CommInit, Everyone
<1>2. Len(script) \in Nat
      BY <1>1, ScriptSteps
<1>3. SortedActors \in Seq(Everyone)
      BY <1>1, Seats
<1>4. 0 \in 0..Len(SortedActors)
      BY <1>3
<1>5. rank \in [Everyone -> 0..Len(SortedActors)]
      BY <1>1, <1>4
<1>6. CommShape
      BY <1>1, <1>2, <1>5 DEF CommShape
<1>7. Ranked
      BY <1>1 DEF Ranked
<1>8. Remembers
      BY <1>1 DEF Remembers
<1> QED BY <1>1, <1>6, <1>7, <1>8 DEF CommInv

\* A policy that reaches its collective call changes no group.
LEMMA CommStays ==
    ASSUME CommInv, Steady, UNCHANGED <<driver, calls, rank, group>>,
           entered' \subseteq {p \in Everyone : calls[p] # <<>>}
    PROVE  (CommShape /\ Ranked /\ Remembers)'
<1> USE GroupsStay DEF CommInv
<1>1. script' = script
      BY DEF Steady
<1>2. CommShape'
      BY <1>1 DEF CommShape
<1>3. Ranked'
      BY DEF Ranked
<1>4. Remembers'
      BY DEF Remembers
<1> QED BY <1>2, <1>3, <1>4

\* Appending a call to every mailbox keeps the mailboxes in step with the script.
LEMMA SubmitStep == ASSUME CommInv, Steady, Submit PROVE (CommShape /\ Ranked /\ Remembers)'
<1> USE DEF CommInv
<1>1. /\ driver <= Len(script) /\ driver' = driver + 1
      /\ calls' = [p \in DOMAIN calls |->
                      IF p \in Called(driver) THEN Append(calls[p], driver) ELSE calls[p]]
      /\ UNCHANGED <<script, entered, rank, group>>
      BY DEF Submit
<1>2. /\ DOMAIN script = 1..Len(script) /\ Len(script) \in Nat \ {0}
      /\ script[1].call = "init_distributed_env" /\ script[1].mode = "GLOBAL"
      BY ScriptSteps
<1>3. driver \in 1..Len(script) /\ driver' \in 1..(Len(script) + 1) /\ driver \in 1..(driver' - 1)
      BY <1>1, <1>2 DEF CommShape
<1>4. DOMAIN calls = Everyone
      BY DEF CommShape
<1>5. ASSUME NEW p \in Everyone
      PROVE  /\ calls'[p] \in Seq(1..(driver' - 1))
             /\ calls[p] # <<>> => calls'[p] # <<>> /\ Head(calls'[p]) = Head(calls[p])
             /\ \A k \in ToSet(calls[p]) : k \in ToSet(calls'[p])
             /\ p \in Called(driver) => calls'[p] = Append(calls[p], driver) /\ driver \in ToSet(calls'[p])
  <2> DEFINE c == calls[p]
             d == Append(c, driver)
             R == 1..(driver' - 1)
  <2>1. c \in Seq(1..(driver - 1))
        BY DEF CommShape
  <2>2. (1..(driver - 1)) \subseteq R /\ driver \in R
        BY <1>1, <1>3
  <2> HIDE DEF c, R
  <2>3. c \in Seq(R)
    <3> DEFINE Q == 1..(driver - 1)
    <3>1. c \in Seq(Q) /\ Q \subseteq R
          BY <2>1, <2>2
    <3> HIDE DEF Q
    <3> QED BY <3>1
  <2>4. /\ d \in Seq(R) /\ d # <<>> /\ DOMAIN c = 1..Len(c) /\ Len(c) \in Nat
        /\ DOMAIN d = 1..(Len(c) + 1) /\ d[Len(c) + 1] = driver
        /\ \A i \in 1..Len(c) : d[i] = c[i]
        BY <2>2, <2>3
  <2> HIDE DEF d
  <2>5. c # <<>> => Head(d) = Head(c)
    <3> SUFFICES ASSUME c # <<>> PROVE Head(d) = Head(c)
        OBVIOUS
    <3>1. 1 \in 1..Len(c)
          BY <2>3, <2>4
    <3>2. d[1] = c[1]
          BY <2>4, <3>1
    <3> QED BY <2>3, <2>4, <3>2
  <2>6. (\A k \in ToSet(c) : k \in ToSet(d)) /\ driver \in ToSet(d)
    <3>1. \A i \in DOMAIN c : i \in DOMAIN d /\ d[i] = c[i]
          BY <2>4
    <3>2. Len(c) + 1 \in DOMAIN d
          BY <2>4
    <3> QED BY <2>4, <3>1, <3>2 DEF ToSet
  <2>7. calls'[p] = IF p \in Called(driver) THEN d ELSE c
        BY <1>1, <1>4 DEF c, d
  <2> QED BY <2>3, <2>4, <2>5, <2>6, <2>7 DEF c, d, R
<1>6. calls' \in [Everyone -> Seq(1..(driver' - 1))]
      BY <1>1, <1>4, <1>5
<1>7. group' \in [Everyone -> [Modes -> 0..(driver' - 1)]]
  <2>1. \A i \in 0..(driver - 1) : i \in 0..(driver' - 1)
        BY <1>1, <1>3
  <2>2. group \in [Everyone -> [Modes -> 0..(driver - 1)]] /\ group' = group
        BY <1>1 DEF CommShape
  <2>3. \A p \in Everyone : group[p] \in [Modes -> 0..(driver' - 1)]
        BY <2>1, <2>2
  <2> QED BY <2>2, <2>3
<1>8. CommShape'
  <2>1. entered' \subseteq {p \in Everyone : calls'[p] # <<>>}
        BY <1>1, <1>5 DEF CommShape
  <2> QED BY <1>1, <1>3, <1>6, <1>7, <2>1, GroupsStay DEF CommShape
<1>9. Ranked'
  <2>1. CASE \A p \in Everyone : rank[p] = RankOf(p)
        BY <1>1, <2>1, GroupsStay DEF Ranked
  <2>2. CASE driver = 1
    <3>1. Called(1) = Everyone
          BY <1>2, <1>4 DEF Called
    <3>2. ASSUME NEW p \in Everyone PROVE calls'[p] # <<>> /\ Head(calls'[p]) = 1
      <4>1. calls[p] \in Seq(1..0) /\ calls'[p] = Append(calls[p], 1)
            BY <1>5, <2>2, <3>1 DEF CommShape
      <4>2. calls[p] = <<>>
        <5>1. \A i \in DOMAIN calls[p] : calls[p][i] \in 1..0
              BY <4>1
        <5>2. DOMAIN calls[p] = {}
              BY <5>1
        <5> QED BY <4>1, <5>2
      <4>3. Append(<<>>, 1) = <<1>>
            OBVIOUS
      <4> QED BY <4>1, <4>2, <4>3
    <3> QED BY <3>2, GroupsStay DEF Ranked
  <2>3. CASE \A p \in Everyone : calls[p] # <<>> /\ Head(calls[p]) = 1
        BY <1>5, <2>3, GroupsStay DEF Ranked
  <2> QED BY <2>1, <2>2, <2>3 DEF Ranked
<1>10. ASSUME NEW p \in Everyone, NEW m \in Modes, Member(p, m, driver) PROVE driver \in ToSet(calls'[p])
  <2>1. script[driver].mode # "GLOBAL"
        BY <1>10 DEF Member, Modes
  <2>2. p \in Called(driver)
        BY <1>2, <1>3, <1>4, <2>1, MembersAreThere DEF Called
  <2> QED BY <1>5, <2>2
<1>11. Remembers'
  <2> SUFFICES ASSUME NEW p \in Everyone, NEW m \in Modes
               PROVE  IF group[p][m] = 0
                      THEN \A k \in 1..(driver' - 1) : Member(p, m, k) => k \in ToSet(calls'[p])
                      ELSE Member(p, m, group[p][m])
      BY <1>1, GroupsStay DEF Remembers
  <2>1. \A k \in 1..(driver' - 1) : k = driver \/ k \in 1..(driver - 1)
        BY <1>1, <1>3
  <2> QED BY <1>5, <1>10, <2>1 DEF Remembers
<1> QED BY <1>8, <1>9, <1>11

\* A collective that ends: the calls of all concerned begin with the same step.
LEMMA MeetStep ==
    ASSUME CommInv, Steady, NEW p \in Everyone, Meet(p) PROVE (CommShape /\ Ranked /\ Remembers)'
<1> USE DEF CommInv
<1> DEFINE k == Head(calls[p])
           all == Concerned(k, p)
<1>1. /\ p \in entered /\ all \subseteq entered /\ \A q \in all : Head(calls[q]) = k
      /\ entered' = entered \ all
      /\ calls' = [q \in DOMAIN calls |-> IF q \in all THEN Tail(calls[q]) ELSE calls[q]]
      /\ rank' = IF script[k].call # "init_distributed_env" THEN rank
                 ELSE [q \in DOMAIN rank |-> CHOOSE r \in DOMAIN SortedActors : SortedActors[r] = q]
      /\ group' = [q \in DOMAIN group |-> IF q \in all THEN Remembered(k, q) ELSE group[q]]
      /\ UNCHANGED <<script, driver>>
      BY DEF Meet
<1>2. /\ DOMAIN script = 1..Len(script) /\ Len(script) \in Nat \ {0}
      /\ script[1].call = "init_distributed_env" /\ script[1].mode = "GLOBAL"
      /\ \A i \in DOMAIN script : i = 1 \/ Expected(script[i])
      BY ScriptSteps
<1>3. /\ DOMAIN calls = Everyone /\ DOMAIN rank = Everyone /\ DOMAIN group = Everyone
      /\ all \subseteq Everyone /\ \A q \in entered : calls[q] # <<>>
      BY <1>1 DEF CommShape
<1>4. k \in 1..(driver - 1) /\ k \in DOMAIN script
  <2>1. calls[p] \in Seq(1..(driver - 1)) /\ calls[p] # <<>>
        BY <1>1, <1>3 DEF CommShape
  <2>2. k \in 1..(driver - 1)
    <3> DEFINE c == calls[p]
               Q == 1..(driver - 1)
    <3>1. c \in Seq(Q) /\ c # <<>> /\ k = Head(c)
          BY <2>1
    <3> HIDE DEF c, Q, k
    <3>2. k \in Q
          BY <3>1
    <3> QED BY <3>2 DEF Q
  <2> HIDE DEF k
  <2> QED BY <1>2, <2>2 DEF CommShape
<1>5. k = 1 => all = Everyone
      BY <1>2, <1>3 DEF Concerned
<1>6. script[k].call = "init_distributed_env" <=> k = 1
  <2> HIDE DEF k, all
  <2> QED BY <1>2, <1>4 DEF Expected
<1> HIDE DEF k, all
<1>7. ASSUME NEW q \in Everyone
      PROVE  /\ calls'[q] \in Seq(1..(driver - 1))
             /\ q \notin all => calls'[q] = calls[q]
             /\ \A i \in ToSet(calls[q]) : i \in ToSet(calls'[q]) \/ (q \in all /\ i = k)
  <2>1. CASE q \notin all
        BY <1>1, <1>3, <2>1 DEF CommShape
  <2>2. CASE q \in all
    <3> DEFINE c == calls[q]
    <3>1. c \in Seq(1..(driver - 1)) /\ c # <<>> /\ Head(c) = k /\ calls'[q] = Tail(c)
          BY <1>1, <1>3, <2>2 DEF CommShape
    <3> HIDE DEF c
    <3>2. /\ Tail(c) \in Seq(1..(driver - 1)) /\ c[1] = k
          /\ \A i \in DOMAIN c : i = 1 \/ (i - 1 \in DOMAIN Tail(c) /\ Tail(c)[i - 1] = c[i])
          BY <3>1
    <3>3. ASSUME NEW i \in DOMAIN c PROVE c[i] \in ToSet(Tail(c)) \/ c[i] = k
          BY <3>2 DEF ToSet
    <3>4. \A x \in ToSet(c) : x \in ToSet(Tail(c)) \/ x = k
          BY <3>3 DEF ToSet
    <3> QED BY <2>2, <3>1, <3>2, <3>4 DEF c
  <2> QED BY <2>1, <2>2
<1>8. (\A q \in Everyone : rank[q] = RankOf(q)) \/ k = 1
  <2>1. CASE driver = 1
        BY <1>4, <2>1
  <2>2. CASE \A q \in Everyone : calls[q] # <<>> /\ Head(calls[q]) = 1
        BY <2>2 DEF k
  <2> QED BY <2>1, <2>2 DEF Ranked
<1>9. \A q \in Everyone : rank'[q] = RankOf(q)
      BY <1>1, <1>3, <1>6, <1>8 DEF RankOf
<1>10. \A q \in Everyone : group'[q] \in [Modes -> 0..(driver - 1)]
  <2> TAKE q \in Everyone
  <2>1. group[q] \in [Modes -> 0..(driver - 1)] /\ k \in 0..(driver - 1)
        BY <1>4 DEF CommShape
  <2>2. Remembered(k, q) \in [Modes -> 0..(driver - 1)]
        BY <2>1 DEF Remembered
  <2> QED BY <1>1, <1>3, <2>1, <2>2
<1>11. CommShape'
  <2>1. entered' \subseteq {q \in Everyone : calls'[q] # <<>>}
        BY <1>1, <1>7 DEF CommShape
  <2>2. calls' \in [Everyone -> Seq(1..(driver - 1))]
        BY <1>1, <1>3, <1>7
  <2>3. rank' \in [Everyone -> 0..Len(SortedActors)]
    <3>1. SortedActors \in Seq(Everyone)
          BY Seats
    <3>2. \A q \in Everyone : RankOf(q) \in 0..Len(SortedActors)
          BY <3>1, RankIsPlace
    <3>3. rank' = [q \in Everyone |-> rank'[q]]
      <4>1. rank \in [Everyone -> 0..Len(SortedActors)]
            BY DEF CommShape
      <4>2. CASE k = 1
        <5>1. rank' = [q \in Everyone |-> CHOOSE r \in DOMAIN SortedActors : SortedActors[r] = q]
              BY <1>1, <1>3, <1>6, <4>2
        <5> QED BY <5>1
      <4>3. CASE k # 1
            BY <1>1, <1>6, <4>1, <4>3
      <4> QED BY <4>2, <4>3
    <3> QED BY <1>9, <3>2, <3>3
  <2>4. group' \in [Everyone -> [Modes -> 0..(driver - 1)]]
        BY <1>1, <1>3, <1>10
  <2> QED BY <1>1, <2>1, <2>2, <2>3, <2>4, GroupsStay DEF CommShape
<1>12. Ranked'
       BY <1>9, GroupsStay DEF Ranked
<1>13. ASSUME NEW q \in Everyone, NEW m \in Modes
       PROVE  IF group'[q][m] = 0
              THEN \A i \in 1..(driver - 1) : Member(q, m, i) => i \in ToSet(calls'[q])
              ELSE Member(q, m, group'[q][m])
  <2>1. /\ group[q] \in [Modes -> 0..(driver - 1)]
        /\ IF group[q][m] = 0
           THEN \A i \in 1..(driver - 1) : Member(q, m, i) => i \in ToSet(calls[q])
           ELSE Member(q, m, group[q][m])
        BY DEF CommShape, Remembers
  <2>2. CASE q \in all /\ Member(q, m, k)
    <3>1. script[k].mode = m /\ q \in ToSet(script[k].of) /\ m # "GLOBAL" /\ k # 1
          BY <1>2, <2>2 DEF Member, Modes
    <3>2. rank[q] \in ToSet(RanksOf(k))
          BY <1>4, <1>8, <3>1, MembersByRank
    <3>3. group'[q] = [group[q] EXCEPT ![m] = k]
          BY <1>1, <1>3, <2>2, <3>1, <3>2 DEF Remembered
    <3>4. group'[q][m] = k /\ k # 0
          BY <1>4, <2>1, <3>3
    <3> QED BY <2>2, <3>4
  <2>3. CASE ~(q \in all /\ Member(q, m, k))
    <3>1. group'[q][m] = group[q][m]
      <4>1. CASE q \notin all
            BY <1>1, <1>3, <4>1
      <4>2. CASE q \in all /\ script[k].mode = m
        <5>1. q \notin ToSet(script[k].of) /\ m # "GLOBAL" /\ k # 1
              BY <1>2, <2>3, <4>2 DEF Member, Modes
        <5>2. rank[q] \notin ToSet(RanksOf(k))
              BY <1>4, <1>8, <4>2, <5>1, MembersByRank
        <5> QED BY <1>1, <1>3, <4>2, <5>2 DEF Remembered
      <4>3. CASE q \in all /\ script[k].mode # m
        <5>1. Remembered(k, q)[m] = group[q][m]
              BY <2>1, <4>3 DEF Remembered
        <5> QED BY <1>1, <1>3, <4>3, <5>1
      <4> QED BY <4>1, <4>2, <4>3
    <3>2. \A i \in 1..(driver - 1) : Member(q, m, i) /\ i \in ToSet(calls[q]) => i \in ToSet(calls'[q])
          BY <1>7, <2>3
    <3> QED BY <2>1, <3>1, <3>2
  <2> QED BY <2>2, <2>3
<1>14. Remembers'
       BY <1>1, <1>13, GroupsStay DEF Remembers
<1> QED BY <1>11, <1>12, <1>14

\* CommInv is preserved by every step.
LEMMA NextComm == CommInv /\ [Next]_vars => CommInv'
<1> SUFFICES ASSUME CommInv, [Next]_vars PROVE CommInv'
    OBVIOUS
<1>1. Steady
      BY StepsAreSteady
<1>2. (PlanInit /\ script = Script)'
      BY <1>1, PlanStays DEF CommInv
<1>3. DOMAIN calls = Everyone /\ entered \subseteq {p \in Everyone : calls[p] # <<>>}
      BY DEF CommInv, CommShape
<1>4. CASE FormGroups
  <2>1. CASE Submit
        BY <1>1, <1>2, <2>1, SubmitStep DEF CommInv
  <2>2. ASSUME NEW p \in Everyone, Enter(p) PROVE CommInv'
    <3>1. /\ UNCHANGED <<driver, calls, rank, group>>
          /\ entered' \subseteq {q \in Everyone : calls[q] # <<>>}
          BY <1>3, <2>2 DEF Enter
    <3> QED BY <1>1, <1>2, <3>1, CommStays DEF CommInv
  <2>3. ASSUME NEW p \in Everyone, Meet(p) PROVE CommInv'
        BY <1>1, <1>2, <2>3, MeetStep DEF CommInv
  <2> QED BY <1>3, <1>4, <2>1, <2>2, <2>3 DEF FormGroups, CommNext
<1>5. CASE ~FormGroups
  <2>1. UNCHANGED commVars
        BY <1>5
           DEF Next, SetupEnds, StartSync, EndSync, Train, WriteShared, Send, SendIpc, SendEnds,
                    Receive, Store, Broadcast, vars
  <2>2. UNCHANGED <<driver, calls, rank, group>> /\ entered' = entered
        BY <2>1 DEF commVars
  <2> QED BY <1>1, <1>2, <1>3, <2>2, CommStays DEF CommInv
<1> QED BY <1>4, <1>5

\* CommInv holds throughout.
LEMMA CommInvariant == Spec => []CommInv
BY InitComm, NextComm, PTL DEF Spec

-----------------------------------------------------------------------------
(***************************************************************************)
(* Theorems                                                                *)
(***************************************************************************)
LEMMA NextTransfer == TransferInv /\ [Next]_vars => TransferInv'
<1> SUFFICES ASSUME TransferInv, [Next]_vars PROVE TransferInv'
    OBVIOUS
<1>1. Steady
      BY StepsAreSteady
<1>2. (PlanInit /\ script = Script)'
      BY <1>1, PlanStays DEF TransferInv
<1>3. DOMAIN tasks = TrainSet /\ DOMAIN receiving = EvalSet
      BY DEF TransferInv, SyncInv, Types
<1>4. CASE FormGroups \/ SetupEnds \/ EndSync \/ Train \/ UNCHANGED vars
      BY <1>1, <1>2, <1>4, StepsOutsideSync DEF TransferInv
<1>5. CASE StartSync
      BY <1>1, <1>2, <1>5, StartSyncStep DEF TransferInv
<1>6. ASSUME NEW p \in TrainSet, WriteShared(p) \/ Send(p) \/ SendIpc(p) \/ SendEnds(p)
      PROVE  TransferInv'
  <2>1. CASE Send(p)
        BY <1>1, <1>2, <2>1, SendStep DEF TransferInv
  <2>2. CASE WriteShared(p) \/ SendIpc(p) \/ SendEnds(p)
        BY <1>1, <1>2, <2>2, SendEndsStep DEF TransferInv
  <2> QED BY <1>6, <2>1, <2>2
<1>7. ASSUME NEW e \in EvalSet, Receive(e) \/ Store(e) PROVE TransferInv'
  <2>1. CASE Receive(e)
        BY <1>1, <1>2, <2>1, ReceiveStep DEF TransferInv
  <2>2. CASE Store(e)
        BY <1>1, <1>2, <2>2, StoreStep DEF TransferInv
  <2> QED BY <1>7, <2>1, <2>2
<1>8. ASSUME NEW k \in Groups, Broadcast(k) PROVE TransferInv'
      BY <1>1, <1>2, <1>8, BroadcastStep DEF TransferInv
<1> QED BY <1>3, <1>4, <1>5, <1>6, <1>7, <1>8 DEF Next

\* TransferInv holds throughout.
LEMMA TransferInvariant == Spec => []TransferInv
BY InitTransfer, NextTransfer, PTL DEF Spec

\* When the evaluation policies are notified, the buffer that each of them loads its
\* weights from holds those of this very sync: for every placement, every strategy and
\* every order in which sends, receives and broadcasts take place.
THEOREM EvalPoliciesAreCurrent == Spec => []AllHoldCurrent
<1>1. TransferInv => AllHoldCurrent
  <2> SUFFICES ASSUME TransferInv, phase = "notified", NEW e \in EvalSet
               PROVE  holds[Buffer(e)] = version
      BY DEF AllHoldCurrent, EvalSet
  <2>1. \A p \in TrainSet : tasks[p] = <<>>
        BY DEF TransferInv, SyncInv, Resting
  <2>2. receiving[e] = "no"
        BY <2>1, NothingLeft
  <2>3. ~ToCome(e)
        BY <2>1 DEF ToCome
  <2> QED BY <2>2, <2>3 DEF TransferInv, SyncInv, AllSupplied, Supplied
<1> QED BY <1>1, TransferInvariant, PTL


\* Types: among them that no step is called that the driver has not come to, that a
\* group is remembered only once it is formed, and that nobody receives outside a sync.
THEOREM TypeCorrect == Spec => []TypeOK
<1>1. TransferInv /\ CommInv => TypeOK
  <2> SUFFICES ASSUME TransferInv, CommInv PROVE TypeOK
      OBVIOUS
  <2>1. Types /\ Resting /\ Sends
        BY DEF TransferInv, SyncInv
  <2>2. CommTypes
    <3>1. /\ CommShape /\ DOMAIN script = 1..Len(script) /\ Len(script) \in Nat
          BY ScriptSteps DEF CommInv
    <3>2. \A i \in 1..(driver - 1) : i \in DOMAIN script
          BY <3>1 DEF CommShape
    <3>3. calls \in [Everyone -> Seq(DOMAIN script)]
      <4>1. calls \in [Everyone -> Seq(1..(driver - 1))]
            BY <3>1 DEF CommShape
      <4>2. \A p \in Everyone : calls[p] \in Seq(DOMAIN script)
        <5> DEFINE D == 1..(driver - 1)
        <5>1. \A x \in D : x \in DOMAIN script
              BY <3>2
        <5>2. calls \in [Everyone -> Seq(D)]
              BY <4>1
        <5> HIDE DEF D
        <5> QED BY <5>1, <5>2
      <4> QED BY <4>1, <4>2
    <3> QED BY <3>1, <3>3 DEF CommTypes, CommShape, Everyone
  <2>3. phase # "sync" => \A e \in EvalSet : receiving[e] = "no"
    <3> SUFFICES ASSUME phase # "sync" PROVE \A e \in EvalSet : receiving[e] = "no"
        OBVIOUS
    <3>1. \A p \in TrainSet : tasks[p] = <<>>
          BY <2>1 DEF Resting
    <3> QED BY <3>1, NothingLeft
  <2> QED BY <2>1, <2>2, <2>3 DEF TypeOK, Types, Sends, TrainSet, EvalSet
<1> QED BY <1>1, TransferInvariant, CommInvariant, PTL

\* When the set-up is over, every policy remembers just the groups that it is a member of,
\* and its place in the group of its node is the GPU that LOCAL_RANK gave it, alone.
THEOREM GroupsFitTheGpus == Spec => []GroupsFit
<1>1. CommInv => GroupsFit
  <2> SUFFICES ASSUME CommInv, SetUp PROVE GroupsFit
      BY DEF GroupsFit
  <2> USE DEF CommInv
  <2>1. /\ DOMAIN script = 1..Len(script) /\ Len(script) \in Nat \ {0}
        /\ \A k \in DOMAIN script : k = 1 \/ Expected(script[k])
        /\ script[1].mode = "GLOBAL"
        BY ScriptSteps
  <2>2. /\ driver = Len(script) + 1 /\ \A p \in Everyone : calls[p] = <<>>
        /\ DOMAIN group = Everyone
        BY <2>1 DEF SetUp, CommShape
  <2>3. \A p \in Everyone : rank[p] = RankOf(p)
        BY <2>1, <2>2 DEF Ranked
  <2>4. \A p \in Everyone : /\ rank[p] \in DOMAIN SortedActors /\ SortedActors[rank[p]] = p
                            /\ p[1] \in Nodes
                            /\ LocalRanks[rank[p]] \in DOMAIN SortedOn(p[1])
                            /\ SortedOn(p[1])[LocalRanks[rank[p]]] = p
    <3> TAKE p \in Everyone
    <3>1. SortedActors \in Seq(Everyone)
          BY Seats
    <3>2. rank[p] \in DOMAIN SortedActors /\ SortedActors[rank[p]] = p
          BY <2>3, <3>1, RankIsPlace
    <3> QED BY <3>2, Seats
  <2>5. ASSUME NEW p \in Everyone, NEW m \in Modes
        PROVE  IF group[p][m] = 0
               THEN \A k \in DOMAIN script : script[k].mode = m => p \notin ToSet(script[k].of)
               ELSE script[group[p][m]].mode = m /\ p \in ToSet(script[group[p][m]].of)
    <3>1. ToSet(<<>>) = {}
          BY DEF ToSet
    <3>2. \A k \in DOMAIN script : k \in 1..(driver - 1)
          BY <2>1, <2>2
    <3> QED BY <2>2, <3>1, <3>2 DEF Remembers, Member
  <2>6. ASSUME NEW p \in Everyone
        PROVE  LocalRankIn(group[p]["INTRA_NODE"], p) = LocalRanks[rank[p]]
    <3> DEFINE g == group[p]["INTRA_NODE"]
               n == p[1]
               l == LocalRanks[rank[p]]
    <3>1. "INTRA_NODE" \in Modes
          BY DEF Modes
    <3>2. n \in Nodes /\ l \in DOMAIN SortedOn(n) /\ SortedOn(n)[l] = p
          BY <2>4
    <3>3. p \in ToSet(SortedOn(n)) /\ SortedOn(n) # <<>>
      <4>1. SortedOn(n) \in Seq(Everyone)
            BY <3>2, OnTheirNode
      <4> HIDE DEF l
      <4>2. p \in ToSet(SortedOn(n))
            BY <3>2 DEF ToSet
      <4>3. ToSet(<<>>) = {}
            BY DEF ToSet
      <4> QED BY <4>2, <4>3
    <3>4. PICK k \in DOMAIN script : script[k].mode = "INTRA_NODE" /\ script[k].of = SortedOn(n)
          BY <3>2, <3>3, ScriptSteps
    <3>5. /\ g # 0 /\ script[g].mode = "INTRA_NODE" /\ p \in ToSet(script[g].of)
          BY <2>5, <3>1, <3>3, <3>4
    <3>6. g \in DOMAIN script
      <4>1. g \in 0..(driver - 1)
            BY <3>1 DEF CommShape
      <4> HIDE DEF g
      <4> QED BY <2>1, <2>2, <3>5, <4>1
    <3> HIDE DEF g
    <3>7. PICK m \in Nodes : script[g].of = SortedOn(m)
          BY <2>1, <3>5, <3>6 DEF Expected
    <3>8. m = n
      <4>1. PICK i \in DOMAIN SortedOn(m) : SortedOn(m)[i] = p
            BY <3>5, <3>7 DEF ToSet
      <4> QED BY <4>1, OnTheirNode
    <3> DEFINE s == SortedOn(n)
               ranks == RanksOf(g)
    <3>9. ranks = [i \in DOMAIN s |-> rank[s[i]]]
          BY <3>7, <3>8 DEF RanksOf
    <3>10. /\ s \in Seq(Everyone) /\ \A i, j \in DOMAIN s : s[i] = s[j] => i = j
           BY <3>2, OnTheirNode
    <3> HIDE DEF s, ranks, n, l
    <3>11. \A i \in DOMAIN s : s[i] \in Everyone /\ (rank[s[i]] = rank[p] <=> s[i] = p)
           BY <2>4, <3>10
    <3>12. l \in DOMAIN s /\ s[l] = p
           BY <3>2 DEF s
    <3>13. \A i \in DOMAIN ranks : ranks[i] = rank[p] <=> i = l
           BY <3>9, <3>10, <3>11, <3>12
    <3>14. l \in DOMAIN ranks
           BY <3>9, <3>12
    <3>15. LocalRankIn(g, p) = CHOOSE i \in DOMAIN ranks : ranks[i] = rank[p]
           BY DEF LocalRankIn, ranks
    <3>16. LocalRankIn(g, p) = l
           BY <3>13, <3>14, <3>15
    <3> QED BY <3>16 DEF g, l
  <2>7. ASSUME NEW p \in Everyone, NEW q \in Everyone \ {p}
        PROVE  rank[p] # rank[q] /\ (p[1] = q[1] => LocalRanks[rank[p]] # LocalRanks[rank[q]])
        BY <2>4
  <2> QED BY <2>2, <2>5, <2>6, <2>7 DEF GroupsFit
<1> QED BY <1>1, CommInvariant, PTL
-----------------------------------------------------------------------------
(***************************************************************************)
(* AsyncEvalPolicy.  The invariant is that of the run: the range of        *)
(* num_requests follows from what it counts, and each of the two halves of *)
(* UpdaterInStep is inductive beside the types of the other variables.     *)
(***************************************************************************)
Handle == Request \cup {"clear", "set", "notify", "signal", "wait"}

Label == {"await", "close", "drain", "blocked", "load", "open", "unsignal", "set_done"}

\* AsyncTypeOK, but for the range of num_requests.
Typed ==
    /\ ready \in Seq(Handle)
    /\ task \in [Request -> TaskState]
    /\ accept \in BOOLEAN
    /\ waiters \in Seq(Request)
    /\ signal \in BOOLEAN /\ done \in BOOLEAN
    /\ awaited \in {"no", "asked", "blocks"}
    /\ pc \in Label

Counted == InFlight \cup Failed

IInv == Typed /\ UpdaterInStep

-----------------------------------------------------------------------------
(***************************************************************************)
(* Where a queue of handles leaves the gate, once they have run: GateAt    *)
(* says of any queue what GateSettlesOpen says of the event loop's.        *)
(***************************************************************************)
Gate == {"clear", "set"}

GateAt(q) == {i \in DOMAIN q : q[i] \in Gate}

LeavesOpen(q, open) ==
    IF GateAt(q) = {} THEN open
    ELSE \E i \in GateAt(q) : q[i] = "set" /\ \A j \in GateAt(q) : j <= i

\* What is scheduled behind the others and is no gate callback changes nothing.
LEMMA AppendOther ==
    ASSUME NEW q \in Seq(Handle), NEW h \in Handle \ Gate, NEW open \in BOOLEAN,
           LeavesOpen(q, open)
    PROVE  LeavesOpen(Append(q, h), open)
<1>1. GateAt(Append(q, h)) = GateAt(q)
  BY AppendProperties DEF GateAt
<1>2. \A i \in GateAt(q) : Append(q, h)[i] = q[i]
  BY AppendProperties DEF GateAt
<1> QED
  BY <1>1, <1>2 DEF LeavesOpen

\* A "set" at the end decides.
LEMMA AppendSet ==
    ASSUME NEW q \in Seq(Handle), NEW open \in BOOLEAN
    PROVE  LeavesOpen(Append(q, "set"), open)
<1> DEFINE n == Len(q) + 1
<1>1. /\ DOMAIN Append(q, "set") = 1..n
      /\ Append(q, "set")[n] = "set"
      /\ n \in 1..n
  BY AppendProperties, LenProperties, "set" \in Handle DEF Handle
<1>2. n \in GateAt(Append(q, "set"))
  BY <1>1 DEF GateAt, Gate
<1>3. \A j \in GateAt(Append(q, "set")) : j <= n
  BY <1>1 DEF GateAt
<1> QED
  BY <1>1, <1>2, <1>3 DEF LeavesOpen

\* Where the gate callbacks of a queue are when its head is gone and more is behind.
LEMMA TailGates ==
    ASSUME NEW q \in Seq(Handle), q # <<>>, NEW w \in Seq(Request)
    PROVE  /\ \A i \in GateAt(q) : i # 1 =>
                 i - 1 \in GateAt(Tail(q) \o w) /\ (Tail(q) \o w)[i - 1] = q[i]
           /\ \A i \in GateAt(Tail(q) \o w) : i + 1 \in GateAt(q)
<1> DEFINE t == Tail(q) \o w
<1>1. /\ Tail(q) \in Seq(Handle) /\ Len(Tail(q)) = Len(q) - 1
      /\ \A i \in 1..Len(Tail(q)) : Tail(q)[i] = q[i + 1]
      /\ Len(q) \in Nat /\ Len(q) > 0
  BY HeadTailProperties, LenProperties, EmptySeq
<1>2. /\ Len(t) = Len(q) - 1 + Len(w) /\ Len(w) \in Nat
      /\ \A i \in 1..Len(t) :
            t[i] = IF i <= Len(q) - 1 THEN q[i + 1] ELSE w[i - (Len(q) - 1)]
      /\ DOMAIN t = 1..Len(t)
  <2>1. w \in Seq(Handle)
    BY DEF Handle
  <2> QED
    BY <1>1, <2>1
<1>3. \A i \in 1..Len(w) : w[i] \notin Gate
  BY AsyncPolicyAssumption DEF Gate
<1>4. DOMAIN q = 1..Len(q)
  OBVIOUS
<1> HIDE DEF t
<1>5. ASSUME NEW i \in GateAt(q), i # 1
      PROVE  i - 1 \in GateAt(t) /\ t[i - 1] = q[i]
  <2>1. i \in 2..Len(q) /\ q[i] \in Gate
    BY <1>4, <1>5, <1>1 DEF GateAt
  <2>2. i - 1 \in 1..Len(t) /\ i - 1 <= Len(q) - 1 /\ (i - 1) + 1 = i
    BY <2>1, <1>1, <1>2
  <2>3. t[i - 1] = q[i]
    BY <2>2, <1>2
  <2> QED
    BY <2>1, <2>2, <2>3, <1>2 DEF GateAt
<1>6. ASSUME NEW i \in GateAt(t)
      PROVE  i + 1 \in GateAt(q)
  <2>1. i \in 1..Len(t) /\ t[i] \in Gate
    BY <1>2 DEF GateAt
  <2>2. i <= Len(q) - 1
    <3> SUFFICES ASSUME i > Len(q) - 1 PROVE FALSE
      BY <2>1, <1>1, <1>2
    <3>1. t[i] = w[i - (Len(q) - 1)] /\ i - (Len(q) - 1) \in 1..Len(w)
      BY <2>1, <1>1, <1>2
    <3> QED
      BY <3>1, <2>1, <1>3
  <2>3. i + 1 \in 1..Len(q) /\ t[i] = q[i + 1]
    BY <2>1, <2>2, <1>1, <1>2
  <2> QED
    BY <2>1, <2>3, <1>4 DEF GateAt
<1> QED
  BY <1>5, <1>6 DEF t

\* Running the head leaves the gate where the queue would have left it, and where the
\* callback puts it if it was the last.
LEMMA RunHead ==
    ASSUME NEW q \in Seq(Handle), q # <<>>, NEW w \in Seq(Request),
           NEW open \in BOOLEAN, NEW now \in BOOLEAN,
           LeavesOpen(q, open),
           \/ Head(q) \notin Gate /\ now = open
           \/ Head(q) = "clear"
           \/ Head(q) = "set" /\ now = TRUE
    PROVE  LeavesOpen(Tail(q) \o w, now)
<1> DEFINE t == Tail(q) \o w
<1>1. /\ \A i \in GateAt(q) : i # 1 => i - 1 \in GateAt(t) /\ t[i - 1] = q[i]
      /\ \A i \in GateAt(t) : i + 1 \in GateAt(q)
  BY TailGates
<1>2. /\ Head(q) = q[1] /\ 1 \in DOMAIN q
      /\ \A i \in GateAt(q) : i \in Nat /\ i >= 1
  BY HeadTailProperties, LenProperties, EmptySeq DEF GateAt
<1>3. \A i \in GateAt(t) : i \in Nat /\ i >= 1
  BY TailGates DEF GateAt
<1> HIDE DEF t
<1>4. CASE GateAt(t) # {}
  <2>1. GateAt(q) # {}
    BY <1>1, <1>4
  <2>2. PICK i \in GateAt(q) : q[i] = "set" /\ \A j \in GateAt(q) : j <= i
    BY <2>1 DEF LeavesOpen
  <2>3. i # 1
    <3>1. PICK k \in GateAt(t) : TRUE
      BY <1>4
    <3>2. k + 1 <= i /\ k >= 1
      BY <3>1, <1>1, <1>3, <2>2
    <3> QED
      BY <3>2, <1>2, <1>3
  <2>4. i - 1 \in GateAt(t) /\ t[i - 1] = "set"
    BY <1>1, <2>2, <2>3
  <2>5. \A j \in GateAt(t) : j <= i - 1
    BY <1>1, <1>2, <1>3, <2>2
  <2> QED
    BY <2>4, <2>5, <1>4 DEF LeavesOpen, t
<1>5. CASE GateAt(t) = {}
  <2>1. now = TRUE
    <3>1. GateAt(q) \subseteq {1}
      BY <1>1, <1>5
    <3>2. CASE Head(q) \notin Gate
      <4>1. GateAt(q) = {}
        BY <3>1, <3>2, <1>2 DEF GateAt
      <4>2. open
        BY <4>1 DEF LeavesOpen
      <4> QED
        BY <4>2, <3>2 DEF Gate
    <3>3. CASE Head(q) \in Gate
      <4>1. 1 \in GateAt(q)
        BY <3>3, <1>2 DEF GateAt
      <4>2. q[1] = "set"
        BY <4>1, <3>1 DEF LeavesOpen
      <4> QED
        BY <4>2, <1>2, <3>3
    <3> QED
      BY <3>2, <3>3
  <2> QED
    BY <2>1, <1>5 DEF LeavesOpen, t
<1> QED
  BY <1>4, <1>5

-----------------------------------------------------------------------------
(***************************************************************************)
(* The types.                                                              *)
(***************************************************************************)
LEMMA TypedInit == AsyncInit => Typed
BY EmptySeq DEF AsyncInit, Typed, TaskState, Label

LEMMA ScheduleTyped ==
    ASSUME NEW h \in Handle, ready \in Seq(Handle), Schedule(h)
    PROVE  ready' \in Seq(Handle)
BY AppendProperties DEF Schedule

\* Awaiting the event queues the request, setting it schedules those queued.
LEMMA RunTyped ==
    ASSUME NEW h \in Handle, Typed, Run(h)
    PROVE  ready' \in Seq(Handle)
BY HeadTailProperties DEF Run, Runs, Typed

\* The notification at the head of the queue is half done.
LEMMA BecomesSignal ==
    ASSUME NEW q \in Seq(Handle), q # <<>>
    PROVE  /\ [q EXCEPT ![1] = "signal"] \in Seq(Handle)
           /\ DOMAIN [q EXCEPT ![1] = "signal"] = DOMAIN q
           /\ \A i \in DOMAIN q : [q EXCEPT ![1] = "signal"][i] = IF i = 1 THEN "signal" ELSE q[i]
<1>1. "signal" \in Handle /\ Len(q) \in Nat /\ q \in [1..Len(q) -> Handle]
  BY DEF Handle
<1>2. [q EXCEPT ![1] = "signal"] \in [1..Len(q) -> Handle]
  BY <1>1
<1> QED
  BY <1>1, <1>2

LEMMA TypedStep == ASSUME Typed, [AsyncNext]_asyncVars PROVE Typed'
<1> USE DEF Typed, TaskState, Label
<1> Request \subseteq Handle /\ {"clear", "set", "notify", "signal", "wait"} \subseteq Handle
  BY DEF Handle
<1>1. ASSUME NEW r \in Request, Arrive(r) PROVE Typed'
  BY <1>1, ScheduleTyped DEF Arrive, events
<1>2. ASSUME NEW r \in Request, Infer(r) PROVE Typed'
  BY <1>2, ScheduleTyped DEF Infer, events
<1>3. ASSUME NEW r \in Request, Fail(r) PROVE Typed'
  BY <1>3, RunTyped DEF Fail, events
<1>4. CASE NotifyArrives
  BY <1>4, ScheduleTyped DEF NotifyArrives, events
<1>5. CASE WaitArrives
  BY <1>5, ScheduleTyped DEF WaitArrives, events
<1>6. CASE WaitTimesOut
  BY <1>6 DEF WaitTimesOut, loop, events
<1>7. CASE RunWait
  BY <1>7, RunTyped DEF RunWait, events
<1>8. CASE WaitReturns
  BY <1>8 DEF WaitReturns, loop, events
<1>9. CASE RunClear
  BY <1>9, RunTyped DEF RunClear, events
<1>10. CASE RunSet
  <2>1. Tail(ready) \in Seq(Handle) /\ waiters \in Seq(Handle)
    BY <1>10, HeadTailProperties DEF RunSet, Runs
  <2>2. ready' \in Seq(Handle)
    BY <1>10, <2>1, ConcatProperties DEF RunSet
  <2> QED
    BY <1>10, <2>2 DEF RunSet, events
<1>11. CASE RunNotify
  <2>1. ready' \in Seq(Handle)
    BY <1>11, BecomesSignal DEF RunNotify, Runs
  <2> QED
    BY <1>11, <2>1 DEF RunNotify
<1>23. CASE RunSignal
  BY <1>23, RunTyped DEF RunSignal
<1>12. ASSUME NEW r \in Request, Admit(r) PROVE Typed'
  BY <1>12, RunTyped DEF Admit, events
<1>13. ASSUME NEW r \in Request, Await(r) PROVE Typed'
  <2>1. waiters' \in Seq(Request)
    BY <1>13, AppendProperties DEF Await
  <2> QED
    BY <1>13, <2>1, RunTyped DEF Await, events
<1>14. ASSUME NEW r \in Request, Finish(r) PROVE Typed'
  BY <1>14, RunTyped DEF Finish, events
<1>15. CASE AwaitSignal
  BY <1>15 DEF AwaitSignal, Goto, loop, events
<1>16. CASE CloseGate
  BY <1>16, ScheduleTyped DEF CloseGate, Goto, events
<1>17. CASE Drain
  BY <1>17 DEF Drain, Goto, loop, events
<1>18. CASE Load
  BY <1>18 DEF Load, Goto, loop, events
<1>19. CASE OpenGate
  BY <1>19, ScheduleTyped DEF OpenGate, Goto, events
<1>20. CASE ClearSignal
  BY <1>20 DEF ClearSignal, Goto, loop
<1>21. CASE SetDone
  BY <1>21 DEF SetDone, Goto, loop
<1>22. CASE UNCHANGED asyncVars
  BY <1>22 DEF asyncVars, loop, events
<1> QED
  BY <1>1, <1>2, <1>3, <1>4, <1>5, <1>6, <1>7, <1>8, <1>9, <1>10, <1>11, <1>12, <1>13,
     <1>14, <1>15, <1>16, <1>17, <1>18, <1>19, <1>20, <1>21, <1>22, <1>23
     DEF AsyncNext, EventLoop, Coroutine, UpdateWeights

-----------------------------------------------------------------------------
(***************************************************************************)
(* The count, and the wake-up of the updater that depends on it.           *)
(***************************************************************************)
LEMMA CountInit == AsyncInit => BlockedWhileInFlight
<1> SUFFICES ASSUME AsyncInit PROVE BlockedWhileInFlight
  OBVIOUS
<1>1. InFlight \cup Failed = {}
  BY DEF AsyncInit, InFlight, Failed
<1> QED
  BY <1>1, FS_EmptySet DEF AsyncInit, BlockedWhileInFlight

LEMMA CountedFinite ==
    /\ Counted \subseteq Request
    /\ IsFiniteSet(Counted)
    /\ Cardinality(Counted) \in 0..Cardinality(Request)
<1>1. Counted \subseteq Request
  BY DEF Counted, InFlight, Failed
<1> QED
  BY <1>1, FS_Subset, FS_CardinalityType, AsyncPolicyAssumption

\* A step that moves no request in or out of those counted, counts none and does not
\* put the updater to sleep.
LEMMA CountKept ==
    ASSUME BlockedWhileInFlight, Counted' = Counted, num_requests' = num_requests,
           pc' = "blocked" => pc = "blocked"
    PROVE  BlockedWhileInFlight'
BY DEF BlockedWhileInFlight, Counted

LEMMA CountStep == ASSUME Typed, BlockedWhileInFlight, [AsyncNext]_asyncVars PROVE BlockedWhileInFlight'
<1>1. ASSUME NEW r \in Request, Arrive(r) PROVE BlockedWhileInFlight'
  BY <1>1, CountKept DEF Arrive, Typed, Counted, InFlight, Failed
<1>2. ASSUME NEW r \in Request, Infer(r) PROVE BlockedWhileInFlight'
  BY <1>2, CountKept DEF Infer, Typed, Counted, InFlight, Failed
<1>3. ASSUME NEW r \in Request, Fail(r) PROVE BlockedWhileInFlight'
  BY <1>3, CountKept DEF Fail, Typed, Counted, InFlight, Failed
<1>4. ASSUME NEW r \in Request, Await(r) PROVE BlockedWhileInFlight'
  BY <1>4, CountKept DEF Await, Typed, Counted, InFlight, Failed
<1>5. ASSUME NEW r \in Request, Admit(r) PROVE BlockedWhileInFlight'
  <2>1. r \notin Counted /\ Counted' = Counted \cup {r}
    BY <1>5 DEF Admit, Typed, Counted, InFlight, Failed
  <2>2. Cardinality(Counted') = Cardinality(Counted) + 1
    BY <2>1, CountedFinite, FS_AddElement
  <2>3. num_requests' = num_requests + 1 /\ num_requests = Cardinality(Counted)
    BY <1>5 DEF Admit, BlockedWhileInFlight, Counted
  <2>4. num_requests' > 0
    BY <2>3, CountedFinite
  <2> QED
    BY <2>2, <2>3, <2>4 DEF BlockedWhileInFlight, Counted
<1>6. ASSUME NEW r \in Request, Finish(r) PROVE BlockedWhileInFlight'
  <2>1. r \in Counted /\ Counted' = Counted \ {r}
    BY <1>6 DEF Finish, Typed, Counted, InFlight, Failed
  <2>2. Cardinality(Counted') = Cardinality(Counted) - 1
    BY <2>1, CountedFinite, FS_RemoveElement
  <2>3. num_requests' = num_requests - 1 /\ num_requests = Cardinality(Counted)
    BY <1>6 DEF Finish, BlockedWhileInFlight, Counted
  <2>4. num_requests' >= 0
    <3>1. Counted # {}
      BY <2>1
    <3>2. Cardinality(Counted) # 0 /\ Cardinality(Counted) \in Nat
      BY <3>1, CountedFinite, FS_EmptySet, FS_CardinalityType
    <3> QED
      BY <3>2, <2>3
  <2>5. pc' = "blocked" => num_requests' # 0
    BY <1>6 DEF Finish
  <2> QED
    BY <2>2, <2>3, <2>4, <2>5, CountedFinite DEF BlockedWhileInFlight, Counted
<1>7. CASE NotifyArrives \/ WaitArrives \/ WaitTimesOut \/ RunWait \/ WaitReturns
             \/ RunClear \/ RunSet \/ RunNotify \/ RunSignal \/ UNCHANGED asyncVars
  BY <1>7, CountKept
     DEF NotifyArrives, WaitArrives, WaitTimesOut, RunWait, WaitReturns, RunClear,
         RunSet, RunNotify, RunSignal, asyncVars, loop, Counted, InFlight, Failed
<1>8. CASE AwaitSignal \/ CloseGate \/ Load \/ OpenGate \/ ClearSignal \/ SetDone
  BY <1>8, CountKept
     DEF AwaitSignal, CloseGate, Load, OpenGate, ClearSignal, SetDone, Goto, loop,
         Counted, InFlight, Failed
<1>9. CASE Drain
  BY <1>9 DEF Drain, Goto, loop, BlockedWhileInFlight, InFlight, Failed
<1> QED
  BY <1>1, <1>2, <1>3, <1>4, <1>5, <1>6, <1>7, <1>8, <1>9
     DEF AsyncNext, EventLoop, Coroutine, UpdateWeights

-----------------------------------------------------------------------------
(***************************************************************************)
(* Where the gate will be.                                                 *)
(***************************************************************************)
Outside == {"await", "close", "unsignal", "set_done"}

LEMMA GateSettles ==
    /\ GateSettlesOpen <=> (pc \in Outside => LeavesOpen(ready, accept))
    /\ GateSettlesOpen' <=> (pc' \in Outside => LeavesOpen(ready', accept'))
BY DEF GateSettlesOpen, GateCallback, Outside, LeavesOpen, GateAt, Gate

LEMMA GateInit == AsyncInit => GateSettlesOpen
BY EmptySeq DEF AsyncInit, GateSettlesOpen, GateCallback

\* A step outside the loop that schedules at most a coroutine or an engine call.
LEMMA GateSchedules ==
    ASSUME Typed, GateSettlesOpen, accept' = accept, pc' \in Outside => pc \in Outside,
           ready' = ready \/ \E h \in Handle \ Gate : Schedule(h)
    PROVE  GateSettlesOpen'
<1> SUFFICES ASSUME pc' \in Outside PROVE LeavesOpen(ready', accept')
  BY GateSettles
<1>1. LeavesOpen(ready, accept)
  BY GateSettles
<1> QED
  BY <1>1, AppendOther DEF Schedule, Typed

\* A step of the loop that runs a handle which is no gate callback.
LEMMA GateRuns ==
    ASSUME Typed, GateSettlesOpen, accept' = accept, pc' \in Outside => pc \in Outside,
           NEW h \in Handle \ Gate, Run(h)
    PROVE  GateSettlesOpen'
<1> SUFFICES ASSUME pc' \in Outside PROVE LeavesOpen(ready', accept')
  BY GateSettles
<1>1. LeavesOpen(ready, accept)
  BY GateSettles
<1>2. /\ ready \in Seq(Handle) /\ ready # <<>> /\ Head(ready) = h
      /\ Tail(ready) \in Seq(Handle) /\ ready' = Tail(ready)
  BY HeadTailProperties DEF Typed, Run, Runs
<1>3. <<>> \in Seq(Request) /\ Tail(ready) \o <<>> = Tail(ready)
  BY <1>2, EmptySeq, ConcatEmptySeq
<1>4. LeavesOpen(Tail(ready) \o <<>>, accept)
  BY <1>1, <1>2, <1>3, RunHead DEF Typed
<1> QED
  BY <1>2, <1>3, <1>4

LEMMA GateStep == ASSUME Typed, GateSettlesOpen, [AsyncNext]_asyncVars PROVE GateSettlesOpen'
<1>1. /\ Request \subseteq Handle \ Gate
      /\ "notify" \in Handle \ Gate /\ "wait" \in Handle \ Gate /\ "signal" \in Handle \ Gate
  BY AsyncPolicyAssumption DEF Handle, Gate
<1>2. ASSUME NEW r \in Request, Arrive(r) \/ Infer(r) PROVE GateSettlesOpen'
  BY <1>1, <1>2, GateSchedules DEF Arrive, Infer
<1>3. CASE NotifyArrives \/ WaitArrives \/ WaitTimesOut \/ WaitReturns
  BY <1>1, <1>3, GateSchedules DEF NotifyArrives, WaitArrives, WaitTimesOut, WaitReturns, loop
<1>4. ASSUME NEW r \in Request, Admit(r) \/ Await(r) \/ Fail(r) PROVE GateSettlesOpen'
  BY <1>1, <1>4, GateRuns DEF Admit, Await, Fail
<1>5. ASSUME NEW r \in Request, Finish(r) PROVE GateSettlesOpen'
  BY <1>1, <1>5, GateRuns DEF Finish, Outside
<1>6. CASE RunWait \/ RunSignal
  BY <1>1, <1>6, GateRuns DEF RunWait, RunSignal
<1>11. CASE RunNotify
  <2> DEFINE q == [ready EXCEPT ![1] = "signal"]
  <2>1. /\ ready' = q /\ ready \in Seq(Handle) /\ ready # <<>> /\ ready[1] = "notify"
        /\ UNCHANGED <<accept, pc>>
    BY <1>11, HeadTailProperties DEF RunNotify, Runs, Typed
  <2>2. DOMAIN q = DOMAIN ready /\ \A i \in DOMAIN ready : q[i] = IF i = 1 THEN "signal" ELSE ready[i]
    BY <2>1, BecomesSignal
  <2> HIDE DEF q
  <2>3. GateAt(q) = GateAt(ready) /\ \A i \in GateAt(ready) : q[i] = ready[i]
    BY <2>1, <2>2 DEF GateAt, Gate
  <2>4. LeavesOpen(q, accept) <=> LeavesOpen(ready, accept)
    BY <2>3 DEF LeavesOpen
  <2> QED
    BY <2>1, <2>4, GateSettles
<1>7. CASE RunClear \/ RunSet
  <2> DEFINE w == IF RunSet THEN waiters ELSE <<>>
  <2>1. w \in Seq(Request)
    BY EmptySeq DEF Typed
  <2>2. /\ ready \in Seq(Handle) /\ ready # <<>> /\ Tail(ready) \in Seq(Handle)
        /\ \/ Head(ready) = "clear" /\ accept' = FALSE
           \/ Head(ready) = "set" /\ accept' = TRUE
        /\ pc' = pc
    BY <1>7, HeadTailProperties DEF RunClear, RunSet, Run, Runs, Typed
  <2>3. ready' = Tail(ready) \o w
    BY <1>7, <2>2, ConcatEmptySeq DEF RunClear, RunSet, Run, Runs
  <2> SUFFICES ASSUME pc' \in Outside PROVE LeavesOpen(ready', accept')
    BY GateSettles
  <2>4. LeavesOpen(ready, accept)
    BY <2>2, GateSettles
  <2> HIDE DEF w
  <2> QED
    BY <2>1, <2>2, <2>3, <2>4, RunHead DEF Typed
<1>8. CASE AwaitSignal \/ Drain \/ Load \/ ClearSignal \/ SetDone \/ UNCHANGED asyncVars
  BY <1>8, GateSchedules
     DEF AwaitSignal, Drain, Load, ClearSignal, SetDone, Goto, loop, asyncVars, Outside
<1>9. CASE CloseGate
  BY <1>9 DEF CloseGate, Goto, GateSettlesOpen
<1>10. CASE OpenGate
  <2>1. LeavesOpen(ready', accept')
    BY <1>10, AppendSet DEF OpenGate, Schedule, Typed
  <2> QED
    BY <2>1, GateSettles
<1> QED
  BY <1>2, <1>3, <1>4, <1>5, <1>6, <1>7, <1>8, <1>9, <1>10, <1>11
     DEF AsyncNext, EventLoop, Coroutine, UpdateWeights

-----------------------------------------------------------------------------
LEMMA IInvInit == AsyncInit => IInv
BY TypedInit, CountInit, GateInit DEF IInv, UpdaterInStep

LEMMA IInvStep == IInv /\ [AsyncNext]_asyncVars => IInv'
BY TypedStep, CountStep, GateStep DEF IInv, UpdaterInStep

LEMMA IInvImplies == IInv => AsyncTypeOK /\ UpdaterInStep
<1>1. IInv => num_requests \in 0..Cardinality(Request)
  BY CountedFinite DEF IInv, UpdaterInStep, BlockedWhileInFlight, Counted
<1> QED
  BY <1>1 DEF IInv, Typed, AsyncTypeOK, Handle, Label

\* Every variable keeps its type; in particular the counter never leaves the range of
\* the actor's concurrency.
THEOREM AsyncTypeCorrect == AsyncSpec => []AsyncTypeOK
BY IInvInit, IInvStep, IInvImplies, PTL DEF AsyncSpec

\* The thread of update_weights() and the event loop never disagree: the counter it waits
\* on is the number of requests in flight or lost to an exception, it sleeps only while
\* one is counted, and its two callbacks leave the gate open outside its window.
THEOREM UpdaterStaysInStep == AsyncSpec => []UpdaterInStep
BY IInvInit, IInvStep, IInvImplies, PTL DEF AsyncSpec
=============================================================================
