----------------------------- MODULE Induction -----------------------------
(***************************************************************************)
(* Induction and recursion over the natural numbers, stated for sets and   *)
(* functions: the theorems of NaturalsInduction take operators, which the  *)
(* provers in use cannot instantiate.  And what follows of FlattenSeq,     *)
(* which is defined by recursion.                                          *)
(***************************************************************************)
EXTENDS Integers, SequencesExt, SequenceTheorems, WellFoundedInduction, TLAPS

(* A set of numbers that is not empty has a least element. *)
LEMMA LeastNat ==
  ASSUME NEW T, T \subseteq Nat, T # {}
  PROVE  \E n \in T : \A m \in T : n <= m
<1> DEFINE R == OpToRel(<, Nat)
<1>1. IsWellFoundedOn(R, Nat)
  BY NatLessThanWellFounded
<1>2. \E n \in T : \A m \in T : ~(<<m, n>> \in R)
  <2> HIDE DEF R
  <2> QED BY <1>1, WFMin
<1>3. \A m, n \in Nat : <<m, n>> \in R <=> m < n
  BY DEF OpToRel
<1> HIDE DEF R
<1>4. PICK n \in T : \A m \in T : ~(<<m, n>> \in R)
  BY <1>2
<1>5. ASSUME NEW m \in T PROVE n <= m
  <2>1. m \in Nat /\ n \in Nat
    OBVIOUS
  <2>2. ~(<<m, n>> \in R)
    BY <1>4
  <2> QED BY <1>3, <2>1, <2>2
<1> QED BY <1>5

(* A set that has 0 and the successor of each of its numbers has them all. *)
LEMMA SetInduction ==
  ASSUME NEW S, S \subseteq Nat, 0 \in S, \A n \in S : n + 1 \in S
  PROVE  \A n \in Nat : n \in S
<1> DEFINE T == Nat \ S
<1> SUFFICES ASSUME T # {} PROVE FALSE
  OBVIOUS
<1>1. T \subseteq Nat
  OBVIOUS
<1>2. PICK n \in T : \A m \in T : n <= m
  <2> HIDE DEF T
  <2> QED BY <1>1, LeastNat
<1>3. n # 0 /\ n - 1 \in Nat /\ n - 1 \in S
  BY <1>2
<1> QED BY <1>2, <1>3

(* A function can be defined by recursion on a number: it is a at 0, and G *)
(* computes each value from the one before.                                *)
StepFunctions(S) == [Nat \X S -> S]

IsRecursion(f, S, a, G) ==
  /\ f \in [Nat -> S]
  /\ f[0] = a /\ \A n \in Nat : f[n + 1] = G[<<n, f[n]>>]

LEMMA NatRecursion ==
  ASSUME NEW S, NEW a \in S, NEW G \in StepFunctions(S)
  PROVE  \E f : IsRecursion(f, S, a, G)
<1> DEFINE Upto(n) == {g \in [0 .. n -> S] :
                         g[0] = a /\ \A i \in 0 .. n - 1 : g[i + 1] = G[<<i, g[i]>>]}
<1>0. G \in [Nat \X S -> S]
  BY DEF StepFunctions
<1>1. \A n \in Nat : Upto(n) # {}
  <2> DEFINE P == {n \in Nat : Upto(n) # {}}
  <2>1. 0 \in P
    <3>1. [i \in 0 .. 0 |-> a] \in Upto(0)
      OBVIOUS
    <3> QED BY <3>1
  <2>2. ASSUME NEW n \in P PROVE n + 1 \in P
    <3>1. PICK g \in [0 .. n -> S] :
            g[0] = a /\ \A i \in 0 .. n - 1 : g[i + 1] = G[<<i, g[i]>>]
      OBVIOUS
    <3> DEFINE h == [i \in 0 .. n + 1 |-> IF i <= n THEN g[i] ELSE G[<<n, g[n]>>]]
    <3>2. g[n] \in S /\ G[<<n, g[n]>>] \in S
      BY <1>0
    <3>3. h \in [0 .. n + 1 -> S] /\ h[0] = a
      BY <3>1, <3>2
    <3>4. ASSUME NEW i \in 0 .. n PROVE h[i + 1] = G[<<i, h[i]>>]
      <4>0. n \in Nat /\ i \in Nat /\ i <= n
        OBVIOUS
      <4>1. CASE i = n
        <5>1. h[n + 1] = G[<<n, g[n]>>] /\ h[n] = g[n]
          BY <4>0
        <5> QED BY <4>1, <5>1
      <4>2. CASE i # n
        <5>1. i \in 0 .. n - 1 /\ i + 1 <= n /\ i + 1 \in 0 .. n + 1 /\ i \in 0 .. n + 1
          BY <4>0, <4>2
        <5>2. h[i + 1] = g[i + 1] /\ h[i] = g[i]
          BY <4>0, <5>1
        <5> HIDE DEF h
        <5> QED BY <3>1, <5>1, <5>2
      <4> QED BY <4>1, <4>2
    <3>5. h \in Upto(n + 1)
      <4>1. \A i \in 0 .. (n + 1) - 1 : h[i + 1] = G[<<i, h[i]>>]
        <5>1. (n + 1) - 1 = n
          OBVIOUS
        <5> HIDE DEF h
        <5> QED BY <3>4, <5>1
      <4> HIDE DEF h
      <4> QED BY <3>3, <4>1
    <3>6. n + 1 \in Nat
      OBVIOUS
    <3> HIDE DEF Upto, h
    <3> QED BY <3>5, <3>6
  <2>3. P \subseteq Nat
    OBVIOUS
  <2>4. \A n \in Nat : n \in P
    <3> HIDE DEF P
    <3> QED BY <2>1, <2>2, <2>3, SetInduction
  <2> HIDE DEF Upto
  <2> QED BY <2>4
<1>2. ASSUME NEW n \in Nat, NEW m \in Nat, n <= m, NEW g \in Upto(n), NEW h \in Upto(m)
      PROVE  \A i \in 0 .. n : g[i] = h[i]
  <2> DEFINE P == {i \in Nat : i <= n => g[i] = h[i]}
  <2>1. 0 \in P
    OBVIOUS
  <2>2. ASSUME NEW i \in P PROVE i + 1 \in P
    <3> SUFFICES ASSUME i + 1 <= n PROVE g[i + 1] = h[i + 1]
      OBVIOUS
    <3>1. g[i] = h[i] /\ i \in 0 .. n - 1 /\ i \in 0 .. m - 1
      BY <1>2
    <3> QED BY <3>1
  <2>3. P \subseteq Nat
    OBVIOUS
  <2>4. \A i \in Nat : i \in P
    <3> HIDE DEF P
    <3> QED BY <2>1, <2>2, <2>3, SetInduction
  <2> QED BY <2>4
<1> DEFINE upto(n) == CHOOSE g : g \in Upto(n)
<1>3. \A n \in Nat : upto(n) \in Upto(n)
  <2> HIDE DEF Upto
  <2> QED BY <1>1
<1> DEFINE f == [n \in Nat |-> upto(n)[n]]
<1> HIDE DEF upto
<1>4. \A n \in Nat : upto(n) \in [0 .. n -> S] /\ upto(n)[0] = a
                     /\ \A i \in 0 .. n - 1 : upto(n)[i + 1] = G[<<i, upto(n)[i]>>]
  BY <1>3
<1>5. f \in [Nat -> S]
  BY <1>4
<1>6. f[0] = a
  BY <1>4
<1>7. ASSUME NEW n \in Nat PROVE f[n + 1] = G[<<n, f[n]>>]
  <2>1. upto(n + 1)[n + 1] = G[<<n, upto(n + 1)[n]>>]
    BY <1>4
  <2>2. upto(n)[n] = upto(n + 1)[n]
    <3>1. upto(n) \in Upto(n) /\ upto(n + 1) \in Upto(n + 1) /\ n <= n + 1 /\ n + 1 \in Nat
          /\ n \in 0 .. n
      BY <1>3
    <3> HIDE DEF Upto
    <3> QED BY <1>2, <3>1
  <2> QED BY <2>1, <2>2
<1> QED
  <2> HIDE DEF f
  <2> QED BY <1>5, <1>6, <1>7 DEF IsRecursion
-----------------------------------------------------------------------------
(* FlattenSeq(ss) is what sums up to the length of ss: nothing at 0, and   *)
(* each element of ss behind the sum before it.                            *)
Sums(sums, ss, X) ==
  /\ sums \in [0 .. Len(ss) -> Seq(X)]
  /\ sums[0] = <<>>
  /\ \A i \in 1 .. Len(ss) : sums[i] = sums[i - 1] \o ss[i]

LEMMA SumsExist ==
  ASSUME NEW X, NEW ss \in Seq(Seq(X))
  PROVE  \E sums : Sums(sums, ss, X)
<1> DEFINE G == [p \in Nat \X Seq(X) |-> IF p[1] < Len(ss) THEN p[2] \o ss[p[1] + 1] ELSE p[2]]
<1>1. G \in StepFunctions(Seq(X))
  <2>1. ASSUME NEW n \in Nat, NEW q \in Seq(X), n < Len(ss) PROVE q \o ss[n + 1] \in Seq(X)
    <3>1. n + 1 \in 1 .. Len(ss)
      BY <2>1
    <3>2. ss[n + 1] \in Seq(X)
      BY <3>1
    <3> QED BY <3>2
  <2> QED BY <2>1 DEF StepFunctions
<1>2. PICK f : IsRecursion(f, Seq(X), <<>>, G)
  <2>1. <<>> \in Seq(X)
    BY EmptySeq
  <2> HIDE DEF G
  <2> QED BY <1>1, <2>1, NatRecursion
<1> DEFINE sums == [i \in 0 .. Len(ss) |-> f[i]]
<1>3. f \in [Nat -> Seq(X)] /\ f[0] = <<>> /\ \A n \in Nat : f[n + 1] = G[<<n, f[n]>>]
  BY <1>2 DEF IsRecursion
<1>4. ASSUME NEW i \in 1 .. Len(ss) PROVE f[i] = f[i - 1] \o ss[i]
  <2>1. i - 1 \in Nat /\ (i - 1) + 1 = i /\ i - 1 < Len(ss)
    OBVIOUS
  <2>2. f[i] = G[<<i - 1, f[i - 1]>>]
    BY <1>3, <2>1, ZenonT(90)
  <2>3. f[i - 1] \in Seq(X)
    BY <1>3, <2>1
  <2> QED BY <2>1, <2>2, <2>3
<1>5. \A i \in 0 .. Len(ss) : i \in Nat /\ sums[i] = f[i]
  OBVIOUS
<1>6. 0 \in 0 .. Len(ss) /\ \A i \in 1 .. Len(ss) : i \in 0 .. Len(ss) /\ i - 1 \in 0 .. Len(ss)
  OBVIOUS
<1>7. sums \in [0 .. Len(ss) -> Seq(X)]
  BY <1>3
<1> HIDE DEF sums
<1>8. Sums(sums, ss, X)
  BY <1>3, <1>4, <1>5, <1>6, <1>7 DEF Sums
<1> QED BY <1>8

LEMMA FlatIsSum ==
  ASSUME NEW X, NEW ss \in Seq(Seq(X)), NEW sums, Sums(sums, ss, X)
  PROVE  FlattenSeq(ss) = sums[Len(ss)]
<1>0. Len(ss) \in Nat /\ \A i \in 1 .. Len(ss) : ss[i] \in Seq(X)
  BY LenProperties, ElementOfSeq
<1>1. CASE Len(ss) = 0
  <2>1. ss = <<>>
    BY <1>1
  <2>2. FlattenSeq(ss) = ss
    BY <1>1 DEF FlattenSeq
  <2> QED BY <1>1, <2>1, <2>2 DEF Sums
<1>2. CASE Len(ss) # 0
  <2> DEFINE body(w) == [i \in 1 .. Len(ss) |-> IF i = 1 THEN ss[i] ELSE w[i - 1] \o ss[i]]
             flat == CHOOSE w : w = body(w)
             g == [i \in 1 .. Len(ss) |-> sums[i]]
  <2>1. FlattenSeq(ss) = flat[Len(ss)]
    BY <1>2 DEF FlattenSeq
  <2>2. sums[0] = <<>> /\ \A i \in 1 .. Len(ss) : sums[i] = sums[i - 1] \o ss[i]
    BY DEF Sums
  <2>3. g = body(g)
    <3>1. ASSUME NEW i \in 1 .. Len(ss) PROVE g[i] = IF i = 1 THEN ss[i] ELSE g[i - 1] \o ss[i]
      <4>1. CASE i = 1
        <5>1. sums[1] = sums[0] \o ss[1] /\ ss[1] \in Seq(X)
          <6>1. 1 \in 1 .. Len(ss) /\ 1 - 1 = 0
            BY <1>0, <1>2
          <6>2. sums[1] = sums[1 - 1] \o ss[1]
            BY <2>2, <6>1
          <6> QED BY <1>0, <6>1, <6>2
        <5>2. <<>> \o ss[1] = ss[1]
          BY <5>1, ConcatEmptySeq
        <5> QED BY <2>2, <4>1, <5>1, <5>2
      <4>2. CASE i # 1
        <5>1. i - 1 \in 1 .. Len(ss)
          BY <4>2
        <5> QED BY <2>2, <4>2, <5>1
      <4> QED BY <4>1, <4>2
    <3> QED BY <3>1
  <2>4. flat = body(flat)
    <3> HIDE DEF body, g
    <3>1. \E w : w = body(w)
      BY <2>3
    <3> QED BY <3>1, Zenon
  <2> HIDE DEF flat
  <2>5. \A i \in 1 .. Len(ss) : flat[i] = IF i = 1 THEN ss[i] ELSE flat[i - 1] \o ss[i]
    BY <2>4
  <2> DEFINE P == {k \in Nat : k + 1 <= Len(ss) => flat[k + 1] = sums[k + 1]}
  <2>6. 0 \in P
    <3>1. 1 \in 1 .. Len(ss) /\ 0 + 1 = 1 /\ 1 - 1 = 0
      BY <1>0, <1>2
    <3>2. flat[1] = ss[1] /\ sums[1] = sums[1 - 1] \o ss[1] /\ ss[1] \in Seq(X)
      BY <1>0, <2>2, <2>5, <3>1
    <3>3. <<>> \o ss[1] = ss[1]
      BY <3>2, ConcatEmptySeq
    <3> QED BY <2>2, <3>1, <3>2, <3>3
  <2>7. ASSUME NEW k \in P PROVE k + 1 \in P
    <3> SUFFICES ASSUME (k + 1) + 1 <= Len(ss) PROVE flat[(k + 1) + 1] = sums[(k + 1) + 1]
      OBVIOUS
    <3> DEFINE i == (k + 1) + 1
    <3>1. k \in Nat /\ flat[k + 1] = sums[k + 1]
      OBVIOUS
    <3>2. i \in 1 .. Len(ss) /\ i # 1 /\ i - 1 = k + 1
      BY <1>0, <3>1
    <3> HIDE DEF i, P
    <3>3. sums[i] = sums[i - 1] \o ss[i]
      BY <2>2, <3>2
    <3>4. flat[i] = flat[i - 1] \o ss[i]
      BY <2>5, <3>2
    <3>5. flat[i - 1] = sums[i - 1]
      BY <3>1, <3>2
    <3>6. flat[i] = sums[i]
      BY <3>3, <3>4, <3>5
    <3> QED BY <3>6 DEF i
  <2>8. P \subseteq Nat
    OBVIOUS
  <2>9. \A k \in Nat : k \in P
    <3> HIDE DEF P
    <3> QED BY <2>6, <2>7, <2>8, SetInduction
  <2>10. Len(ss) - 1 \in Nat /\ (Len(ss) - 1) + 1 = Len(ss)
    BY <1>0, <1>2
  <2>11. Len(ss) - 1 \in P
    <3> HIDE DEF P
    <3> QED BY <2>9, <2>10
  <2> QED BY <1>0, <2>1, <2>10, <2>11
<1> QED BY <1>1, <1>2

(* The flat sequence of a longer one, and of none. *)
LEMMA FlatAppend ==
  ASSUME NEW X, NEW ss \in Seq(Seq(X)), NEW q \in Seq(X)
  PROVE  /\ FlattenSeq(ss) \in Seq(X)
         /\ FlattenSeq(Append(ss, q)) = FlattenSeq(ss) \o q
         /\ FlattenSeq(<<>>) = <<>>
<1>1. PICK sums : Sums(sums, ss, X)
  BY SumsExist
<1> DEFINE tt == Append(ss, q)
           n == Len(ss)
           more == [i \in 0 .. n + 1 |-> IF i <= n THEN sums[i] ELSE sums[n] \o q]
<1>2. /\ tt \in Seq(Seq(X)) /\ Len(tt) = n + 1 /\ tt[n + 1] = q /\ n \in Nat
      /\ \A i \in 1 .. n : tt[i] = ss[i]
  OBVIOUS
<1>3. /\ sums \in [0 .. n -> Seq(X)] /\ sums[0] = <<>>
      /\ \A i \in 1 .. n : sums[i] = sums[i - 1] \o ss[i]
  BY <1>1 DEF Sums
<1>4. sums[n] \in Seq(X) /\ sums[n] \o q \in Seq(X)
  BY <1>2, <1>3
<1>5. FlattenSeq(ss) = sums[n]
  BY <1>1, FlatIsSum
<1>6. Sums(more, tt, X)
  <2>1. more \in [0 .. n + 1 -> Seq(X)] /\ more[0] = <<>>
    BY <1>2, <1>3, <1>4
  <2>2. ASSUME NEW i \in 1 .. n + 1 PROVE more[i] = more[i - 1] \o tt[i]
    <3>1. CASE i <= n
      <4>1. more[i] = sums[i] /\ more[i - 1] = sums[i - 1] /\ i \in 1 .. n
        BY <1>2, <3>1
      <4> HIDE DEF more, tt, n
      <4> QED BY <1>2, <1>3, <4>1
    <3>2. CASE ~(i <= n)
      <4>1. i = n + 1
        BY <1>2, <3>2
      <4>2. more[i] = sums[n] \o q /\ more[i - 1] = sums[n]
        BY <1>2, <4>1
      <4> HIDE DEF more, tt, n
      <4> QED BY <1>2, <4>1, <4>2
    <3> QED BY <3>1, <3>2
  <2> HIDE DEF more, tt, n
  <2> QED BY <1>2, <2>1, <2>2 DEF Sums
<1>7. FlattenSeq(tt) = more[n + 1]
  <2> HIDE DEF more, n, tt
  <2> QED BY <1>2, <1>6, FlatIsSum
<1>8. more[n + 1] = sums[n] \o q
  BY <1>2
<1>9. FlattenSeq(<<>>) = <<>>
  BY DEF FlattenSeq
<1> QED BY <1>4, <1>5, <1>7, <1>8, <1>9

LEMMA FlatConcat ==
  ASSUME NEW X, NEW ss \in Seq(Seq(X)), NEW tt \in Seq(Seq(X))
  PROVE  FlattenSeq(ss \o tt) = FlattenSeq(ss) \o FlattenSeq(tt)
<1> DEFINE first(k) == SubSeq(tt, 1, k)
           P == {k \in Nat : k <= Len(tt) =>
                   FlattenSeq(ss \o first(k)) = FlattenSeq(ss) \o FlattenSeq(first(k))}
<1>1. 0 \in P
  <2>1. first(0) = <<>> /\ ss \o <<>> = ss
    OBVIOUS
  <2>2. FlattenSeq(ss) \in Seq(X) /\ FlattenSeq(<<>>) = <<>>
    <3>1. <<>> \in Seq(X)
      OBVIOUS
    <3> QED BY <3>1, FlatAppend
  <2>3. FlattenSeq(ss) \o <<>> = FlattenSeq(ss)
    BY <2>2
  <2> QED BY <2>1, <2>2, <2>3
<1>2. ASSUME NEW k \in P PROVE k + 1 \in P
  <2> SUFFICES ASSUME k + 1 <= Len(tt)
      PROVE FlattenSeq(ss \o first(k + 1)) = FlattenSeq(ss) \o FlattenSeq(first(k + 1))
    OBVIOUS
  <2> DEFINE q == tt[k + 1]
  <2>1. /\ k \in Nat /\ q \in Seq(X) /\ first(k) \in Seq(Seq(X))
        /\ FlattenSeq(ss \o first(k)) = FlattenSeq(ss) \o FlattenSeq(first(k))
    BY SMTT(40)
  <2>2. first(k + 1) = Append(first(k), q)
    BY <2>1
  <2> HIDE DEF first, q, P
  <2>3. ss \o first(k + 1) = Append(ss \o first(k), q) /\ ss \o first(k) \in Seq(Seq(X))
    <3> DEFINE p == first(k)
    <3>1. p \in Seq(Seq(X)) /\ first(k + 1) = Append(p, q)
      BY <2>1, <2>2
    <3> HIDE DEF p
    <3> DEFINE Y == Seq(X)
    <3>2. ss \in Seq(Y) /\ p \in Seq(Y) /\ q \in Y
      BY <2>1, <3>1
    <3> HIDE DEF Y
    <3>3. ss \o Append(p, q) = Append(ss \o p, q) /\ ss \o p \in Seq(Y)
      BY <3>2
    <3>4. ss \o Append(p, q) = Append(ss \o p, q) /\ ss \o p \in Seq(Seq(X))
      BY <3>3 DEF Y
    <3> QED BY <3>1, <3>4 DEF p
  <2>4. /\ FlattenSeq(Append(ss \o first(k), q)) = FlattenSeq(ss \o first(k)) \o q
        /\ FlattenSeq(Append(first(k), q)) = FlattenSeq(first(k)) \o q
        /\ FlattenSeq(first(k)) \in Seq(X)
        /\ FlattenSeq(ss) \in Seq(X)
    BY <2>1, <2>3, FlatAppend
  <2>5. (FlattenSeq(ss) \o FlattenSeq(first(k))) \o q = FlattenSeq(ss) \o (FlattenSeq(first(k)) \o q)
    <3> DEFINE a == FlattenSeq(ss)
               b == FlattenSeq(first(k))
    <3>1. a \in Seq(X) /\ b \in Seq(X)
      BY <2>4
    <3> HIDE DEF a, b
    <3>2. q \in Seq(X)
      BY <2>1
    <3>3. (a \o b) \o q = a \o (b \o q)
      BY ONLY <3>1, <3>2, ConcatAssociative, SMTT(40)
    <3> QED BY <3>3 DEF a, b
  <2> QED BY <2>1, <2>2, <2>3, <2>4, <2>5
<1>3. P \subseteq Nat
  OBVIOUS
<1>4. \A k \in Nat : k \in P
  <2> HIDE DEF P
  <2> QED BY <1>1, <1>2, <1>3, SetInduction
<1>5. Len(tt) \in Nat /\ first(Len(tt)) = tt
  BY LenProperties, SubSeqFull
<1>6. Len(tt) \in P
  <2> HIDE DEF P
  <2> QED BY <1>4, <1>5
<1> HIDE DEF first
<1>7. FlattenSeq(ss \o first(Len(tt))) = FlattenSeq(ss) \o FlattenSeq(first(Len(tt)))
  BY <1>5, <1>6
<1> QED BY <1>5, <1>7

(* Each part is at most as long as the whole. *)
LEMMA FlatPart ==
  ASSUME NEW X, NEW ss \in Seq(Seq(X)), NEW i \in 1 .. Len(ss)
  PROVE  Len(ss[i]) <= Len(FlattenSeq(ss))
<1>1. PICK sums : Sums(sums, ss, X)
  BY SumsExist
<1> DEFINE n == Len(ss)
<1>2. /\ sums \in [0 .. n -> Seq(X)] /\ sums[0] = <<>> /\ n \in Nat
      /\ \A j \in 1 .. n : sums[j] = sums[j - 1] \o ss[j] /\ ss[j] \in Seq(X)
  BY <1>1, LenProperties, ElementOfSeq DEF Sums
<1> HIDE DEF n
<1>3. ASSUME NEW j \in 1 .. n
      PROVE  Len(ss[j]) <= Len(sums[j]) /\ Len(sums[j - 1]) <= Len(sums[j])
  <2>1. j - 1 \in 0 .. n
    BY <1>2
  <2>2. sums[j - 1] \in Seq(X) /\ ss[j] \in Seq(X) /\ sums[j] = sums[j - 1] \o ss[j]
    BY <1>2, <2>1
  <2>3. Len(sums[j]) = Len(sums[j - 1]) + Len(ss[j])
    BY <2>2, ConcatProperties
  <2>4. Len(sums[j - 1]) \in Nat /\ Len(ss[j]) \in Nat
    BY <2>2, LenProperties
  <2> DEFINE a == Len(sums[j])
             b == Len(sums[j - 1])
             c == Len(ss[j])
  <2>5. a = b + c /\ b \in Nat /\ c \in Nat
    BY <2>3, <2>4
  <2> HIDE DEF a, b, c
  <2>6. c <= a /\ b <= a
    BY <2>5
  <2> QED BY <2>6 DEF a, b, c
<1> DEFINE P == {k \in Nat : i + k <= n => Len(ss[i]) <= Len(sums[i + k])}
<1>4. i \in 1 .. n
  BY DEF n
<1>5. 0 \in P
  BY <1>3, <1>4
<1>6. ASSUME NEW k \in P PROVE k + 1 \in P
  <2> SUFFICES ASSUME i + (k + 1) <= n PROVE Len(ss[i]) <= Len(sums[i + (k + 1)])
    OBVIOUS
  <2>0. k \in Nat /\ (i + k <= n => Len(ss[i]) <= Len(sums[i + k]))
    OBVIOUS
  <2> HIDE DEF P
  <2>1. /\ i + (k + 1) \in 1 .. n /\ (i + (k + 1)) - 1 = i + k
        /\ Len(ss[i]) <= Len(sums[i + k])
        /\ i + k \in 0 .. n /\ i + (k + 1) \in 0 .. n
    BY <1>2, <1>4, <2>0
  <2>2. Len(sums[i + k]) <= Len(sums[i + (k + 1)])
    BY <1>3, <2>1
  <2>3. ss[i] \in Seq(X) /\ sums[i + k] \in Seq(X) /\ sums[i + (k + 1)] \in Seq(X)
    BY <1>2, <1>4, <2>1
  <2>4. Len(ss[i]) \in Nat /\ Len(sums[i + k]) \in Nat /\ Len(sums[i + (k + 1)]) \in Nat
    BY <2>3, LenProperties
  <2> QED BY <2>1, <2>2, <2>4, SMTT(40)
<1>7. P \subseteq Nat
  OBVIOUS
<1>8. \A k \in Nat : k \in P
  <2> HIDE DEF P
  <2> QED BY <1>5, <1>6, <1>7, SetInduction
<1>9. n - i \in Nat /\ i + (n - i) = n
  BY <1>2, <1>4
<1>11. n - i \in P
  <2> HIDE DEF P
  <2> QED BY <1>8, <1>9
<1>10. FlattenSeq(ss) = sums[n]
  BY <1>1, FlatIsSum DEF n
<1> QED BY <1>2, <1>9, <1>10, <1>11
=============================================================================
