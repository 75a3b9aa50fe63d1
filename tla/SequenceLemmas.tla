---------------------------- MODULE SequenceLemmas ----------------------------
(***************************************************************************)
(* Facts about the community modules' operators on numbers, sets and       *)
(* sequences that several components' proofs rest on. Induction is done on *)
(* a set of numbers, from the well-founded order of the finite sets.       *)
(***************************************************************************)
EXTENDS Integers, SequencesExt, FiniteSetsExt,
        FiniteSetTheorems, SequenceTheorems, WellFoundedInduction, TLAPS

\* Least-number principle, from the finite subsets' well-founded order
LEMMA LeastNumber ==
  ASSUME NEW B \in SUBSET Nat, B # {}
  PROVE  \E m \in B : \A k \in B : m <= k
<1> DEFINE T == {1..n : n \in B}
<1>1. \A n \in B : 1..n \in FiniteSubsetsOf(Nat)
  <2>1. ASSUME NEW n \in B PROVE IsFiniteSet(1..n) /\ 1..n \in SUBSET Nat
    <3>1. 1 \in Int /\ n \in Int
      OBVIOUS
    <3>2. QED
      BY <3>1, FS_Interval
  <2>2. QED
    BY <2>1 DEF FiniteSubsetsOf
<1>1a. T \subseteq FiniteSubsetsOf(Nat) /\ T # {}
  BY <1>1
<1>2. PICK x \in T : \A y \in T : <<y, x>> \notin StrictSubsetOrdering(Nat)
  BY <1>1a, FS_StrictSubsetOrderingWellFounded, WFMin
<1>3. PICK m \in B : x = 1..m
  BY <1>2
<1>4. ASSUME NEW k \in B, ~(m <= k) PROVE FALSE
  <2>1. k \in Nat /\ m \in Nat /\ k < m
    BY <1>4
  <2>2. 1..k \subseteq 1..m /\ 1..k # 1..m /\ 1..m \in SUBSET Nat
    BY <2>1
  <2>3. <<1..k, 1..m>> \in StrictSubsetOrdering(Nat)
    BY <2>2 DEF StrictSubsetOrdering
  <2>4. QED
    BY <1>2, <1>3, <2>3
<1>5. QED
  BY <1>4

LEMMA SetInduction ==
  ASSUME NEW B, 0 \in B, \A n \in Nat : n \in B => n + 1 \in B
  PROVE  Nat \subseteq B
<1> SUFFICES ASSUME Nat \ B # {} PROVE FALSE
  OBVIOUS
<1>1. PICK m \in Nat \ B : \A k \in Nat \ B : m <= k
  BY LeastNumber
<1>2. m # 0 /\ m - 1 \in Nat /\ ~(m <= m - 1)
  BY <1>1
<1>3. m - 1 \in B
  BY <1>1, <1>2
<1>4. QED
  BY <1>2, <1>3

LEMMA GreatestNumber ==
  ASSUME NEW k \in Nat, NEW S \in SUBSET (1..k), S # {}
  PROVE  Max(S) \in S /\ \A i \in S : i <= Max(S)
<1> DEFINE B == {k - i : i \in S}
<1>1. B \in SUBSET Nat /\ B # {}
  <2>1. \A i \in S : k - i \in Nat
    OBVIOUS
  <2>2. QED
    BY <2>1
<1>2. PICK m \in B : \A j \in B : m <= j
  BY <1>1, LeastNumber
<1>3. PICK i \in S : m = k - i
  BY <1>2
<1>4. \A j \in S : j <= i
  <2>1. ASSUME NEW j \in S PROVE j <= i
    <3>1. m <= k - j
      BY <1>2
    <3>2. QED
      BY <1>3, <3>1
  <2>2. QED
    BY <2>1
<1>5. \E x \in S : \A y \in S : x >= y
  BY <1>4
<1>6. Max(S) \in S /\ \A y \in S : Max(S) >= y
  BY <1>5 DEF Max
<1>7. QED
  BY <1>6

LEMMA LeastOf ==
  ASSUME NEW S \in SUBSET Nat, S # {}
  PROVE  Min(S) \in S /\ \A i \in S : Min(S) <= i
<1>1. \E x \in S : \A y \in S : x <= y
  BY LeastNumber
<1>2. QED
  BY <1>1 DEF Min

----------------------------------------------------------------------------
(* Sequences put end to end                                                *)

\* The function FlattenSeq is defined with
IsFlatten(f, n, ss) == f = [i \in 1..n |-> IF i = 1 THEN ss[i] ELSE f[i-1] \o ss[i]]

\* The elements of a concatenation
LEMMA Concatenated ==
  ASSUME NEW S, NEW a \in Seq(S), NEW b \in Seq(S)
  PROVE  /\ a \o b \in Seq(S) /\ Len(a \o b) = Len(a) + Len(b)
         /\ \A j \in 1 .. Len(a) : (a \o b)[j] = a[j]
         /\ \A j \in 1 .. Len(b) : (a \o b)[Len(a) + j] = b[j]
<1>1. /\ a \o b \in Seq(S) /\ Len(a \o b) = Len(a) + Len(b)
      /\ \A j \in 1 .. Len(a) + Len(b) :
           (a \o b)[j] = IF j <= Len(a) THEN a[j] ELSE b[j - Len(a)]
  BY ConcatProperties, Zenon
<1> DEFINE c == a \o b
<1> HIDE DEF c
<1>2. ASSUME NEW j \in 1 .. Len(b) PROVE c[Len(a) + j] = b[j]
  <2>1. Len(a) + j \in 1 .. Len(a) + Len(b) /\ ~(Len(a) + j <= Len(a)) /\ Len(a) + j - Len(a) = j
    OBVIOUS
  <2>2. c[Len(a) + j] = b[Len(a) + j - Len(a)]
    BY <1>1, <2>1 DEF c
  <2>3. QED
    BY <2>1, <2>2
<1>3. \A j \in 1 .. Len(a) : c[j] = a[j]
  <2>1. \A j \in 1 .. Len(a) : j \in 1 .. Len(a) + Len(b) /\ j <= Len(a)
    OBVIOUS
  <2>2. QED
    BY <1>1, <2>1 DEF c
<1>4. QED
  BY <1>1, <1>2, <1>3 DEF c

LEMMA FlattenExists ==
  ASSUME NEW ss
  PROVE  \A n \in Nat : \E f : IsFlatten(f, n, ss)
<1> DEFINE B == {n \in Nat : \E f : IsFlatten(f, n, ss)}
<1>1. 0 \in B
  <2>1. IsFlatten([i \in 1..0 |-> ss[i]], 0, ss)
    BY DEF IsFlatten
  <2>2. QED
    BY <2>1
<1>2. ASSUME NEW n \in Nat, n \in B PROVE n + 1 \in B
  <2>1. PICK f : IsFlatten(f, n, ss)
    BY <1>2
  <2> DEFINE g == [i \in 1..n+1 |-> IF i \in 1..n THEN f[i] ELSE IF i = 1 THEN ss[i] ELSE f[i-1] \o ss[i]]
  <2>2. \A i \in 1..n : f[i] = IF i = 1 THEN ss[i] ELSE f[i-1] \o ss[i]
    <3>1. f = [i \in 1..n |-> IF i = 1 THEN ss[i] ELSE f[i-1] \o ss[i]]
      BY <2>1 DEF IsFlatten
    <3>2. QED
      BY <3>1, Zenon
  <2>2a. \A i \in 1..n : g[i] = f[i]
    OBVIOUS
  <2>3. \A i \in 1..n+1 : g[i] = IF i = 1 THEN ss[i] ELSE g[i-1] \o ss[i]
    <3>1. \A i \in 1..n+1 : i # 1 => i - 1 \in 1..n
      OBVIOUS
    <3>2. \A i \in 1..n+1 : i \notin 1..n => g[i] = IF i = 1 THEN ss[i] ELSE f[i-1] \o ss[i]
      OBVIOUS
    <3>3. QED
      BY <2>2, <2>2a, <3>1, <3>2
  <2>4. g = [i \in 1..n+1 |-> IF i = 1 THEN ss[i] ELSE g[i-1] \o ss[i]]
    BY <2>3
  <2>5. IsFlatten(g, n + 1, ss)
    BY <2>4 DEF IsFlatten
  <2>6. QED
    BY <2>5
<1>3. QED
  BY <1>1, <1>2, SetInduction

LEMMA FlattenIs ==
  ASSUME NEW ss, Len(ss) \in Nat, Len(ss) # 0
  PROVE  \E f : IsFlatten(f, Len(ss), ss) /\ FlattenSeq(ss) = f[Len(ss)]
<1> DEFINE f == CHOOSE f : f = [i \in 1..Len(ss) |-> IF i = 1 THEN ss[i] ELSE f[i-1] \o ss[i]]
<1>1. FlattenSeq(ss) = f[Len(ss)]
  BY DEF FlattenSeq
<1>2. IsFlatten(f, Len(ss), ss)
  BY FlattenExists DEF IsFlatten
<1>3. QED
  BY <1>1, <1>2

\* The function depends on no element it has not come to, and its values are
\* sequences.
LEMMA FlattenPrefix ==
  ASSUME NEW X, NEW ss \in Seq(Seq(X)), NEW s,
         NEW f, IsFlatten(f, Len(ss), ss), NEW g, IsFlatten(g, Len(ss) + 1, Append(ss, s))
  PROVE  \A i \in 1..Len(ss) : f[i] \in Seq(X) /\ g[i] = f[i]
<1> DEFINE B == {i \in Nat : i \in 1..Len(ss) => f[i] \in Seq(X) /\ g[i] = f[i]}
<1>1. Len(ss) \in Nat /\ \A i \in 1..Len(ss) : ss[i] \in Seq(X) /\ Append(ss, s)[i] = ss[i]
  OBVIOUS
<1>2. \A i \in 1..Len(ss) : f[i] = IF i = 1 THEN ss[i] ELSE f[i-1] \o ss[i]
  <2>1. f = [i \in 1..Len(ss) |-> IF i = 1 THEN ss[i] ELSE f[i-1] \o ss[i]]
    BY DEF IsFlatten
  <2>2. QED
    BY <2>1, Zenon
<1>3. \A i \in 1..Len(ss)+1 : g[i] = IF i = 1 THEN Append(ss, s)[i] ELSE g[i-1] \o Append(ss, s)[i]
  <2>1. g = [i \in 1..Len(ss)+1 |-> IF i = 1 THEN Append(ss, s)[i] ELSE g[i-1] \o Append(ss, s)[i]]
    BY DEF IsFlatten
  <2>2. QED
    BY <2>1, Zenon
<1>4. \A i \in 1..Len(ss) : i \in 1..Len(ss)+1
  BY <1>1
<1>5. 0 \in B
  BY <1>1
<1>6. ASSUME NEW i \in Nat, i \in B PROVE i + 1 \in B
  <2> SUFFICES ASSUME i + 1 \in 1..Len(ss) PROVE f[i+1] \in Seq(X) /\ g[i+1] = f[i+1]
    OBVIOUS
  <2>1. f[i+1] = (IF i = 0 THEN ss[1] ELSE f[i] \o ss[i+1]) /\ g[i+1] = IF i = 0 THEN ss[1] ELSE g[i] \o ss[i+1]
    <3>1. (i + 1 = 1 <=> i = 0) /\ (i + 1) - 1 = i
      OBVIOUS
    <3>2. QED
      BY <1>1, <1>2, <1>3, <1>4, <3>1
  <2>2. CASE i = 0
    BY <1>1, <2>1, <2>2
  <2>3. CASE i # 0
    <3>1. f[i] \in Seq(X) /\ g[i] = f[i]
      BY <1>1, <1>6, <2>3
    <3>2. ss[i+1] \in Seq(X)
      BY <1>1
    <3>3. f[i] \o ss[i+1] \in Seq(X)
      BY <3>1, <3>2, ConcatProperties
    <3>4. QED
      BY <2>1, <2>3, <3>1, <3>3
  <2>4. QED
    BY <2>2, <2>3
<1>7. Nat \subseteq B
  <2> HIDE DEF B
  <2>1. QED
    BY <1>5, <1>6, SetInduction
<1>8. QED
  BY <1>1, <1>7

LEMMA FlattenEmpty == FlattenSeq(<<>>) = <<>>
BY DEF FlattenSeq

\* What FlattenSeq makes of one sequence more
LEMMA FlattenAppend ==
  ASSUME NEW X, NEW ss \in Seq(Seq(X)), NEW s \in Seq(X)
  PROVE  FlattenSeq(ss) \in Seq(X) /\ FlattenSeq(Append(ss, s)) = FlattenSeq(ss) \o s
<1> DEFINE n == Len(ss)
<1>1. n \in Nat /\ Len(Append(ss, s)) = n + 1 /\ Append(ss, s)[n+1] = s
  OBVIOUS
<1>2. PICK g : IsFlatten(g, n + 1, Append(ss, s)) /\ FlattenSeq(Append(ss, s)) = g[n+1]
  <2>1. Len(Append(ss, s)) \in Nat /\ Len(Append(ss, s)) # 0
    BY <1>1
  <2>2. \E g : /\ IsFlatten(g, Len(Append(ss, s)), Append(ss, s))
               /\ FlattenSeq(Append(ss, s)) = g[Len(Append(ss, s))]
    BY <2>1, FlattenIs, Zenon
  <2>3. QED
    BY <1>1, <2>2, Zenon
<1>3. g[n+1] = IF n = 0 THEN s ELSE g[n] \o s
  <2>1. g = [i \in 1..n+1 |-> IF i = 1 THEN Append(ss, s)[i] ELSE g[i-1] \o Append(ss, s)[i]]
    BY <1>2 DEF IsFlatten
  <2>2. n + 1 \in 1..n+1 /\ (n + 1 = 1 <=> n = 0) /\ (n + 1) - 1 = n
    BY <1>1
  <2>3. g[n+1] = IF n + 1 = 1 THEN Append(ss, s)[n+1] ELSE g[(n+1)-1] \o Append(ss, s)[n+1]
    BY <2>1, <2>2, Zenon
  <2>4. QED
    BY <1>1, <2>2, <2>3
<1>4. CASE n = 0
  <2>1. ss = <<>>
    BY <1>4
  <2>2. FlattenSeq(ss) = <<>>
    BY <2>1, FlattenEmpty
  <2>3. <<>> \o s = s /\ <<>> \in Seq(X)
    BY ConcatEmptySeq
  <2>4. QED
    BY <1>2, <1>3, <1>4, <2>2, <2>3
<1>5. CASE n # 0
  <2>1. PICK f : IsFlatten(f, n, ss) /\ FlattenSeq(ss) = f[n]
    BY <1>1, <1>5, FlattenIs
  <2>2. f[n] \in Seq(X) /\ g[n] = f[n]
    <3>1. n \in 1..n
      BY <1>1, <1>5
    <3>2. QED
      BY <1>2, <2>1, <3>1, FlattenPrefix
  <2>3. QED
    BY <1>2, <1>3, <1>5, <2>1, <2>2
<1>6. QED
  BY <1>4, <1>5

\* What is in one of the sequences is in all of them end to end, and nothing else.
LEMMA FlattenElements ==
  ASSUME NEW X, NEW ss \in Seq(Seq(X))
  PROVE  /\ FlattenSeq(ss) \in Seq(X)
         /\ \A x : x \in Range(FlattenSeq(ss)) <=> \E i \in 1..Len(ss) : x \in Range(ss[i])
<1> DEFINE n == Len(ss)
<1>1. n \in Nat /\ \A i \in 1..n : ss[i] \in Seq(X)
  OBVIOUS
<1>2. CASE n = 0
  <2>1. ss = <<>>
    BY <1>2
  <2>2. FlattenSeq(ss) = <<>> /\ 1..n = {}
    BY <1>2, <2>1, FlattenEmpty
  <2>3. <<>> \in Seq(X) /\ Range(<<>>) = {}
    BY DEF Range
  <2>4. QED
    BY <2>2, <2>3
<1>3. CASE n # 0
  <2>1. PICK f : IsFlatten(f, n, ss) /\ FlattenSeq(ss) = f[n]
    BY <1>1, <1>3, FlattenIs
  <2>2. \A i \in 1..n : f[i] = IF i = 1 THEN ss[i] ELSE f[i-1] \o ss[i]
    <3>1. f = [i \in 1..n |-> IF i = 1 THEN ss[i] ELSE f[i-1] \o ss[i]]
      BY <2>1 DEF IsFlatten
    <3>2. QED
      BY <3>1, Zenon
  <2> DEFINE Holds(i) == f[i] \in Seq(X) /\ \A x : x \in Range(f[i]) <=> \E j \in 1..i : x \in Range(ss[j])
             B == {i \in Nat : i \in 1..n => Holds(i)}
  <2>3. 0 \in B
    BY <1>1
  <2>4. ASSUME NEW i \in Nat, i \in B PROVE i + 1 \in B
    <3> SUFFICES ASSUME i + 1 \in 1..n PROVE Holds(i + 1)
      OBVIOUS
    <3>1. CASE i = 0
      <4>1. f[1] = ss[1] /\ 1 \in 1..n /\ 1..1 = {1}
        BY <1>1, <1>3, <2>2
      <4>2. Holds(1)
        <5>1. \A x : (\E j \in 1..1 : x \in Range(ss[j])) <=> x \in Range(ss[1])
          BY <4>1
        <5>2. f[1] \in Seq(X)
          BY <1>1, <4>1
        <5>3. QED
          BY <4>1, <5>1, <5>2, Zenon
      <4>3. i + 1 = 1
        BY <3>1
      <4> HIDE DEF Holds
      <4>4. QED
        BY <4>2, <4>3, Zenon
    <3>2. CASE i # 0
      <4>1. i \in 1..n /\ (i + 1) - 1 = i /\ i + 1 # 1
        BY <1>1, <2>4, <3>2
      <4>2. f[i+1] = f[i] \o ss[i+1]
        BY <2>2, <2>4, <4>1
      <4>3. Holds(i)
        BY <2>4, <4>1
      <4>4. PICK p \in Seq(X), q \in Seq(X) : p = f[i] /\ q = ss[i+1]
        BY <1>1, <2>4, <4>3
      <4>5. p \o q \in Seq(X) /\ Range(p \o q) = Range(p) \cup Range(q)
        BY RangeConcatenation, ConcatProperties
      <4>6. \A x : (\E j \in 1..i+1 : x \in Range(ss[j])) <=> (\E j \in 1..i : x \in Range(ss[j])) \/ x \in Range(ss[i+1])
        <5>1. 1..i+1 = (1..i) \cup {i+1}
          BY <4>1
        <5>2. QED
          BY <5>1
      <4>7. f[i+1] = p \o q
        BY <4>2, <4>4, Zenon
      <4>8. QED
        BY <4>3, <4>4, <4>5, <4>6, <4>7
    <3>3. QED
      BY <3>1, <3>2
  <2> HIDE DEF Holds
  <2>5. Nat \subseteq B
    <3> HIDE DEF B
    <3>1. QED
      BY <2>3, <2>4, SetInduction
  <2>6. Holds(n)
    BY <1>1, <1>3, <2>5
  <2>7. QED
    BY <2>1, <2>6 DEF Holds
<1>4. QED
  BY <1>2, <1>3

\* SetToSeq lists a finite set.
LEMMA SetToSeqElements ==
  ASSUME NEW S, IsFiniteSet(S)
  PROVE  SetToSeq(S) \in Seq(S) /\ Range(SetToSeq(S)) = S
<1> DEFINE n == Cardinality(S)
           f == SetToSeq(S)
<1>1. n \in Nat /\ ExistsBijection(1..n, S)
  BY FS_CardinalityType
<1>2. \E g \in [1..n -> S] : IsInjective(g)
  BY <1>1 DEF ExistsBijection, Bijection, Injection
<1>3. f \in [1..n -> S] /\ IsInjective(f)
  BY <1>2 DEF SetToSeq
<1> HIDE DEF f
<1>4. f \in Seq(S)
  BY <1>1, <1>3
<1>5. f \in Injection(1..n, S)
  BY <1>3 DEF Injection
<1>6. IsFiniteSet(1..n) /\ Cardinality(1..n) = n
  <2>1. 1 \in Int /\ n \in Int
    BY <1>1
  <2>2. QED
    BY <1>1, <2>1, FS_Interval
<1>7. f \in Surjection(1..n, S)
  BY <1>5, <1>6, FS_Injection
<1>8. Range(f) = S
  BY <1>3, <1>7 DEF Surjection, Range
<1>9. QED
  BY <1>4, <1>8 DEF f
=============================================================================
