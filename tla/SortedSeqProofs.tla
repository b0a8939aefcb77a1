--------------------------- MODULE SortedSeqProofs ---------------------------
(***************************************************************************)
(* What Sorted returns, for every finite set of naturals.                   *)
(***************************************************************************)
EXTENDS SortedSeqs, Integers, Sequences, FiniteSetTheorems, SequenceTheorems,
        TLAPS

(* Elements have different ranks, each below the size of the set.          *)
LEMMA RankProperties ==
    ASSUME NEW S \in SUBSET Nat, IsFiniteSet(S)
    PROVE  /\ Cardinality(S) \in Nat
           /\ \A i \in S : Rank(i, S) \in 0 .. Cardinality(S) - 1
           /\ \A i, j \in S : i < j => Rank(i, S) < Rank(j, S)
<1>1. Cardinality(S) \in Nat
  BY FS_CardinalityType
<1>2. ASSUME NEW i \in S
      PROVE  /\ IsFiniteSet({j \in S : j < i}) /\ Rank(i, S) \in Nat
             /\ Rank(i, S) < Cardinality(S)
  <2> DEFINE T == {j \in S : j < i}
  <2>1. T \in SUBSET S /\ i \notin T
    OBVIOUS
  <2>2. IsFiniteSet(T) /\ Cardinality(T) <= Cardinality(S)
        /\ (Cardinality(S) = Cardinality(T) => S = T)
    BY <2>1, FS_Subset
  <2>3. Cardinality(T) \in Nat
    BY <2>2, FS_CardinalityType
  <2>4. S # T
    BY <2>1
  <2> QED
    BY <1>1, <2>2, <2>3, <2>4 DEF Rank
<1>3. ASSUME NEW i \in S, NEW j \in S, i < j
      PROVE  Rank(i, S) < Rank(j, S)
  <2> DEFINE T == {k \in S : k < i}
             U == {k \in S : k < j}
  <2>1. T \in SUBSET U /\ i \in U /\ i \notin T
    <3>1. /\ i \in Nat /\ j \in Nat
          /\ \A k \in S : k \in Nat
      OBVIOUS
    <3>2. ~(i < i) /\ \A k \in S : k < i => k < j
      BY <1>3, <3>1
    <3> QED
      BY <1>3, <3>2
  <2>2. IsFiniteSet(U) /\ IsFiniteSet(T)
    BY <1>2
  <2>3. Cardinality(T) <= Cardinality(U) /\ (Cardinality(U) = Cardinality(T) => U = T)
    BY <2>1, <2>2, FS_Subset
  <2>4. Cardinality(T) \in Nat /\ Cardinality(U) \in Nat
    BY <2>2, FS_CardinalityType
  <2>5. U # T
    BY <2>1
  <2> QED
    BY <2>3, <2>4, <2>5 DEF Rank
<1>4. ASSUME NEW i \in S PROVE Rank(i, S) \in 0 .. Cardinality(S) - 1
  <2>1. Rank(i, S) \in Nat /\ Rank(i, S) < Cardinality(S)
    BY <1>2
  <2> QED
    BY <1>1, <2>1
<1> QED
  BY <1>1, <1>3, <1>4

(* Every rank below the size of the set is taken: as many ranks as          *)
(* elements, and no two elements share one.                                *)
LEMMA RankTaken ==
    ASSUME NEW S \in SUBSET Nat, IsFiniteSet(S),
           NEW n \in 1 .. Cardinality(S)
    PROVE  \E i \in S : Rank(i, S) = n - 1
<1> DEFINE N == Cardinality(S)
           f == [i \in S |-> Rank(i, S)]
<1>1. N \in Nat
  BY FS_CardinalityType
<1>2. IsFiniteSet(0 .. N - 1) /\ Cardinality(0 .. N - 1) = N
  <2>1. 0 \in Int /\ N - 1 \in Int
    BY <1>1
  <2>2. /\ IsFiniteSet(0 .. N - 1)
        /\ Cardinality(0 .. N - 1) = IF 0 > N - 1 THEN 0 ELSE (N - 1) - 0 + 1
    BY <2>1, FS_Interval
  <2> HIDE DEF N
  <2> QED
    BY <1>1, <2>2
<1>3. f \in [S -> 0 .. N - 1]
  BY RankProperties
<1>4. \A i, j \in S : f[i] = f[j] => i = j
  <2> SUFFICES ASSUME NEW i \in S, NEW j \in S, Rank(i, S) = Rank(j, S)
               PROVE  i = j
    OBVIOUS
  <2>1. ~(i < j) /\ ~(j < i)
    BY RankProperties
  <2> QED
    BY <2>1
<1>5. f \in Injection(S, 0 .. N - 1)
  BY <1>3, <1>4 DEF Injection, IsInjective
<1>6. f \in Surjection(S, 0 .. N - 1)
  BY <1>2, <1>5, FS_Injection
<1>7. n - 1 \in 0 .. N - 1
  BY <1>1
<1> QED
  BY <1>6, <1>7 DEF Surjection

LEMMA SortedProperties ==
    ASSUME NEW S \in SUBSET Nat, IsFiniteSet(S)
    PROVE  /\ Sorted(S) \in Seq(S)
           /\ Len(Sorted(S)) = Cardinality(S) /\ Cardinality(S) \in Nat
           /\ DOMAIN Sorted(S) = 1 .. Cardinality(S)
           /\ \A n \in 1 .. Cardinality(S) : Rank(Sorted(S)[n], S) = n - 1
           /\ \A m, n \in 1 .. Cardinality(S) :
                m < n <=> Sorted(S)[m] < Sorted(S)[n]
           /\ \A i \in S : /\ Rank(i, S) + 1 \in 1 .. Cardinality(S)
                           /\ Sorted(S)[Rank(i, S) + 1] = i
<1> DEFINE N == Cardinality(S)
           s == Sorted(S)
<1>1. N \in Nat
  BY FS_CardinalityType
<1>2. DOMAIN s = 1 .. N
  BY DEF Sorted
<1>3. \A n \in 1 .. N : s[n] \in S /\ Rank(s[n], S) = n - 1
  BY RankTaken DEF Sorted
<1>4. s \in Seq(S) /\ Len(s) = N
  <2>1. s \in [1 .. N -> S]
    BY <1>3 DEF Sorted
  <2> QED
    BY <1>1, <2>1, IsASeq
<1>5. \A i, j \in S : /\ i \in Nat /\ j \in Nat
                      /\ Rank(i, S) \in 0 .. N - 1 /\ Rank(j, S) \in 0 .. N - 1
                      /\ i < j <=> Rank(i, S) < Rank(j, S)
  <2> SUFFICES ASSUME NEW i \in S, NEW j \in S
               PROVE  /\ Rank(i, S) \in 0 .. N - 1 /\ Rank(j, S) \in 0 .. N - 1
                      /\ i < j <=> Rank(i, S) < Rank(j, S)
    OBVIOUS
  <2>1. Rank(i, S) \in 0 .. N - 1 /\ Rank(j, S) \in 0 .. N - 1
    BY RankProperties
  <2>2. (i < j => Rank(i, S) < Rank(j, S)) /\ (j < i => Rank(j, S) < Rank(i, S))
    BY RankProperties
  <2>3. i = j => Rank(i, S) = Rank(j, S)
    OBVIOUS
  <2>4. i \in Nat /\ j \in Nat
    OBVIOUS
  <2> HIDE DEF N
  <2> QED
    BY <1>1, <2>1, <2>2, <2>3, <2>4
<1> HIDE DEF N, s
<1>6. \A i \in S : Rank(i, S) + 1 \in 1 .. N /\ s[Rank(i, S) + 1] = i
  <2> SUFFICES ASSUME NEW i \in S
               PROVE  Rank(i, S) + 1 \in 1 .. N /\ s[Rank(i, S) + 1] = i
    OBVIOUS
  <2>1. Rank(i, S) \in 0 .. N - 1
    BY <1>5
  <2>2. Rank(i, S) + 1 \in 1 .. N /\ (Rank(i, S) + 1) - 1 = Rank(i, S)
    BY <1>1, <2>1
  <2> DEFINE j == s[Rank(i, S) + 1]
  <2>3. j \in S /\ Rank(j, S) = Rank(i, S)
    BY <1>3, <2>2
  <2> HIDE DEF j
  <2>4. i = j
    BY <1>1, <1>5, <2>1, <2>3
  <2> QED
    BY <2>2, <2>4 DEF j
<1>7. \A m, n \in 1 .. N : m < n <=> s[m] < s[n]
  <2> SUFFICES ASSUME NEW m \in 1 .. N, NEW n \in 1 .. N
               PROVE  m < n <=> s[m] < s[n]
    OBVIOUS
  <2>1. s[m] \in S /\ s[n] \in S /\ Rank(s[m], S) = m - 1 /\ Rank(s[n], S) = n - 1
    BY <1>3
  <2>2. s[m] < s[n] <=> Rank(s[m], S) < Rank(s[n], S)
    BY <1>5, <2>1
  <2> QED
    BY <1>1, <2>1, <2>2
<1> QED
  BY <1>1, <1>2, <1>3, <1>4, <1>6, <1>7 DEF N, s

LEMMA SortedEmpty ==
    /\ Sorted({}) = <<>>
    /\ \A S \in SUBSET Nat : IsFiniteSet(S) /\ Sorted(S) = <<>> => S = {}
<1>1. IsFiniteSet({}) /\ Cardinality({}) = 0
  BY FS_EmptySet
<1>2. Sorted({}) \in Seq({}) /\ Len(Sorted({})) = 0
  BY <1>1, SortedProperties
<1>3. ASSUME NEW S \in SUBSET Nat, IsFiniteSet(S), Sorted(S) = <<>>
      PROVE  S = {}
  <2>1. Len(Sorted(S)) = Cardinality(S)
    BY <1>3, SortedProperties
  <2>2. Len(<<>>) = 0
    BY EmptySeq
  <2> QED
    BY <1>3, <2>1, <2>2, FS_EmptySet
<1> QED
  BY <1>2, <1>3, EmptySeq

LEMMA DisjointUnion ==
    ASSUME NEW S, IsFiniteSet(S), NEW T, IsFiniteSet(T), S \cap T = {}
    PROVE  /\ IsFiniteSet(S \cup T)
           /\ Cardinality(S \cup T) = Cardinality(S) + Cardinality(T)
<1>1. /\ Cardinality(S) \in Nat /\ Cardinality(T) \in Nat
      /\ Cardinality(S \cap T) = 0
  BY FS_CardinalityType, FS_EmptySet
<1>2. /\ IsFiniteSet(S \cup T)
      /\ Cardinality(S \cup T)
           = Cardinality(S) + Cardinality(T) - Cardinality(S \cap T)
  BY FS_Union
<1> QED
  BY <1>1, <1>2

(* A set below another: the ranks of its elements stay, those of the other  *)
(* move up.                                                                *)
LEMMA RankInUnion ==
    ASSUME NEW S \in SUBSET Nat, IsFiniteSet(S),
           NEW T \in SUBSET Nat, IsFiniteSet(T),
           \A i \in S : \A j \in T : i < j
    PROVE  /\ IsFiniteSet(S \cup T)
           /\ Cardinality(S \cup T) = Cardinality(S) + Cardinality(T)
           /\ \A i \in S : Rank(i, S \cup T) = Rank(i, S)
           /\ \A i \in T : Rank(i, S \cup T) = Cardinality(S) + Rank(i, T)
<1>1. \A k \in S \cup T : k \in Nat
  OBVIOUS
<1>2. S \cap T = {}
  BY <1>1
<1>3. /\ IsFiniteSet(S \cup T)
      /\ Cardinality(S \cup T) = Cardinality(S) + Cardinality(T)
  BY <1>2, DisjointUnion
<1>4. ASSUME NEW i \in S
      PROVE  Rank(i, S \cup T) = Rank(i, S)
  <2>1. \A k \in T : ~(k < i)
    BY <1>1
  <2>2. {k \in S \cup T : k < i} = {k \in S : k < i}
    BY <2>1
  <2> QED
    BY <2>2 DEF Rank
<1>5. ASSUME NEW i \in T
      PROVE  Rank(i, S \cup T) = Cardinality(S) + Rank(i, T)
  <2> DEFINE U == {k \in T : k < i}
  <2>1. {k \in S \cup T : k < i} = S \cup U
    OBVIOUS
  <2>2. S \cap U = {} /\ U \in SUBSET T
    BY <1>2
  <2>3. IsFiniteSet(U)
    BY <2>2, FS_Subset
  <2> HIDE DEF U
  <2>4. Cardinality(S \cup U) = Cardinality(S) + Cardinality(U)
    BY <2>2, <2>3, DisjointUnion
  <2> QED
    BY <2>1, <2>4 DEF Rank, U
<1> QED
  BY <1>3, <1>4, <1>5

(* ... so the sequence of both is the one after the other.                 *)
LEMMA SortedConcat ==
    ASSUME NEW S \in SUBSET Nat, IsFiniteSet(S),
           NEW T \in SUBSET Nat, IsFiniteSet(T),
           \A i \in S : \A j \in T : i < j
    PROVE  Sorted(S \cup T) = Sorted(S) \o Sorted(T)
<1> DEFINE U == S \cup T
           c == Sorted(S) \o Sorted(T)
           M == Cardinality(S)
           N == Cardinality(T)
<1>1. /\ U \in SUBSET Nat /\ IsFiniteSet(U) /\ Cardinality(U) = M + N
      /\ M \in Nat /\ N \in Nat
  BY RankInUnion, FS_CardinalityType
<1>2. /\ Sorted(U) \in Seq(Nat) /\ Len(Sorted(U)) = M + N
      /\ \A i \in U : Sorted(U)[Rank(i, U) + 1] = i
  BY <1>1, SortedProperties, SeqMonotonic
<1>3. /\ Sorted(S) \in Seq(Nat) /\ Len(Sorted(S)) = M
      /\ \A n \in 1 .. M : Sorted(S)[n] \in S /\ Rank(Sorted(S)[n], S) = n - 1
  BY SortedProperties, ElementOfSeq, SeqMonotonic
<1>4. /\ Sorted(T) \in Seq(Nat) /\ Len(Sorted(T)) = N
      /\ \A n \in 1 .. N : Sorted(T)[n] \in T /\ Rank(Sorted(T)[n], T) = n - 1
  BY SortedProperties, ElementOfSeq, SeqMonotonic
<1> HIDE DEF U, M, N
<1>5. /\ c \in Seq(Nat) /\ Len(c) = M + N
      /\ \A n \in 1 .. M + N : c[n] = IF n <= M THEN Sorted(S)[n]
                                      ELSE Sorted(T)[n - M]
  BY <1>3, <1>4, ConcatProperties
<1> HIDE DEF c
<1>6. ASSUME NEW n \in 1 .. M + N
      PROVE  c[n] \in U /\ Rank(c[n], U) = n - 1
  <2>1. CASE n <= M
    <3>1. n \in 1 .. M /\ c[n] = Sorted(S)[n]
      BY <1>1, <1>5, <2>1
    <3>2. c[n] \in S /\ Rank(c[n], S) = n - 1
      BY <1>3, <3>1
    <3> QED
      BY <3>2, RankInUnion DEF U
  <2>2. CASE ~(n <= M)
    <3>1. n - M \in 1 .. N /\ c[n] = Sorted(T)[n - M]
      BY <1>1, <1>5, <2>2
    <3>2. c[n] \in T /\ Rank(c[n], T) = (n - M) - 1
      BY <1>4, <3>1
    <3>3. Rank(c[n], U) = M + Rank(c[n], T)
      BY <3>2, RankInUnion DEF U, M
    <3>4. Rank(c[n], U) = n - 1
      BY <1>1, <1>5, <3>2, <3>3
    <3> QED
      BY <3>2, <3>4 DEF U
  <2> QED
    BY <2>1, <2>2
<1>7. \A n \in 1 .. M + N : Sorted(U)[n] = c[n]
  <2> SUFFICES ASSUME NEW n \in 1 .. M + N
               PROVE  Sorted(U)[n] = c[n]
    OBVIOUS
  <2>1. Rank(c[n], U) + 1 = n
    BY <1>1, <1>6
  <2> QED
    BY <1>2, <1>6, <2>1
<1> QED
  BY <1>2, <1>5, <1>7, SeqEqual DEF U, c

=============================================================================
