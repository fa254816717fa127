------------------------- MODULE Subsequences_proofs -------------------------
(* What a filtered list holds, for every sequence and every set of positions, *)
(* and what a suffix is.                                                      *)
EXTENDS Subsequences, SequencesExt, FiniteSetTheorems, SequenceTheorems, TLAPS

\* Of the positions up to one there are as many as its rank; no two have the
\* same, and each number up to their count is the rank of one.
LEMMA Ranks ==
    ASSUME NEW n \in Nat, NEW positions \in SUBSET (1 .. n)
    PROVE  /\ IsFiniteSet(positions) /\ Cardinality(positions) \in Nat
           /\ \A i \in positions : Cardinality(positions \cap 1 .. i) \in 1 .. Cardinality(positions)
           /\ \A i, j \in positions :
                 i < j => Cardinality(positions \cap 1 .. i) < Cardinality(positions \cap 1 .. j)
           /\ \A m \in 1 .. Cardinality(positions) :
                 \E i \in positions : Cardinality(positions \cap 1 .. i) = m
<1> DEFINE rank(i) == Cardinality(positions \cap 1 .. i)
           count == Cardinality(positions)
<1>1. IsFiniteSet(positions) /\ count \in Nat
  <2>1. IsFiniteSet(1 .. n)
    BY FS_Interval
  <2> QED BY <2>1, FS_Subset, FS_CardinalityType
<1>2. \A i \in positions : /\ IsFiniteSet(positions \cap 1 .. i) /\ rank(i) \in Nat
                           /\ rank(i) <= count
  BY <1>1, FS_Subset, FS_CardinalityType
<1>3. ASSUME NEW i \in positions PROVE rank(i) \in 1 .. count
  <2>1. i \in positions \cap 1 .. i
    OBVIOUS
  <2>2. rank(i) # 0
    BY <1>2, <2>1, FS_EmptySet
  <2> QED BY <1>1, <1>2, <2>2
<1>4. ASSUME NEW i \in positions, NEW j \in positions, i < j PROVE rank(i) < rank(j)
  <2> DEFINE A == positions \cap 1 .. i
             B == positions \cap 1 .. j
  <2>1. A \subseteq B /\ j \in B /\ j \notin A
    BY <1>4
  <2>2. IsFiniteSet(B) /\ Cardinality(A) \in Nat /\ Cardinality(B) \in Nat
    BY <1>2
  <2>3. Cardinality(A) <= Cardinality(B) /\ (Cardinality(B) = Cardinality(A) => B = A)
    BY <2>1, <2>2, FS_Subset
  <2> QED BY <2>1, <2>2, <2>3
<1>5. ASSUME NEW m \in 1 .. count PROVE \E i \in positions : rank(i) = m
  <2> DEFINE f == [i \in positions |-> rank(i)]
  <2>1. \A i, j \in positions : f[i] = f[j] => i = j
    <3> SUFFICES ASSUME NEW i \in positions, NEW j \in positions, f[i] = f[j], i # j PROVE FALSE
      OBVIOUS
    <3>1. i < j \/ j < i
      OBVIOUS
    <3> QED BY <1>2, <1>4, <3>1
  <2>2. f \in [positions -> 1 .. count]
    BY <1>3
  <2> HIDE DEF f
  <2>3. f \in Injection(positions, 1 .. count)
    BY <2>1, <2>2 DEF Injection, IsInjective
  <2>4. IsFiniteSet(1 .. count) /\ Cardinality(1 .. count) = count
    BY <1>1, FS_Interval
  <2>5. f \in Surjection(positions, 1 .. count)
    BY <1>1, <2>3, <2>4, FS_Injection
  <2>6. PICK i \in positions : f[i] = m
    BY <2>5 DEF Surjection
  <2> QED BY <2>6 DEF f
<1> QED BY <1>1, <1>3, <1>4, <1>5

\* t is the elements of s at these positions and no others, in their order.
IsFiltered(t, s, positions) ==
    /\ Len(t) = Cardinality(positions)
    /\ \E nth \in [1 .. Len(t) -> positions] :
          /\ \A m \in 1 .. Len(t) : t[m] = s[nth[m]]
          /\ \A l, m \in 1 .. Len(t) : l < m => nth[l] < nth[m]
          /\ \A i \in positions : \E m \in 1 .. Len(t) : nth[m] = i

\* What a filter leaves of any sequence.
THEOREM Filtered ==
    ASSUME NEW S, NEW s \in Seq(S), NEW positions \in SUBSET DOMAIN s
    PROVE  /\ ElementsAt(s, positions) \in Seq(S)
           /\ IsFiltered(ElementsAt(s, positions), s, positions)
<1> DEFINE count == Cardinality(positions)
           rank(i) == Cardinality(positions \cap 1 .. i)
           pick(m) == CHOOSE i \in positions : rank(i) = m
           nth == [m \in 1 .. count |-> pick(m)]
<1>1. DOMAIN s = 1 .. Len(s) /\ Len(s) \in Nat /\ \A i \in DOMAIN s : s[i] \in S
  OBVIOUS
<1>2. /\ count \in Nat
      /\ \A i \in positions : rank(i) \in 1 .. count
      /\ \A i, j \in positions : i < j => rank(i) < rank(j)
      /\ \A m \in 1 .. count : \E i \in positions : rank(i) = m
  BY <1>1, Ranks
<1>3. ElementsAt(s, positions) = [m \in 1 .. count |-> s[pick(m)]]
  BY DEF ElementsAt
<1> HIDE DEF rank
<1>4. \A m \in 1 .. count : pick(m) \in positions /\ rank(pick(m)) = m
  BY <1>2
<1> HIDE DEF pick
<1>5. nth \in [1 .. count -> positions] /\ \A m \in 1 .. count : rank(nth[m]) = m /\ nth[m] = pick(m)
  BY <1>4
<1> HIDE DEF nth
<1>6. ElementsAt(s, positions) = [m \in 1 .. count |-> s[nth[m]]]
  BY <1>3, <1>5
<1>7. \A m \in 1 .. count : s[nth[m]] \in S
  BY <1>1, <1>5
<1> HIDE DEF count
<1>8. ElementsAt(s, positions) \in Seq(S) /\ Len(ElementsAt(s, positions)) = count
  BY <1>2, <1>6, <1>7
<1>9. \A l, m \in 1 .. count : l < m => nth[l] < nth[m]
  <2> SUFFICES ASSUME NEW l \in 1 .. count, NEW m \in 1 .. count, l < m, ~(nth[l] < nth[m]) PROVE FALSE
    OBVIOUS
  <2>1. nth[l] \in Int /\ nth[m] \in Int /\ l \in Int /\ m \in Int
    BY <1>1, <1>2, <1>5
  <2>2. nth[m] = nth[l] \/ nth[m] < nth[l]
    BY <2>1
  <2> QED BY <1>2, <1>5, <2>1, <2>2
<1>10. \A i \in positions : \E m \in 1 .. count : nth[m] = i
  <2> TAKE i \in positions
  <2>1. rank(i) \in 1 .. count /\ nth[rank(i)] \in positions /\ rank(nth[rank(i)]) = rank(i)
    BY <1>2, <1>5
  <2>2. nth[rank(i)] \in Int /\ i \in Int
    BY <1>1, <2>1
  <2>3. nth[rank(i)] = i
    <3>1. CASE nth[rank(i)] < i
      BY <1>2, <2>1, <3>1
    <3>2. CASE i < nth[rank(i)]
      BY <1>2, <2>1, <3>2
    <3> QED BY <2>2, <3>1, <3>2
  <2> QED BY <2>1, <2>3
<1> QED BY <1>5, <1>6, <1>8, <1>9, <1>10 DEF count, IsFiltered

\* An end of a sequence is a suffix of it.
LEMMA EndIsSuffix ==
    ASSUME NEW S, NEW before \in Seq(S), NEW s \in Seq(S)
    PROVE  IsSuffix(s, before \o s)
<1>. DEFINE t == before \o s
<1>1. /\ t \in Seq(S) /\ Len(t) = Len(before) + Len(s)
      /\ Len(before) \in Nat /\ Len(s) \in Nat
      /\ \A i \in 1 .. Len(before) + Len(s) :
            t[i] = IF i <= Len(before) THEN before[i] ELSE s[i - Len(before)]
  BY ConcatProperties
<1>. HIDE DEF t
<1>2. \A i \in 1 .. Len(s) : Len(t) - i + 1 \in 1 .. Len(t) /\ Len(t) - i + 1 > Len(before)
                             /\ Len(t) - i + 1 - Len(before) = Len(s) - i + 1
  BY <1>1
<1>3. ASSUME NEW i \in 1 .. Len(s) PROVE t[Len(t) - i + 1] = s[Len(s) - i + 1]
  <2>. DEFINE k == Len(t) - i + 1
  <2>1. k \in 1 .. Len(before) + Len(s) /\ ~(k <= Len(before)) /\ k - Len(before) = Len(s) - i + 1
    BY <1>1, <1>2
  <2>. HIDE DEF k
  <2>2. t[k] = s[k - Len(before)]
    BY <1>1, <2>1
  <2>3. t[k] = s[Len(s) - i + 1]
    BY <2>1, <2>2
  <2> QED BY <2>3 DEF k
<1>4. /\ Reverse(s) = [i \in 1 .. Len(s) |-> s[Len(s) - i + 1]]
      /\ Reverse(t) = [i \in 1 .. Len(t) |-> t[Len(t) - i + 1]]
  BY DEF Reverse
<1>5. /\ DOMAIN Reverse(s) = 1 .. Len(s) /\ DOMAIN Reverse(t) = 1 .. Len(t)
  BY <1>4
<1>6. Len(Reverse(s)) = Len(s) /\ Len(Reverse(t)) = Len(t)
  BY <1>1, <1>5
<1>7. Len(s) <= Len(t)
  BY <1>1
<1>8. \A i \in 1 .. Len(s) : Reverse(s)[i] = Reverse(t)[i]
  BY <1>1, <1>3, <1>4, <1>7
<1>9. SubSeq(Reverse(s), 1, Len(s)) = SubSeq(Reverse(t), 1, Len(s))
  <2>1. /\ SubSeq(Reverse(s), 1, Len(s)) = [i \in 1 .. Len(s) |-> Reverse(s)[i]]
        /\ SubSeq(Reverse(t), 1, Len(s)) = [i \in 1 .. Len(s) |-> Reverse(t)[i]]
    BY <1>1
  <2> QED BY <1>8, <2>1
<1> QED BY <1>6, <1>7, <1>9 DEF IsSuffix, IsPrefix, t
=============================================================================
