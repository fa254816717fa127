--------------------------- MODULE SmokeAudit_proofs ---------------------------
(***************************************************************************)
(* The audit file of refused smoke summaries, for any number of refusals,  *)
(* any lengths of their lines and any number of crashes.                   *)
(***************************************************************************)
EXTENDS SmokeAudit, Subsequences_proofs, WellFoundedInduction

PCs == {"new", "wait"} \cup Holding \cup Late \cup Settled

\* What the exclusion of the writers rests on: the lock is free or names the one
\* that is in the critical section.
LockInv ==
    /\ pc \in [Rejections -> PCs]
    /\ holder = { r \in Rejections : pc[r] \in Holding }
    /\ \A r, s \in holder : r = s

\* Nobody is in the critical section before the first rejection.
LEMMA LockInvInit == Init => LockInv
BY DEF Init, LockInv, PCs, Holding

\* Whoever moves without the lock stays outside, whoever lets go of it leaves.
LEMMA Leaves ==
    ASSUME LockInv, NEW r \in Rejections, NEW where \in PCs \ Holding,
           pc' = [pc EXCEPT ![r] = where], holder' = holder \ {r}
    PROVE  LockInv'
BY DEF LockInv

\* Whoever moves on inside it keeps the lock.
LEMMA Stays ==
    ASSUME LockInv, NEW r \in Rejections, pc[r] \in Holding, NEW where \in Holding,
           pc' = [pc EXCEPT ![r] = where], UNCHANGED holder
    PROVE  LockInv'
BY DEF LockInv, PCs

\* Every step keeps the lock with the writer.
LEMMA LockInvStep == LockInv /\ [Next]_vars => LockInv'
<1>. SUFFICES ASSUME LockInv, [Next]_vars PROVE LockInv'
  OBVIOUS
<1>. USE DEF GoTo
<1>1. ASSUME NEW r \in Rejections, Reject(r) PROVE LockInv'
  <2>1. r \notin holder
    BY <1>1 DEF Reject, LockInv, Holding
  <2>2. holder' = holder \ {r}
    BY <1>1, <2>1 DEF Reject
  <2> QED BY <1>1, <2>2, Leaves DEF Reject, PCs, Holding
<1>2. ASSUME NEW r \in Rejections, Lock(r) PROVE LockInv'
  BY <1>2 DEF Lock, LockInv, PCs, Holding
<1>3. ASSUME NEW r \in Rejections, Stat(r) PROVE LockInv'
  BY <1>3, Stays DEF Stat, Holding
<1>4. ASSUME NEW r \in Rejections, ReadAll(r) PROVE LockInv'
  BY <1>4, Stays DEF ReadAll, Holding
<1>5. ASSUME NEW r \in Rejections, AppendLine(r) PROVE LockInv'
  BY <1>5, Leaves DEF AppendLine, Return, PCs, Holding, Settled
<1>6. ASSUME NEW r \in Rejections, Truncate(r) PROVE LockInv'
  <2>1. CASE pc[r] = "truncate"
    BY <1>6, <2>1, Stays DEF Truncate, Holding, Late
  <2>2. CASE pc[r] = "late_truncate"
    <3>1. holder' = holder \ {r}
      BY <1>6, <2>2 DEF Truncate, LockInv, Holding
    <3> QED BY <1>6, <2>2, <3>1, Leaves DEF Truncate, PCs, Holding, Late
  <2> QED BY <1>6, <2>1, <2>2 DEF Truncate
<1>7. ASSUME NEW r \in Rejections, Fill(r) PROVE LockInv'
  BY <1>7, Leaves DEF Fill, Return, PCs, Holding, Settled
<1>8. ASSUME NEW r \in Rejections, Cancel(r) PROVE LockInv'
  <2>1. PICK where \in PCs \ Holding : pc' = [pc EXCEPT ![r] = where]
    <3>1. CASE GoTo(r, "gone")
      BY <3>1 DEF PCs, Holding, Settled
    <3>2. CASE pc[r] \in {"append", "truncate", "fill"} /\ GoTo(r, Outlives[pc[r]])
      <4>1. Outlives[pc[r]] \in Late
        BY <3>2 DEF Outlives, Late
      <4> QED BY <3>2, <4>1 DEF PCs, Holding, Late
    <3> QED BY <1>8, <3>1, <3>2 DEF Cancel
  <2> QED BY <1>8, <2>1, Leaves DEF Cancel
<1>9. CASE Crash
  <2>1. pc' \in [Rejections -> PCs]
    BY <1>9 DEF Crash, LockInv, PCs, Settled
  <2>2. \A r \in Rejections : pc'[r] \notin Holding
    BY <1>9 DEF Crash, LockInv, PCs, Holding
  <2> QED BY <1>9, <2>1, <2>2 DEF Crash, LockInv
<1>10. CASE UNCHANGED vars
  BY <1>10 DEF vars, LockInv
<1> QED BY <1>1, <1>2, <1>3, <1>4, <1>5, <1>6, <1>7, <1>8, <1>9, <1>10 DEF Next, Step, Write

\* Two refusals never write the file at once, however the ones before left the
\* lock: answered, cancelled at any await, or with the process.
THEOREM OneWriter == Spec => []WritersExclude
<1>1. LockInv => WritersExclude
  <2>. SUFFICES ASSUME LockInv PROVE Cardinality(holder) <= 1
    BY DEF LockInv, WritersExclude
  <2>1. CASE holder = {}
    BY <2>1, FS_EmptySet
  <2>2. CASE holder # {}
    <3>1. PICK r \in holder : holder = {r}
      BY <2>2 DEF LockInv
    <3> QED BY <3>1, FS_Singleton
  <2> QED BY <2>1, <2>2
<1> QED BY LockInvInit, LockInvStep, <1>1, PTL DEF Spec

-----------------------------------------------------------------------------
(* Torn tails.                                                             *)

\* Each crash leaves one torn tail at most, which the next line closes.
TornInv ==
    /\ IsFiniteSet(merged) /\ crashes \in Nat /\ open \in BOOLEAN
    /\ Cardinality(merged) <= crashes
    /\ open => Cardinality(merged) + 1 <= crashes

\* A line that lands closes the torn tail it lands on.
LEMMA Landing ==
    ASSUME TornInv, NEW r, Land(r), UNCHANGED crashes
    PROVE  TornInv'
<1>0. Cardinality(merged) \in Nat
  BY FS_CardinalityType DEF TornInv
<1>1. CASE open
  <2>1. merged' = merged \cup {r} /\ open' = FALSE
    BY <1>1 DEF Land
  <2>2. IsFiniteSet(merged') /\ Cardinality(merged') \in Nat
        /\ Cardinality(merged') <= Cardinality(merged) + 1
    BY <1>0, <2>1, FS_AddElement DEF TornInv
  <2>3. Cardinality(merged) + 1 <= crashes
    BY <1>1 DEF TornInv
  <2>4. Cardinality(merged') <= crashes /\ crashes \in Nat
    BY <1>0, <2>2, <2>3 DEF TornInv
  <2>5. ~open' /\ open' \in BOOLEAN
    BY <2>1
  <2> QED BY <2>2, <2>4, <2>5 DEF TornInv
<1>2. CASE ~open
  BY <1>0, <1>2 DEF Land, TornInv
<1> QED BY <1>1, <1>2

\* Every step keeps the count.
LEMMA TornInvStep == TornInv /\ [Next]_vars => TornInv'
<1>. SUFFICES ASSUME TornInv, [Next]_vars PROVE TornInv'
  OBVIOUS
<1>0. Cardinality(merged) \in Nat
  BY FS_CardinalityType DEF TornInv
<1>1. ASSUME NEW r \in Rejections, Reject(r) \/ Lock(r) \/ Stat(r) \/ ReadAll(r) \/ Cancel(r) PROVE TornInv'
  BY <1>1 DEF Reject, Lock, Stat, ReadAll, Cancel, TornInv
<1>2. ASSUME NEW r \in Rejections, AppendLine(r) PROVE TornInv'
  BY <1>2, Landing DEF AppendLine
<1>3. ASSUME NEW r \in Rejections, Truncate(r) PROVE TornInv'
  BY <1>0, <1>3 DEF Truncate, TornInv
<1>4. ASSUME NEW r \in Rejections, Fill(r) PROVE TornInv'
  <2>1. (open' = FALSE \/ open' = open) /\ UNCHANGED <<merged, crashes>>
    BY <1>4 DEF Fill
  <2>2. open' => open
    BY <2>1
  <2>3. open' \in BOOLEAN
    BY <2>1 DEF TornInv
  <2> QED BY <2>1, <2>2, <2>3 DEF TornInv
<1>5. CASE Crash
  <2>1. (open' = TRUE \/ open' = open) /\ UNCHANGED merged /\ crashes' = crashes + 1
    BY <1>5 DEF Crash
  <2>2. open' \in BOOLEAN
    BY <2>1 DEF TornInv
  <2>3. Cardinality(merged') + 1 <= crashes' /\ Cardinality(merged') <= crashes' /\ crashes' \in Nat
    BY <1>0, <2>1 DEF TornInv
  <2> QED BY <2>1, <2>2, <2>3 DEF TornInv
<1>6. CASE UNCHANGED vars
  BY <1>6 DEF vars, TornInv
<1> QED BY <1>1, <1>2, <1>3, <1>4, <1>5, <1>6 DEF Next, Step, Write

\* TornTailCostsOne for any number of refusals and crashes.
THEOREM TornTailsAreCounted == Spec => []TornTailCostsOne
<1>1. Init => TornInv
  <2>. SUFFICES ASSUME Init PROVE TornInv
    OBVIOUS
  <2>1. merged = {} /\ ~open /\ open \in BOOLEAN /\ crashes = 0
    BY DEF Init
  <2>2. IsFiniteSet(merged) /\ Cardinality(merged) = 0
    BY <2>1, FS_EmptySet
  <2> QED BY <2>1, <2>2 DEF TornInv
<1>2. TornInv => TornTailCostsOne
  <2>. SUFFICES ASSUME TornInv PROVE TornTailCostsOne
    OBVIOUS
  <2>1. Cardinality(merged) \in Nat
    BY FS_CardinalityType DEF TornInv
  <2> QED BY <2>1 DEF TornInv, TornTailCostsOne
<1> QED BY <1>1, <1>2, TornInvStep, PTL DEF Spec

-----------------------------------------------------------------------------
(* The bytes of a file.                                                    *)

Lines == Rejections \cup {Broken}

\* A set of numbers has a least one.
LEMMA Least ==
    ASSUME NEW T, T \subseteq Nat, T # {}
    PROVE  Min(T) \in T /\ \A y \in T : Min(T) <= y
<1>1. PICK x \in T : \A y \in T : <<y, x>> \notin OpToRel(<, Nat)
  BY WFMin, NatLessThanWellFounded, Zenon
<1>2. ASSUME NEW y \in T PROVE x <= y
  <2> SUFFICES ASSUME y < x PROVE FALSE
    OBVIOUS
  <2>1. <<y, x>> \in Nat \X Nat /\ <<y, x>>[1] = y /\ <<y, x>>[2] = x
    OBVIOUS
  <2>2. <<y, x>>[1] < <<y, x>>[2]
    BY <2>1
  <2>3. <<y, x>> \in OpToRel(<, Nat)
    BY <2>1, <2>2, Zenon DEF OpToRel
  <2> QED BY <1>1, <2>3
<1> QED BY <1>2 DEF Min

\* The running totals of the first m lines.
Adds(g, s, m) ==
    /\ g \in [0 .. m -> Nat] /\ g[0] = 0
    /\ \A k \in 1 .. m : g[k] = g[k - 1] + Bytes[s[k]]

\* Running totals exist for every file.
LEMMA TotalsExist ==
    ASSUME NEW s \in Seq(Lines), NEW m \in 0 .. Len(s)
    PROVE  \E g : Adds(g, s, m)
<1> DEFINE without == { k \in 0 .. Len(s) : \A g : ~Adds(g, s, k) }
<1> SUFFICES ASSUME without # {} PROVE FALSE
  OBVIOUS
<1>1. Len(s) \in Nat /\ \A k \in 1 .. Len(s) : Bytes[s[k]] \in Nat
  BY SmokeAuditConstants DEF Lines
<1>2. PICK k \in without : \A j \in without : k <= j
  <2>1. without \subseteq Nat /\ without # {}
    BY <1>1
  <2> HIDE DEF without
  <2> QED BY <2>1, Least
<1>3. CASE k = 0
  <2>1. Adds([j \in 0 .. 0 |-> 0], s, 0)
    BY DEF Adds
  <2> QED BY <1>2, <1>3, <2>1
<1>4. CASE k # 0
  <2>1. k \in 1 .. Len(s) /\ k - 1 \in 0 .. Len(s) /\ k - 1 \notin without
    BY <1>1, <1>2, <1>4, SMTT(30)
  <2>2. PICK g : Adds(g, s, k - 1)
    BY <2>1
  <2> DEFINE h == [j \in 0 .. k |-> IF j = k THEN g[k - 1] + Bytes[s[k]] ELSE g[j]]
  <2>3. g[k - 1] + Bytes[s[k]] \in Nat
    BY <1>1, <2>1, <2>2 DEF Adds
  <2>4. h \in [0 .. k -> Nat] /\ h[0] = 0
    BY <2>1, <2>2, <2>3 DEF Adds
  <2>5. \A j \in 1 .. k : h[j] = h[j - 1] + Bytes[s[j]]
    BY <2>1, <2>2 DEF Adds
  <2> HIDE DEF h
  <2>6. Adds(h, s, k)
    BY <2>4, <2>5 DEF Adds
  <2> QED BY <1>2, <2>6
<1> QED BY <1>3, <1>4

\* Length is the last of them.
LEMMA LengthAdds ==
    ASSUME NEW s \in Seq(Lines)
    PROVE  \E g : Adds(g, s, Len(s)) /\ Length(s) = g[Len(s)]
<1> DEFINE IsTotal(g) == g = [n \in 0 .. Len(s) |-> IF n = 0 THEN 0 ELSE g[n - 1] + Bytes[s[n]]]
           total == CHOOSE g : IsTotal(g)
<1>1. Len(s) \in Nat
  OBVIOUS
<1>2. PICK g : Adds(g, s, Len(s))
  BY <1>1, TotalsExist
<1>3. IsTotal(g)
  <2>1. \A n \in 0 .. Len(s) : g[n] = IF n = 0 THEN 0 ELSE g[n - 1] + Bytes[s[n]]
    BY <1>1, <1>2 DEF Adds
  <2>2. g = [n \in 0 .. Len(s) |-> g[n]]
    BY <1>2 DEF Adds
  <2> QED BY <2>1, <2>2
<1>4. Length(s) = total[Len(s)]
  BY DEF Length
<1> HIDE DEF IsTotal
<1>5. IsTotal(total)
  BY <1>3
<1> HIDE DEF total
<1>6. \A n \in 0 .. Len(s) : total[n] = IF n = 0 THEN 0 ELSE total[n - 1] + Bytes[s[n]]
  BY <1>5 DEF IsTotal
<1>7. ASSUME \E n \in 0 .. Len(s) : total[n] # g[n] PROVE FALSE
  <2> DEFINE differ == { n \in 0 .. Len(s) : total[n] # g[n] }
  <2>1. PICK n \in differ : \A j \in differ : n <= j
    <3>1. differ \subseteq Nat /\ differ # {}
      BY <1>1, <1>7
    <3> HIDE DEF differ
    <3> QED BY <3>1, Least
  <2>2. n # 0
    BY <1>1, <1>2, <1>6, <2>1 DEF Adds
  <2>3. n - 1 \in 0 .. Len(s) /\ n - 1 \notin differ /\ n \in 1 .. Len(s)
    BY <1>1, <2>1, <2>2
  <2>4. total[n - 1] = g[n - 1]
    BY <2>3
  <2>5. total[n] = g[n]
    BY <1>2, <1>6, <2>2, <2>3, <2>4 DEF Adds
  <2> QED BY <2>1, <2>5
<1>8. Length(s) = g[Len(s)]
  BY <1>1, <1>4, <1>7
<1> QED BY <1>2, <1>8

\* Running totals of files that agree are the same.
LEMMA TotalsAgree ==
    ASSUME NEW s, NEW t, NEW m \in Nat, NEW g, NEW h, Adds(g, s, m), Adds(h, t, m),
           \A k \in 1 .. m : s[k] = t[k]
    PROVE  g[m] = h[m]
<1> DEFINE differ == { n \in 0 .. m : g[n] # h[n] }
<1> SUFFICES ASSUME differ # {} PROVE FALSE
  OBVIOUS
<1>1. PICK n \in differ : \A j \in differ : n <= j
  <2>1. differ \subseteq Nat /\ differ # {}
    OBVIOUS
  <2> HIDE DEF differ
  <2> QED BY <2>1, Least
<1>2. n # 0
  BY <1>1 DEF Adds
<1>3. n - 1 \in 0 .. m /\ n - 1 \notin differ /\ n \in 1 .. m
  BY <1>1, <1>2
<1>4. g[n - 1] = h[n - 1]
  BY <1>3
<1>5. g[n] = h[n]
  BY <1>3, <1>4 DEF Adds
<1> QED BY <1>1, <1>5

\* A line adds its bytes; nothing has none.
LEMMA LengthOfAppend ==
    ASSUME NEW s \in Seq(Lines), NEW x \in Lines
    PROVE  /\ Length(s) \in Nat /\ Length(<<>>) = 0
           /\ Length(Append(s, x)) = Length(s) + Bytes[x]
<1> DEFINE t == Append(s, x)
<1>1. /\ t \in Seq(Lines) /\ Len(t) = Len(s) + 1 /\ Len(s) \in Nat
      /\ t[Len(t)] = x /\ \A k \in 1 .. Len(s) : t[k] = s[k]
  OBVIOUS
<1> HIDE DEF t
<1>2. PICK g : Adds(g, s, Len(s)) /\ Length(s) = g[Len(s)]
  BY LengthAdds
<1>3. PICK h : Adds(h, t, Len(t)) /\ Length(t) = h[Len(t)]
  BY <1>1, LengthAdds
<1> DEFINE i == [k \in 0 .. Len(s) |-> h[k]]
<1>4. Adds(i, t, Len(s)) /\ i[Len(s)] = h[Len(s)]
  BY <1>1, <1>3 DEF Adds
<1> HIDE DEF i
<1>5. g[Len(s)] = h[Len(s)]
  <2>0. \A k \in 1 .. Len(s) : s[k] = t[k]
    BY <1>1
  <2>1. g[Len(s)] = i[Len(s)]
    BY <1>1, <1>2, <1>4, <2>0, TotalsAgree, SMTT(30)
  <2> QED BY <1>4, <2>1
<1>6. h[Len(t)] = h[Len(s)] + Bytes[x]
  BY <1>1, <1>3 DEF Adds
<1>7. Length(s) \in Nat
  BY <1>1, <1>2 DEF Adds
<1>8. Length(<<>>) = 0
  <2>1. << >> \in Seq(Lines) /\ Len(<<>>) = 0
    OBVIOUS
  <2>2. PICK e : Adds(e, <<>>, 0) /\ Length(<<>>) = e[0]
    BY <2>1, LengthAdds
  <2> QED BY <2>2 DEF Adds
<1> QED BY <1>2, <1>3, <1>5, <1>6, <1>7, <1>8 DEF t

\* An empty file has no bytes.
LEMMA LengthOfNothing == Length(<<>>) = 0
<1>1. <<>> \in Seq(Lines) /\ Broken \in Lines
  BY DEF Lines
<1> QED BY <1>1, LengthOfAppend

\* A line appended to two files, one behind the other, is appended to the second.
LEMMA AppendOfConcat ==
    ASSUME NEW s \in Seq(Lines), NEW t \in Seq(Lines), NEW x \in Lines
    PROVE  Append(s \o t, x) = s \o Append(t, x)
<1>1. s \o t \in Seq(Lines) /\ <<x>> \in Seq(Lines)
  OBVIOUS
<1>2. Append(s \o t, x) = (s \o t) \o <<x>> /\ Append(t, x) = t \o <<x>>
  BY <1>1, AppendIsConcat
<1> QED BY <1>1, <1>2, ConcatAssociative

\* The bytes of two files, one behind the other, add up.
LEMMA LengthOfConcat ==
    ASSUME NEW s \in Seq(Lines), NEW t \in Seq(Lines)
    PROVE  Length(s \o t) = Length(s) + Length(t)
<1> DEFINE Bad(u) == Length(s \o u) # Length(s) + Length(u)
           sizes == { n \in Nat : \E u \in Seq(Lines) : Len(u) = n /\ Bad(u) }
<1> SUFFICES ASSUME Bad(t) PROVE FALSE
  OBVIOUS
<1>1. Len(t) \in sizes
  OBVIOUS
<1>2. PICK n \in sizes : \A j \in sizes : n <= j
  BY <1>1, Least
<1>3. PICK u \in Seq(Lines) : Len(u) = n /\ Bad(u)
  BY <1>2
<1>4. CASE u = <<>>
  <2>1. s \o u = s
    BY <1>4, ConcatEmptySeq
  <2>2. Length(u) = 0 /\ Length(s) \in Nat
    BY <1>4, LengthOfAppend DEF Lines
  <2> QED BY <1>3, <2>1, <2>2
<1>5. CASE u # <<>>
  <2>1. PICK v \in Seq(Lines), x \in Lines : u = Append(v, x)
    BY <1>5, SequenceEmptyOrAppend
  <2>2. Len(v) \in Nat /\ Len(v) < n
    BY <1>3, <2>1
  <2>3. ~Bad(v)
    BY <1>2, <2>2
  <2>4. s \o u = Append(s \o v, x) /\ s \o v \in Seq(Lines)
    BY <2>1, AppendOfConcat, SMTT(30)
  <2>5. /\ Length(s \o u) = Length(s \o v) + Bytes[x] /\ Length(u) = Length(v) + Bytes[x]
        /\ Length(s) \in Nat /\ Length(v) \in Nat /\ Length(s \o v) \in Nat
    BY <2>1, <2>4, LengthOfAppend
  <2>6. Bytes[x] \in Nat
    BY <2>1, SmokeAuditConstants DEF Lines
  <2> QED BY <1>3, <2>3, <2>5, <2>6
<1> QED BY <1>4, <1>5

-----------------------------------------------------------------------------
(* What a rotation keeps.                                                  *)

\* l is the end of w, and what w has before it did not fit beside it.
Newest(l, w) ==
    \E before \in Seq(Lines) :
        /\ w = before \o l
        /\ before # <<>> => Length(l) + Bytes[before[Len(before)]] > Target

Capped(l) == Length(l) <= Cap \/ Len(l) = 1

\* An end of a file, its first line apart.
LEMMA LengthOfEnd ==
    ASSUME NEW s \in Seq(Lines), NEW m \in 1 .. Len(s) + 1
    PROVE  /\ SubSeq(s, m, Len(s)) \in Seq(Lines)
           /\ m <= Len(s) => Length(SubSeq(s, m, Len(s))) = Bytes[s[m]] + Length(SubSeq(s, m + 1, Len(s)))
<1>1. Len(s) \in Nat /\ \A i \in 1 .. Len(s) : s[i] \in Lines
  OBVIOUS
<1>2. \A k \in 1 .. Len(s) + 1 : SubSeq(s, k, Len(s)) \in Seq(Lines)
  BY <1>1, SubSeqProperties
<1>3. ASSUME m <= Len(s)
      PROVE  Length(SubSeq(s, m, Len(s))) = Bytes[s[m]] + Length(SubSeq(s, m + 1, Len(s)))
  <2>1. m \in 1 .. Len(s) /\ m + 1 \in 1 .. Len(s) + 1 /\ Len(s) \in m .. Len(s)
    BY <1>1, <1>3
  <2>2. SubSeq(s, m, Len(s)) = <<s[m]>> \o SubSeq(s, m + 1, Len(s))
    BY <2>1, SubSeqRecursiveFirst
  <2>3. <<s[m]>> = Append(<<>>, s[m]) /\ <<>> \in Seq(Lines) /\ s[m] \in Lines /\ <<s[m]>> \in Seq(Lines)
    BY <1>1, <2>1
  <2>4. Length(<<s[m]>>) = Bytes[s[m]]
    <3>1. Length(Append(<<>>, s[m])) = Length(<<>>) + Bytes[s[m]] /\ Length(<<>>) = 0
      BY <2>3, LengthOfAppend
    <3>2. Bytes[s[m]] \in Nat
      BY <2>3, SmokeAuditConstants DEF Lines
    <3> QED BY <2>3, <3>1, <3>2
  <2>5. SubSeq(s, m + 1, Len(s)) \in Seq(Lines)
    BY <1>2, <2>1
  <2> QED BY <2>2, <2>3, <2>4, <2>5, LengthOfConcat
<1> QED BY <1>2, <1>3

\* Only an empty file has no bytes.
LEMMA EmptyOrLong ==
    ASSUME NEW s \in Seq(Lines), Length(s) <= 0
    PROVE  s = <<>>
<1> SUFFICES ASSUME s # <<>> PROVE FALSE
  OBVIOUS
<1>1. PICK t \in Seq(Lines), x \in Lines : s = Append(t, x)
  BY SequenceEmptyOrAppend
<1>2. Length(s) = Length(t) + Bytes[x] /\ Length(t) \in Nat /\ Bytes[x] \in Nat \ {0}
  BY <1>1, LengthOfAppend, SmokeAuditConstants DEF Lines
<1> QED BY <1>2

\* A rotation drops the oldest lines and none that would have fitted; with the
\* new line the file is within the cap, unless that line is alone in it.
LEMMA KeptIs ==
    ASSUME NEW s \in Seq(Lines), NEW r \in Rejections
    PROVE  /\ Kept(s, r) \in Seq(Lines)
           /\ Capped(Append(Kept(s, r), r))
           /\ \E dropped \in Seq(Lines) :
                 /\ s = dropped \o Kept(s, r)
                 /\ dropped # <<>> =>
                       Length(Append(Kept(s, r), r)) + Bytes[dropped[Len(dropped)]] > Target
<1> DEFINE room == IF Target > Bytes[r] THEN Target ELSE Bytes[r]
           fits == { n \in 1 .. Len(s) + 1 : Bytes[r] + Length(SubSeq(s, n, Len(s))) <= room }
           m == Min(fits)
           k == SubSeq(s, m, Len(s))
<1>1. Len(s) \in Nat /\ \A i \in 1 .. Len(s) : s[i] \in Lines /\ Bytes[s[i]] \in Nat
  BY SmokeAuditConstants DEF Lines
<1>2. r \in Lines /\ Bytes[r] \in Nat /\ Target \in Nat /\ Cap \in Nat /\ Target <= Cap
      /\ room \in Nat /\ Target <= room /\ Bytes[r] <= room /\ (room <= Cap \/ room = Bytes[r])
  BY SmokeAuditConstants DEF Lines
<1> HIDE DEF room
<1>3. fits \subseteq Nat /\ fits # {}
  <2>1. SubSeq(s, Len(s) + 1, Len(s)) = <<>>
    BY <1>1, SubSeqEmpty
  <2>2. Length(<<>>) = 0
    BY <1>2, LengthOfAppend
  <2>3. Bytes[r] + Length(SubSeq(s, Len(s) + 1, Len(s))) <= room
    <3>1. Length(SubSeq(s, Len(s) + 1, Len(s))) = 0
      BY <2>1, <2>2, Zenon
    <3>2. Bytes[r] + 0 <= room
      BY <1>2
    <3> QED BY <3>1, <3>2
  <2>4. Len(s) + 1 \in 1 .. Len(s) + 1
    BY <1>1
  <2>5. Len(s) + 1 \in fits
    BY <2>3, <2>4
  <2> QED BY <2>5
<1>4. m \in fits /\ \A n \in fits : m <= n
  <2> HIDE DEF fits
  <2> QED BY <1>3, Least
<1>5. Kept(s, r) = k
  BY DEF Kept, room
<1> HIDE DEF m
<1>6. m \in 1 .. Len(s) + 1 /\ Bytes[r] + Length(k) <= room /\ k \in Seq(Lines)
  BY <1>4, LengthOfEnd
<1>7. Length(k) \in Nat /\ Length(Append(k, r)) = Length(k) + Bytes[r]
  BY <1>2, <1>6, LengthOfAppend
<1>8. Capped(Append(k, r))
  <2>1. CASE room <= Cap
    BY <1>2, <1>6, <1>7, <2>1 DEF Capped
  <2>2. CASE room = Bytes[r]
    <3>1. Length(k) <= 0
      BY <1>2, <1>6, <1>7, <2>2
    <3>2. k = <<>>
      BY <1>6, <3>1, EmptyOrLong
    <3>3. Len(Append(k, r)) = 1
      BY <3>2
    <3> QED BY <3>3 DEF Capped
  <2> QED BY <1>2, <2>1, <2>2
<1> DEFINE dropped == SubSeq(s, 1, m - 1)
<1>9. dropped \in Seq(Lines) /\ s = dropped \o k
  <2>1. m - 1 \in 0 .. Len(s) /\ \A i \in 1 .. m - 1 : s[i] \in Lines
    BY <1>1, <1>6
  <2>2. dropped \in Seq(Lines)
    BY <2>1, SubSeqProperties
  <2>3. 1 \in 1 .. Len(s) + 1 /\ m - 1 \in 1 - 1 .. Len(s) /\ Len(s) \in m - 1 .. Len(s) /\ (m - 1) + 1 = m
    BY <1>1, <1>6
  <2>4. SubSeq(s, 1, m - 1) \o SubSeq(s, (m - 1) + 1, Len(s)) = SubSeq(s, 1, Len(s))
    BY <2>3, ConcatAdjacentSubSeq
  <2>5. SubSeq(s, 1, Len(s)) = s
    BY SubSeqFull
  <2> QED BY <2>2, <2>3, <2>4, <2>5
<1>10. ASSUME dropped # <<>>
       PROVE  Length(Append(k, r)) + Bytes[dropped[Len(dropped)]] > Target
  <2>1. m # 1
    <3>1. m = 1 => dropped = <<>>
      BY SubSeqEmpty
    <3> QED BY <1>10, <3>1
  <2>2. m - 1 \in 1 .. Len(s) /\ m - 1 \in 1 .. Len(s) + 1 /\ m - 1 <= Len(s) /\ (m - 1) + 1 = m
    BY <1>1, <1>6, <2>1
  <2>3. m - 1 \notin fits
    BY <1>4, <2>2
  <2>4. ~(Bytes[r] + Length(SubSeq(s, m - 1, Len(s))) <= room)
    BY <2>2, <2>3
  <2>5. Length(SubSeq(s, m - 1, Len(s))) = Bytes[s[m - 1]] + Length(k)
    BY <2>2, LengthOfEnd
  <2>6. Len(dropped) = m - 1 /\ dropped[m - 1] = s[m - 1]
    BY <1>1, <2>2
  <2>7. Bytes[s[m - 1]] \in Nat
    BY <1>1, <2>2
  <2> HIDE DEF dropped, k
  <2> QED BY <1>2, <1>7, <2>4, <2>5, <2>6, <2>7
<1> HIDE DEF dropped, k
<1> QED BY <1>5, <1>6, <1>8, <1>9, <1>10

\* A line that is appended to the newest makes the newest of one record more.
LEMMA NewestAppended ==
    ASSUME NEW l \in Seq(Lines), NEW w, NEW r \in Rejections, Newest(l, w)
    PROVE  Newest(Append(l, r), Append(w, r))
<1>1. PICK before \in Seq(Lines) :
          /\ w = before \o l
          /\ before # <<>> => Length(l) + Bytes[before[Len(before)]] > Target
  BY DEF Newest
<1>2. r \in Lines
  BY DEF Lines
<1>3. Append(w, r) = before \o Append(l, r)
  BY <1>1, <1>2, AppendOfConcat
<1>4. ASSUME before # <<>> PROVE Length(Append(l, r)) + Bytes[before[Len(before)]] > Target
  <2>1. Length(Append(l, r)) = Length(l) + Bytes[r] /\ Length(l) \in Nat
    BY <1>2, LengthOfAppend
  <2>2. before[Len(before)] \in Lines
    BY <1>4
  <2>3. Bytes[r] \in Nat /\ Bytes[before[Len(before)]] \in Nat /\ Target \in Nat
    BY <1>2, <2>2, SmokeAuditConstants DEF Lines
  <2> QED BY <1>1, <1>4, <2>1, <2>3
<1> QED BY <1>1, <1>3, <1>4 DEF Newest

\* So does a rotation.
LEMMA NewestKept ==
    ASSUME NEW l \in Seq(Lines), NEW w, NEW r \in Rejections, Newest(l, w)
    PROVE  Newest(Append(Kept(l, r), r), Append(w, r))
<1> DEFINE k == Kept(l, r)
<1>1. PICK before \in Seq(Lines) :
          /\ w = before \o l
          /\ before # <<>> => Length(l) + Bytes[before[Len(before)]] > Target
  BY DEF Newest
<1>2. k \in Seq(Lines) /\ r \in Lines
  BY KeptIs DEF Lines
<1>3. PICK dropped \in Seq(Lines) :
          /\ l = dropped \o k
          /\ dropped # <<>> => Length(Append(k, r)) + Bytes[dropped[Len(dropped)]] > Target
  BY KeptIs
<1> HIDE DEF k
<1>4. before \o dropped \in Seq(Lines) /\ Append(w, r) = (before \o dropped) \o Append(k, r)
  <2>1. w = before \o (dropped \o k)
    BY <1>1, <1>3
  <2>2. (before \o dropped) \o k = before \o (dropped \o k) /\ before \o dropped \in Seq(Lines)
    BY <1>2, ConcatAssociative, SMTT(30)
  <2>3. w = (before \o dropped) \o k
    BY <2>1, <2>2
  <2>4. Append((before \o dropped) \o k, r) = (before \o dropped) \o Append(k, r)
    BY <1>2, <2>2, AppendOfConcat
  <2> QED BY <2>2, <2>3, <2>4
<1>5. CASE dropped = <<>>
  <2>1. before \o dropped = before /\ l = k
    BY <1>2, <1>3, <1>5, ConcatEmptySeq
  <2>2. Append(w, r) = before \o Append(k, r)
    BY <1>4, <2>1
  <2>3. Newest(Append(l, r), Append(w, r))
    BY NewestAppended
  <2> QED BY <2>1, <2>3 DEF k
<1>6. CASE dropped # <<>>
  <2>1. /\ Len(before \o dropped) = Len(before) + Len(dropped)
        /\ (before \o dropped)[Len(before) + Len(dropped)] = dropped[Len(dropped)]
    <3>1. Len(before) \in Nat /\ Len(dropped) \in Nat /\ Len(dropped) # 0
      BY <1>6
    <3>2. /\ Len(before) + Len(dropped) \in 1 .. Len(before) + Len(dropped)
          /\ ~(Len(before) + Len(dropped) <= Len(before))
          /\ (Len(before) + Len(dropped)) - Len(before) = Len(dropped)
      BY <3>1
    <3> QED BY <3>2, ConcatProperties
  <2> QED BY <1>3, <1>4, <1>6, <2>1 DEF Newest, k
<1> QED BY <1>5, <1>6

-----------------------------------------------------------------------------
(* What the file holds.                                                    *)

TypeInv ==
    /\ pc \in [Rejections -> PCs]
    /\ lines \in Seq(Lines) /\ open \in BOOLEAN
    /\ plan \in [Rejections -> Seq(Lines)]
    /\ written \in Seq(Rejections) /\ merged \subseteq Rejections
    /\ calm \in BOOLEAN /\ crashes \in Nat

\* A line that lands keeps the types of the file.
LEMMA LandingIsTyped ==
    ASSUME TypeInv, NEW r \in Rejections, Land(r)
    PROVE  /\ lines' \in Seq(Lines) /\ open' \in BOOLEAN
           /\ written' \in Seq(Rejections) /\ merged' \subseteq Rejections
<1>1. r \in Lines /\ Broken \in Lines /\ lines \in Seq(Lines) /\ written \in Seq(Rejections)
  BY DEF TypeInv, Lines
<1>2. Len(lines) \in Nat /\ \A i \in 1 .. Len(lines) - 1 : lines[i] \in Lines
  BY <1>1
<1>3. Front(lines) \in Seq(Lines)
  BY <1>2, SubSeqProperties DEF Front
<1>4. /\ lines' = Append(Front(lines), Broken) \/ lines' = Append(lines, r)
      /\ merged' = merged \cup {r} \/ merged' = merged
      /\ open' = FALSE /\ written' = Append(written, r)
  <2>1. CASE open
    BY <2>1 DEF Land
  <2>2. CASE ~open
    BY <2>2 DEF Land
  <2> QED BY <2>1, <2>2
<1>5. open' \in BOOLEAN
  BY <1>4
<1>6. lines' \in Seq(Lines) /\ written' \in Seq(Rejections)
  <2>1. /\ Append(Front(lines), Broken) \in Seq(Lines) /\ Append(lines, r) \in Seq(Lines)
        /\ Append(written, r) \in Seq(Rejections)
    BY <1>1, <1>3, AppendProperties
  <2> QED BY <1>4, <2>1
<1>7. merged' \subseteq Rejections
  BY <1>4 DEF TypeInv
<1> QED BY <1>5, <1>6, <1>7

\* Every step keeps the types.
LEMMA TypeInvStep == TypeInv /\ [Next]_vars => TypeInv'
<1> SUFFICES ASSUME TypeInv, [Next]_vars PROVE TypeInv'
  OBVIOUS
<1> USE DEF GoTo
<1>1. ASSUME NEW r \in Rejections, Reject(r) \/ Lock(r) \/ Stat(r) PROVE TypeInv'
  BY <1>1 DEF Reject, Lock, Stat, TypeInv, PCs, Holding
<1>2. ASSUME NEW r \in Rejections, ReadAll(r) PROVE TypeInv'
  <2>1. Kept(lines, r) \in Seq(Lines) /\ r \in Lines
    BY KeptIs DEF TypeInv, Lines
  <2>2. Append(Kept(lines, r), r) \in Seq(Lines)
    BY <2>1
  <2>3. plan' \in [Rejections -> Seq(Lines)]
    BY <1>2, <2>2 DEF ReadAll, TypeInv
  <2>4. pc' \in [Rejections -> PCs]
    BY <1>2 DEF ReadAll, TypeInv, PCs, Holding
  <2> QED BY <1>2, <2>3, <2>4 DEF ReadAll, TypeInv
<1>3. ASSUME NEW r \in Rejections, AppendLine(r) PROVE TypeInv'
  <2>1. Land(r) /\ pc' \in [Rejections -> PCs]
    BY <1>3 DEF AppendLine, Return, TypeInv, PCs, Settled
  <2> QED BY <1>3, <2>1, LandingIsTyped DEF AppendLine, TypeInv
<1>4. ASSUME NEW r \in Rejections, Truncate(r) PROVE TypeInv'
  <2>1. pc' \in [Rejections -> PCs]
    BY <1>4 DEF Truncate, TypeInv, PCs, Holding, Late
  <2>2. lines' = <<>> /\ open' \in BOOLEAN
    BY <1>4 DEF Truncate
  <2>3. lines' \in Seq(Lines)
    BY <2>2
  <2> QED BY <1>4, <2>1, <2>2, <2>3 DEF Truncate, TypeInv
<1>5. ASSUME NEW r \in Rejections, Fill(r) PROVE TypeInv'
  <2>1. pc' \in [Rejections -> PCs]
    BY <1>5 DEF Fill, Return, TypeInv, PCs, Settled
  <2>2. plan[r] \in Seq(Lines) /\ Append(plan[r], Broken) \in Seq(Lines)
    BY DEF TypeInv, Lines
  <2>3. lines' \in Seq(Lines) /\ open' \in BOOLEAN
    <3>1. lines' = Append(plan[r], Broken) \/ lines' = plan[r]
      BY <1>5 DEF Fill
    <3>2. open' = open \/ open' = FALSE
      BY <1>5 DEF Fill
    <3>3. open' \in BOOLEAN
      BY <3>2 DEF TypeInv
    <3> QED BY <2>2, <3>1, <3>3
  <2>4. written' \in Seq(Rejections)
    BY <1>5 DEF Fill, TypeInv
  <2> QED BY <1>5, <2>1, <2>3, <2>4 DEF Fill, TypeInv
<1>6. ASSUME NEW r \in Rejections, Cancel(r) PROVE TypeInv'
  <2>1. PICK where \in PCs : pc' = [pc EXCEPT ![r] = where]
    <3>1. CASE GoTo(r, "gone")
      BY <3>1 DEF PCs, Settled
    <3>2. CASE pc[r] \in {"append", "truncate", "fill"} /\ GoTo(r, Outlives[pc[r]])
      <4>1. Outlives[pc[r]] \in Late
        BY <3>2 DEF Outlives, Late
      <4> QED BY <3>2, <4>1 DEF PCs
    <3> QED BY <1>6, <3>1, <3>2 DEF Cancel
  <2>2. pc' \in [Rejections -> PCs]
    BY <2>1 DEF TypeInv
  <2>3. calm' = calm \/ calm' = FALSE
    BY <1>6 DEF Cancel
  <2>4. calm' \in BOOLEAN
    BY <2>3 DEF TypeInv
  <2> QED BY <1>6, <2>2, <2>4 DEF Cancel, TypeInv
<1>7. CASE Crash
  <2>1. pc' \in [Rejections -> PCs]
    BY <1>7 DEF Crash, TypeInv, PCs, Settled
  <2>2. lines' \in Seq(Lines)
    <3>1. lines' = lines \/ lines' = Append(lines, Broken)
      <4>1. CASE open
        BY <1>7, <4>1 DEF Crash
      <4>2. CASE ~open
        BY <1>7, <4>2 DEF Crash
      <4> QED BY <4>1, <4>2
    <3>2. lines \in Seq(Lines) /\ Broken \in Lines
      BY DEF TypeInv, Lines
    <3>3. Append(lines, Broken) \in Seq(Lines)
      BY <3>2, AppendProperties
    <3> QED BY <3>1, <3>2, <3>3
  <2>3. open' \in BOOLEAN
    <3>1. open' = open \/ open' = TRUE
      BY <1>7 DEF Crash
    <3> QED BY <3>1 DEF TypeInv
  <2>4. calm' \in BOOLEAN
    BY <1>7 DEF Crash
  <2>5. crashes' \in Nat
    BY <1>7 DEF Crash, TypeInv
  <2> QED BY <1>7, <2>1, <2>2, <2>3, <2>4, <2>5 DEF Crash, TypeInv
<1>8. CASE UNCHANGED vars
  BY <1>8 DEF vars, TypeInv
<1> QED BY <1>1, <1>2, <1>3, <1>4, <1>5, <1>6, <1>7, <1>8 DEF Next, Step, Write

\* The types before the first rejection.
LEMMA TypeInvInit == Init => TypeInv
<1> SUFFICES ASSUME Init PROVE TypeInv
  OBVIOUS
<1>1. <<>> \in Seq(Lines) /\ <<>> \in Seq(Rejections)
  OBVIOUS
<1>2. open \in BOOLEAN /\ calm \in BOOLEAN
  BY DEF Init
<1>3. pc \in [Rejections -> PCs] /\ plan \in [Rejections -> Seq(Lines)]
  BY <1>1 DEF Init, PCs
<1>4. lines = <<>> /\ written = <<>> /\ merged = {} /\ crashes = 0
  BY DEF Init
<1> QED BY <1>1, <1>2, <1>3, <1>4 DEF TypeInv

\* TypeOK for any number of refusals and crashes.
THEOREM TypeCorrect == Spec => []TypeOK
<1>1. TypeInv /\ WritersExclude => TypeOK
  BY DEF TypeInv, TypeOK, PCs, Lines
<1> QED BY <1>1, TypeInvInit, TypeInvStep, OneWriter, PTL DEF Spec

\* What a rotation is about to write.
Planned(r) == Newest(plan[r], Append(written, r)) /\ Capped(plan[r])

\* While no write was cut short or outlived its request: who is about to append
\* has found the room, what a rotation is about to write is the newest records
\* with its own, and so is the file, unless it is being refilled.
FileInv ==
    calm =>
        /\ ~open
        /\ \A r \in Rejections : pc[r] \notin Late
        /\ \A r \in Rejections : pc[r] = "append" => Length(lines) + Bytes[r] <= Cap
        /\ \A r \in Rejections : pc[r] = "truncate" => Planned(r)
        /\ \A r \in Rejections : pc[r] = "fill" => Planned(r) /\ lines = <<>>
        /\ Capped(lines)
        /\ (\A r \in Rejections : pc[r] # "fill") => Newest(lines, written)

\* Nothing is lost before the first rejection.
LEMMA FileInvInit == Init => FileInv
<1> SUFFICES ASSUME Init PROVE FileInv
  OBVIOUS
<1>1. <<>> \in Seq(Lines) /\ <<>> = <<>> \o <<>>
  OBVIOUS
<1>2. Newest(<<>>, <<>>)
  BY <1>1 DEF Newest
<1>3. Length(<<>>) = 0
  BY LengthOfNothing
<1>4. Capped(<<>>)
  BY <1>3, SmokeAuditConstants DEF Capped
<1> QED BY <1>2, <1>4 DEF Init, FileInv, Late

\* A step of a rejection that ends outside the critical section and leaves file
\* and plans alone, or moves on to a read of the file.
LEMMA Aside ==
    ASSUME TypeInv, FileInv, NEW r \in Rejections, NEW where \in PCs \ {"append", "truncate", "fill"},
           where \notin Late, pc[r] # "fill", pc' = [pc EXCEPT ![r] = where],
           UNCHANGED <<lines, open, plan, written>>, calm' => calm
    PROVE  FileInv'
<1> SUFFICES ASSUME calm' PROVE FileInv'
  BY DEF FileInv
<1>1. \A x \in Rejections : pc'[x] = IF x = r THEN where ELSE pc[x]
  BY DEF TypeInv
<1> QED BY <1>1 DEF FileInv, Planned

\* A rejection that writes is alone in the critical section.
LEMMA Alone ==
    ASSUME LockInv, NEW r \in Rejections, pc[r] \in Holding
    PROVE  \A x \in Rejections : x # r => pc[x] \notin Holding
BY DEF LockInv

\* Every step keeps what the file holds.
LEMMA FileInvStep == TypeInv /\ LockInv /\ FileInv /\ [Next]_vars => FileInv'
<1> SUFFICES ASSUME TypeInv, LockInv, FileInv, [Next]_vars PROVE FileInv'
  OBVIOUS
<1>0. /\ lines \in Seq(Lines) /\ written \in Seq(Rejections)
      /\ \A r \in Rejections : r \in Lines /\ pc[r] \in PCs /\ plan[r] \in Seq(Lines)
  BY DEF TypeInv, Lines
<1>1. ASSUME NEW r \in Rejections, Reject(r) \/ Lock(r) PROVE FileInv'
  BY <1>1, Aside DEF Reject, Lock, GoTo, PCs, Holding, Late
<1>2. ASSUME NEW r \in Rejections, Stat(r) PROVE FileInv'
  <2>1. CASE Length(lines) + Bytes[r] <= Cap
    <3>1. \A x \in Rejections : pc'[x] = IF x = r THEN "append" ELSE pc[x]
      BY <1>2, <2>1 DEF Stat, GoTo, TypeInv
    <3>2. UNCHANGED <<lines, open, plan, written, calm>> /\ pc[r] = "stat"
      BY <1>2 DEF Stat
    <3> QED BY <2>1, <3>1, <3>2 DEF FileInv, Planned, Late
  <2>2. CASE ~(Length(lines) + Bytes[r] <= Cap)
    BY <1>2, <2>2, Aside DEF Stat, GoTo, PCs, Holding, Late
  <2> QED BY <2>1, <2>2
<1>3. ASSUME NEW r \in Rejections, ReadAll(r) PROVE FileInv'
  <2> SUFFICES ASSUME calm' PROVE FileInv'
    BY DEF FileInv
  <2>1. /\ \A x \in Rejections : pc'[x] = IF x = r THEN "truncate" ELSE pc[x]
        /\ pc[r] = "read" /\ UNCHANGED <<lines, open, written, calm>>
        /\ plan'[r] = Append(Kept(lines, r), r)
    BY <1>3 DEF ReadAll, GoTo, TypeInv
  <2>2. \A x \in Rejections : x # r => pc[x] \notin Holding
    BY <2>1, Alone DEF Holding
  <2>3. Newest(lines, written)
    BY <2>1, <2>2 DEF FileInv, Holding
  <2>4. Newest(plan'[r], Append(written, r)) /\ Capped(plan'[r])
    BY <1>0, <2>1, <2>3, NewestKept, KeptIs
  <2> QED BY <2>1, <2>2, <2>3, <2>4 DEF FileInv, Planned, Holding, Late
<1>4. ASSUME NEW r \in Rejections, AppendLine(r) PROVE FileInv'
  <2> SUFFICES ASSUME calm' PROVE FileInv'
    BY DEF FileInv
  <2>1. calm /\ Land(r) /\ pc[r] = "append" /\ pc' = [pc EXCEPT ![r] = "answered"]
    BY <1>4 DEF AppendLine, Return, GoTo, FileInv, Late
  <2>2. \A x \in Rejections : pc'[x] = IF x = r THEN "answered" ELSE pc[x]
    BY <2>1 DEF TypeInv
  <2>3. \A x \in Rejections : x # r => pc[x] \notin Holding
    BY <2>1, Alone DEF Holding
  <2>4. lines' = Append(lines, r) /\ written' = Append(written, r) /\ ~open'
    BY <2>1 DEF Land, FileInv
  <2>5. Newest(lines, written)
    BY <2>1, <2>3 DEF FileInv, Holding
  <2>6. Newest(lines', written')
    BY <1>0, <2>4, <2>5, NewestAppended
  <2>7. Capped(lines')
    <3>1. Length(lines') = Length(lines) + Bytes[r]
      BY <1>0, <2>4, LengthOfAppend
    <3> QED BY <2>1, <3>1 DEF FileInv, Capped
  <2> QED BY <2>1, <2>2, <2>3, <2>4, <2>6, <2>7 DEF FileInv, Holding, Late
<1>5. ASSUME NEW r \in Rejections, Truncate(r) PROVE FileInv'
  <2> SUFFICES ASSUME calm' PROVE FileInv'
    BY DEF FileInv
  <2>1. /\ calm /\ pc[r] = "truncate" /\ pc' = [pc EXCEPT ![r] = "fill"]
        /\ lines' = <<>> /\ open' = FALSE /\ UNCHANGED <<plan, written>>
    BY <1>5 DEF Truncate, GoTo, FileInv, Late
  <2>2. \A x \in Rejections : pc'[x] = IF x = r THEN "fill" ELSE pc[x]
    BY <2>1 DEF TypeInv
  <2>3. \A x \in Rejections : x # r => pc[x] \notin Holding
    BY <2>1, Alone DEF Holding
  <2>4. Planned(r)
    BY <2>1 DEF FileInv
  <2>5. Capped(<<>>)
    BY LengthOfNothing, SmokeAuditConstants DEF Capped
  <2> QED BY <2>1, <2>2, <2>3, <2>4, <2>5 DEF FileInv, Planned, Holding, Late
<1>6. ASSUME NEW r \in Rejections, Fill(r) PROVE FileInv'
  <2> SUFFICES ASSUME calm' PROVE FileInv'
    BY DEF FileInv
  <2>1. calm /\ pc[r] = "fill" /\ pc' = [pc EXCEPT ![r] = "answered"]
    BY <1>6 DEF Fill, Return, GoTo, FileInv, Late
  <2>2. \A x \in Rejections : pc'[x] = IF x = r THEN "answered" ELSE pc[x]
    BY <2>1 DEF TypeInv
  <2>3. \A x \in Rejections : x # r => pc[x] \notin Holding
    BY <2>1, Alone DEF Holding
  <2>4. Planned(r) /\ lines = <<>>
    BY <2>1 DEF FileInv
  <2>5. ~(Length(lines) > Length(plan[r]))
    <3>1. Length(lines) = 0 /\ Length(plan[r]) \in Nat
      BY <1>0, <2>4, LengthOfNothing, LengthOfAppend
    <3> QED BY <3>1
  <2>6. lines' = plan[r] /\ open' = FALSE /\ written' = Append(written, r)
    BY <1>6, <2>5 DEF Fill
  <2>7. Newest(lines', written') /\ Capped(lines')
    BY <2>4, <2>6 DEF Planned
  <2> QED BY <2>1, <2>2, <2>3, <2>6, <2>7 DEF FileInv, Holding, Late
<1>7. ASSUME NEW r \in Rejections, Cancel(r) PROVE FileInv'
  <2> SUFFICES ASSUME calm' PROVE FileInv'
    BY DEF FileInv
  <2>1. /\ pc[r] \in {"wait", "stat", "append", "read", "truncate"} /\ pc' = [pc EXCEPT ![r] = "gone"]
        /\ UNCHANGED <<calm, lines, open, plan, written>>
    BY <1>7 DEF Cancel, GoTo
  <2> QED BY <2>1, Aside DEF PCs, Settled, Late
<1>8. CASE Crash
  <2> SUFFICES ASSUME calm' PROVE FileInv'
    BY DEF FileInv
  <2>1. calm /\ ~open' /\ \A r \in Rejections : pc[r] \notin {"fill", "late_fill"}
    BY <1>8 DEF Crash
  <2>2. UNCHANGED <<lines, open, written>>
    BY <1>8, <2>1 DEF Crash
  <2>3. \A r \in Rejections : pc'[r] \notin Holding \cup Late
    BY <1>8 DEF Crash, Holding, Late
  <2> QED BY <2>1, <2>2, <2>3 DEF FileInv, Holding
<1>9. CASE UNCHANGED vars
  BY <1>9 DEF vars, FileInv, Planned
<1> QED BY <1>1, <1>2, <1>3, <1>4, <1>5, <1>6, <1>7, <1>8, <1>9 DEF Next, Step, Write

\* The invariant of the file holds in every state.
THEOREM FileIsKept == Spec => [](TypeInv /\ FileInv)
BY TypeInvInit, TypeInvStep, LockInvInit, LockInvStep, FileInvInit, FileInvStep, PTL DEF Spec

\* CapObserved for every length of the lines and every cap.
THEOREM CapIsObserved == Spec => []CapObserved
<1>1. FileInv => CapObserved
  BY DEF FileInv, Capped, CapObserved
<1> QED BY <1>1, FileIsKept, PTL

\* NewestAreKept likewise: a rotation drops no record that would have fitted.
THEOREM NewestStay == Spec => []NewestAreKept
<1>1. TypeInv /\ FileInv => NewestAreKept
  <2> SUFFICES ASSUME TypeInv, FileInv, calm, \A r \in Rejections : pc[r] # "fill"
               PROVE  /\ IsSuffix(lines, written)
                      /\ lines # written =>
                            Length(lines) + Bytes[written[Len(written) - Len(lines)]] > Target
    BY DEF NewestAreKept
  <2>1. PICK before \in Seq(Lines) :
            /\ written = before \o lines
            /\ before # <<>> => Length(lines) + Bytes[before[Len(before)]] > Target
    BY DEF FileInv, Newest
  <2>2. lines \in Seq(Lines)
    BY DEF TypeInv
  <2>3. IsSuffix(lines, written)
    BY <2>1, <2>2, EndIsSuffix
  <2>4. ASSUME lines # written
        PROVE  Length(lines) + Bytes[written[Len(written) - Len(lines)]] > Target
    <3>1. before # <<>>
      BY <2>1, <2>2, <2>4, ConcatEmptySeq
    <3>2. Len(before) \in Nat /\ Len(before) # 0 /\ Len(lines) \in Nat
      BY <2>2, <3>1
    <3>3. /\ Len(before \o lines) = Len(before) + Len(lines)
          /\ (before \o lines)[Len(before)] = before[Len(before)]
      BY <2>2, <3>2, ConcatProperties
    <3>4. Len(written) - Len(lines) = Len(before) /\ written[Len(before)] = before[Len(before)]
      BY <2>1, <3>2, <3>3
    <3> QED BY <2>1, <3>1, <3>4
  <2> QED BY <2>3, <2>4
<1> QED BY <1>1, FileIsKept, PTL
=============================================================================
