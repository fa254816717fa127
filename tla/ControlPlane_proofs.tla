-------------------------- MODULE ControlPlane_proofs --------------------------
(***************************************************************************)
(* The trust policy for every set of documents, signatures, keys and       *)
(* configurations, any number of uploads, prunes and restarts.             *)
(***************************************************************************)
EXTENDS ControlPlane, SequenceTheorems, FiniteSetTheorems, TLAPS

KeySets == {"artifact", "readiness", "evaluator"}

\* What a signed upload leaves is its signature under one of the three key sets.
LEMMA SignedByPolicy ==
    ASSUME NEW d, NEW signature, NEW keys, NEW stored,
           PostSigned(d, signature, keys, stored) # Refused
    PROVE  /\ d.kind \in {"memory", "packet", "registry", "evidence", "readiness", "evaluator", "decision"}
           /\ \E l \in KeySets : \E status \in {"signed", d.status, d.verdict} :
                 PostSigned(d, signature, keys, stored)
                   = SignedAs(status, AnnotateTrustPolicy(signature, keys[l]))
<1>1. CASE d.kind = "memory"
  BY <1>1 DEF PostSigned, PostSignedMemoryExport, Accepted, Signed, Refused, KeySets
<1>2. CASE d.kind = "packet"
  BY <1>2 DEF PostSigned, PostSignedOperatorPacket, Accepted, Refused, KeySets
<1>3. CASE d.kind = "registry"
  BY <1>3 DEF PostSigned, PostSignedProviderRegistry, Accepted, Signed, Refused, KeySets
<1>4. CASE d.kind = "evidence"
  BY <1>4 DEF PostSigned, PostSignedEvidencePack, Accepted, Refused, KeySets
<1>5. CASE d.kind = "readiness"
  BY <1>5 DEF PostSigned, PostSignedProviderReadiness, Accepted, Signed, Refused, KeySets
<1>6. CASE d.kind = "evaluator"
  BY <1>6 DEF PostSigned, PostSignedEvaluatorDecision, Accepted, Signed, Refused, KeySets
<1>7. CASE d.kind = "decision"
  BY <1>7 DEF PostSigned, PostSignedPromotionDecision, Accepted, Signed, Refused, KeySets
<1>8. CASE d.kind \notin {"memory", "packet", "registry", "evidence", "readiness", "evaluator", "decision"}
  BY <1>8 DEF PostSigned
<1> QED BY <1>1, <1>2, <1>3, <1>4, <1>5, <1>6, <1>7, <1>8

\* The keys pinned now are among those ever pinned; what is stored was annotated
\* with the keys of its day.
TrustInv ==
    /\ trusted \in Configurations
    /\ \A l \in KeySets : trusted[l] \subseteq everTrusted
    /\ DOMAIN sidecar = Docs
    /\ AuthorityIsPinned

\* A configuration's keys, each set of them.
LEMMA KeysOf ==
    ASSUME NEW c \in Configurations, NEW l \in KeySets
    PROVE  c[l] \subseteq Keys(c)
BY ControlPlaneConstants DEF Keys, KeySets

\* Every step keeps it, a change of the keys included.
LEMMA TrustInvStep == TrustInv /\ [Next]_vars => TrustInv'
<1>. SUFFICES ASSUME TrustInv, [Next]_vars PROVE TrustInv'
  OBVIOUS
<1>1. ASSUME NEW d \in Docs, Upload(d) PROVE TrustInv'
  <2>1. UNCHANGED <<trusted, everTrusted>>
    BY <1>1 DEF Upload, Store, configVars
  <2>3. UNCHANGED sidecar
    BY <1>1 DEF Upload, Store
  <2> QED BY <2>1, <2>3 DEF TrustInv, AuthorityIsPinned
<1>2. ASSUME NEW d \in Docs, NEW signature \in Signatures, UploadSigned(d, signature) PROVE TrustInv'
  <2>. DEFINE taken == PostSigned(Content[d], signature, trusted, bodies)
  <2>1. UNCHANGED <<trusted, everTrusted>>
    BY <1>2 DEF UploadSigned, Store, configVars
  <2>2. PICK l \in KeySets : \E status : taken = SignedAs(status, AnnotateTrustPolicy(signature, trusted[l]))
    BY <1>2, SignedByPolicy DEF UploadSigned
  <2>3. /\ taken.sidecar.authoritative = (signature.key \in trusted[l])
        /\ taken.sidecar.key = signature.key
    BY <2>2 DEF SignedAs, AnnotateTrustPolicy
  <2>4. sidecar' = sidecar \/ sidecar' = [sidecar EXCEPT ![d] = taken.sidecar]
    BY <1>2 DEF UploadSigned, Store
  <2>. HIDE DEF taken
  <2>5. AuthorityIsPinned'
    BY <2>1, <2>3, <2>4 DEF TrustInv, AuthorityIsPinned
  <2> QED BY <2>1, <2>4, <2>5 DEF TrustInv
<1>3. ASSUME NEW d \in Docs, PruneRemove(d) PROVE TrustInv'
  BY <1>3 DEF PruneRemove, configVars, TrustInv, AuthorityIsPinned
<1>4. CASE PruneRead \/ PruneRewrite \/ PruneStops
  BY <1>4 DEF PruneRead, PruneRewrite, PruneStops, storeVars, configVars, TrustInv, AuthorityIsPinned
<1>5. ASSUME NEW c \in Configurations, Restart(c) PROVE TrustInv'
  <2>1. trusted' = c /\ everTrusted \subseteq everTrusted' /\ Keys(c) \subseteq everTrusted' /\ UNCHANGED sidecar
    BY <1>5 DEF Restart, storeVars
  <2> QED BY <2>1, KeysOf DEF TrustInv, AuthorityIsPinned
<1>6. CASE UNCHANGED vars
  BY <1>6 DEF vars, storeVars, configVars, TrustInv, AuthorityIsPinned
<1> QED BY <1>1, <1>2, <1>3, <1>4, <1>5, <1>6 DEF Next

\* AuthorityIsPinned for every evidence, every signer and every change of keys.
THEOREM AuthorityPinned == Spec => []AuthorityIsPinned
<1>1. Init => TrustInv
  <2>. SUFFICES ASSUME Init PROVE TrustInv
    OBVIOUS
  <2>1. trusted \in Configurations /\ everTrusted = Keys(trusted)
    BY DEF Init
  <2>2. \A d \in Docs : sidecar[d] = Nothing
    BY DEF Init
  <2>3. DOMAIN sidecar = Docs
    BY DEF Init
  <2> QED BY <2>1, <2>2, <2>3, KeysOf DEF TrustInv, AuthorityIsPinned
<1>2. TrustInv => AuthorityIsPinned
  BY DEF TrustInv
<1> QED BY <1>1, <1>2, TrustInvStep, PTL DEF Spec

-----------------------------------------------------------------------------
(* The gap report and its critical path.                                   *)

Gaps == {"provider_readiness", "live_provider_acceptance", "phase1_promotion_checklist",
         "release_gate", "three_os_smoke", "signed_promotion_decision"}

\* A gap waits for finitely many others; the checklist for the most.
LEMMA DependencyCounts ==
    /\ \A a \in Gaps : Cardinality(GapDependencies(a)) \in Nat
    /\ Cardinality(GapDependencies("live_provider_acceptance")) = 1
    /\ Cardinality(GapDependencies("phase1_promotion_checklist")) = 4
<1>. DEFINE pr == "provider_readiness"
            la == "live_provider_acceptance"
            rg == "release_gate"
            ts == "three_os_smoke"
<1>1. IsFiniteSet({pr}) /\ Cardinality({pr}) = 1
  BY FS_Singleton
<1>2. IsFiniteSet({pr} \cup {la}) /\ Cardinality({pr} \cup {la}) = 2
  BY <1>1, FS_AddElement
<1>3. IsFiniteSet({pr} \cup {la} \cup {rg}) /\ Cardinality({pr} \cup {la} \cup {rg}) = 3
  BY <1>2, FS_AddElement
<1>4. IsFiniteSet({pr} \cup {la} \cup {rg} \cup {ts}) /\ Cardinality({pr} \cup {la} \cup {rg} \cup {ts}) = 4
  BY <1>3, FS_AddElement
<1>5. IsFiniteSet({pr} \cup {la} \cup {ts}) /\ Cardinality({pr} \cup {la} \cup {ts}) = 3
  BY <1>2, FS_AddElement
<1>6. Cardinality({}) = 0 /\ \A x : Cardinality({x}) = 1
  BY FS_EmptySet, FS_Singleton
<1>7. /\ {pr} \cup {la} = {pr, la} /\ {pr} \cup {la} \cup {ts} = {pr, la, ts}
      /\ {pr} \cup {la} \cup {rg} \cup {ts} = {pr, la, rg, ts}
  OBVIOUS
<1>8. GapDependencies("phase1_promotion_checklist") = {pr, la, rg, ts}
  BY DEF GapDependencies
<1>9. GapDependencies("live_provider_acceptance") = {pr}
  BY DEF GapDependencies
<1>10. GapDependencies("three_os_smoke") = {pr, la}
  BY DEF GapDependencies
<1>11. GapDependencies("release_gate") = {pr, la, ts}
  BY DEF GapDependencies
<1>12. GapDependencies("signed_promotion_decision") = {"phase1_promotion_checklist"}
  BY DEF GapDependencies
<1>13. GapDependencies("provider_readiness") = {}
  BY DEF GapDependencies
<1>14. /\ Cardinality(GapDependencies("phase1_promotion_checklist")) = 4
       /\ Cardinality(GapDependencies("live_provider_acceptance")) = 1
       /\ Cardinality(GapDependencies("three_os_smoke")) = 2
       /\ Cardinality(GapDependencies("release_gate")) = 3
       /\ Cardinality(GapDependencies("signed_promotion_decision")) = 1
       /\ Cardinality(GapDependencies("provider_readiness")) = 0
  BY <1>1, <1>2, <1>4, <1>5, <1>6, <1>7, <1>8, <1>9, <1>10, <1>11, <1>12, <1>13
<1> QED BY <1>14 DEF Gaps

\* A list of gaps that names each once.
GapLists == { g \in Seq(Gaps) : \A i, j \in DOMAIN g : g[i] = g[j] => i = j }

\* Nothing that waits goes before what is ready.
LEMMA ReadyFirst ==
    ASSUME NEW a, NEW b, NEW g, Before(a, b, g), ReadyToStart(b, g)
    PROVE  ReadyToStart(a, g)
BY DEF Before

\* No gap goes before itself.
LEMMA NotBeforeItself ==
    ASSUME NEW g \in GapLists, NEW a \in ToSet(g) PROVE ~Before(a, a, g)
<1>1. a \in Gaps
  BY DEF GapLists, ToSet
<1>2. (CHOOSE i \in DOMAIN g : g[i] = a) \in Nat
  <2>1. \E i \in DOMAIN g : g[i] = a
    BY DEF ToSet
  <2>2. (CHOOSE i \in DOMAIN g : g[i] = a) \in DOMAIN g
    BY <2>1
  <2>3. DOMAIN g \subseteq Nat
    BY DEF GapLists
  <2> QED BY <2>2, <2>3
<1>3. 10 - Cardinality(GapDependencies(a)) \in Int
  BY <1>1, DependencyCounts
<1> QED BY <1>2, <1>3 DEF Before

\* The order of the report, where there is one: ready first, more dependencies
\* before fewer, the order of the list.
Sorted(path, g) ==
    /\ path \in [DOMAIN g -> ToSet(g)]
    /\ \A i, j \in DOMAIN path : i < j => Before(path[i], path[j], g)

\* The critical path starts with a gap that waits for none of the others, if
\* there is such a gap and an order at all.
LEMMA PathStartsReady ==
    ASSUME NEW g \in GapLists, NEW k \in DOMAIN g, ReadyToStart(g[k], g),
           \E path : Sorted(path, g)
    PROVE  ReadyToStart(CriticalPath(g)[1], g)
<1>. DEFINE path == CriticalPath(g)
            n == Len(g)
<1>1. DOMAIN g = 1 .. n /\ n \in Nat
  BY DEF GapLists
<1>2. \E p \in [DOMAIN g -> ToSet(g)] : \A i, j \in DOMAIN p : i < j => Before(p[i], p[j], g)
  BY DEF Sorted
<1>3. path \in [DOMAIN g -> ToSet(g)] /\ \A i, j \in DOMAIN path : i < j => Before(path[i], path[j], g)
  BY <1>2 DEF CriticalPath
<1>. HIDE DEF path
<1>4. \A i, j \in 1 .. n : path[i] = path[j] => i = j
  <2>. SUFFICES ASSUME NEW i \in 1 .. n, NEW j \in 1 .. n, i < j, path[i] = path[j] PROVE FALSE
    BY <1>1
  <2>1. Before(path[i], path[j], g) /\ path[i] \in ToSet(g)
    BY <1>1, <1>3
  <2> QED BY <2>1, NotBeforeItself
<1>5. IsFiniteSet(1 .. n)
  BY <1>1, FS_Interval
<1>6. path \in Injection(1 .. n, ToSet(g))
  BY <1>1, <1>3, <1>4 DEF Injection, IsInjective
<1>7. g \in Bijection(1 .. n, ToSet(g))
  <2>1. g \in [1 .. n -> ToSet(g)]
    BY <1>1 DEF ToSet, GapLists
  <2>2. \A x \in ToSet(g) : \E i \in 1 .. n : g[i] = x
    BY <1>1 DEF ToSet
  <2>3. \A i, j \in 1 .. n : g[i] = g[j] => i = j
    BY <1>1 DEF GapLists
  <2> QED BY <2>1, <2>2, <2>3 DEF Bijection, Injection, Surjection, IsInjective
<1>8. IsFiniteSet(ToSet(g)) /\ Cardinality(ToSet(g)) = Cardinality(1 .. n)
  BY <1>5, <1>7, FS_Bijection DEF ExistsBijection
<1>9. path \in Surjection(1 .. n, ToSet(g))
  BY <1>6, <1>8, FS_Injection
<1>10. PICK j \in 1 .. n : path[j] = g[k]
  <2>1. g[k] \in ToSet(g)
    BY DEF ToSet
  <2> QED BY <1>9, <2>1 DEF Surjection
<1>11. 1 \in 1 .. n
  BY <1>1
<1>12. CASE j = 1
  BY <1>10, <1>12 DEF path
<1>13. CASE j # 1
  <2>1. Before(path[1], path[j], g)
    BY <1>1, <1>3, <1>10, <1>11, <1>13
  <2> QED BY <1>10, <2>1, ReadyFirst DEF path
<1> QED BY <1>12, <1>13

\* A list of one gap, which waits for none.
LEMMA PathOfOne ==
    ASSUME NEW a \in Gaps, a \notin GapDependencies(a)
    PROVE  ReadyToStart(CriticalPath(<<a>>)[1], <<a>>)
<1>. DEFINE g == <<a>>
<1>1. g \in GapLists /\ 1 \in DOMAIN g /\ g[1] = a /\ ToSet(g) = {a}
  BY DEF GapLists, ToSet
<1>2. ReadyToStart(a, g)
  BY <1>1 DEF ReadyToStart, BlockedBy
<1>3. Sorted(g, g)
  <2>1. g \in [DOMAIN g -> ToSet(g)]
    BY <1>1 DEF ToSet
  <2>2. DOMAIN g = {1}
    OBVIOUS
  <2> QED BY <2>1, <2>2 DEF Sorted
<1>. HIDE DEF g
<1>4. ReadyToStart(CriticalPath(g)[1], g)
  BY <1>1, <1>2, <1>3, PathStartsReady
<1> QED BY <1>4 DEF g

\* A list of two of which one waits for the other, in either order.
LEMMA PathOfTwo ==
    ASSUME NEW a \in Gaps, NEW b \in Gaps, a # b,
           a \notin GapDependencies(a), b \notin GapDependencies(a), a \in GapDependencies(b),
           NEW g \in { <<a, b>>, <<b, a>> }
    PROVE  ReadyToStart(CriticalPath(g)[1], g)
<1>1. g \in GapLists /\ DOMAIN g = 1 .. 2 /\ ToSet(g) = {a, b}
  <2>1. CASE g = <<a, b>>
    BY <2>1 DEF GapLists, ToSet
  <2>2. CASE g = <<b, a>>
    BY <2>2 DEF GapLists, ToSet
  <2> QED BY <2>1, <2>2
<1>2. ReadyToStart(a, g) /\ ~ReadyToStart(b, g)
  BY <1>1 DEF ReadyToStart, BlockedBy
<1>3. Before(a, b, g)
  BY <1>2 DEF Before
<1>4. Sorted([i \in 1 .. 2 |-> IF i = 1 THEN a ELSE b], g)
  BY <1>1, <1>3 DEF Sorted
<1>5. \E k \in DOMAIN g : g[k] = a
  BY <1>1 DEF ToSet
<1> QED BY <1>1, <1>2, <1>4, <1>5, PathStartsReady

\* The longest list: nothing observed yet.
LEMMA PathOfThree ==
    LET g == <<"provider_readiness", "live_provider_acceptance", "phase1_promotion_checklist">>
    IN  ReadyToStart(CriticalPath(g)[1], g)
<1>. DEFINE a == "provider_readiness"
            b == "live_provider_acceptance"
            c == "phase1_promotion_checklist"
            g == <<a, b, c>>
<1>1. g \in GapLists /\ DOMAIN g = 1 .. 3 /\ ToSet(g) = {a, b, c} /\ g[1] = a
  BY DEF GapLists, ToSet, Gaps
<1>2. ReadyToStart(a, g) /\ ~ReadyToStart(b, g) /\ ~ReadyToStart(c, g)
  BY <1>1 DEF ReadyToStart, BlockedBy, GapDependencies
<1>3. 10 - Cardinality(GapDependencies(b)) = 9 /\ 10 - Cardinality(GapDependencies(c)) = 6
  BY DependencyCounts
<1>. HIDE DEF a, b, c, g
<1>4. Before(a, b, g) /\ Before(a, c, g)
  BY <1>2 DEF Before
<1>5. Before(c, b, g)
  BY <1>2, <1>3 DEF Before
<1>6. Sorted([i \in 1 .. 3 |-> IF i = 1 THEN a ELSE IF i = 2 THEN c ELSE b], g)
  BY <1>1, <1>4, <1>5 DEF Sorted
<1>7. ReadyToStart(CriticalPath(g)[1], g)
  BY <1>1, <1>2, <1>6, PathStartsReady
<1> QED BY <1>7 DEF a, b, c, g

\* Short lists joined, element by element.
LEMMA Joined ==
    ASSUME NEW a, NEW b, NEW c
    PROVE  /\ <<>> \o <<a>> = <<a>> /\ <<a>> \o <<>> = <<a>> /\ <<a, b>> \o <<>> = <<a, b>>
           /\ <<a>> \o <<b>> = <<a, b>> /\ <<a, b>> \o <<c>> = <<a, b, c>>
<1>1. <<a>> \in Seq({a}) /\ <<a, b>> \in Seq({a, b, c}) /\ <<a, b, c>> \in Seq({a, b, c})
      /\ <<a>> \o <<b>> \in Seq({a, b, c}) /\ <<a, b>> \o <<c>> \in Seq({a, b, c})
  OBVIOUS
<1>2. <<a>> \o <<b>> = <<a, b>>
  <2>. DEFINE s == <<a>> \o <<b>>
              t == <<a, b>>
  <2>1. Len(s) = Len(t) /\ \A i \in 1 .. Len(s) : s[i] = t[i]
    OBVIOUS
  <2>2. s \in Seq({a, b, c}) /\ t \in Seq({a, b, c})
    BY <1>1
  <2>. HIDE DEF s, t
  <2>3. s = t
    BY <2>1, <2>2, SeqEqual
  <2> QED BY <2>3 DEF s, t
<1>3. <<a, b>> \o <<c>> = <<a, b, c>>
  <2>. DEFINE s == <<a, b>> \o <<c>>
              t == <<a, b, c>>
  <2>1. Len(s) = Len(t) /\ \A i \in 1 .. Len(s) : s[i] = t[i]
    OBVIOUS
  <2>2. s \in Seq({a, b, c}) /\ t \in Seq({a, b, c})
    BY <1>1
  <2>. HIDE DEF s, t
  <2>3. s = t
    BY <2>1, <2>2, SeqEqual
  <2> QED BY <2>3 DEF s, t
<1> QED BY <1>1, <1>2, <1>3, ConcatEmptySeq

\* Until a signed decision is observed the report names at least one gap, in one
\* of ten lists.
LEMMA GapsReported ==
    ASSUME NEW view, PromotionState(view) # "promotion_decision_observed"
    PROVE  BlockingGaps(view) \in
             { <<"release_gate">>, <<"release_gate", "three_os_smoke">>,
               <<"signed_promotion_decision">>,
               <<"provider_readiness">>, <<"live_provider_acceptance">>, <<"phase1_promotion_checklist">>,
               <<"provider_readiness", "live_provider_acceptance">>,
               <<"provider_readiness", "phase1_promotion_checklist">>,
               <<"live_provider_acceptance", "phase1_promotion_checklist">>,
               <<"provider_readiness", "live_provider_acceptance", "phase1_promotion_checklist">> }
<1>. DEFINE R == <<"provider_readiness">>
            L == <<"live_provider_acceptance">>
            C == <<"phase1_promotion_checklist">>
<1>1. CASE PromotionState(view) = "release_gate_ready"
  <2>1. BlockingGaps(view) \in { <<"release_gate">> \o <<>>, <<"release_gate">> \o <<"three_os_smoke">> }
    BY <1>1 DEF BlockingGaps, If
  <2>2. <<"release_gate">> \o <<>> = <<"release_gate">>
        /\ <<"release_gate">> \o <<"three_os_smoke">> = <<"release_gate", "three_os_smoke">>
    BY Joined
  <2> QED BY <2>1, <2>2, Zenon
<1>2. CASE PromotionState(view) = "release_candidate_observed"
  <2>1. BlockingGaps(view) = <<"signed_promotion_decision">>
    BY <1>2 DEF BlockingGaps
  <2> QED BY <2>1, Zenon
<1>3. CASE PromotionState(view) = "collecting_evidence"
  <2>1. ProviderReadinessCheck(view) = "missing" \/ ~AcceptanceComplete(view)
    BY <1>3 DEF PromotionState
  <2>2. BlockingGaps(view) =
            If(ProviderReadinessCheck(view) = "missing", "provider_readiness")
            \o If(~AcceptanceComplete(view), "live_provider_acceptance")
            \o If(ChecklistMissing(view), "phase1_promotion_checklist")
    BY <1>3 DEF BlockingGaps
  <2>3. PICK r \in {<<>>, R}, l \in {<<>>, L}, c \in {<<>>, C} :
           BlockingGaps(view) = (r \o l) \o c /\ (r = R \/ l = L)
    BY <2>1, <2>2 DEF If
  <2>4. /\ <<>> \o L = L /\ R \o <<>> = R /\ L \o <<>> = L
        /\ R \o L = <<"provider_readiness", "live_provider_acceptance">>
        /\ R \o C = <<"provider_readiness", "phase1_promotion_checklist">>
        /\ L \o C = <<"live_provider_acceptance", "phase1_promotion_checklist">>
    BY Joined
  <2>5. /\ <<"provider_readiness", "live_provider_acceptance">> \o <<>>
             = <<"provider_readiness", "live_provider_acceptance">>
        /\ <<"provider_readiness", "live_provider_acceptance">> \o C
             = <<"provider_readiness", "live_provider_acceptance", "phase1_promotion_checklist">>
    BY Joined
  <2>. HIDE DEF R, L, C
  <2>6. CASE r = R /\ l = L
    <3>1. BlockingGaps(view) \in { (R \o L) \o <<>>, (R \o L) \o C }
      BY <2>3, <2>6, Zenon
    <3> QED BY <3>1, <2>4, <2>5, Zenon
  <2>7. CASE r = R /\ l = <<>>
    <3>1. BlockingGaps(view) \in { (R \o <<>>) \o <<>>, (R \o <<>>) \o C }
      BY <2>3, <2>7, Zenon
    <3>2. BlockingGaps(view) \in { R, R \o C }
      BY <3>1, <2>4, Zenon
    <3> QED BY <3>2, <2>4, Zenon DEF R
  <2>8. CASE r = <<>> /\ l = L
    <3>1. BlockingGaps(view) \in { (<<>> \o L) \o <<>>, (<<>> \o L) \o C }
      BY <2>3, <2>8, Zenon
    <3>2. BlockingGaps(view) \in { L, L \o C }
      BY <3>1, <2>4, Zenon
    <3> QED BY <3>2, <2>4, Zenon DEF L
  <2>9. r = <<>> \/ r = R
    BY <2>3, Zenon
  <2>10. l = <<>> \/ l = L
    BY <2>3, Zenon
  <2> QED BY <2>3, <2>6, <2>7, <2>8, <2>9, <2>10, Zenon
<1> QED BY <1>1, <1>2, <1>3 DEF PromotionState

\* AlwaysSomethingToDo for every evidence: no list of gaps waits for itself.
THEOREM SomethingToDo == Spec => []AlwaysSomethingToDo
<1>1. ASSUME NEW view, PromotionState(view) # "promotion_decision_observed"
      PROVE  BlockingGaps(view) # <<>>
             /\ ReadyToStart(CriticalPath(BlockingGaps(view))[1], BlockingGaps(view))
  <2>. DEFINE g == BlockingGaps(view)
              Starts == ReadyToStart(CriticalPath(g)[1], g)
  <2>1. g # <<>>
    BY <1>1, GapsReported
  <2>2. \A a \in Gaps : a \in Gaps /\ a \notin GapDependencies(a)
    BY DEF Gaps, GapDependencies
  <2>. HIDE DEF g
  <2>3. ASSUME \E a \in Gaps : g = <<a>> PROVE Starts
    BY <2>2, <2>3, PathOfOne
  <2>4. ASSUME g = <<"release_gate", "three_os_smoke">> PROVE Starts
    BY <2>4, PathOfTwo DEF Gaps, GapDependencies
  <2>5. ASSUME g = <<"provider_readiness", "live_provider_acceptance">> PROVE Starts
    BY <2>5, PathOfTwo DEF Gaps, GapDependencies
  <2>6. ASSUME g = <<"provider_readiness", "phase1_promotion_checklist">> PROVE Starts
    BY <2>6, PathOfTwo DEF Gaps, GapDependencies
  <2>7. ASSUME g = <<"live_provider_acceptance", "phase1_promotion_checklist">> PROVE Starts
    BY <2>7, PathOfTwo DEF Gaps, GapDependencies
  <2>8. ASSUME g = <<"provider_readiness", "live_provider_acceptance", "phase1_promotion_checklist">> PROVE Starts
    BY <2>8, PathOfThree
  <2>9. Starts
    BY <1>1, GapsReported, <2>3, <2>4, <2>5, <2>6, <2>7, <2>8 DEF g, Gaps
  <2> QED BY <2>1, <2>9 DEF g
<1>2. AlwaysSomethingToDo
  BY <1>1 DEF AlwaysSomethingToDo
<1> QED BY <1>2, PTL

-----------------------------------------------------------------------------
(* The evidence: what is listed, what is stored, and what a prune removes.   *)

\* What an unsigned handler takes in is of a kind with a list; a smoke summary is
\* one whose status was recomputed.
LEMMA Posted ==
    ASSUME NEW d, Post(d) # Refused
    PROVE  /\ d.kind \in Kinds
           /\ d.kind = "smoke" => ValidSmoke(d) /\ Post(d).status = d.status
<1>1. d.kind \in Kinds
  BY DEF Post, Kinds, PrunableKinds, UnprunableKinds
<1>2. ASSUME d.kind = "smoke" PROVE ValidSmoke(d) /\ Post(d).status = d.status
  <2>1. Post(d) = PostSmoke(d)
    BY <1>2 DEF Post
  <2> QED BY <2>1 DEF PostSmoke, Accepted, Unsigned, Refused
<1> QED BY <1>1, <1>2

\* The statuses and entries of an index.
Words ==
    {"signed"} \cup { Content[d].status : d \in Docs } \cup { Content[d].verdict : d \in Docs }
    \cup { Post(Content[d]).status : d \in Docs }

Entries == [doc : Docs, status : Words]

\* An index as the handlers leave it: entries under the kind of their document,
\* no document twice, and smoke summaries with the status of their document.
WellListed(ix) ==
    /\ ix \in [Kinds -> Seq(Entries)]
    /\ \A k \in Kinds : \A i \in DOMAIN ix[k] : Content[ix[k][i].doc].kind = k
    /\ \A k \in Kinds : \A i, j \in DOMAIN ix[k] : ix[k][i].doc = ix[k][j].doc => i = j
    /\ \A i \in DOMAIN ix["smoke"] : /\ ValidSmoke(Content[ix["smoke"][i].doc])
                                     /\ ix["smoke"][i].status = Content[ix["smoke"][i].doc].status

\* What LatestAnswers asks of one entry, with these bodies and sidecars stored.
Answered(entry, stored, signed) ==
    entry.doc \in stored /\ (OfSignedUpload(entry) => signed[entry.doc] # Nothing)

\* An index whose latest entries answer.
Answers(ix, stored, signed) ==
    \A k \in Kinds : ix[k] # <<>> => Answered(ix[k][Len(ix[k])], stored, signed)

\* Nothing is told apart from every entry and every sidecar.
LEMMA NothingIsNothing ==
    /\ \A entry \in Entries : entry # Nothing
    /\ \A a, b, c : [key |-> a, verified |-> b, authoritative |-> c] # Nothing
BY DEF Entries, Nothing

\* The latest entry of a kind.
LEMMA LatestIs ==
    ASSUME NEW ix, WellListed(ix), NEW k \in Kinds
    PROVE  /\ ix[k] \in Seq(Entries) /\ Len(ix[k]) \in Nat /\ DOMAIN ix[k] = 1 .. Len(ix[k])
           /\ ix[k] = <<>> <=> Len(ix[k]) = 0
           /\ ix[k] = <<>> <=> LatestEntry(ix, k) = Nothing
           /\ ix[k] # <<>> => /\ LatestEntry(ix, k) = ix[k][Len(ix[k])]
                              /\ Len(ix[k]) \in DOMAIN ix[k]
                              /\ LatestEntry(ix, k) \in Entries
<1>1. ix[k] \in Seq(Entries)
  BY DEF WellListed
<1>2. Len(ix[k]) \in Nat /\ DOMAIN ix[k] = 1 .. Len(ix[k]) /\ (ix[k] # <<>> => Len(ix[k]) \in Nat \ {0})
      /\ Len(<<>>) = 0
  BY <1>1, LenProperties, EmptySeq
<1>3. ix[k] # <<>> => Len(ix[k]) \in DOMAIN ix[k] /\ ix[k][Len(ix[k])] \in Entries
  BY <1>1, <1>2, ElementOfSeq
<1>4. ix[k] # <<>> => LatestEntry(ix, k) = ix[k][Len(ix[k])]
  BY DEF LatestEntry, Last
<1> QED BY <1>1, <1>2, <1>3, <1>4, NothingIsNothing DEF LatestEntry

\* later is ix with entries added at the ends of its lists.
PrefixOf(ix, later) ==
    \A k \in Kinds : /\ Len(ix[k]) <= Len(later[k])
                     /\ \A i \in 1 .. Len(ix[k]) : later[k][i] = ix[k][i]

\* The latest of a kind is no candidate, nor is what was listed after it.
LEMMA LatestIsKept ==
    ASSUME NEW ix, WellListed(ix), NEW d \in RetentionCandidates(ix, KeepLatest),
           NEW later, WellListed(later), NEW k \in Kinds, later[k] # <<>>,
           PrefixOf(ix, later)
    PROVE  d # later[k][Len(later[k])].doc
<1>1. PICK m \in PrunableKinds : \E i \in 1 .. Len(ix[m]) - KeepLatest : d = ix[m][i].doc
  BY DEF RetentionCandidates
<1>2. PICK i \in 1 .. Len(ix[m]) - KeepLatest : d = ix[m][i].doc
  BY <1>1
<1>3. m \in Kinds
  BY DEF Kinds
<1>4. Len(ix[m]) \in Nat /\ Len(later[m]) \in Nat /\ Len(later[k]) \in DOMAIN later[k]
      /\ DOMAIN later[m] = 1 .. Len(later[m])
  BY <1>3, LatestIs
<1>5. i \in 1 .. Len(ix[m]) /\ i < Len(later[m]) /\ later[m][i] = ix[m][i]
  BY <1>2, <1>3, <1>4, ControlPlaneConstants, SMTT(30) DEF PrefixOf
<1>6. CASE k = m
  BY <1>2, <1>3, <1>4, <1>5, <1>6 DEF WellListed
<1>7. CASE k # m
  <2>1. Content[later[m][i].doc].kind = m /\ Content[later[k][Len(later[k])].doc].kind = k
    BY <1>3, <1>4, <1>5 DEF WellListed
  <2> QED BY <1>2, <1>5, <1>7, <2>1
<1> QED BY <1>6, <1>7

\* What a prune keeps of one kind: a tail of the list, never empty if the list
\* was not.
LEMMA KeepsATail ==
    ASSUME NEW ix, WellListed(ix), NEW k \in Kinds
    PROVE  \E lo \in 1 .. Len(ix[k]) + 1 :
              /\ Len(ix[k]) > 0 => lo <= Len(ix[k])
              /\ Without(ix[k], RetentionCandidates(ix, KeepLatest))
                   = [i \in 1 .. Len(ix[k]) - lo + 1 |-> ix[k][lo + i - 1]]
<1> DEFINE n == Len(ix[k])
           docs == RetentionCandidates(ix, KeepLatest)
           lo == IF k \in PrunableKinds /\ n > KeepLatest THEN n - KeepLatest + 1 ELSE 1
           kept == { i \in DOMAIN ix[k] : ix[k][i].doc \notin docs }
<1>1. n \in Nat /\ DOMAIN ix[k] = 1 .. n /\ KeepLatest \in Nat \ {0}
  BY LatestIs, ControlPlaneConstants
<1>2. lo \in 1 .. n + 1 /\ (n > 0 => lo <= n)
  BY <1>1
<1>3. \A i \in 1 .. n : ix[k][i].doc \in docs <=> i < lo
  <2> TAKE i \in 1 .. n
  <2>1. ASSUME i < lo PROVE ix[k][i].doc \in docs
    <3>1. k \in PrunableKinds /\ i \in 1 .. Len(ix[k]) - KeepLatest
      BY <1>1, <2>1
    <3> QED BY <3>1 DEF RetentionCandidates
  <2>2. ASSUME ix[k][i].doc \in docs PROVE i < lo
    <3>1. PICK m \in PrunableKinds : \E j \in 1 .. Len(ix[m]) - KeepLatest : ix[k][i].doc = ix[m][j].doc
      BY <2>2 DEF RetentionCandidates
    <3>2. PICK j \in 1 .. Len(ix[m]) - KeepLatest : ix[k][i].doc = ix[m][j].doc
      BY <3>1
    <3>3. m \in Kinds
      BY DEF Kinds
    <3>4. Len(ix[m]) \in Nat /\ DOMAIN ix[m] = 1 .. Len(ix[m])
      BY <3>3, LatestIs
    <3>5. j \in DOMAIN ix[m] /\ i \in DOMAIN ix[k]
      BY <1>1, <3>2, <3>4
    <3>6. Content[ix[k][i].doc].kind = k /\ Content[ix[m][j].doc].kind = m
      BY <3>3, <3>5 DEF WellListed
    <3>7. m = k
      BY <3>2, <3>6
    <3>8. i = j
      BY <3>2, <3>5, <3>7 DEF WellListed
    <3> QED BY <1>1, <3>2, <3>7, <3>8
  <2> QED BY <2>1, <2>2
<1> HIDE DEF lo, docs
<1>4. kept = lo .. n
  BY <1>1, <1>2, <1>3
<1> HIDE DEF kept
<1>5. Cardinality(kept) = n - lo + 1
  <2>1. lo \in Int /\ n \in Int /\ lo <= n + 1
    BY <1>1, <1>2
  <2>2. Cardinality(lo .. n) = IF lo > n THEN 0 ELSE n - lo + 1
    BY <2>1, FS_Interval
  <2>3. n - lo + 1 = IF lo > n THEN 0 ELSE n - lo + 1
    BY <2>1
  <2> QED BY <1>4, <2>2, <2>3
<1>6. \A i \in kept : Cardinality(kept \cap 1 .. i) = i - lo + 1
  <2> TAKE i \in kept
  <2>1. i \in Int /\ lo \in Int /\ 1 <= lo /\ lo <= i /\ i <= n /\ n \in Int
    BY <1>1, <1>2, <1>4
  <2>2. kept \cap 1 .. i = lo .. i
    <3>1. \A x : x \in lo .. n /\ x \in 1 .. i <=> x \in lo .. i
      BY <2>1
    <3> QED BY <1>4, <3>1
  <2>3. Cardinality(lo .. i) = IF lo > i THEN 0 ELSE i - lo + 1
    BY <2>1, FS_Interval
  <2>4. ~(lo > i)
    BY <2>1
  <2> QED BY <2>2, <2>3, <2>4
<1> DEFINE nth(i) == CHOOSE j \in kept : Cardinality(kept \cap 1 .. j) = i
<1>7. \A i \in 1 .. n - lo + 1 : nth(i) = lo + i - 1
  <2> TAKE i \in 1 .. n - lo + 1
  <2>0. i \in Int /\ lo \in Int /\ n \in Int /\ 1 <= i /\ i <= n - lo + 1
    BY <1>1, <1>2
  <2>1. lo + i - 1 \in kept
    BY <1>4, <2>0
  <2>2. Cardinality(kept \cap 1 .. (lo + i - 1)) = i
    <3>1. Cardinality(kept \cap 1 .. (lo + i - 1)) = (lo + i - 1) - lo + 1
      BY <1>6, <2>1
    <3> QED BY <2>0, <3>1
  <2>3. nth(i) \in kept /\ Cardinality(kept \cap 1 .. nth(i)) = i
    BY <2>1, <2>2
  <2> HIDE DEF nth
  <2>4. nth(i) - lo + 1 = i
    BY <1>6, <2>3
  <2>5. nth(i) \in Int
    BY <1>1, <1>2, <1>4, <2>3
  <2> QED BY <2>0, <2>4, <2>5
<1>8. Without(ix[k], docs) = [i \in 1 .. n - lo + 1 |-> ix[k][nth(i)]]
  BY <1>5 DEF Without, ElementsAt, kept
<1> HIDE DEF nth
<1>9. Without(ix[k], docs) = [i \in 1 .. n - lo + 1 |-> ix[k][lo + i - 1]]
  BY <1>7, <1>8
<1> QED BY <1>2, <1>9 DEF docs

\* A prune leaves a well-listed index, with the same latest entries.
LEMMA RetainedIsWellListed ==
    ASSUME NEW ix, WellListed(ix)
    PROVE  /\ WellListed(RetainedEntries(ix, KeepLatest))
           /\ \A k \in Kinds : LatestEntry(RetainedEntries(ix, KeepLatest), k) = LatestEntry(ix, k)
<1> DEFINE kept == RetainedEntries(ix, KeepLatest)
<1>1. DOMAIN ix = Kinds /\ "smoke" \in Kinds
  BY DEF WellListed, Kinds, PrunableKinds
<1>2. ASSUME NEW k \in Kinds
      PROVE  \E lo \in 1 .. Len(ix[k]) + 1 :
                /\ Len(ix[k]) > 0 => lo <= Len(ix[k])
                /\ kept[k] = [i \in 1 .. Len(ix[k]) - lo + 1 |-> ix[k][lo + i - 1]]
  <2>1. kept[k] = Without(ix[k], RetentionCandidates(ix, KeepLatest))
    BY <1>1 DEF RetainedEntries
  <2>2. PICK lo \in 1 .. Len(ix[k]) + 1 :
              /\ Len(ix[k]) > 0 => lo <= Len(ix[k])
              /\ Without(ix[k], RetentionCandidates(ix, KeepLatest))
                   = [i \in 1 .. Len(ix[k]) - lo + 1 |-> ix[k][lo + i - 1]]
    BY KeepsATail, Zenon
  <2> HIDE DEF kept
  <2>3. kept[k] = [i \in 1 .. Len(ix[k]) - lo + 1 |-> ix[k][lo + i - 1]]
    BY <2>1, <2>2, Zenon
  <2> QED BY <2>2, <2>3, Zenon
<1>3. DOMAIN kept = Kinds /\ kept = [k \in Kinds |-> kept[k]]
  BY <1>1 DEF RetainedEntries
<1> HIDE DEF kept
<1>4. ASSUME NEW k \in Kinds
      PROVE  /\ kept[k] \in Seq(Entries) /\ DOMAIN kept[k] = 1 .. Len(kept[k])
             /\ \E lo \in 1 .. Len(ix[k]) + 1 :
                   /\ Len(ix[k]) > 0 => lo <= Len(ix[k])
                   /\ Len(kept[k]) = Len(ix[k]) - lo + 1
                   /\ \A i \in 1 .. Len(kept[k]) : /\ lo + i - 1 \in DOMAIN ix[k]
                                                   /\ kept[k][i] = ix[k][lo + i - 1]
  <2> DEFINE n == Len(ix[k])
  <2>1. PICK lo \in 1 .. n + 1 : /\ n > 0 => lo <= n
                                 /\ kept[k] = [i \in 1 .. n - lo + 1 |-> ix[k][lo + i - 1]]
    BY <1>2
  <2>2. n \in Nat /\ DOMAIN ix[k] = 1 .. n /\ ix[k] \in Seq(Entries)
    BY LatestIs
  <2>3. \A i \in 1 .. n - lo + 1 : lo + i - 1 \in 1 .. n /\ ix[k][lo + i - 1] \in Entries
    BY <2>1, <2>2, ElementOfSeq
  <2>4. n - lo + 1 \in Nat
    BY <2>1, <2>2
  <2> DEFINE m == n - lo + 1
  <2>5. kept[k] \in [1 .. m -> Entries] /\ m \in Nat
    BY <2>1, <2>3, <2>4
  <2>6. kept[k] \in Seq(Entries) /\ Len(kept[k]) = m /\ DOMAIN kept[k] = 1 .. m
    BY <2>5
  <2> QED BY <2>1, <2>2, <2>3, <2>6
<1>5. kept \in [Kinds -> Seq(Entries)]
  BY <1>3, <1>4
<1>6. \A k \in Kinds : \A i \in DOMAIN kept[k] : Content[kept[k][i].doc].kind = k
  <2> TAKE k \in Kinds
  <2> TAKE i \in DOMAIN kept[k]
  <2>1. PICK j \in DOMAIN ix[k] : kept[k][i] = ix[k][j]
    BY <1>4
  <2> QED BY <2>1 DEF WellListed
<1>7. \A k \in Kinds : \A i, j \in DOMAIN kept[k] : kept[k][i].doc = kept[k][j].doc => i = j
  <2> SUFFICES ASSUME NEW k \in Kinds, NEW i \in DOMAIN kept[k], NEW j \in DOMAIN kept[k],
                      kept[k][i].doc = kept[k][j].doc
               PROVE  i = j
    OBVIOUS
  <2>1. PICK lo \in 1 .. Len(ix[k]) + 1 :
           \A h \in 1 .. Len(kept[k]) : lo + h - 1 \in DOMAIN ix[k] /\ kept[k][h] = ix[k][lo + h - 1]
    BY <1>4
  <2>2. i \in 1 .. Len(kept[k]) /\ j \in 1 .. Len(kept[k]) /\ Len(ix[k]) \in Nat
    BY <1>4, LatestIs
  <2>3. lo + i - 1 = lo + j - 1
    BY <2>1, <2>2, SMTT(30) DEF WellListed
  <2> QED BY <2>2, <2>3
<1>8. \A i \in DOMAIN kept["smoke"] : /\ ValidSmoke(Content[kept["smoke"][i].doc])
                                      /\ kept["smoke"][i].status = Content[kept["smoke"][i].doc].status
  <2> TAKE i \in DOMAIN kept["smoke"]
  <2>1. PICK k \in Kinds : k = "smoke"
    BY <1>1
  <2>2. PICK j \in DOMAIN ix[k] : kept[k][i] = ix[k][j]
    BY <1>4, <2>1, SMTT(30)
  <2> QED BY <2>1, <2>2 DEF WellListed
<1>9. WellListed(kept)
  BY <1>5, <1>6, <1>7, <1>8 DEF WellListed
<1>10. ASSUME NEW k \in Kinds
       PROVE  /\ kept[k] = <<>> <=> ix[k] = <<>>
              /\ ix[k] # <<>> => kept[k][Len(kept[k])] = ix[k][Len(ix[k])]
  <2>1. PICK lo \in 1 .. Len(ix[k]) + 1 :
                   /\ Len(ix[k]) > 0 => lo <= Len(ix[k])
                   /\ Len(kept[k]) = Len(ix[k]) - lo + 1
                   /\ \A i \in 1 .. Len(kept[k]) : kept[k][i] = ix[k][lo + i - 1]
    BY <1>4
  <2>2. /\ Len(ix[k]) \in Nat /\ Len(kept[k]) \in Nat
        /\ ix[k] = <<>> <=> Len(ix[k]) = 0
        /\ kept[k] = <<>> <=> Len(kept[k]) = 0
    BY <1>9, LatestIs
  <2>3. kept[k] = <<>> <=> ix[k] = <<>>
    BY <2>1, <2>2
  <2>4. ASSUME ix[k] # <<>> PROVE kept[k][Len(kept[k])] = ix[k][Len(ix[k])]
    <3>1. Len(kept[k]) \in 1 .. Len(kept[k]) /\ lo + Len(kept[k]) - 1 = Len(ix[k])
      BY <2>1, <2>2, <2>4
    <3> QED BY <2>1, <3>1
  <2> QED BY <2>3, <2>4
<1>11. \A k \in Kinds : LatestEntry(kept, k) = LatestEntry(ix, k)
  BY <1>9, <1>10, LatestIs
<1> QED BY <1>9, <1>11 DEF kept

\* A document that is not listed yet is listed at the end of its kind.
LEMMA ListingKeepsOrder ==
    ASSUME WellListed(index), NEW d \in Docs, NEW status \in Words, Content[d].kind \in Kinds,
           ~Listed(d),
           Content[d].kind = "smoke" => ValidSmoke(Content[d]) /\ status = Content[d].status,
           NEW later, later = [index EXCEPT ![Content[d].kind] = Append(@, Entry(d, status))]
    PROVE  /\ WellListed(later) /\ PrefixOf(index, later)
           /\ \A k \in Kinds : later[k] # <<>> =>
                 \/ later[k][Len(later[k])] = Entry(d, status)
                 \/ index[k] # <<>> /\ later[k][Len(later[k])] = index[k][Len(index[k])]
<1> DEFINE kind == Content[d].kind
           new == Entry(d, status)
<1>1. new \in Entries /\ new.doc = d /\ new.status = status
  BY DEF Entries, Entry
<1>2. \A k \in Kinds : /\ index[k] \in Seq(Entries) /\ Len(index[k]) \in Nat
                       /\ DOMAIN index[k] = 1 .. Len(index[k])
                       /\ index[k] = <<>> <=> Len(index[k]) = 0
  BY LatestIs
<1>3. later[kind] = Append(index[kind], new) /\ \A k \in Kinds : k # kind => later[k] = index[k]
  BY DEF WellListed
<1> HIDE DEF new
<1>4. /\ later[kind] \in Seq(Entries) /\ Len(later[kind]) = Len(index[kind]) + 1
      /\ DOMAIN later[kind] = 1 .. Len(index[kind]) + 1
      /\ \A i \in 1 .. Len(index[kind]) : later[kind][i] = index[kind][i]
      /\ later[kind][Len(index[kind]) + 1] = new
  BY <1>1, <1>2, <1>3, AppendProperties, LenProperties
<1>5. later \in [Kinds -> Seq(Entries)]
  <2>1. DOMAIN later = Kinds /\ later = [k \in Kinds |-> later[k]]
    BY DEF WellListed
  <2> QED BY <1>2, <1>3, <1>4, <2>1
<1>6. PrefixOf(index, later)
  BY <1>2, <1>3, <1>4 DEF PrefixOf
<1>7. \A i \in DOMAIN index[kind] : index[kind][i].doc # d
  BY DEF Listed
<1>8. ASSUME NEW i \in DOMAIN later[kind]
      PROVE  \/ /\ i \in DOMAIN index[kind]
                /\ later[kind][i] = index[kind][i]
             \/ /\ i = Len(index[kind]) + 1
                /\ later[kind][i] = new
  BY <1>2, <1>4
<1>9. ASSUME NEW k \in Kinds, NEW i \in DOMAIN later[k]
      PROVE  Content[later[k][i].doc].kind = k
  <2>1. CASE k = kind
    BY <1>1, <1>8, <2>1 DEF WellListed
  <2>2. CASE k # kind
    BY <1>3, <2>2 DEF WellListed
  <2> QED BY <2>1, <2>2
<1>10. ASSUME NEW k \in Kinds, NEW i \in DOMAIN later[k], NEW j \in DOMAIN later[k],
              later[k][i].doc = later[k][j].doc
       PROVE  i = j
  <2>1. CASE k = kind
    BY <1>1, <1>7, <1>8, <1>10, <2>1 DEF WellListed
  <2>2. CASE k # kind
    BY <1>3, <1>10, <2>2 DEF WellListed
  <2> QED BY <2>1, <2>2
<1>11. ASSUME NEW i \in DOMAIN later["smoke"]
       PROVE  /\ ValidSmoke(Content[later["smoke"][i].doc])
              /\ later["smoke"][i].status = Content[later["smoke"][i].doc].status
  <2>1. CASE kind = "smoke"
    BY <1>1, <1>8, <2>1 DEF WellListed
  <2>2. CASE kind # "smoke"
    <3>1. "smoke" \in Kinds
      BY DEF Kinds, PrunableKinds
    <3> QED BY <1>3, <2>2, <3>1 DEF WellListed
  <2> QED BY <2>1, <2>2
<1>12. WellListed(later)
  BY <1>5, <1>9, <1>10, <1>11 DEF WellListed
<1>13. ASSUME NEW k \in Kinds, later[k] # <<>>
       PROVE  \/ later[k][Len(later[k])] = new
              \/ /\ index[k] # <<>>
                 /\ later[k][Len(later[k])] = index[k][Len(index[k])]
  BY <1>3, <1>4, <1>13
<1> QED BY <1>6, <1>12, <1>13 DEF new

\* Whether an index answers depends on its latest entries alone.
LEMMA AnswersByLatest ==
    ASSUME NEW ix, WellListed(ix), NEW stored, NEW signed
    PROVE  Answers(ix, stored, signed)
             <=> \A k \in Kinds : LatestEntry(ix, k) # Nothing
                                  => Answered(LatestEntry(ix, k), stored, signed)
BY LatestIs DEF Answers

\* It still does when no body or sidecar of a latest entry is gone.
LEMMA AnswersKept ==
    ASSUME NEW ix, NEW stored, NEW signed, Answers(ix, stored, signed), NEW stored2, NEW signed2,
           \A k \in Kinds : ix[k] # <<>> =>
              /\ ix[k][Len(ix[k])].doc \in stored => ix[k][Len(ix[k])].doc \in stored2
              /\ signed[ix[k][Len(ix[k])].doc] # Nothing => signed2[ix[k][Len(ix[k])].doc] # Nothing
    PROVE  Answers(ix, stored2, signed2)
BY DEF Answers, Answered

\* A prune between its reading of the index and its rewriting of it: what it read
\* is the beginning of what is listed by now, and still answers.
Planned(plan, ix, stored, signed) ==
    /\ plan \in [at : {"removing"}, read : [Kinds -> Seq(Entries)], todo : SUBSET Docs]
    /\ WellListed(plan.read) /\ Answers(plan.read, stored, signed) /\ PrefixOf(plan.read, ix)
    /\ plan.todo \subseteq RetentionCandidates(plan.read, KeepLatest)

\* The inductive invariant behind what the surfaces read.
Evidence ==
    /\ bodies \subseteq Docs /\ DOMAIN sidecar = Docs
    /\ WellListed(index) /\ Answers(index, bodies, sidecar)
    /\ prune = Idle \/ Planned(prune, index, bodies, sidecar)

\* The beginning of a beginning.
LEMMA PrefixOfPrefix ==
    ASSUME NEW a, WellListed(a), NEW b, WellListed(b), NEW c, WellListed(c),
           PrefixOf(a, b), PrefixOf(b, c)
    PROVE  PrefixOf(a, c)
<1> SUFFICES ASSUME NEW k \in Kinds
             PROVE  /\ Len(a[k]) <= Len(c[k])
                    /\ \A i \in 1 .. Len(a[k]) : c[k][i] = a[k][i]
  BY DEF PrefixOf
<1>1. Len(a[k]) \in Nat /\ Len(b[k]) \in Nat /\ Len(c[k]) \in Nat
  BY LatestIs
<1>2. Len(a[k]) <= Len(b[k]) /\ Len(b[k]) <= Len(c[k])
  BY DEF PrefixOf
<1>3. \A i \in 1 .. Len(a[k]) : i \in 1 .. Len(b[k]) /\ b[k][i] = a[k][i] /\ c[k][i] = b[k][i]
  BY <1>1, <1>2 DEF PrefixOf
<1> QED BY <1>1, <1>2, <1>3

\* Every index begins with itself.
LEMMA PrefixOfItself ==
    ASSUME NEW ix, WellListed(ix) PROVE PrefixOf(ix, ix)
BY LatestIs DEF PrefixOf

\* What retention gives up is listed.
LEMMA CandidatesAreDocs ==
    ASSUME NEW ix, WellListed(ix) PROVE RetentionCandidates(ix, KeepLatest) \subseteq Docs
<1> SUFFICES ASSUME NEW d \in RetentionCandidates(ix, KeepLatest) PROVE d \in Docs
  OBVIOUS
<1>1. PICK k \in PrunableKinds : \E i \in 1 .. Len(ix[k]) - KeepLatest : d = ix[k][i].doc
  BY DEF RetentionCandidates
<1>2. PICK i \in 1 .. Len(ix[k]) - KeepLatest : d = ix[k][i].doc
  BY <1>1
<1>3. k \in Kinds
  BY DEF Kinds
<1>4. ix[k] \in Seq(Entries) /\ Len(ix[k]) \in Nat
  BY <1>3, LatestIs
<1>5. i \in 1 .. Len(ix[k])
  BY <1>2, <1>4, ControlPlaneConstants
<1>6. ix[k][i] \in Entries
  BY <1>4, <1>5, ElementOfSeq
<1> QED BY <1>2, <1>6 DEF Entries

\* An upload that is taken in: what it lists answers, and the plan of a prune
\* still begins what is listed.
LEMMA StoreKeepsEvidence ==
    ASSUME Evidence, NEW d \in Docs, NEW status \in Words, NEW signature,
           Content[d].kind \in Kinds,
           Content[d].kind = "smoke" => ValidSmoke(Content[d]) /\ status = Content[d].status,
           signature = Nothing => ~OfSignedUpload(Entry(d, status)),
           Store(d, status, signature)
    PROVE  Evidence'
<1>1. /\ bodies' = bodies \cup {d}
      /\ sidecar' = IF signature = Nothing THEN sidecar ELSE [sidecar EXCEPT ![d] = signature]
      /\ prune' = prune
  BY DEF Store, pruneVars, None, Nothing
<1>2. bodies' \subseteq Docs /\ DOMAIN sidecar' = Docs
  BY <1>1 DEF Evidence
<1>3. \A e \in Docs : /\ e \in bodies => e \in bodies'
                      /\ sidecar[e] # Nothing => sidecar'[e] # Nothing
  BY <1>1 DEF Evidence
<1>4. ASSUME NEW ix, WellListed(ix), Answers(ix, bodies, sidecar)
      PROVE  Answers(ix, bodies', sidecar')
  <2>1. \A k \in Kinds : ix[k] # <<>> => ix[k][Len(ix[k])].doc \in Docs
    BY <1>4, LatestIs DEF Entries
  <2> QED BY <1>3, <1>4, <2>1, AnswersKept
<1>5. Answered(Entry(d, status), bodies', sidecar')
  BY <1>1 DEF Answered, Entry, Evidence
<1>6. WellListed(index)' /\ Answers(index, bodies, sidecar)' /\ PrefixOf(index, index')
  <2>1. CASE Listed(d)
    <3>1. index' = index
      BY <2>1 DEF Store
    <3> QED BY <1>4, <3>1, PrefixOfItself DEF Evidence
  <2>2. CASE ~Listed(d)
    <3> DEFINE later == [index EXCEPT ![Content[d].kind] = Append(@, Entry(d, status))]
    <3>1. index' = later
      BY <2>2 DEF Store
    <3>2. WellListed(index)
      BY DEF Evidence
    <3>3. /\ WellListed(later) /\ PrefixOf(index, later)
          /\ \A k \in Kinds : later[k] # <<>> =>
                 \/ later[k][Len(later[k])] = Entry(d, status)
                 \/ /\ index[k] # <<>>
                    /\ later[k][Len(later[k])] = index[k][Len(index[k])]
      BY <2>2, <3>2, ListingKeepsOrder
    <3> HIDE DEF later
    <3>4. Answers(index, bodies', sidecar')
      BY <1>4, <3>2 DEF Evidence
    <3>5. Answers(later, bodies', sidecar')
      BY <1>5, <3>3, <3>4 DEF Answers
    <3> QED BY <3>1, <3>3, <3>5
  <2> QED BY <2>1, <2>2
<1>7. prune # Idle => Planned(prune, index, bodies, sidecar)'
  <2> SUFFICES ASSUME prune # Idle PROVE Planned(prune, index', bodies', sidecar')
    BY <1>1
  <2>1. Planned(prune, index, bodies, sidecar) /\ WellListed(index)
    BY DEF Evidence
  <2>2. PrefixOf(prune.read, index')
    BY <1>6, <2>1, PrefixOfPrefix DEF Planned
  <2>3. Answers(prune.read, bodies', sidecar')
    BY <1>4, <2>1 DEF Planned
  <2> QED BY <2>1, <2>2, <2>3 DEF Planned
<1> QED BY <1>1, <1>2, <1>6, <1>7 DEF Evidence

\* What a removal takes is the latest of no list.
LEMMA RemovalKeepsAnswers ==
    ASSUME Evidence, prune # Idle, NEW d \in prune.todo,
           NEW ix \in {index, prune.read}
    PROVE  /\ WellListed(ix)
           /\ Answers(ix, bodies \ {d}, [sidecar EXCEPT ![d] = Nothing])
<1>1. /\ WellListed(prune.read) /\ WellListed(index) /\ PrefixOf(prune.read, index)
      /\ Answers(prune.read, bodies, sidecar) /\ Answers(index, bodies, sidecar)
      /\ d \in RetentionCandidates(prune.read, KeepLatest) /\ DOMAIN sidecar = Docs
  BY DEF Evidence, Planned
<1>2. WellListed(ix) /\ PrefixOf(prune.read, ix) /\ Answers(ix, bodies, sidecar)
  BY <1>1, PrefixOfItself
<1>3. ASSUME NEW k \in Kinds, ix[k] # <<>> PROVE d # ix[k][Len(ix[k])].doc
  BY <1>1, <1>2, <1>3, LatestIsKept
<1>4. \A k \in Kinds : ix[k] # <<>> => ix[k][Len(ix[k])].doc \in Docs
  BY <1>2, LatestIs DEF Entries
<1>5. \A e \in Docs : e # d => [sidecar EXCEPT ![d] = Nothing][e] = sidecar[e]
  BY <1>1
<1> DEFINE after == [sidecar EXCEPT ![d] = Nothing]
<1> HIDE DEF after
<1>6. \A k \in Kinds : ix[k] # <<>> =>
              /\ ix[k][Len(ix[k])].doc \in bodies => ix[k][Len(ix[k])].doc \in bodies \ {d}
              /\ sidecar[ix[k][Len(ix[k])].doc] # Nothing => after[ix[k][Len(ix[k])].doc] # Nothing
  BY <1>3, <1>4, <1>5 DEF after
<1>7. Answers(ix, bodies \ {d}, after)
  BY <1>2, <1>6, AnswersKept
<1> QED BY <1>2, <1>7 DEF after

\* Every step keeps it.
LEMMA EvidenceStep == Evidence /\ [Next]_vars => Evidence'
<1> SUFFICES ASSUME Evidence, [Next]_vars PROVE Evidence'
  OBVIOUS
<1>1. ASSUME NEW d \in Docs, Upload(d) PROVE Evidence'
  <2> DEFINE status == Post(Content[d]).status
  <2>1. Post(Content[d]) # Refused /\ Store(d, status, Nothing)
    BY <1>1 DEF Upload, None, Nothing
  <2>2. status \in Words /\ ~OfSignedUpload(Entry(d, status))
    BY <2>1 DEF Words, OfSignedUpload, Entry
  <2>3. Content[d].kind \in Kinds
        /\ (Content[d].kind = "smoke" => ValidSmoke(Content[d]) /\ status = Content[d].status)
    BY <2>1, Posted
  <2> HIDE DEF status
  <2> QED BY <2>1, <2>2, <2>3, StoreKeepsEvidence
<1>2. ASSUME NEW d \in Docs, NEW signature \in Signatures, UploadSigned(d, signature) PROVE Evidence'
  <2> DEFINE taken == PostSigned(Content[d], signature, trusted, bodies)
  <2>1. taken # Refused /\ Store(d, taken.status, taken.sidecar)
    BY <1>2 DEF UploadSigned
  <2>2. /\ Content[d].kind \in {"memory", "packet", "registry", "evidence", "readiness", "evaluator", "decision"}
        /\ \E l \in KeySets : \E status \in {"signed", Content[d].status, Content[d].verdict} :
              taken = SignedAs(status, AnnotateTrustPolicy(signature, trusted[l]))
    BY <2>1, SignedByPolicy
  <2>3. taken.status \in Words /\ taken.sidecar # Nothing
    BY <2>2, NothingIsNothing DEF SignedAs, AnnotateTrustPolicy, Words
  <2>4. Content[d].kind \in Kinds /\ Content[d].kind # "smoke"
    BY <2>2 DEF Kinds, PrunableKinds
  <2> HIDE DEF taken
  <2> QED BY <2>1, <2>3, <2>4, StoreKeepsEvidence
<1>3. CASE PruneRead
  <2>1. /\ prune' = [at |-> "removing", read |-> index, todo |-> RetentionCandidates(index, KeepLatest)]
        /\ UNCHANGED <<bodies, sidecar, index>>
    BY <1>3 DEF PruneRead, storeVars
  <2>2. WellListed(index) /\ Answers(index, bodies, sidecar) /\ bodies \subseteq Docs /\ DOMAIN sidecar = Docs
    BY DEF Evidence
  <2>3. prune' \in [at : {"removing"}, read : [Kinds -> Seq(Entries)], todo : SUBSET Docs]
    BY <2>1, <2>2, CandidatesAreDocs DEF WellListed
  <2>4. prune'.read = index /\ prune'.todo = RetentionCandidates(index, KeepLatest)
    BY <2>1
  <2>5. Planned(prune', index, bodies, sidecar)
    BY <2>2, <2>3, <2>4, PrefixOfItself DEF Planned
  <2> QED BY <2>1, <2>2, <2>5 DEF Evidence
<1>4. ASSUME NEW d \in Docs, PruneRemove(d) PROVE Evidence'
  <2>1. /\ prune # Idle /\ d \in prune.todo
        /\ bodies' = bodies \ {d} /\ sidecar' = [sidecar EXCEPT ![d] = Nothing]
        /\ prune' = [prune EXCEPT !.todo = @ \ {d}] /\ index' = index
    BY <1>4 DEF PruneRemove
  <2>2. Planned(prune, index, bodies, sidecar)
    BY <2>1 DEF Evidence
  <2>3. /\ prune' \in [at : {"removing"}, read : [Kinds -> Seq(Entries)], todo : SUBSET Docs]
        /\ prune'.read = prune.read /\ prune'.todo \subseteq prune.todo
    BY <2>1, <2>2 DEF Planned
  <2>4. /\ WellListed(index) /\ Answers(index, bodies', sidecar')
        /\ WellListed(prune.read) /\ Answers(prune.read, bodies', sidecar')
    BY <2>1, RemovalKeepsAnswers
  <2>5. Planned(prune', index, bodies', sidecar')
    BY <2>2, <2>3, <2>4 DEF Planned
  <2>6. bodies' \subseteq Docs /\ DOMAIN sidecar' = Docs
    BY <2>1 DEF Evidence
  <2> QED BY <2>1, <2>4, <2>5, <2>6 DEF Evidence
<1>5. CASE PruneRewrite
  <2>1. /\ prune # Idle /\ index' = RetainedEntries(prune.read, KeepLatest) /\ prune' = Idle
        /\ UNCHANGED <<bodies, sidecar>>
    BY <1>5 DEF PruneRewrite
  <2>2. Planned(prune, index, bodies, sidecar)
    BY <2>1 DEF Evidence
  <2>3. WellListed(prune.read) /\ Answers(prune.read, bodies, sidecar)
    BY <2>2 DEF Planned
  <2>4. WellListed(index') /\ \A k \in Kinds : LatestEntry(index', k) = LatestEntry(prune.read, k)
    BY <2>1, <2>3, RetainedIsWellListed
  <2>5. Answers(index', bodies, sidecar)
    BY <2>3, <2>4, AnswersByLatest
  <2> QED BY <2>1, <2>4, <2>5 DEF Evidence
<1>6. CASE PruneStops
  BY <1>6 DEF PruneStops, storeVars, Evidence
<1>7. ASSUME NEW c \in Configurations, Restart(c) PROVE Evidence'
  BY <1>7 DEF Restart, storeVars, Evidence
<1>8. CASE UNCHANGED vars
  BY <1>8 DEF vars, storeVars, pruneVars, Evidence
<1> QED BY <1>1, <1>2, <1>3, <1>4, <1>5, <1>6, <1>7, <1>8 DEF Next

\* A finite set can be listed, each element once.
LEMMA ListOfASet ==
    ASSUME NEW S, IsFiniteSet(S)
    PROVE  /\ SetToSeq(S) \in Seq(S)
           /\ \A i, j \in DOMAIN SetToSeq(S) : SetToSeq(S)[i] = SetToSeq(S)[j] => i = j
<1>1. PICK n \in Nat : ExistsBijection(1 .. n, S)
  BY FS_NatBijection
<1>2. Cardinality(S) = n
  BY <1>1, FS_CountingElements
<1>3. \E f \in [1 .. Cardinality(S) -> S] : IsInjective(f)
  BY <1>1, <1>2 DEF ExistsBijection, Bijection, Injection
<1>4. SetToSeq(S) \in [1 .. Cardinality(S) -> S] /\ IsInjective(SetToSeq(S))
  BY <1>3 DEF SetToSeq
<1> QED BY <1>2, <1>4 DEF IsInjective

\* What was stored before was taken in, unsigned.
LEMMA EvidenceInit == Init => Evidence
<1> SUFFICES ASSUME Init PROVE Evidence
  OBVIOUS
<1>1. /\ IsFiniteSet(bodies) /\ bodies \subseteq Docs
      /\ \A d \in bodies : Post(Content[d]) # Refused
  BY ControlPlaneConstants DEF Init, Docs
<1>2. DOMAIN sidecar = Docs /\ prune = Idle
  BY DEF Init
<1> DEFINE of(k) == { s \in bodies : Content[s].kind = k }
           entries(k) == { Entry(d, Post(Content[d]).status) : d \in of(k) }
<1>3. index = [k \in Kinds |-> SetToSeq(entries(k))]
  BY DEF Init
<1>4. ASSUME NEW k \in Kinds
      PROVE  /\ index[k] \in Seq(entries(k))
             /\ \A i, j \in DOMAIN index[k] : index[k][i] = index[k][j] => i = j
  <2>1. IsFiniteSet(of(k))
    BY <1>1, FS_Subset
  <2> DEFINE f == [d \in of(k) |-> Entry(d, Post(Content[d]).status)]
  <2>2. f \in Surjection(of(k), entries(k))
    BY DEF Surjection
  <2> HIDE DEF f
  <2>3. IsFiniteSet(entries(k))
    BY <2>1, <2>2, FS_Surjection
  <2>4. index[k] = SetToSeq(entries(k))
    BY <1>3
  <2> HIDE DEF entries
  <2> QED BY <2>3, <2>4, ListOfASet
<1>5. ASSUME NEW k \in Kinds, NEW e \in entries(k)
      PROVE  /\ e \in Entries /\ e.doc \in bodies /\ Content[e.doc].kind = k
             /\ e.status = Post(Content[e.doc]).status
  <2>1. PICK d \in of(k) : e = Entry(d, Post(Content[d]).status)
    BY <1>5
  <2>2. e.doc = d /\ e.status = Post(Content[d]).status /\ d \in Docs
    BY <1>1, <2>1 DEF Entry
  <2> QED BY <1>1, <2>1, <2>2 DEF Entries, Entry, Words
<1> HIDE DEF entries
<1>6. ASSUME NEW k \in Kinds, NEW i \in DOMAIN index[k]
      PROVE  index[k][i] \in entries(k)
  BY <1>4, <1>6
<1>7. index \in [Kinds -> Seq(Entries)]
  <2>1. ASSUME NEW k \in Kinds PROVE index[k] \in Seq(Entries)
    <3>1. \A e \in entries(k) : e \in Entries
      BY <1>5
    <3>2. DOMAIN index[k] = 1 .. Len(index[k]) /\ Len(index[k]) \in Nat
          /\ index[k] = [i \in 1 .. Len(index[k]) |-> index[k][i]]
      BY <1>4
    <3>3. \A i \in 1 .. Len(index[k]) : index[k][i] \in Entries
      BY <1>6, <3>1, <3>2
    <3>4. index[k] \in [1 .. Len(index[k]) -> Entries]
      BY <3>2, <3>3
    <3> QED BY <3>2, <3>4
  <2> QED BY <1>3, <2>1
<1>8. \A k \in Kinds : \A i \in DOMAIN index[k] : Content[index[k][i].doc].kind = k
  BY <1>5, <1>6
<1>9. \A k \in Kinds : \A i, j \in DOMAIN index[k] : index[k][i].doc = index[k][j].doc => i = j
  <2> SUFFICES ASSUME NEW k \in Kinds, NEW i \in DOMAIN index[k], NEW j \in DOMAIN index[k],
                      index[k][i].doc = index[k][j].doc
               PROVE  i = j
    OBVIOUS
  <2>1. /\ index[k][i] \in Entries /\ index[k][i].status = Post(Content[index[k][i].doc]).status
        /\ index[k][j] \in Entries /\ index[k][j].status = Post(Content[index[k][j].doc]).status
    BY <1>5, <1>6
  <2>2. index[k][i] = index[k][j]
    BY <2>1 DEF Entries
  <2> QED BY <1>4, <2>2
<1>10. \A i \in DOMAIN index["smoke"] : /\ ValidSmoke(Content[index["smoke"][i].doc])
                                        /\ index["smoke"][i].status = Content[index["smoke"][i].doc].status
  <2> TAKE i \in DOMAIN index["smoke"]
  <2>1. PICK k \in Kinds : k = "smoke"
    BY DEF Kinds, PrunableKinds
  <2>2. /\ index[k][i].doc \in bodies /\ Content[index[k][i].doc].kind = "smoke"
        /\ index[k][i].status = Post(Content[index[k][i].doc]).status
    BY <1>5, <1>6, <2>1
  <2> QED BY <1>1, <2>1, <2>2, Posted
<1>11. WellListed(index)
  BY <1>7, <1>8, <1>9, <1>10 DEF WellListed
<1>12. Answers(index, bodies, sidecar)
  <2> SUFFICES ASSUME NEW k \in Kinds, index[k] # <<>>
               PROVE  Answered(index[k][Len(index[k])], bodies, sidecar)
    BY DEF Answers
  <2>1. Len(index[k]) \in DOMAIN index[k]
    BY <1>11, LatestIs
  <2>2. /\ index[k][Len(index[k])].doc \in bodies
        /\ index[k][Len(index[k])].status = Post(Content[index[k][Len(index[k])].doc]).status
    BY <1>5, <1>6, <2>1
  <2> QED BY <1>1, <2>2 DEF Answered, OfSignedUpload
<1> QED BY <1>1, <1>2, <1>11, <1>12 DEF Evidence

\* What the surfaces and the prune are about holds in every state.
THEOREM EvidenceHolds == Spec => []Evidence
BY EvidenceInit, EvidenceStep, PTL DEF Spec

\* LatestAnswers for every evidence, every keep_latest, any number of uploads
\* beside a prune.
THEOREM LatestEvidenceAnswers == Spec => []LatestAnswers
<1>1. Evidence => LatestAnswers
  <2> SUFFICES ASSUME Evidence, NEW k \in Kinds, LatestEntry(index, k) # Nothing
               PROVE  Answered(LatestEntry(index, k), bodies, sidecar)
    BY DEF LatestAnswers, Answered
  <2> QED BY AnswersByLatest DEF Evidence
<1> QED BY <1>1, EvidenceHolds, PTL

-----------------------------------------------------------------------------
(* What the surfaces conclude from it.                                     *)

\* The latest entry of a kind names a document of that kind.
LEMMA LatestOfItsKind ==
    ASSUME Evidence, NEW k \in Kinds, LatestEntry(index, k) # Nothing
    PROVE  /\ LatestEntry(index, k).doc \in Docs
           /\ Content[LatestEntry(index, k).doc].kind = k
<1>1. WellListed(index)
  BY DEF Evidence
<1>2. /\ LatestEntry(index, k) = index[k][Len(index[k])] /\ Len(index[k]) \in DOMAIN index[k]
      /\ LatestEntry(index, k) \in Entries
  BY <1>1, LatestIs
<1> QED BY <1>1, <1>2 DEF WellListed, Entries

\* The storage dashboard's gaps about the smoke summary are those of its entry.
LEMMA SmokeGap ==
    (\A gap \in Verdict : gap.id # "smoke") <=> ArtifactGap(index, "smoke", {}) = {}
<1>1. \A kind : \A gap \in ArtifactGap(index, kind, {}) : gap.id = kind
  BY DEF ArtifactGap
<1>2. \A kind : \A gap \in SignatureGap(index, sidecar, kind) : gap.id = kind
  BY DEF SignatureGap
<1>3. ASSUME NEW gap, gap \in Verdict, gap.id = "smoke" PROVE gap \in ArtifactGap(index, "smoke", {})
  <2>1. \/ \E kind \in RequiredArtifacts : gap \in ArtifactGap(index, kind, {})
        \/ \E kind \in {"readiness", "decision", "evaluator"} : gap \in SignatureGap(index, sidecar, kind)
    BY <1>3 DEF Verdict, StorageGaps
  <2>2. gap \notin SignatureGap(index, sidecar, "readiness") /\ gap \notin SignatureGap(index, sidecar, "decision")
        /\ gap \notin SignatureGap(index, sidecar, "evaluator")
    BY <1>2, <1>3
  <2>3. PICK kind \in RequiredArtifacts : gap \in ArtifactGap(index, kind, {})
    BY <2>1, <2>2
  <2> QED BY <1>1, <1>3, <2>3
<1>4. ASSUME NEW gap \in ArtifactGap(index, "smoke", {}) PROVE gap \in Verdict /\ gap.id = "smoke"
  BY <1>1, <1>4 DEF Verdict, StorageGaps, RequiredArtifacts
<1> QED BY <1>3, <1>4

\* SmokeVerdictsAgree for every evidence: a summary that got in has the status
\* its targets give it.
THEOREM SmokeVerdicts == Spec => []SmokeVerdictsAgree
<1>1. Evidence => SmokeVerdictsAgree
  <2> SUFFICES ASSUME Evidence
               PROVE  ThreeOsSmokeStatus(View) = "passed" <=> ArtifactGap(index, "smoke", {}) = {}
    BY SmokeGap DEF SmokeVerdictsAgree
  <2> DEFINE entry == LatestEntry(index, "smoke")
             smoke == Content[entry.doc]
  <2>0. "smoke" \in Kinds
    BY DEF Kinds, PrunableKinds
  <2>1. View.smoke = IF entry = Nothing THEN None ELSE smoke
    BY DEF View, Latest
  <2>2. CASE entry = Nothing
    <3>1. ThreeOsSmokeStatus(View) = "external_required"
      BY <2>1, <2>2 DEF ThreeOsSmokeStatus
    <3>2. ArtifactGap(index, "smoke", {}) # {}
      BY <2>2 DEF ArtifactGap
    <3> QED BY <3>1, <3>2
  <2>3. CASE entry # Nothing
    <3>1. smoke.kind = "smoke"
      BY <2>0, <2>3, LatestOfItsKind
    <3>2. ValidSmoke(smoke) /\ entry.status = smoke.status
      <4>1. WellListed(index)
        BY DEF Evidence
      <4>2. entry = index["smoke"][Len(index["smoke"])] /\ Len(index["smoke"]) \in DOMAIN index["smoke"]
        BY <2>0, <2>3, <4>1, LatestIs
      <4> QED BY <4>1, <4>2 DEF WellListed
    <3>3. View.smoke = smoke /\ smoke # None
      BY <2>1, <2>3, <3>1 DEF None
    <3>4. ArtifactGap(index, "smoke", {}) = {} <=> entry.status \notin BlockingStatuses
      BY <2>3 DEF ArtifactGap
    <3> HIDE DEF smoke, entry
    <3>5. smoke.status = IF AllTargetsPassed(smoke) /\ ~smoke.dirty THEN "passed" ELSE "failed"
      BY <3>2 DEF ValidSmoke
    <3>6. ThreeOsSmokeStatus(View) = IF CleanPass(smoke) THEN "passed" ELSE "failed"
      BY <3>3 DEF ThreeOsSmokeStatus
    <3> QED BY <3>2, <3>4, <3>5, <3>6 DEF CleanPass, BlockingStatuses
  <2> QED BY <2>2, <2>3
<1> QED BY <1>1, EvidenceHolds, PTL

\* NoSelfPromotion for every evidence, every signer and every change of keys.
THEOREM SelfSignedIsNotReady == Spec => []NoSelfPromotion
<1>1. Evidence /\ AuthorityIsPinned => NoSelfPromotion
  <2> SUFFICES ASSUME Evidence, AuthorityIsPinned, PanelStatus(View) = "ready"
               PROVE  LatestSidecar("decision").key \in everTrusted
    BY DEF NoSelfPromotion
  <2>1. ReleaseAuthoritative(View.decisionSidecar)
    BY DEF PanelStatus
  <2>2. LatestSidecar("decision") # None /\ LatestSidecar("decision").authoritative
    BY <2>1 DEF ReleaseAuthoritative, View
  <2>3. LatestEntry(index, "decision") # Nothing
        /\ LatestSidecar("decision") = sidecar[LatestEntry(index, "decision").doc]
    BY <2>2 DEF LatestSidecar
  <2>4. LatestEntry(index, "decision").doc \in Docs
    BY <2>3, LatestOfItsKind DEF Kinds, PrunableKinds
  <2> QED BY <2>2, <2>3, <2>4 DEF AuthorityIsPinned, None, Nothing
<1> QED BY <1>1, EvidenceHolds, AuthorityPinned, PTL

\* Two states whose latest entries are the same, and their sidecars, read the
\* same.
LEMMA ReadsTheSame ==
    ASSUME \A k \in Kinds : /\ LatestEntry(index, k)' = LatestEntry(index, k)
                            /\ LatestEntry(index, k) # Nothing =>
                                  sidecar'[LatestEntry(index, k).doc] = sidecar[LatestEntry(index, k).doc]
    PROVE  View' = View /\ Verdict' = Verdict
<1>1. ASSUME NEW k \in Kinds
      PROVE  Latest(k)' = Latest(k) /\ LatestSidecar(k)' = LatestSidecar(k)
  BY <1>1 DEF Latest, LatestSidecar
<1>2. {"readiness", "codex", "claude", "antigravity", "checklist", "decision", "smoke"} \subseteq Kinds
  BY DEF Kinds, PrunableKinds
<1>3. View' = View
  BY <1>1, <1>2 DEF View
<1>4. ASSUME NEW k \in Kinds PROVE ArtifactGap(index, k, {})' = ArtifactGap(index, k, {})
  BY <1>4 DEF ArtifactGap
<1>5. ASSUME NEW k \in Kinds
      PROVE  SignatureGap(index, sidecar, k)' = SignatureGap(index, sidecar, k)
  BY <1>5 DEF SignatureGap
<1>6. RequiredArtifacts \cup {"readiness", "decision", "evaluator"} \subseteq Kinds
  BY DEF RequiredArtifacts, Kinds, PrunableKinds
<1>7. Verdict' = Verdict
  BY <1>4, <1>5, <1>6 DEF Verdict, StorageGaps
<1> QED BY <1>3, <1>7

\* PruneKeepsVerdicts for every evidence and every keep_latest.
THEOREM PrunesChangeNoVerdict == Spec => PruneKeepsVerdicts
<1> DEFINE Pruned == (\E d \in Docs : PruneRemove(d)) \/ PruneRewrite
           Kept == prune # Idle /\ prune.read = index /\ Pruned => View' = View /\ Verdict' = Verdict
<1>1. ASSUME Evidence, prune # Idle, prune.read = index, NEW d \in Docs, PruneRemove(d)
      PROVE  View' = View /\ Verdict' = Verdict
  <2>1. d \in prune.todo /\ index' = index /\ sidecar' = [sidecar EXCEPT ![d] = Nothing]
    BY <1>1 DEF PruneRemove
  <2>2. WellListed(index) /\ d \in RetentionCandidates(index, KeepLatest) /\ DOMAIN sidecar = Docs
    BY <1>1, <2>1 DEF Evidence, Planned
  <2>3. ASSUME NEW k \in Kinds, LatestEntry(index, k) # Nothing
        PROVE  sidecar'[LatestEntry(index, k).doc] = sidecar[LatestEntry(index, k).doc]
    <3>1. index[k] # <<>> /\ LatestEntry(index, k) = index[k][Len(index[k])]
      BY <2>2, <2>3, LatestIs
    <3>2. d # LatestEntry(index, k).doc
      BY <2>2, <3>1, LatestIsKept, PrefixOfItself
    <3>3. LatestEntry(index, k).doc \in Docs
      BY <1>1, <2>3, LatestOfItsKind
    <3> QED BY <2>1, <2>2, <3>2, <3>3
  <2>4. \A k \in Kinds : LatestEntry(index, k)' = LatestEntry(index, k)
    BY <2>1 DEF LatestEntry
  <2> QED BY <2>3, <2>4, ReadsTheSame
<1>2. ASSUME Evidence, prune # Idle, prune.read = index, PruneRewrite
      PROVE  View' = View /\ Verdict' = Verdict
  <2>1. index' = RetainedEntries(index, KeepLatest) /\ sidecar' = sidecar
    BY <1>2 DEF PruneRewrite
  <2>2. WellListed(index)
    BY <1>2 DEF Evidence
  <2>3. \A k \in Kinds : LatestEntry(index', k) = LatestEntry(index, k)
    BY <2>1, <2>2, RetainedIsWellListed
  <2>4. \A k \in Kinds : LatestEntry(index, k)' = LatestEntry(index', k)
    OBVIOUS
  <2> QED BY <2>1, <2>3, <2>4, ReadsTheSame
<1>3. Evidence => Kept
  BY <1>1, <1>2
<1> HIDE DEF Pruned
<1>4. Spec => [][Kept]_vars
  BY <1>3, EvidenceHolds, PTL
<1> QED BY <1>4 DEF PruneKeepsVerdicts, Pruned

\* What a stored signature says of its signer, and the bounds.
Bounded ==
    /\ \A d \in Docs : sidecar[d] = Nothing \/ sidecar[d].key \in everTrusted \cup { s.key : s \in Signatures }
    /\ uploads \in 0 .. MaxUploads /\ prunes \in 0 .. MaxPrunes

\* Every step keeps them.
LEMMA BoundedStep == Bounded /\ Evidence /\ TrustInv /\ [Next]_vars => Bounded'
<1> SUFFICES ASSUME Bounded, Evidence, TrustInv, [Next]_vars PROVE Bounded'
  OBVIOUS
<1> DEFINE keys == { s.key : s \in Signatures }
<1>0. MaxUploads \in Nat /\ MaxPrunes \in Nat
  BY ControlPlaneConstants
<1>1. ASSUME NEW d, NEW status, NEW signature, Store(d, status, signature) PROVE uploads' \in 0 .. MaxUploads
  <2>1. PICK n \in {0, 1} : uploads' = uploads + n
    BY <1>1 DEF Store
  <2>2. uploads' <= MaxUploads
    BY <1>1 DEF Store
  <2> QED BY <1>0, <2>1, <2>2 DEF Bounded
<1>2. ASSUME NEW d \in Docs, Upload(d) PROVE Bounded'
  <2>1. UNCHANGED <<sidecar, everTrusted, prunes>> /\ uploads' \in 0 .. MaxUploads
    BY <1>1, <1>2 DEF Upload, Store, configVars, pruneVars
  <2> QED BY <2>1 DEF Bounded
<1>3. ASSUME NEW d \in Docs, NEW signature \in Signatures, UploadSigned(d, signature) PROVE Bounded'
  <2> DEFINE taken == PostSigned(Content[d], signature, trusted, bodies)
  <2>1. /\ UNCHANGED <<everTrusted, prunes>> /\ uploads' \in 0 .. MaxUploads
        /\ sidecar' = sidecar \/ sidecar' = [sidecar EXCEPT ![d] = taken.sidecar]
    BY <1>1, <1>3 DEF UploadSigned, Store, configVars, pruneVars
  <2>2. PICK l \in KeySets : \E status : taken = SignedAs(status, AnnotateTrustPolicy(signature, trusted[l]))
    BY <1>3, SignedByPolicy DEF UploadSigned
  <2>3. taken.sidecar.key \in keys
    BY <2>2 DEF SignedAs, AnnotateTrustPolicy
  <2> HIDE DEF taken, keys
  <2>4. \A e \in Docs : sidecar'[e] = sidecar[e] \/ sidecar'[e].key \in keys
    BY <2>1, <2>3 DEF Evidence
  <2> QED BY <2>1, <2>4 DEF Bounded, keys
<1>4. CASE PruneRead
  <2>1. UNCHANGED <<sidecar, uploads, everTrusted>> /\ prunes < MaxPrunes /\ prunes' = prunes + 1
    BY <1>4 DEF PruneRead, storeVars, configVars
  <2> QED BY <1>0, <2>1 DEF Bounded
<1>5. ASSUME NEW d \in Docs, PruneRemove(d) PROVE Bounded'
  BY <1>5 DEF PruneRemove, configVars, Bounded, Evidence
<1>6. CASE PruneRewrite \/ PruneStops
  BY <1>6 DEF PruneRewrite, PruneStops, storeVars, configVars, Bounded
<1>7. ASSUME NEW c \in Configurations, Restart(c) PROVE Bounded'
  BY <1>7 DEF Restart, storeVars, Bounded
<1>8. CASE UNCHANGED vars
  BY <1>8 DEF vars, storeVars, configVars, pruneVars, Bounded
<1> QED BY <1>2, <1>3, <1>4, <1>5, <1>6, <1>7, <1>8 DEF Next

\* TypeOK for every evidence, bound and configuration.
THEOREM TypeCorrect == Spec => []TypeOK
<1>1. Init => TrustInv /\ Bounded
  <2> SUFFICES ASSUME Init PROVE TrustInv /\ Bounded
    OBVIOUS
  <2>1. trusted \in Configurations /\ everTrusted = Keys(trusted) /\ DOMAIN sidecar = Docs
    BY DEF Init
  <2>2. \A d \in Docs : sidecar[d] = Nothing
    BY DEF Init
  <2>3. uploads \in 0 .. MaxUploads /\ prunes \in 0 .. MaxPrunes
    BY ControlPlaneConstants DEF Init
  <2> QED BY <2>1, <2>2, <2>3, KeysOf DEF TrustInv, AuthorityIsPinned, Bounded
<1>2. Evidence /\ TrustInv /\ Bounded => TypeOK
  <2> SUFFICES ASSUME Evidence, TrustInv, Bounded PROVE TypeOK
    OBVIOUS
  <2>1. \A k \in Kinds : \A i \in DOMAIN index[k] :
          /\ Content[index[k][i].doc].kind = k
          /\ \A j \in DOMAIN index[k] : index[k][i].doc = index[k][j].doc => i = j
    BY DEF Evidence, WellListed
  <2> QED BY <2>1 DEF TypeOK, Evidence, TrustInv, Bounded
<1>3. Spec => [](Evidence /\ TrustInv /\ Bounded)
  BY <1>1, EvidenceInit, EvidenceStep, TrustInvStep, BoundedStep, PTL DEF Spec
<1> QED BY <1>2, <1>3, PTL
=============================================================================
