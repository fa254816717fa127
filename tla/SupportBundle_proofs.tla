-------------------------- MODULE SupportBundle_proofs --------------------------
(***************************************************************************)
(* The release surfaces for every evidence and every order of uploads and  *)
(* readings: status and reasons agree, a torn bundle that is assembled is  *)
(* refused offline, a ready bundle verifies but for two kinds of install   *)
(* verification, and an altered one does not.                              *)
(***************************************************************************)
EXTENDS SupportBundle, FiniteSetTheorems, SequenceTheorems, TLAPS

-----------------------------------------------------------------------------
(* Status and reasons.                                                     *)

\* A gate that does not block shows what is expected of it.
LEMMA GateOpen ==
    ASSUME NEW v, NEW install, NEW id, NEW observed, NEW expected,
           Gate(id, observed, expected) \in Gates(v, install),
           ReadinessBlockers(v, install) = {}
    PROVE  observed = expected
<1>1. Gate(id, observed, expected).observed = observed
      /\ Gate(id, observed, expected).expected = expected
  BY DEF Gate
<1>2. Gate(id, observed, expected).observed = Gate(id, observed, expected).expected
  BY DEF ReadinessBlockers
<1> QED BY <1>1, <1>2

\* Whatever keeps a handoff from being ready is a gate of the readiness.
LEMMA HandoffGates ==
    ASSUME NEW v, NEW install, ReadinessBlockers(v, install) = {}
    PROVE  HandoffStatus(v) = "ready"
<1>1. CockpitStatus(v) = "ready"
  <2>1. Gate("release_cockpit", CockpitStatus(v), "ready") \in Gates(v, install)
    BY DEF Gates
  <2> QED BY <2>1, GateOpen
<1>2. Phase1Status(v) = "observed"
  <2>1. Gate("phase1_promotion", Phase1Status(v), "observed") \in Gates(v, install)
    BY DEF Gates
  <2> QED BY <2>1, GateOpen
<1>3. DecisionSignature(v) = "present"
  <2>1. Gate("decision_signature", DecisionSignature(v), "present") \in Gates(v, install)
    BY DEF Gates
  <2> QED BY <2>1, GateOpen
<1>4. LiveAcceptance(v) = "live_complete"
  <2>1. Gate("provider_acceptance", LiveAcceptance(v), "live_complete") \in Gates(v, install)
    BY DEF Gates
  <2> QED BY <2>1, GateOpen
<1>5. EvaluatorGate(v.evaluator) = "accepted"
  <2>1. Gate("release_evaluator_decision", EvaluatorGate(v.evaluator), "accepted") \in Gates(v, install)
    BY DEF Gates
  <2> QED BY <2>1, GateOpen
<1>6. Correlation(v) = "matched"
  <2>1. Gate("candidate_correlation", Correlation(v), "matched") \in Gates(v, install)
    BY DEF Gates
  <2> QED BY <2>1, GateOpen
<1>7. SurfaceParity(v.smoke) = "matched"
  <2>1. Gate("surface_content_hash_parity", SurfaceParity(v.smoke), "matched") \in Gates(v, install)
    BY DEF Gates
  <2> QED BY <2>1, GateOpen
<1> QED BY <1>1, <1>2, <1>3, <1>4, <1>5, <1>6, <1>7 DEF HandoffStatus

\* Readiness is ready exactly where no gate blocks, whatever was read.
THEOREM ReadinessIsExplained ==
    ASSUME NEW v, NEW install
    PROVE  ReadinessStatus(v, install) = "ready" <=> ReadinessBlockers(v, install) = {}
<1>1. CASE ReadinessBlockers(v, install) = {}
  BY <1>1, HandoffGates DEF ReadinessStatus
<1>2. CASE ReadinessBlockers(v, install) # {}
  BY <1>2 DEF ReadinessStatus
<1> QED BY <1>1, <1>2

\* The assembly is assembled exactly where it lists no blockers.
THEOREM AssemblyIsExplained ==
    ASSUME NEW readiness, NEW handoff
    PROVE  AssemblyStatus(readiness, handoff) = "assembled"
             <=> AssemblyBlockers(readiness, handoff) = {}
<1>1. Correlation(handoff) # "matched" => CorrelationBlockers(handoff) # {}
  BY DEF Correlation
<1> QED BY <1>1 DEF AssemblyStatus, AssemblyBlockers

\* AttentionIsExplained in every state, for every evidence.
THEOREM AttentionExplained == Spec => []AttentionIsExplained
<1>1. AttentionIsExplained
  BY ReadinessIsExplained, AssemblyIsExplained
  DEF AttentionIsExplained, Readiness, Assembly
<1> QED BY <1>1, PTL

-----------------------------------------------------------------------------
(* Types.                                                                  *)

\* What one reading may look up.
LookedUp ==
    { {"publication"}, {"registry"}, {"readiness"}, {"checklist"}, {"decision"}, {"smoke"},
      {"evaluator"}, {"codex", "claude"}, Kinds }

\* A request makes finitely many readings, each of one section.
LEMMA ReadingsAreFinite ==
    /\ Readings \in Seq([section : Sections, kinds : LookedUp])
    /\ Len(Readings) \in Nat
    /\ \A i \in 1 .. Len(Readings) :
          Readings[i] \in [section : Sections, kinds : LookedUp]
<1>. DEFINE R == [section : Sections, kinds : LookedUp]
<1>1. \A s \in Sections : \A k \in LookedUp : Reading(s, k) \in R
  BY DEF Reading
<1>2. /\ {"publication"} \in LookedUp /\ {"registry"} \in LookedUp /\ {"readiness"} \in LookedUp
      /\ {"checklist"} \in LookedUp /\ {"decision"} \in LookedUp /\ {"smoke"} \in LookedUp
      /\ {"evaluator"} \in LookedUp /\ {"codex", "claude"} \in LookedUp /\ Kinds \in LookedUp
  BY DEF LookedUp
<1>3. /\ "readiness" \in Sections /\ "install" \in Sections /\ "handoff" \in Sections
      /\ "cockpit" \in Sections /\ "evaluator" \in Sections /\ "storage" \in Sections
  BY DEF Sections
<1>. HIDE DEF R
<1>4. ASSUME NEW s \in Sections PROVE CockpitReadings(s) \in Seq(R)
  <2>1. /\ Reading(s, {"publication"}) \in R /\ Reading(s, {"registry"}) \in R
        /\ Reading(s, {"readiness"}) \in R /\ Reading(s, {"checklist"}) \in R
        /\ Reading(s, {"decision"}) \in R /\ Reading(s, {"smoke"}) \in R
        /\ Reading(s, {"evaluator"}) \in R /\ Reading(s, {"codex", "claude"}) \in R
    BY <1>1, <1>2, Zenon
  <2> QED BY <2>1 DEF CockpitReadings
<1>5. /\ CockpitReadings("readiness") \in Seq(R) /\ CockpitReadings("handoff") \in Seq(R)
      /\ CockpitReadings("cockpit") \in Seq(R)
  BY <1>3, <1>4
<1>6. /\ << Reading("install", {"publication"}) >> \in Seq(R)
      /\ << Reading("evaluator", {"evaluator"}), Reading("storage", Kinds) >> \in Seq(R)
  <2>1. /\ Reading("install", {"publication"}) \in R
        /\ Reading("evaluator", {"evaluator"}) \in R /\ Reading("storage", Kinds) \in R
    BY <1>1, <1>2, <1>3, Zenon
  <2> QED BY <2>1
<1>7. Readings \in Seq(R)
  BY <1>5, <1>6 DEF Readings
<1>8. Len(Readings) \in Nat /\ \A i \in 1 .. Len(Readings) : Readings[i] \in R
  BY <1>7
<1> QED BY <1>7, <1>8 DEF R

\* TypeOK for every evidence and every bound.
THEOREM TypeCorrect == Spec => []TypeOK
<1>. USE SupportBundleConstants
<1>1. Init => TypeOK
  <2>. SUFFICES ASSUME Init PROVE TypeOK
    OBVIOUS
  <2>1. latest \in [Kinds -> Nat] /\ \A k \in Kinds : latest[k] <= Len(Evidence[k])
    BY DEF Init, Kinds
  <2>2. Unread \in [Kinds -> Nat] /\ \A k \in Kinds : Unread[k] <= Len(Evidence[k])
    BY DEF Unread, Kinds
  <2>3. step \in 0 .. Len(Readings)
    BY ReadingsAreFinite DEF Init
  <2>4. section \in [Sections -> [Kinds -> Nat]] /\ \A s \in Sections, k \in Kinds : section[s][k] <= Len(Evidence[k])
    <3>1. section = [s \in Sections |-> Unread]
      BY DEF Init
    <3> QED BY <2>2, <3>1
  <2>5. changes \in 0 .. MaxChanges
    BY DEF Init
  <2>6. lost \in BOOLEAN
    BY Zenon DEF Init
  <2> QED BY <2>1, <2>3, <2>4, <2>5, <2>6 DEF TypeOK
<1>2. TypeOK /\ [Next]_vars => TypeOK'
  <2>. SUFFICES ASSUME TypeOK, [Next]_vars PROVE TypeOK'
    OBVIOUS
  <2>1. CASE Read
    <3>. DEFINE r == Readings[step + 1]
    <3>1. Len(Readings) \in Nat /\ r \in [section : Sections, kinds : LookedUp]
      <4>1. step + 1 \in 1 .. Len(Readings)
        BY <2>1, ReadingsAreFinite DEF Read, Advance, TypeOK
      <4> QED BY <4>1, ReadingsAreFinite
    <3>2. step' \in 0 .. Len(Readings)
      BY <2>1, <3>1 DEF Read, Advance, TypeOK
    <3>3. section' = [section EXCEPT ![r.section] = [k \in Kinds |-> IF k \in r.kinds THEN latest[k] ELSE @[k]]]
      BY <2>1 DEF Read, Advance
    <3>4. section' \in [Sections -> [Kinds -> Nat]]
      BY <3>1, <3>3 DEF TypeOK
    <3>5. ASSUME NEW s \in Sections, NEW k \in Kinds PROVE section'[s][k] <= Len(Evidence[k])
      <4>1. section'[s][k] \in { section[s][k], latest[k] }
        BY <3>1, <3>3 DEF TypeOK
      <4> QED BY <4>1 DEF TypeOK
    <3>6. UNCHANGED <<latest, changes, lost>>
      BY <2>1 DEF Read, Advance
    <3> QED BY <3>2, <3>4, <3>5, <3>6 DEF TypeOK
  <2>2. ASSUME NEW kinds \in Bursts, Upload(kinds) PROVE TypeOK'
    <3>1. latest' \in [Kinds -> Nat] /\ \A x \in Kinds : latest'[x] <= Len(Evidence[x])
      <4>1. latest' = [k \in Kinds |-> IF k \in kinds THEN latest[k] + 1 ELSE latest[k]]
        BY <2>2 DEF Upload
      <4>2. ASSUME NEW k \in Kinds
            PROVE  /\ latest[k] \in Nat /\ latest[k] <= Len(Evidence[k]) /\ Len(Evidence[k]) \in Nat
                   /\ k \in kinds => latest[k] < Len(Evidence[k])
        BY <2>2 DEF Upload, TypeOK, Kinds
      <4> QED BY <4>1, <4>2
    <3>2. changes' \in 0 .. MaxChanges
      BY <2>2 DEF Upload, TypeOK
    <3> QED BY <2>2, <3>1, <3>2 DEF Upload, TypeOK
  <2>3. ASSUME NEW k \in Kinds, Lose(k) PROVE TypeOK'
    <3>1. latest' \in [Kinds -> Nat] /\ \A x \in Kinds : latest'[x] <= Len(Evidence[x])
      BY <2>3 DEF Lose, TypeOK, Kinds
    <3>2. changes' \in 0 .. MaxChanges
      BY <2>3 DEF Lose, TypeOK
    <3> QED BY <2>3, <3>1, <3>2 DEF Lose, TypeOK
  <2>4. CASE UNCHANGED vars
    BY <2>4 DEF vars, TypeOK
  <2> QED BY <2>1, <2>2, <2>3, <2>4 DEF Next
<1> QED BY <1>1, <1>2, PTL DEF Spec
-----------------------------------------------------------------------------
(* The bundle and its verification.                                        *)

Ids == {"release_assembly", "release_readiness", "release_candidate_handoff", "release_cockpit",
        "release_evaluator_decision", "install_verification", "hosted_release_smoke",
        "ci_evidence_index", "storage_support_bundle"}

\* The manifest names nine surfaces, each once.
LEMMA ManifestNames ==
    /\ Len(Manifest) = 9 /\ DOMAIN Manifest = 1 .. 9
    /\ \A i, j \in 1 .. 9 : Manifest[i] = Manifest[j] => i = j
    /\ SurfaceIds = Ids
    /\ \A i \in 1 .. 9 : Manifest[i] \in SurfaceIds
    /\ "elsewhere" \notin SurfaceIds
<1>1. Len(Manifest) = 9 /\ DOMAIN Manifest = 1 .. 9
  BY DEF Manifest
<1>2. \A i, j \in 1 .. 9 : Manifest[i] = Manifest[j] => i = j
  BY DEF Manifest
<1>3. SurfaceIds = { Manifest[i] : i \in 1 .. 9 }
  BY <1>1 DEF SurfaceIds, ToSet
<1>4. SurfaceIds = Ids
  BY <1>3 DEF Manifest, Ids
<1> QED BY <1>1, <1>2, <1>3, <1>4 DEF Ids

\* Nine surfaces are nine.
LEMMA NineSurfaces == Cardinality(SurfaceIds) = 9
<1>1. Manifest \in [1 .. 9 -> SurfaceIds]
  BY ManifestNames DEF Manifest
<1>2. \A id \in SurfaceIds : \E i \in 1 .. 9 : Manifest[i] = id
  BY ManifestNames DEF SurfaceIds, ToSet
<1>3. Manifest \in Bijection(1 .. 9, SurfaceIds)
  BY <1>1, <1>2, ManifestNames DEF Bijection, Injection, Surjection, IsInjective
<1> QED BY <1>3, FS_CountingElements DEF ExistsBijection

\* What a bundle carries.
LEMMA BundleCarries ==
    /\ Bundle.content = [id \in SurfaceIds |-> Content(id)]
    /\ Bundle.integrity = [id \in SurfaceIds |-> Content(id)]
    /\ Bundle.rows = [i \in 1 .. 9 |-> Row(Manifest[i])] /\ Len(Bundle.rows) = 9
    /\ Bundle.count = Cardinality(SurfaceIds) /\ Bundle.role = "read_only_observer"
    /\ \A id : /\ Row(id).id = id /\ Row(id).path = id /\ Row(id).schema = id
               /\ Row(id).sha = Content(id) /\ Content(id).schema = id
               /\ Content(id).text = "served"
<1>1. \A id : Content(id).schema = id /\ Content(id).text = "served"
  BY DEF Content
<1>2. \A id : Digest(Content(id)) = Content(id)
  BY DEF Digest
<1>3. Bundle.rows = [i \in 1 .. 9 |-> Row(Manifest[i])]
  BY ManifestNames DEF Bundle
<1>4. Len(Bundle.rows) = 9
  BY <1>3
<1>5. /\ Bundle.content = [id \in SurfaceIds |-> Content(id)]
      /\ Bundle.count = Cardinality(SurfaceIds) /\ Bundle.role = "read_only_observer"
  BY DEF Bundle
<1>6. Bundle.integrity = [id \in SurfaceIds |-> Content(id)]
  BY <1>2 DEF Bundle
<1>7. \A id : Row(id).id = id /\ Row(id).path = id /\ Row(id).schema = id /\ Row(id).sha = Content(id)
  BY <1>2 DEF Row
<1> QED BY <1>1, <1>3, <1>4, <1>5, <1>6, <1>7

\* What the verifications look at in a surface as served.
LEMMA BundleDetails ==
    ASSUME NEW id \in SurfaceIds
    PROVE  /\ Bundle.content[id] = Content(id) /\ Bundle.integrity[id] = Content(id)
           /\ Bundle.content[id].detail = Detail(id)
<1>1. Bundle.content[id] = Content(id) /\ Bundle.integrity[id] = Content(id)
  BY BundleCarries
<1> QED BY <1>1 DEF Content

\* The rows are those of the manifest, none twice.
LEMMA BundleRows ==
    /\ \A i \in 1 .. 9 : /\ Bundle.rows[i] = Row(Manifest[i]) /\ Bundle.rows[i].id = Manifest[i]
                          /\ Manifest[i] \in SurfaceIds
    /\ \A i, j \in 1 .. 9 : Bundle.rows[j].id = Bundle.rows[i].id => i = j
<1>1. ASSUME NEW i \in 1 .. 9
      PROVE  /\ Bundle.rows[i] = Row(Manifest[i]) /\ Bundle.rows[i].id = Manifest[i]
             /\ Manifest[i] \in SurfaceIds
  BY ManifestNames, BundleCarries
<1>2. \A i, j \in 1 .. 9 : Bundle.rows[j].id = Bundle.rows[i].id => i = j
  BY <1>1, ManifestNames
<1> QED BY <1>1, <1>2

\* A bundle whose hosted smoke passed on evidence with a path passes its
\* verification.
LEMMA ServedVerifies ==
    ASSUME InstallVerified(InstallSeen), InstallSeen.path # EmptyPath PROVE VerificationPassed(Bundle)
<1>1. Detail("hosted_release_smoke") = [status |-> "passed", evidence |-> InstallSeen.path]
  BY DEF Detail, HostedSmoke
<1>2. /\ DOMAIN Bundle.rows = 1 .. 9 /\ DOMAIN Bundle.content = SurfaceIds
      /\ DOMAIN Bundle.integrity = SurfaceIds
  BY BundleCarries
<1>3. \A i \in 1 .. 9 : /\ Bundle.rows[i] = Row(Manifest[i]) /\ Bundle.rows[i].id = Manifest[i]
                         /\ Manifest[i] \in SurfaceIds
  BY BundleRows
<1>4. ASSUME NEW id \in SurfaceIds
      PROVE  RowVerified(Bundle, Row(id)) /\ ~HostedSmokeBlocked(Bundle, Row(id))
  <2>1. Bundle.content[id] = Content(id) /\ Bundle.integrity[id] = Content(id)
    BY BundleDetails
  <2>2. /\ Row(id).id = id /\ Row(id).path = id /\ Row(id).schema = id
        /\ Row(id).sha = Content(id) /\ Content(id).schema = id
    BY BundleCarries
  <2>3. RowVerified(Bundle, Row(id))
    BY <1>2, <2>1, <2>2 DEF RowVerified, Digest
  <2>4. ~HostedSmokeBlocked(Bundle, Row(id))
    BY <1>1, <2>2, BundleDetails DEF HostedSmokeBlocked
  <2> QED BY <2>3, <2>4
<1>5. \A i, j \in 1 .. 9 : Bundle.rows[j].id = Bundle.rows[i].id => i = j
  BY BundleRows
<1>6. SurfaceIds \subseteq { Bundle.rows[i].id : i \in 1 .. 9 }
  <2>1. SurfaceIds = { Manifest[i] : i \in 1 .. 9 }
    BY ManifestNames DEF SurfaceIds, ToSet
  <2>2. \A i \in 1 .. 9 : Bundle.rows[i].id = Manifest[i]
    BY <1>3
  <2> QED BY <2>1, <2>2
<1>7. /\ Len(Bundle.rows) = Cardinality(SurfaceIds) /\ Bundle.count = Cardinality(SurfaceIds)
      /\ Bundle.role = "read_only_observer"
  BY NineSurfaces, BundleCarries
<1>8. ASSUME NEW i \in 1 .. 9
      PROVE  RowVerified(Bundle, Bundle.rows[i]) /\ ~HostedSmokeBlocked(Bundle, Bundle.rows[i])
  BY <1>3, <1>4
<1> QED BY <1>2, <1>3, <1>5, <1>6, <1>7, <1>8 DEF VerificationPassed

\* A bundle that passes its verification has a hosted smoke that passed.
LEMMA VerifiedSmokePassed ==
    ASSUME VerificationPassed(Bundle) PROVE InstallVerified(InstallSeen) /\ InstallSeen.path # EmptyPath
<1>1. "hosted_release_smoke" \in SurfaceIds
  BY ManifestNames DEF Ids
<1>2. PICK i \in 1 .. 9 : Manifest[i] = "hosted_release_smoke"
  BY <1>1, ManifestNames DEF SurfaceIds, ToSet
<1>3. DOMAIN Bundle.rows = 1 .. 9 /\ Bundle.rows[i].id = "hosted_release_smoke"
  BY <1>2, BundleCarries
<1>4. "hosted_release_smoke" \in DOMAIN Bundle.content
      /\ Bundle.content["hosted_release_smoke"].detail = Detail("hosted_release_smoke")
  BY <1>1, BundleCarries, BundleDetails
<1>5. ~HostedSmokeBlocked(Bundle, Bundle.rows[i])
  BY <1>3 DEF VerificationPassed
<1>6. Detail("hosted_release_smoke").status = "passed" /\ Detail("hosted_release_smoke").evidence # EmptyPath
  BY <1>5, <1>3, <1>4 DEF HostedSmokeBlocked
<1>7. Detail("hosted_release_smoke") = HostedSmoke(InstallSeen)
  BY DEF Detail
<1>8. HostedSmoke(InstallSeen).evidence = InstallSeen.path
      /\ (HostedSmoke(InstallSeen).status = "passed" => InstallVerified(InstallSeen))
  BY DEF HostedSmoke
<1> QED BY <1>6, <1>7, <1>8

\* ReadyBundleVerifies for every evidence: the gate of the install verification
\* asks for all that the hosted smoke asks for but a path that is not empty, and
\* takes a document for verified that says so in the gate's own word.
THEOREM ReadyBundlesVerify == Spec => []ReadyBundleVerifies
<1>1. ReadyBundleVerifies
  <2>. SUFFICES ASSUME Readiness = "ready"
                PROVE  VerificationPassed(Bundle)
                         <=> InstallSeen.status # VerifiedWord /\ InstallSeen.path # EmptyPath
    BY DEF ReadyBundleVerifies
  <2>1. ReadinessBlockers(View("readiness"), InstallSeen) = {}
    BY ReadinessIsExplained DEF Readiness
  <2>2. Gate("install_verification", InstallObserved(InstallSeen), VerifiedWord)
           \in Gates(View("readiness"), InstallSeen)
    BY DEF Gates
  <2>3. InstallObserved(InstallSeen) = VerifiedWord
    BY <2>1, <2>2, GateOpen
  <2>4. InstallVerified(InstallSeen) \/ InstallSeen.status = VerifiedWord
    BY <2>3 DEF InstallObserved
  <2>5. InstallVerified(InstallSeen) => InstallSeen.status # VerifiedWord
    BY DEF InstallVerified, VerifiedWord
  <2> QED BY <2>4, <2>5, ServedVerifies, VerifiedSmokePassed
<1> QED BY <1>1, PTL

\* A bundle that verifies has a verified row for every surface, each once.
LEMMA VerifiedRows ==
    ASSUME NEW bundle, VerificationPassed(bundle), NEW i \in DOMAIN bundle.rows
    PROVE  LET row == bundle.rows[i] IN
           /\ row.id \in SurfaceIds
           /\ row.id \in DOMAIN bundle.content
           /\ row.sha = bundle.integrity[row.id] /\ row.sha = bundle.content[row.id]
           /\ \A j \in DOMAIN bundle.rows : bundle.rows[j].id = row.id => i = j
           /\ Len(bundle.rows) = Cardinality(SurfaceIds)
           /\ SurfaceIds \subseteq DOMAIN bundle.integrity
<1>1. RowVerified(bundle, bundle.rows[i])
  BY DEF VerificationPassed
<1> QED BY <1>1 DEF VerificationPassed, RowVerified, Digest

\* An altered surface is another surface.
LEMMA AlteredDiffers ==
    ASSUME NEW id PROVE Altered(Content(id)) # Content(id)
<1>1. DOMAIN Content(id) = {"schema", "text", "detail"}
  BY DEF Content
<1>2. Altered(Content(id)).text = "altered"
  BY <1>1 DEF Altered
<1>3. Content(id).text # "altered"
  BY BundleCarries
<1> QED BY <1>2, <1>3

\* A bundle that verifies with the manifest as served has every surface as
\* served.
LEMMA SurfacesAsServed ==
    ASSUME NEW bundle, VerificationPassed(bundle), bundle.rows = Bundle.rows, NEW id \in SurfaceIds
    PROVE  /\ id \in DOMAIN bundle.content /\ bundle.content[id] = Content(id)
           /\ id \in DOMAIN bundle.integrity /\ bundle.integrity[id] = Content(id)
<1>1. PICK i \in 1 .. 9 : Manifest[i] = id
  BY ManifestNames DEF SurfaceIds, ToSet
<1>2. i \in DOMAIN bundle.rows /\ bundle.rows[i].id = id /\ bundle.rows[i].sha = Content(id)
  BY <1>1, BundleCarries
<1> QED BY <1>2, VerifiedRows

\* A change of a surface or of its digest.
LEMMA ContentAltered ==
    ASSUME NEW id \in SurfaceIds
    PROVE  /\ ~VerificationPassed([Bundle EXCEPT !.content[id] = Altered(@)])
           /\ ~VerificationPassed([Bundle EXCEPT !.content = Drop(@, id)])
           /\ ~VerificationPassed([Bundle EXCEPT !.integrity[id] = Altered(@)])
           /\ ~VerificationPassed([Bundle EXCEPT !.integrity = Drop(@, id)])
<1>1. /\ DOMAIN Bundle = {"content", "rows", "integrity", "count", "role"}
      /\ DOMAIN Bundle.content = SurfaceIds /\ Bundle.content[id] = Content(id)
      /\ DOMAIN Bundle.integrity = SurfaceIds /\ Bundle.integrity[id] = Content(id)
  <2>1. DOMAIN Bundle = {"content", "rows", "integrity", "count", "role"}
    BY DEF Bundle
  <2> QED BY <2>1, BundleCarries
<1>2. Altered(Content(id)) # Content(id)
  BY AlteredDiffers
<1>3. ~VerificationPassed([Bundle EXCEPT !.content[id] = Altered(@)])
  <2> DEFINE altered == [Bundle EXCEPT !.content[id] = Altered(@)]
  <2>1. altered.rows = Bundle.rows /\ altered.content[id] = Altered(Content(id))
    BY <1>1
  <2> HIDE DEF altered
  <2>2. ~VerificationPassed(altered)
    BY <1>2, <2>1, SurfacesAsServed
  <2> QED BY <2>2 DEF altered
<1>4. ~VerificationPassed([Bundle EXCEPT !.content = Drop(@, id)])
  <2> DEFINE altered == [Bundle EXCEPT !.content = Drop(@, id)]
  <2>1. altered.rows = Bundle.rows /\ id \notin DOMAIN altered.content
    BY <1>1 DEF Drop
  <2> HIDE DEF altered
  <2>2. ~VerificationPassed(altered)
    BY <2>1, SurfacesAsServed
  <2> QED BY <2>2 DEF altered
<1>5. ~VerificationPassed([Bundle EXCEPT !.integrity[id] = Altered(@)])
  <2> DEFINE altered == [Bundle EXCEPT !.integrity[id] = Altered(@)]
  <2>1. altered.rows = Bundle.rows /\ altered.integrity[id] = Altered(Content(id))
    BY <1>1
  <2> HIDE DEF altered
  <2>2. ~VerificationPassed(altered)
    BY <1>2, <2>1, SurfacesAsServed
  <2> QED BY <2>2 DEF altered
<1>6. ~VerificationPassed([Bundle EXCEPT !.integrity = Drop(@, id)])
  <2> DEFINE altered == [Bundle EXCEPT !.integrity = Drop(@, id)]
  <2>1. altered.rows = Bundle.rows /\ id \notin DOMAIN altered.integrity
    BY <1>1 DEF Drop
  <2> HIDE DEF altered
  <2>2. ~VerificationPassed(altered)
    BY <2>1, SurfacesAsServed
  <2> QED BY <2>2 DEF altered
<1> QED BY <1>3, <1>4, <1>5, <1>6

\* What the verification asks of the rows beside the surfaces as served.
RowsPass(rows) ==
    /\ Len(rows) = 9
    /\ \A i \in DOMAIN rows : /\ rows[i].id \in SurfaceIds /\ rows[i].sha = Content(rows[i].id)
                              /\ \A j \in DOMAIN rows : rows[j].id = rows[i].id => i = j

LEMMA RowsFail ==
    ASSUME NEW rows, ~RowsPass(rows)
    PROVE  ~VerificationPassed([Bundle EXCEPT !.rows = rows])
<1> DEFINE altered == [Bundle EXCEPT !.rows = rows]
<1>1. altered.rows = rows /\ altered.content = Bundle.content
  BY DEF Bundle
<1> HIDE DEF altered
<1>2. ASSUME VerificationPassed(altered) PROVE RowsPass(rows)
  <2>1. Len(rows) = 9
    BY <1>1, <1>2, NineSurfaces DEF VerificationPassed
  <2>2. ASSUME NEW i \in DOMAIN rows
        PROVE  /\ rows[i].id \in SurfaceIds /\ rows[i].sha = Bundle.content[rows[i].id]
               /\ \A j \in DOMAIN rows : rows[j].id = rows[i].id => i = j
    BY <1>1, <1>2, VerifiedRows
  <2>3. \A id \in SurfaceIds : Bundle.content[id] = Content(id)
    BY BundleCarries
  <2> QED BY <2>1, <2>2, <2>3 DEF RowsPass
<1>3. ~VerificationPassed(altered)
  BY <1>2
<1> QED BY <1>3 DEF altered

\* An element more makes a sequence longer by one.
LEMMA OneLonger == \A S : \A s \in Seq(S) : \A e \in S : Len(Append(s, e)) = Len(s) + 1
OBVIOUS

\* A change to the rows of the manifest.
LEMMA RowsAltered ==
    ASSUME NEW i \in 1 .. 9
    PROVE  /\ ~RowsPass([Bundle.rows EXCEPT ![i].sha = Altered(@)])
           /\ ~RowsPass([Bundle.rows EXCEPT ![i].id = "elsewhere"])
           /\ ~RowsPass([Bundle.rows EXCEPT ![i] = Bundle.rows[(i % Len(Bundle.rows)) + 1]])
           /\ ~RowsPass(RemoveAt(Bundle.rows, i))
           /\ ~RowsPass(Append(Bundle.rows, Bundle.rows[i]))
<1> DEFINE r == Bundle.rows
           S == { Row(id) : id \in SurfaceIds }
<1>1. r \in Seq(S) /\ Len(r) = 9 /\ DOMAIN r = 1 .. 9 /\ \A j \in 1 .. 9 : r[j] \in S
  <2>1. r = [j \in 1 .. 9 |-> Row(Manifest[j])]
    BY BundleCarries
  <2>2. \A j \in 1 .. 9 : Row(Manifest[j]) \in S
    BY ManifestNames
  <2> QED BY <2>1, <2>2
<1>2. DOMAIN r[i] = {"id", "path", "schema", "sha"} /\ r[i].sha = Content(r[i].id)
  <2>1. r[i] = Row(Manifest[i])
    BY BundleCarries
  <2>2. DOMAIN Row(Manifest[i]) = {"id", "path", "schema", "sha"}
    BY DEF Row
  <2>3. Row(Manifest[i]).id = Manifest[i] /\ Row(Manifest[i]).sha = Content(Manifest[i])
    BY BundleCarries
  <2> QED BY <2>1, <2>2, <2>3
<1> HIDE DEF r, S
<1>3. ~RowsPass([r EXCEPT ![i].sha = Altered(@)])
  <2> DEFINE rows == [r EXCEPT ![i].sha = Altered(@)]
  <2>1. i \in DOMAIN rows /\ rows[i].id = r[i].id /\ rows[i].sha = Altered(Content(r[i].id))
    BY <1>1, <1>2
  <2> HIDE DEF rows
  <2>2. ~RowsPass(rows)
    BY <2>1, AlteredDiffers DEF RowsPass
  <2> QED BY <2>2 DEF rows
<1>4. ~RowsPass([r EXCEPT ![i].id = "elsewhere"])
  <2> DEFINE rows == [r EXCEPT ![i].id = "elsewhere"]
  <2>1. i \in DOMAIN rows /\ rows[i].id = "elsewhere"
    BY <1>1, <1>2
  <2> HIDE DEF rows
  <2>2. ~RowsPass(rows)
    BY <2>1, ManifestNames DEF RowsPass
  <2> QED BY <2>2 DEF rows
<1>5. ~RowsPass([r EXCEPT ![i] = r[(i % Len(r)) + 1]])
  <2> DEFINE n == (i % 9) + 1
             rows == [r EXCEPT ![i] = r[n]]
  <2>1. n \in 1 .. 9 /\ n # i
    OBVIOUS
  <2> HIDE DEF n
  <2>2. DOMAIN rows = 1 .. 9 /\ rows[i] = r[n] /\ rows[n] = r[n]
    BY <1>1, <2>1
  <2> HIDE DEF rows
  <2>3. ~RowsPass(rows)
    BY <2>1, <2>2 DEF RowsPass
  <2> QED BY <1>1, <2>3 DEF rows, n
<1>6. ~RowsPass(RemoveAt(r, i))
  <2> DEFINE a == SubSeq(r, 1, i - 1)
             b == SubSeq(r, i + 1, 9)
  <2>1. \A j \in 1 .. 9 : r[j] \in S
    BY <1>1, Zenon
  <2>2. a \in Seq(S) /\ Len(a) = i - 1
    <3>1. \A j \in 1 .. i - 1 : r[j] \in S
      BY <2>1
    <3>2. a \in Seq(S) /\ Len(a) = IF 1 <= i - 1 THEN (i - 1) - 1 + 1 ELSE 0
      BY <3>1, SubSeqProperties
    <3> QED BY <3>2
  <2>3. b \in Seq(S) /\ Len(b) = 9 - i
    <3>1. \A j \in i + 1 .. 9 : r[j] \in S
      BY <2>1
    <3>2. b \in Seq(S) /\ Len(b) = IF i + 1 <= 9 THEN 9 - (i + 1) + 1 ELSE 0
      BY <3>1, SubSeqProperties
    <3> QED BY <3>2
  <2>4. RemoveAt(r, i) = a \o b
    BY <1>1 DEF RemoveAt
  <2> HIDE DEF a, b
  <2>5. Len(a \o b) = 8
    BY <2>2, <2>3
  <2> QED BY <2>4, <2>5 DEF RowsPass
<1>7. ~RowsPass(Append(r, r[i]))
  <2>1. Len(Append(r, r[i])) = 9 + 1
    BY <1>1, OneLonger, Zenon
  <2> QED BY <2>1 DEF RowsPass
<1> QED BY <1>3, <1>4, <1>5, <1>6, <1>7 DEF r

\* AlterationsNoticed for every evidence: none of the changes to a bundle on its
\* way passes the verification, whatever its surfaces say.
THEOREM EveryAlterationIsNoticed == Spec => []AlterationsNoticed
<1>1. AlterationsNoticed
  <2>. SUFFICES ASSUME NEW altered \in Alterations(Bundle) PROVE ~VerificationPassed(altered)
    BY DEF AlterationsNoticed
  <2>1. DOMAIN Bundle.rows = 1 .. 9
    BY BundleCarries
  <2>2. \/ \E id \in SurfaceIds :
             altered \in { [Bundle EXCEPT !.content[id] = Altered(@)],
                           [Bundle EXCEPT !.content = Drop(@, id)],
                           [Bundle EXCEPT !.integrity[id] = Altered(@)],
                           [Bundle EXCEPT !.integrity = Drop(@, id)] }
        \/ \E i \in 1 .. 9 :
             altered \in { [Bundle EXCEPT !.rows[i].sha = Altered(@)],
                           [Bundle EXCEPT !.rows[i].id = "elsewhere"],
                           [Bundle EXCEPT !.rows[i] = Bundle.rows[(i % Len(Bundle.rows)) + 1]],
                           [Bundle EXCEPT !.rows = RemoveAt(@, i)],
                           [Bundle EXCEPT !.rows = Append(@, @[i])] }
    BY <2>1 DEF Alterations
  <2>3. ASSUME NEW i \in 1 .. 9,
               altered \in { [Bundle EXCEPT !.rows[i].sha = Altered(@)],
                             [Bundle EXCEPT !.rows[i].id = "elsewhere"],
                             [Bundle EXCEPT !.rows[i] = Bundle.rows[(i % Len(Bundle.rows)) + 1]],
                             [Bundle EXCEPT !.rows = RemoveAt(@, i)],
                             [Bundle EXCEPT !.rows = Append(@, @[i])] }
        PROVE  \E rows : altered = [Bundle EXCEPT !.rows = rows] /\ ~RowsPass(rows)
    BY <2>3, RowsAltered, Zenon
  <2> QED BY <2>2, <2>3, ContentAltered, RowsFail, Zenon
<1> QED BY <1>1, PTL
-----------------------------------------------------------------------------
(* Torn readings.                                                          *)

\* A matched view is about the version of its publication, which is known.
LEMMA MatchedIsOneVersion ==
    ASSUME NEW v, Correlation(v) = "matched"
    PROVE  Versions(v) = { Version(v.publication) } /\ Version(v.publication) # Unknown
<1>1. CorrelationBlockers(v) = {}
  BY DEF Correlation
<1>2. SmokeVersion(v.smoke) = Version(v.publication)
  <2>1. "three_os" \notin CorrelationBlockers(v)
    BY <1>1
  <2> QED BY <2>1 DEF CorrelationBlockers
<1>3. Version(v.evaluator) = Version(v.publication)
  <2>1. "evaluator_version" \notin CorrelationBlockers(v)
    BY <1>1
  <2> QED BY <2>1 DEF CorrelationBlockers
<1>4. Version(v.codex) = Version(v.publication)
  <2>1. "codex" \notin CorrelationBlockers(v)
    BY <1>1
  <2> QED BY <2>1 DEF CorrelationBlockers
<1>5. Version(v.claude) = Version(v.publication)
  <2>1. "claude" \notin CorrelationBlockers(v)
    BY <1>1
  <2> QED BY <2>1 DEF CorrelationBlockers
<1>6. Version(v.publication) # Unknown
  <2>1. "release_version" \notin CorrelationBlockers(v)
    BY <1>1
  <2> QED BY <2>1 DEF CorrelationBlockers
<1> QED BY <1>2, <1>3, <1>4, <1>5, <1>6 DEF Versions

\* Surfaces that agree and are assembled are matched about one version.
LEMMA AgreeingSections ==
    ASSUME Assembly = "assembled", SurfacesAgree(Bundle), NEW s \in {"readiness", "handoff", "cockpit"}
    PROVE  /\ Correlation(View(s)) = "matched"
           /\ Version(View(s).publication) = Version(View("handoff").publication)
<1>. DEFINE id == IF s = "readiness" THEN "release_readiness"
                  ELSE IF s = "handoff" THEN "release_candidate_handoff" ELSE "release_cockpit"
<1>1. /\ Detail("release_readiness") = Triage("readiness")
      /\ Detail("release_candidate_handoff") = Triage("handoff")
      /\ Detail("release_cockpit") = Triage("cockpit")
  BY DEF Detail
<1>2. Detail(id) = Triage(s)
  BY <1>1
<1>3. TriageSurfaces \subseteq SurfaceIds /\ id \in TriageSurfaces
      /\ "release_candidate_handoff" \in TriageSurfaces
  BY ManifestNames DEF TriageSurfaces, Ids
<1>4. DOMAIN Bundle.content = SurfaceIds
      /\ \A x \in SurfaceIds : Bundle.content[x].detail = Detail(x)
  BY BundleCarries, BundleDetails
<1>. HIDE DEF id
<1>5. Bundle.content[id].detail.correlation = Bundle.content["release_candidate_handoff"].detail.correlation
  BY <1>3, <1>4 DEF SurfacesAgree
<1>6. Triage(s).correlation = Triage("handoff").correlation
  BY <1>1, <1>2, <1>3, <1>4, <1>5
<1>7. CorrelationObject(View(s)) = CorrelationObject(View("handoff"))
  BY <1>6 DEF Triage
<1>8. \A v : CorrelationObject(v).status = Correlation(v)
             /\ CorrelationObject(v).version = Version(v.publication)
  BY DEF CorrelationObject
<1>9. Correlation(View("handoff")) = "matched"
  BY DEF Assembly, AssemblyStatus
<1> QED BY <1>7, <1>8, <1>9

\* The readings of the publication that readiness, install verification and
\* handoff rest on are the first, the ninth and the tenth.
Judging == {"readiness", "install", "handoff"}

LEMMA ReadingsOfPublication ==
    /\ Len(Readings) = 27
    /\ Readings[1] = Reading("readiness", {"publication"})
    /\ Readings[9] = Reading("install", {"publication"})
    /\ Readings[10] = Reading("handoff", {"publication"})
    /\ \A i \in 1 .. 27 :
          i \notin {1, 9, 10} => Readings[i].section \notin Judging \/ "publication" \notin Readings[i].kinds
<1>. DEFINE C(s) == CockpitReadings(s)
<1>1. ASSUME NEW s
      PROVE  /\ Len(C(s)) = 8 /\ C(s)[1] = Reading(s, {"publication"})
             /\ \A i \in 1 .. 8 : C(s)[i].section = s
             /\ \A i \in 2 .. 8 : "publication" \notin C(s)[i].kinds
  BY DEF CockpitReadings, Reading
<1>2. /\ Reading("evaluator", {"evaluator"}).section = "evaluator"
      /\ Reading("storage", Kinds).section = "storage"
      /\ Reading("install", {"publication"}).section = "install"
  BY DEF Reading
<1>3. Readings = [i \in 1 .. 27 |->
          IF i <= 8 THEN C("readiness")[i] ELSE IF i = 9 THEN Reading("install", {"publication"})
          ELSE IF i <= 17 THEN C("handoff")[i - 9] ELSE IF i <= 25 THEN C("cockpit")[i - 17]
          ELSE IF i = 26 THEN Reading("evaluator", {"evaluator"}) ELSE Reading("storage", Kinds)]
  BY DEF Readings, CockpitReadings
<1>. HIDE DEF C
<1>4. Len(Readings) = 27
  BY <1>3
<1>5. /\ Readings[1] = Reading("readiness", {"publication"})
      /\ Readings[9] = Reading("install", {"publication"})
      /\ Readings[10] = Reading("handoff", {"publication"})
  BY <1>1, <1>3
<1>6. ASSUME NEW i \in 1 .. 27, i \notin {1, 9, 10}
      PROVE  Readings[i].section \notin Judging \/ "publication" \notin Readings[i].kinds
  <2>1. CASE i <= 8
    BY <1>1, <1>3, <1>6, <2>1
  <2>2. CASE i \in 11 .. 17
    BY <1>1, <1>3, <2>2
  <2>3. CASE i \in 18 .. 25
    BY <1>1, <1>3, <2>3 DEF Judging
  <2>4. CASE i \in 26 .. 27
    BY <1>2, <1>3, <2>4 DEF Judging
  <2> QED BY <1>6, <2>1, <2>2, <2>3, <2>4
<1> QED BY <1>4, <1>5, <1>6

\* Which publication a section has read.
Publication(s) == section[s]["publication"]

\* While no entry is lost, what is read later is not older.
ReadInOrder ==
    ~lost => /\ step >= 1 => Publication("readiness") <= latest["publication"]
             /\ step >= 9 => /\ Publication("readiness") <= Publication("install")
                             /\ Publication("install") <= latest["publication"]
             /\ step >= 10 => Publication("install") <= Publication("handoff")

\* ReadInOrder is an invariant.
THEOREM ReadingsInOrder == Spec => []ReadInOrder
<1>. USE SupportBundleConstants
<1>1. Init => ReadInOrder
  BY DEF Init, ReadInOrder
<1>2. TypeOK /\ ReadInOrder /\ [Next]_vars => ReadInOrder'
  <2>. SUFFICES ASSUME TypeOK, ReadInOrder, [Next]_vars, ~lost' PROVE ReadInOrder'
    BY DEF ReadInOrder
  <2>. DEFINE p == "publication"
  <2>1. /\ p \in Kinds /\ latest[p] \in Nat /\ step \in 0 .. 27
        /\ \A s \in Judging : s \in Sections /\ Publication(s) \in Nat
    BY ReadingsOfPublication DEF TypeOK, Kinds, Judging, Sections, Publication
  <2>2. CASE Read
    <3>1. step' = step + 1 /\ step + 1 \in 1 .. 27 /\ latest' = latest /\ lost' = lost
      BY <2>1, <2>2, ReadingsOfPublication DEF Read, Advance
    <3>2. ASSUME NEW s \in Judging
          PROVE  Publication(s)' = IF s = Readings[step + 1].section /\ p \in Readings[step + 1].kinds
                                   THEN latest[p] ELSE Publication(s)
      <4>. DEFINE r == Readings[step + 1]
      <4>1. section' = [section EXCEPT ![r.section] = [k \in Kinds |-> IF k \in r.kinds THEN latest[k] ELSE @[k]]]
        BY <2>2 DEF Read, Advance
      <4>2. section \in [Sections -> [Kinds -> Nat]] /\ s \in Sections
        BY <2>1 DEF TypeOK
      <4>. HIDE DEF r
      <4>3. section'[s][p] = IF s = r.section /\ p \in r.kinds THEN latest[p] ELSE section[s][p]
        BY <2>1, <4>1, <4>2
      <4> QED BY <4>3 DEF Publication, r
    <3>3. CASE step = 0
      <4>1. Readings[step + 1].section = "readiness" /\ Readings[step + 1].kinds = {p}
        <5>1. Readings[1] = Reading("readiness", {p})
          BY ReadingsOfPublication
        <5>2. step + 1 = 1
          BY <3>3
        <5> QED BY <5>1, <5>2 DEF Reading
      <4>2. Publication("readiness")' = latest[p]
        BY <3>2, <4>1 DEF Judging
      <4> QED BY <2>1, <3>1, <3>3, <4>2 DEF ReadInOrder
    <3>4. CASE step = 8
      <4>1. Readings[step + 1].section = "install" /\ Readings[step + 1].kinds = {p}
        <5>1. Readings[9] = Reading("install", {p})
          BY ReadingsOfPublication
        <5>2. step + 1 = 9
          BY <3>4
        <5> QED BY <5>1, <5>2 DEF Reading
      <4>2. Publication("install")' = latest[p] /\ Publication("readiness")' = Publication("readiness")
        BY <3>2, <4>1 DEF Judging
      <4> QED BY <2>1, <3>1, <3>4, <4>2 DEF ReadInOrder
    <3>5. CASE step = 9
      <4>1. Readings[step + 1].section = "handoff" /\ Readings[step + 1].kinds = {p}
        <5>1. Readings[10] = Reading("handoff", {p})
          BY ReadingsOfPublication
        <5>2. step + 1 = 10
          BY <3>5
        <5> QED BY <5>1, <5>2 DEF Reading
      <4>2. /\ Publication("handoff")' = latest[p] /\ Publication("install")' = Publication("install")
            /\ Publication("readiness")' = Publication("readiness")
        BY <3>2, <4>1 DEF Judging
      <4> QED BY <2>1, <3>1, <3>5, <4>2 DEF ReadInOrder
    <3>6. CASE step \notin {0, 8, 9}
      <4>1. Readings[step + 1].section \notin Judging \/ p \notin Readings[step + 1].kinds
        <5>1. step + 1 \notin {1, 9, 10}
          BY <2>1, <3>6
        <5> QED BY <3>1, <5>1, ReadingsOfPublication
      <4>2. \A s \in Judging : Publication(s)' = Publication(s)
        BY <3>2, <4>1
      <4>3. /\ Publication("handoff")' = Publication("handoff")
            /\ Publication("install")' = Publication("install")
            /\ Publication("readiness")' = Publication("readiness")
        BY <4>2 DEF Judging
      <4> QED BY <2>1, <3>1, <3>6, <4>3 DEF ReadInOrder
    <3> QED BY <3>3, <3>4, <3>5, <3>6
  <2>3. ASSUME NEW kinds \in Bursts, Upload(kinds) PROVE ReadInOrder'
    <3>1. latest'[p] >= latest[p] /\ latest'[p] \in Nat
      BY <2>1, <2>3 DEF Upload
    <3>2. UNCHANGED <<lost, step, section>>
      BY <2>3 DEF Upload
    <3>3. \A s \in Judging : Publication(s)' = Publication(s) /\ Publication(s) \in Nat
      BY <2>1, <3>2 DEF Publication
    <3> QED BY <2>1, <3>1, <3>2, <3>3 DEF ReadInOrder, Judging
  <2>4. ASSUME NEW k \in Kinds, Lose(k) PROVE ReadInOrder'
    BY <2>4 DEF Lose
  <2>5. CASE UNCHANGED vars
    BY <2>5 DEF vars, ReadInOrder, Publication
  <2> QED BY <2>2, <2>3, <2>4, <2>5 DEF Next
<1> QED BY <1>1, <1>2, TypeCorrect, PTL DEF Spec

\* OneCandidateVerified for every evidence and every order of uploads, lost
\* entries and readings.
THEOREM OneCandidate == Spec => []OneCandidateVerified
<1>1. TypeOK /\ ReadInOrder => OneCandidateVerified
  <2>. SUFFICES ASSUME TypeOK, ReadInOrder, Served, Assembly = "assembled", OfflineVerified(Bundle)
                PROVE  /\ Cardinality(UNION { Versions(View(s)) : s \in {"readiness", "handoff", "cockpit"} }) = 1
                       /\ ~lost /\ VersionsGoOn =>
                             Version(View("install").publication) = Version(View("handoff").publication)
    BY DEF OneCandidateVerified
  <2>. DEFINE version == Version(View("handoff").publication)
              p == "publication"
  <2>1. ASSUME NEW s \in {"readiness", "handoff", "cockpit"}
        PROVE  Versions(View(s)) = {version} /\ Version(View(s).publication) = version /\ version # Unknown
    <3>1. SurfacesAgree(Bundle)
      BY DEF OfflineVerified
    <3>2. Correlation(View(s)) = "matched" /\ Version(View(s).publication) = version
      BY <3>1, AgreeingSections
    <3> QED BY <3>2, MatchedIsOneVersion
  <2>2. UNION { Versions(View(s)) : s \in {"readiness", "handoff", "cockpit"} } = {version}
    BY <2>1
  <2>3. Cardinality({version}) = 1
    BY FS_Singleton
  <2>4. ASSUME ~lost, VersionsGoOn PROVE Version(View("install").publication) = version
    <3>1. p \in Kinds /\ \A s \in Judging : Publication(s) \in Nat /\ Publication(s) <= Len(Evidence[p])
      BY SupportBundleConstants DEF TypeOK, Kinds, Judging, Sections, Publication
    <3>2. \A s : View(s).publication = IF Publication(s) = 0 THEN None ELSE Evidence[p][Publication(s)]
      BY <3>1 DEF View, Publication
    <3>3. Publication("readiness") # 0
      BY <2>1, <3>2 DEF Version
    <3>4. /\ Publication("readiness") <= Publication("install")
          /\ Publication("install") <= Publication("handoff")
      BY <2>4, ReadingsOfPublication DEF ReadInOrder, Served
    <3>5. DOMAIN Evidence[p] = 1 .. Len(Evidence[p]) /\ Len(Evidence[p]) \in Nat
      BY <3>1, SupportBundleConstants DEF Kinds
    <3>6. \A s \in Judging : Publication(s) \in DOMAIN Evidence[p] /\ Publication(s) # 0
      BY <3>1, <3>3, <3>4, <3>5 DEF Judging
    <3>7. /\ Version(Evidence[p][Publication("readiness")]) = version
          /\ Version(Evidence[p][Publication("handoff")]) = version
      BY <2>1, <3>2, <3>6 DEF Judging
    <3>8. Version(Evidence[p][Publication("install")]) = version
      BY <2>4, <3>4, <3>6, <3>7 DEF VersionsGoOn, Judging
    <3> QED BY <3>2, <3>6, <3>8 DEF Judging
  <2> QED BY <2>2, <2>3, <2>4
<1> QED BY <1>1, TypeCorrect, ReadingsInOrder, PTL
=============================================================================
