----------------------------- MODULE SupportBundle -----------------------------
(***************************************************************************)
(* GET /api/v1/release/support-bundle.json while evidence goes on coming   *)
(* in.  The bundle's sections are computed one after the other, each from  *)
(* readings of its own: the readiness reads a whole cockpit and then the   *)
(* publication again, the handoff reads a cockpit again, then the cockpit, *)
(* the evaluator dashboard and the storage report.  A reading looks the    *)
(* latest entry of a kind up in the index; the body behind it never        *)
(* changes.  Then the bundle is assembled and digested.  The server        *)
(* verifies a bundle it has computed (verify.json); the offline script     *)
(* makes the same checks of a bundle somebody received and then holds the  *)
(* triage surfaces against each other.                                     *)
(***************************************************************************)
EXTENDS Release
CONSTANTS
    Evidence,   \* of each kind the surfaces that get in, in the order they do
    Initials,   \* of each kind how many of them got in before the request
    Bursts,     \* the sets of kinds uploaded with no reading in between
    MaxChanges  \* bound on bursts and lost entries during the request

ASSUME SupportBundleConstants ==
    /\ MaxChanges \in Nat
    /\ "publication" \in DOMAIN Evidence /\ Bursts \subseteq SUBSET DOMAIN Evidence
    /\ \A k \in DOMAIN Evidence :
          Len(Evidence[k]) \in Nat /\ DOMAIN Evidence[k] = 1 .. Len(Evidence[k])
    /\ Initials \subseteq [DOMAIN Evidence -> Nat]
    /\ \A initial \in Initials : \A k \in DOMAIN Evidence : initial[k] <= Len(Evidence[k])

VARIABLES
    latest,   \* of each kind which surface the index names as the latest, 0 for none
    changes,  \* bursts and lost entries so far
    lost,     \* some entry was lost
    step,     \* the readings made
    section   \* what each section read

vars == <<latest, changes, lost, step, section>>

Kinds    == DOMAIN Evidence
Sections == {"readiness", "install", "handoff", "cockpit", "evaluator", "storage"}

Reading(s, kinds) == [section |-> s, kinds |-> kinds]

\* release_cockpit_value; what its publication dashboard reads for a correlation
\* of its own is dropped.  acceptance_surface reads the index once.
CockpitReadings(s) ==
    << Reading(s, {"publication"}), Reading(s, {"registry"}), Reading(s, {"readiness"}),
       Reading(s, {"checklist"}), Reading(s, {"decision"}), Reading(s, {"smoke"}),
       Reading(s, {"evaluator"}), Reading(s, {"codex", "claude"}) >>

\* release_readiness_value, then release_support_bundle_value.
Readings ==
    CockpitReadings("readiness") \o << Reading("install", {"publication"}) >>
    \o CockpitReadings("handoff")
    \o CockpitReadings("cockpit")
    \o << Reading("evaluator", {"evaluator"}), Reading("storage", Kinds) >>

Unread == [k \in Kinds |-> 0]

Init ==
    /\ latest \in Initials /\ changes = 0 /\ lost = FALSE
    /\ step = 0 /\ section = [s \in Sections |-> Unread]

\* The next reading looks its kinds up in the index as it is now.
Advance(n) ==
    /\ step < Len(Readings)
    /\ step' = step + n
    /\ LET r == Readings[step + 1] IN
       section' = [section EXCEPT ![r.section] = [k \in Kinds |-> IF k \in r.kinds THEN latest[k] ELSE @[k]]]
    /\ UNCHANGED <<latest, changes, lost>>

\* Mutant: every other reading is passed over.
ReadSkipping == Advance(2)

Read == Advance(1)

\* Uploads of newer evidence are listed, one of each of the kinds.
Upload(kinds) ==
    /\ changes < MaxChanges /\ \A k \in kinds : latest[k] < Len(Evidence[k])
    /\ latest' = [k \in Kinds |-> IF k \in kinds THEN latest[k] + 1 ELSE latest[k]]
    /\ changes' = changes + 1
    /\ UNCHANGED <<lost, step, section>>

\* A prune that read the index before rewrites it without the newest entry.
Lose(k) ==
    /\ changes < MaxChanges /\ latest[k] > 1
    /\ latest' = [latest EXCEPT ![k] = @ - 1] /\ changes' = changes + 1 /\ lost' = TRUE
    /\ UNCHANGED <<step, section>>

Next == Read \/ (\E kinds \in Bursts : Upload(kinds)) \/ \E k \in Kinds : Lose(k)

Spec == Init /\ [][Next]_vars

-----------------------------------------------------------------------------
(* The response.                                                           *)

Served == step = Len(Readings)

\* What a section saw.
View(s) ==
    [k \in Kinds |-> IF section[s][k] = 0 THEN None ELSE Evidence[k][section[s][k]]]

InstallSeen == Install(View("install").publication)
Readiness   == ReadinessStatus(View("readiness"), InstallSeen)
Assembly    == AssemblyStatus(Readiness, View("handoff"))

\* The surfaces in the order of the manifest; all are required.
Manifest ==
    << "release_assembly", "release_readiness", "release_candidate_handoff", "release_cockpit",
       "release_evaluator_decision", "install_verification", "hosted_release_smoke",
       "ci_evidence_index", "storage_support_bundle" >>

\* SUPPORT_BUNDLE_REQUIRED_SURFACE_IDS
SurfaceIds == ToSet(Manifest)

\* What the verifications look at in a surface beside its schema and digest.
Triage(s) ==
    LET v == View(s) IN
    [correlation |-> CorrelationObject(v), parity |-> CorrelationParity(v.smoke), hashes |-> SurfaceParity(v.smoke)]

Detail(id) ==
    CASE id = "hosted_release_smoke"      -> HostedSmoke(InstallSeen)
      [] id = "release_readiness"         -> Triage("readiness")
      [] id = "release_candidate_handoff" -> Triage("handoff")
      [] id = "release_cockpit"           -> Triage("cockpit")
      [] id = "release_assembly"          -> [correlation |-> Triage("handoff").correlation]
      [] OTHER                            -> None

Content(id) == [schema |-> id, text |-> "served", detail |-> Detail(id)]

\* A digest stands for what it is the digest of, a path for the id it belongs to.
Digest(content) == content

Row(id) == [id |-> id, path |-> id, schema |-> id, sha |-> Digest(Content(id))]

\* release_support_bundle_value
Bundle ==
    [content   |-> [id \in SurfaceIds |-> Content(id)],
     rows      |-> [i \in DOMAIN Manifest |-> Row(Manifest[i])],
     integrity |-> [id \in SurfaceIds |-> Digest(Content(id))],
     count     |-> Cardinality(SurfaceIds),
     role      |-> "read_only_observer"]

-----------------------------------------------------------------------------
(* Its verification.                                                       *)

\* Mutant: the digests are compared with each other and not recomputed.
RowVerifiedUnread(bundle, row) ==
    /\ row.id \in DOMAIN bundle.content /\ row.path = row.id
    /\ row.id \in DOMAIN bundle.integrity /\ row.sha = bundle.integrity[row.id]
    /\ row.schema = bundle.content[row.id].schema

RowVerified(bundle, row) ==
    /\ row.id \in DOMAIN bundle.content /\ row.path = row.id
    /\ row.id \in DOMAIN bundle.integrity /\ row.sha = bundle.integrity[row.id]
    /\ row.sha = Digest(bundle.content[row.id])
    /\ row.schema = bundle.content[row.id].schema

\* hosted_release_smoke_blockers, of a row that points at the hosted smoke.
HostedSmokeBlocked(bundle, row) ==
    /\ row.id = "hosted_release_smoke" /\ row.id \in DOMAIN bundle.content
    /\ \/ bundle.content[row.id].detail.status # "passed"
       \/ bundle.content[row.id].detail.evidence = EmptyPath

\* release_support_bundle_verification_value: what verify.json says of the bundle
\* it computes, and what the offline script checks first.
VerificationPassed(bundle) ==
    /\ \A i \in DOMAIN bundle.rows :
          /\ bundle.rows[i].id \in SurfaceIds
          /\ \A j \in DOMAIN bundle.rows : bundle.rows[j].id = bundle.rows[i].id => i = j
          /\ RowVerified(bundle, bundle.rows[i])
          /\ ~HostedSmokeBlocked(bundle, bundle.rows[i])
    /\ Len(bundle.rows) = Cardinality(SurfaceIds)
    /\ SurfaceIds \subseteq { bundle.rows[i].id : i \in DOMAIN bundle.rows }
    /\ SurfaceIds \subseteq DOMAIN bundle.integrity
    /\ bundle.count = Cardinality(SurfaceIds)
    /\ bundle.role = "read_only_observer"

TriageSurfaces == {"release_cockpit", "release_candidate_handoff", "release_readiness"}

\* Mutant: every surface is judged by itself, as before the comparison was added.
SurfacesAgreeEach(bundle) ==
    \A id \in (TriageSurfaces \cup {"release_assembly"}) \cap DOMAIN bundle.content :
        bundle.content[id].detail.correlation.status \in {"matched", "mismatched"}

\* What the offline script holds against each other.  That the surfaces agree on
\* the audit of rejected smoke uploads is asked too, and left out.
SurfacesAgree(bundle) ==
    LET Of(id)  == bundle.content[id].detail
        present == TriageSurfaces \cap DOMAIN bundle.content IN
    /\ \A a, b \in present \cup ({"release_assembly"} \cap DOMAIN bundle.content) :
          Of(a).correlation = Of(b).correlation
    /\ \A a, b \in present : Of(a).parity = Of(b).parity /\ Of(a).hashes = Of(b).hashes

\* verify_release_support_bundle.py
OfflineVerified(bundle) == VerificationPassed(bundle) /\ SurfacesAgree(bundle)

-----------------------------------------------------------------------------
(* Correctness.                                                            *)

\* Types.
TypeOK ==
    /\ latest \in [Kinds -> Nat] /\ \A k \in Kinds : latest[k] <= Len(Evidence[k])
    /\ changes \in 0 .. MaxChanges /\ lost \in BOOLEAN
    /\ step \in 0 .. Len(Readings)
    /\ section \in [Sections -> [Kinds -> Nat]]
    /\ \A s \in Sections, k \in Kinds : section[s][k] <= Len(Evidence[k])

\* Status and reasons agree: readiness is ready exactly where no gate blocks,
\* so an operator who is told attention is told why, and the assembly likewise.
AttentionIsExplained ==
    /\ Readiness = "ready" <=> ReadinessBlockers(View("readiness"), InstallSeen) = {}
    /\ Assembly = "assembled" <=> AssemblyBlockers(Readiness, View("handoff")) = {}

Versions(v) ==
    { Version(v.publication), SmokeVersion(v.smoke), Version(v.evaluator), Version(v.codex), Version(v.claude) }

\* No version is published again after another one was.
VersionsGoOn ==
    \A i, j, n \in DOMAIN Evidence["publication"] :
        LET version(x) == Version(Evidence["publication"][x]) IN
        i <= j /\ j <= n /\ version(i) = version(n) => version(j) = version(i)

\* The sections of a bundle are read at different times, and an assembled bundle
\* may be torn between two candidates; but then the offline script refuses it:
\* readiness, handoff and cockpit of one that it passes are about one version.
\* The install verification comes from a reading of the publication of its own,
\* which nothing compares: it is of that version too because it was read between
\* the others, unless an entry was lost meanwhile or an old version came again.
OneCandidateVerified ==
    Served /\ Assembly = "assembled" /\ OfflineVerified(Bundle) =>
        /\ Cardinality(UNION { Versions(View(s)) : s \in {"readiness", "handoff", "cockpit"} }) = 1
        /\ ~lost /\ VersionsGoOn =>
              Version(View("install").publication) = Version(View("handoff").publication)

\* Of a bundle whose readiness is ready the server says that it verifies, but for
\* exactly two kinds of install verification, which the gate of the readiness and
\* the hosted smoke judge differently: one whose own status is the gate's word
\* for verified, and one that is verified but whose path is the empty string.
ReadyBundleVerifies ==
    Served /\ Readiness = "ready" =>
        (VerificationPassed(Bundle) <=> InstallSeen.status # VerifiedWord /\ InstallSeen.path # EmptyPath)

\* One change to a bundle on its way: a surface or a digest altered or dropped,
\* a row of the manifest dropped, doubled or pointed elsewhere.
Altered(content) == [content EXCEPT !.text = "altered"]

Drop(f, id) == [x \in DOMAIN f \ {id} |-> f[x]]

Alterations(b) ==
    (UNION { { [b EXCEPT !.content[id] = Altered(@)],
               [b EXCEPT !.content = Drop(@, id)],
               [b EXCEPT !.integrity[id] = Altered(@)],
               [b EXCEPT !.integrity = Drop(@, id)] } : id \in SurfaceIds })
    \cup (UNION { { [b EXCEPT !.rows[i].sha = Altered(@)],
                    [b EXCEPT !.rows[i].id = "elsewhere"],
                    [b EXCEPT !.rows[i] = b.rows[(i % Len(b.rows)) + 1]],
                    [b EXCEPT !.rows = RemoveAt(@, i)],
                    [b EXCEPT !.rows = Append(@, @[i])] } : i \in DOMAIN b.rows })

\* The checks that the server and the offline script share notice every one of
\* them; what the script compares beyond those is not needed for it.
AlterationsNoticed == Served => \A altered \in Alterations(Bundle) : ~VerificationPassed(altered)

\* "The assembly is the portable same-candidate manifest for operators": the
\* sections of an assembled bundle are about the same release version.
AssembledSameCandidate ==
    Served /\ Assembly = "assembled" =>
        Cardinality({ Version(View(s).publication) : s \in {"readiness", "handoff", "cockpit"} }) = 1
=============================================================================
