-------------------------------- MODULE Release --------------------------------
(***************************************************************************)
(* What the release surfaces conclude from the evidence they read: the     *)
(* publication dashboard, the cockpit, the candidate handoff, the release  *)
(* readiness with its gates, the evaluator dashboard, the assembly, and    *)
(* the portable support bundle with its verification.  Pure operators.     *)
(*                                                                         *)
(* A surface is None or a record of the status its index entry has and of  *)
(* the document; a view v gives the surface of each kind as one reading    *)
(* found it.                                                               *)
(***************************************************************************)
EXTENDS Promotion

Unknown == "unknown"

Passed(surface, status) == surface # None /\ surface.status = status

-----------------------------------------------------------------------------
(* Single surfaces.                                                        *)

\* failed: the checks of its verification that did not pass.
PublicationState(publication) ==
    IF publication = None THEN "release_publication_missing"
    ELSE IF publication.value.status = "published_verified" /\ publication.value.failed = {}
    THEN "release_published_verified" ELSE "release_publication_needs_attention"

\* three_os_smoke_clean_status, through compact_surface_status
SmokeStatus(smoke) ==
    IF smoke = None THEN "missing" ELSE IF CleanPass(smoke.value) THEN "passed" ELSE "failed"

ParityKeys ==
    {"release_cockpit", "release_handoff", "release_readiness",
     "release_publication_dashboard", "release_assembly", "release_assembly_blockers"}

\* aggregate_surface_content_hash_parity; hashes maps some keys to a verdict.
AggregateParity(hashes) ==
    IF DOMAIN hashes = {} THEN "missing"
    ELSE IF \E key \in ParityKeys \cap DOMAIN hashes : hashes[key] = "drift" THEN "drift"
    ELSE IF ParityKeys \subseteq DOMAIN hashes /\ \A key \in ParityKeys : hashes[key] = "matched"
    THEN "matched" ELSE "unknown"

\* three_os_smoke_details
SurfaceParity(smoke)     == IF smoke = None THEN "missing" ELSE AggregateParity(smoke.value.hashes)
CorrelationParity(smoke) == IF smoke = None THEN "missing" ELSE smoke.value.parity

\* The entry's word for passed and the body's for live; no score is looked at.
LivePassed(acceptance) ==
    Passed(acceptance, "passed") /\ AcceptanceSourceClass(acceptance.value) = "live"

AcceptanceReadiness(acceptance) == IF LivePassed(acceptance) THEN "passed/live" ELSE "attention"

\* The entry's status and the body's decision: an entry that says "signed" is
\* never accepted here.
EvaluatorGate(evaluator) ==
    IF evaluator = None THEN "missing"
    ELSE IF evaluator.status = "accepted"
            /\ evaluator.value.decision = "accept_phase1_release_candidate" THEN "accepted"
    ELSE IF evaluator.value.decision = "reject_phase1_release_candidate" THEN "rejected"
    ELSE "attention"

\* The dashboard asks the body alone.
EvaluatorDashboard(evaluator) ==
    IF evaluator = None THEN "missing"
    ELSE IF evaluator.value.status = "accepted"
            /\ evaluator.value.decision = "accept_phase1_release_candidate" THEN "accepted"
    ELSE IF evaluator.value.status = "rejected"
            \/ evaluator.value.decision = "reject_phase1_release_candidate" THEN "rejected"
    ELSE "attention"

-----------------------------------------------------------------------------
(* The candidate: whether all evidence is about one release version.       *)

Version(surface) == IF surface = None THEN Unknown ELSE surface.value.version
Tag(surface)     == IF surface = None THEN Unknown ELSE surface.value.tag

\* The candidate under test, else the version of whoever made the summary.
SmokeVersion(smoke) ==
    IF smoke # None /\ smoke.value.candidate # Unknown THEN smoke.value.candidate ELSE Version(smoke)

\* Mutant: the acceptances are not compared.
CorrelationBlockersReleaseOnly(v) ==
    { b \in {"release_version", "release_tag", "three_os", "evaluator_version", "evaluator_tag"} :
        CASE b = "release_version"   -> Version(v.publication) = Unknown
          [] b = "release_tag"       -> Tag(v.publication) = Unknown
          [] b = "three_os"          -> SmokeVersion(v.smoke) # Version(v.publication)
          [] b = "evaluator_version" -> Version(v.evaluator) # Version(v.publication)
          [] b = "evaluator_tag"     -> Tag(v.evaluator) # Tag(v.publication) }

CorrelationBlockers(v) ==
    { b \in {"release_version", "release_tag", "three_os", "evaluator_version", "evaluator_tag",
             "codex", "claude"} :
        CASE b = "release_version"   -> Version(v.publication) = Unknown
          [] b = "release_tag"       -> Tag(v.publication) = Unknown
          [] b = "three_os"          -> SmokeVersion(v.smoke) # Version(v.publication)
          [] b = "evaluator_version" -> Version(v.evaluator) # Version(v.publication)
          [] b = "evaluator_tag"     -> Tag(v.evaluator) # Tag(v.publication)
          [] b = "codex"             -> Version(v.codex) # Version(v.publication)
          [] b = "claude"            -> Version(v.claude) # Version(v.publication) }

Correlation(v) == IF CorrelationBlockers(v) = {} THEN "matched" ELSE "mismatched"

\* The object a surface carries; its list of blockers follows from the rest.
CorrelationObject(v) ==
    [status        |-> Correlation(v),
     version       |-> Version(v.publication),
     tag           |-> Tag(v.publication),
     three_os      |-> SmokeVersion(v.smoke),
     evaluator     |-> Version(v.evaluator),
     evaluator_tag |-> Tag(v.evaluator),
     codex         |-> Version(v.codex),
     claude        |-> Version(v.claude)]

-----------------------------------------------------------------------------
(* Cockpit and handoff.                                                    *)

\* The body's status of readiness, not the entry's.
CockpitStatus(v) ==
    IF /\ PublicationState(v.publication) = "release_published_verified"
       /\ v.registry # None
       /\ v.readiness # None /\ v.readiness.value.status = "passed"
    THEN "ready" ELSE "needs_attention"

Phase1Status(v) ==
    IF v.checklist # None /\ v.decision # None /\ SmokeStatus(v.smoke) = "passed"
    THEN "observed" ELSE "incomplete"

\* That there is a sidecar; not whether it verified or whose it is.
DecisionSignature(v) == IF v.decision # None /\ v.decision.signed THEN "present" ELSE "missing"

LiveAcceptance(v) == IF LivePassed(v.codex) /\ LivePassed(v.claude) THEN "live_complete" ELSE "attention"

HandoffStatus(v) ==
    IF /\ CockpitStatus(v) = "ready"
       /\ Phase1Status(v) = "observed"
       /\ DecisionSignature(v) = "present"
       /\ LiveAcceptance(v) = "live_complete"
       /\ EvaluatorGate(v.evaluator) = "accepted"
       /\ Correlation(v) = "matched"
       /\ SurfaceParity(v.smoke) = "matched"
    THEN "ready" ELSE "attention"

-----------------------------------------------------------------------------
(* Install verification and readiness.                                     *)

EmptyPath == ""

NoInstall ==
    [schema |-> FALSE, status |-> "missing", offline |-> "missing", claims |-> {},
     path |-> "missing", sha |-> "missing"]

\* install_verification_trust_value: claims are the authority it asks for, and
\* what is not said is claimed.  A path or digest that is not given is "missing";
\* one that is given may be empty.
Install(publication) ==
    IF publication = None THEN NoInstall ELSE publication.value.install

InstallVerified(install) ==
    install.schema /\ install.status = "verified" /\ install.offline = "verified" /\ install.claims = {}

\* What the gate calls an install that was verified; where it was not, the gate
\* shows the status the document gives itself.
VerifiedWord == "verified/offline_verified/read_only"

\* Mutant: the offline verification is not asked for.
InstallObservedOnline(install) ==
    IF /\ install.schema /\ install.status = "verified" /\ install.claims = {}
       /\ install.path # "missing" /\ install.sha # "missing"
    THEN VerifiedWord ELSE install.status

InstallObserved(install) ==
    IF InstallVerified(install) /\ install.path # "missing" /\ install.sha # "missing"
    THEN VerifiedWord ELSE install.status

\* hosted_release_smoke_value
HostedSmoke(install) ==
    [status |-> IF InstallVerified(install) THEN "passed" ELSE "failed", evidence |-> install.path]

Gate(id, observed, expected) == [id |-> id, observed |-> observed, expected |-> expected]

\* The gates of release_readiness_value; the trust boundary is a constant of the
\* handoff and always passes.
Gates(v, install) ==
    { Gate("release_cockpit", CockpitStatus(v), "ready"),
      Gate("phase1_promotion", Phase1Status(v), "observed"),
      Gate("decision_signature", DecisionSignature(v), "present"),
      Gate("provider_acceptance", LiveAcceptance(v), "live_complete"),
      Gate("release_evaluator_decision", EvaluatorGate(v.evaluator), "accepted"),
      Gate("candidate_correlation", Correlation(v), "matched"),
      Gate("candidate_correlation_parity", CorrelationParity(v.smoke), "matched"),
      Gate("surface_content_hash_parity", SurfaceParity(v.smoke), "matched"),
      Gate("codex_acceptance", AcceptanceReadiness(v.codex), "passed/live"),
      Gate("claude_acceptance", AcceptanceReadiness(v.claude), "passed/live"),
      Gate("three_os_smoke", SmokeStatus(v.smoke), "passed"),
      Gate("install_verification", InstallObserved(install), VerifiedWord) }

\* Mutant: the gate of the surface hashes is left out.
ReadinessBlockersNoParity(v, install) ==
    { g \in Gates(v, install) : g.observed # g.expected /\ g.id # "surface_content_hash_parity" }

ReadinessBlockers(v, install) == { g \in Gates(v, install) : g.observed # g.expected }

ReadinessStatus(v, install) ==
    IF HandoffStatus(v) = "ready" /\ ReadinessBlockers(v, install) = {} THEN "ready" ELSE "attention"

-----------------------------------------------------------------------------
(* The assembly: the readiness of one reading, the handoff of a later one. *)

AssemblyStatus(readiness, handoff) ==
    IF readiness = "ready" /\ HandoffStatus(handoff) = "ready" /\ Correlation(handoff) = "matched"
    THEN "assembled" ELSE "attention"

AssemblyBlockers(readiness, handoff) ==
    (IF readiness # "ready" THEN {"release_readiness"} ELSE {})
    \cup (IF HandoffStatus(handoff) # "ready" THEN {"release_candidate_handoff"} ELSE {})
    \cup (IF Correlation(handoff) # "matched" THEN CorrelationBlockers(handoff) ELSE {})
=============================================================================
