------------------------------- MODULE Promotion -------------------------------
(***************************************************************************)
(* What the Phase 1 surfaces conclude from the evidence they read: the     *)
(* checks at the door, the state of the promotion, the gap report with its *)
(* operator queue, the operator panel, and the storage support bundle's    *)
(* own readiness verdict.  Pure operators: a document is a record of the   *)
(* fields the verdicts look at, a view is what one reading saw of each     *)
(* surface, None where it saw nothing.                                     *)
(***************************************************************************)
EXTENDS Integers, FiniteSets, Sequences, SequencesExt

None   == [kind |-> "none"]
Absent == -1    \* a number a document does not carry

Providers == {"codex", "claude", "antigravity"}
Targets   == {"macos", "ubuntu", "windows"}

-----------------------------------------------------------------------------
(* Checks at the door.                                                     *)

AllTargetsPassed(smoke) == \A t \in Targets : smoke.targets[t].status = "passed"

\* What the statuses of the targets that passed have in common.
RecomputedParity(smoke) ==
    LET observed == { smoke.targets[t].correlation :
                        t \in { u \in Targets : smoke.targets[u].status = "passed" } } IN
    IF observed = {} THEN "unknown"
    ELSE IF Cardinality(observed) = 1 THEN CHOOSE s \in observed : TRUE ELSE "drift"

\* Some target that passed ran another commit than the one the summary names.
RecomputedDrift(smoke) ==
    \E t \in Targets : smoke.targets[t].status = "passed"
                       /\ smoke.targets[t].commit # smoke.commit

\* Mutant: a dirty source tree does not fail the recomputed status.
ValidSmokeDirty(smoke) ==
    /\ smoke.commit # "placeholder"
    /\ smoke.status = IF AllTargetsPassed(smoke) THEN "passed" ELSE "failed"
    /\ smoke.parity \in {"absent", RecomputedParity(smoke)}
    /\ smoke.perTarget => ~RecomputedDrift(smoke) /\ smoke.drift \in {"absent", "none"}

\* Every field a summary could be read by is recomputed from the targets; the
\* commits of the targets only where the summary carries them.
ValidSmoke(smoke) ==
    /\ smoke.commit # "placeholder"
    /\ smoke.status = IF AllTargetsPassed(smoke) /\ ~smoke.dirty THEN "passed" ELSE "failed"
    /\ smoke.parity \in {"absent", RecomputedParity(smoke)}
    /\ smoke.perTarget => ~RecomputedDrift(smoke) /\ smoke.drift \in {"absent", "none"}

\* The one decision a control plane takes in is a promotion that names a checklist.
ValidDecision(decision) ==
    decision.decision = "promote_phase1_candidate" /\ decision.checklist # ""

ValidInputsVerification(report) ==
    /\ report.status \in {"accepted", "rejected"}
    /\ report.observer    \* the trust boundary names the observer role, mutates and approves nothing

-----------------------------------------------------------------------------
(* Acceptance of the providers.                                            *)

\* What a bundle is evidence of: its own word, or the paths it was made from.
AcceptanceSourceClass(bundle) ==
    IF bundle.declared # "absent"
    THEN IF bundle.declared \in {"live", "fixture"} THEN bundle.declared ELSE "unknown"
    ELSE IF "pilot" \in bundle.paths /\ "placeholder" \notin bundle.paths THEN "live"
    ELSE IF bundle.paths \cap {"placeholder", "fixture"} # {} THEN "fixture" ELSE "unknown"

DefaultMinimumScore == 90

LiveAcceptanceReady(bundle) ==
    /\ bundle # None /\ bundle.status = "passed"
    /\ AcceptanceSourceClass(bundle) = "live"
    /\ bundle.score # Absent
    /\ bundle.score >= IF bundle.minimum = Absent THEN DefaultMinimumScore ELSE bundle.minimum

ProviderAcceptanceState(bundle) ==
    IF LiveAcceptanceReady(bundle) THEN "passed"
    ELSE IF bundle = None THEN "missing"
    ELSE IF AcceptanceSourceClass(bundle) # "live" THEN "not_live" ELSE "not_ready"

\* live_acceptance_complete
AcceptanceComplete(view) == \A p \in Providers : LiveAcceptanceReady(view[p])

-----------------------------------------------------------------------------
(* Provider readiness, checklist, decision, smoke.                         *)

ReadinessPhase1State(readiness) ==
    IF readiness.status # "passed" THEN "failed"
    ELSE IF readiness.gates THEN "ready" ELSE "blocked"

ProviderReadinessCheck(view) ==
    IF view.readiness = None THEN "missing"
    ELSE IF AcceptanceComplete(view) /\ ReadinessPhase1State(view.readiness) # "ready"
    THEN "superseded_by_live_acceptance" ELSE "observed"

\* The summary says "missing" where there is none, and else what the body says.
ChecklistMissing(view) == view.checklist = None \/ view.checklist.status = "missing"

ChecklistPassed(view) ==
    view.checklist # None /\ view.checklist.status = "passed"
    /\ view.checklist.phase1_state = "phase1_candidate_ready"

\* decision_artifact_summary: a sidecar that cannot be read counts as none.
SignatureVerified(sidecar) == sidecar # None /\ sidecar.verified
ReleaseAuthoritative(sidecar) == sidecar # None /\ sidecar.authoritative

SignedPromotionDecision(view) ==
    view.decision # None /\ view.decision.decision = "promote_phase1_candidate"
    /\ SignatureVerified(view.decisionSidecar)

\* three_os_smoke_artifact_summary
CleanPass(smoke) == smoke.status = "passed" /\ ~smoke.dirty /\ AllTargetsPassed(smoke)

ThreeOsSmokeStatus(view) ==
    IF view.smoke = None THEN "external_required"
    ELSE IF CleanPass(view.smoke) THEN "passed" ELSE "failed"

\* phase1_promotion_dashboard_value
PromotionState(view) ==
    IF SignedPromotionDecision(view) THEN "promotion_decision_observed"
    ELSE IF ChecklistPassed(view) THEN "release_candidate_observed"
    ELSE IF ProviderReadinessCheck(view) # "missing" /\ AcceptanceComplete(view)
    THEN "release_gate_ready" ELSE "collecting_evidence"

-----------------------------------------------------------------------------
(* The gap report.                                                         *)

If(condition, gap) == IF condition THEN <<gap>> ELSE <<>>

\* The gaps in the order they are reported, by the state of the promotion.
BlockingGaps(view) ==
    CASE PromotionState(view) = "release_gate_ready" ->
            <<"release_gate">> \o If(ThreeOsSmokeStatus(view) # "passed", "three_os_smoke")
      [] PromotionState(view) = "release_candidate_observed" -> <<"signed_promotion_decision">>
      [] PromotionState(view) = "promotion_decision_observed" -> <<>>
      [] OTHER ->
            If(ProviderReadinessCheck(view) = "missing", "provider_readiness")
            \o If(~AcceptanceComplete(view), "live_provider_acceptance")
            \o If(ChecklistMissing(view), "phase1_promotion_checklist")

\* Mutant: the smoke waits for the release gate, which waits for the smoke.
GapDependenciesCyclic(id) ==
    CASE id = "live_provider_acceptance" -> {"provider_readiness"}
      [] id = "three_os_smoke" -> {"provider_readiness", "live_provider_acceptance", "release_gate"}
      [] id = "release_gate" ->
            {"provider_readiness", "live_provider_acceptance", "three_os_smoke"}
      [] id = "phase1_promotion_checklist" ->
            {"provider_readiness", "live_provider_acceptance", "release_gate", "three_os_smoke"}
      [] id = "signed_promotion_decision" -> {"phase1_promotion_checklist"}
      [] OTHER -> {}

GapDependencies(id) ==
    CASE id = "live_provider_acceptance" -> {"provider_readiness"}
      [] id = "three_os_smoke" -> {"provider_readiness", "live_provider_acceptance"}
      [] id = "release_gate" ->
            {"provider_readiness", "live_provider_acceptance", "three_os_smoke"}
      [] id = "phase1_promotion_checklist" ->
            {"provider_readiness", "live_provider_acceptance", "release_gate", "three_os_smoke"}
      [] id = "signed_promotion_decision" -> {"phase1_promotion_checklist"}
      [] OTHER -> {}

BlockedBy(id, gaps) == GapDependencies(id) \cap ToSet(gaps)

ReadyToStart(id, gaps) == BlockedBy(id, gaps) = {}

\* Ready first, then the most dependencies first, then the order of the report.
Before(a, b, gaps) ==
    LET rank(id) == <<IF ReadyToStart(id, gaps) THEN 0 ELSE 1,
                      10 - Cardinality(GapDependencies(id)),
                      CHOOSE i \in DOMAIN gaps : gaps[i] = id>> IN
    \/ rank(a)[1] < rank(b)[1]
    \/ rank(a)[1] = rank(b)[1] /\ rank(a)[2] < rank(b)[2]
    \/ rank(a)[1] = rank(b)[1] /\ rank(a)[2] = rank(b)[2] /\ rank(a)[3] < rank(b)[3]

CriticalPath(gaps) ==
    CHOOSE path \in [DOMAIN gaps -> ToSet(gaps)] :
        \A i, j \in DOMAIN path : i < j => Before(path[i], path[j], gaps)

\* phase1_operator_panel_value
PanelStatus(view) ==
    IF /\ PromotionState(view) = "promotion_decision_observed"
       /\ BlockingGaps(view) = <<>>
       /\ ReleaseAuthoritative(view.decisionSidecar)
       /\ ThreeOsSmokeStatus(view) = "passed"
    THEN "ready"
    ELSE IF BlockingGaps(view) # <<>> THEN "attention" ELSE "review"
=============================================================================
