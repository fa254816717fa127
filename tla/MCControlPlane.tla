--------------------------- MODULE MCControlPlane ----------------------------
(* A small instance of ControlPlane: the evidence of one release line, with  *)
(* a failed and a passed readiness and smoke summary, a smoke summary from a  *)
(* dirty tree, a fixture beside the live Codex acceptance, and two signers.   *)
EXTENDS ControlPlane

Acceptance(provider, paths, score) ==
    [kind |-> provider, complete |-> TRUE, provider |-> provider, schemaProvider |-> provider,
     status |-> "passed", declared |-> "absent", paths |-> paths, score |-> score, minimum |-> Absent]

Readiness(status, gates) ==
    [kind |-> "readiness", complete |-> TRUE, contracts |-> [p \in Providers |-> "verified"],
     status |-> status, gates |-> gates]

Smoke(status, dirty, windows) ==
    [kind |-> "smoke", status |-> status, dirty |-> dirty, commit |-> "c1", parity |-> "absent",
     drift |-> "absent", perTarget |-> TRUE,
     targets |-> [t \in Targets |->
        [status |-> IF t = "windows" THEN windows ELSE "passed", correlation |-> "matched", commit |-> "c1"]]]

MCContent ==
    [ready      |-> Readiness("passed", TRUE),
     failing    |-> Readiness("failed", FALSE),
     codexLive  |-> Acceptance("codex", {"pilot"}, 95),
     codexFix   |-> Acceptance("codex", {"fixture"}, 95),
     claudeLive |-> Acceptance("claude", {"pilot"}, 92),
     antiLive   |-> Acceptance("antigravity", {"pilot"}, 90),
     checklist  |-> [kind |-> "checklist", complete |-> TRUE, status |-> "passed",
                     phase1_state |-> "phase1_candidate_ready"],
     decision   |-> [kind |-> "decision", complete |-> TRUE, decision |-> "promote_phase1_candidate",
                     checklist |-> "checklist"],
     smokePass  |-> Smoke("passed", FALSE, "passed"),
     smokeFail  |-> Smoke("failed", FALSE, "failed"),
     smokeDirty |-> Smoke("passed", TRUE, "passed"),
     published  |-> [kind |-> "publication", complete |-> TRUE, archives |-> 3, status |-> "published_verified"],
     accepted   |-> [kind |-> "evaluator", complete |-> TRUE, observer |-> TRUE, status |-> "accepted",
                     blockers |-> {}]]

\* Nothing yet; all accepted, readiness failing; all but smoke and decision.
MCSeeds ==
    { {},
      {"failing", "codexFix", "claudeLive", "antiLive", "published", "accepted"},
      {"ready", "codexLive", "claudeLive", "antiLive", "checklist", "smokeFail", "published", "accepted"} }

Good(key) == [key |-> key, algorithm |-> TRUE, digests |-> TRUE, genuine |-> TRUE,
              schema |-> TRUE, knownFields |-> TRUE, signer |-> key]

MCSignatures == { Good("closer"), Good("stranger"), [Good("closer") EXCEPT !.genuine = FALSE] }

Pinning(keys) == [artifact |-> keys, readiness |-> keys, evaluator |-> keys]

MCConfigurations == { Pinning({"closer"}), Pinning({}) }
=============================================================================
