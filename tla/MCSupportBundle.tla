---------------------------- MODULE MCSupportBundle ----------------------------
(* A small instance of SupportBundle: the evidence of two candidates, 0.4.80  *)
(* and 0.4.81, a smoke summary of the first whose surfaces drift, an         *)
(* install verification of the second that was not repeated offline, one     *)
(* whose own status is the word of the gate, and one with an empty path.      *)
EXTENDS SupportBundle

Surface(status, value) == [status |-> status, value |-> value]

PublicationOf(version, said, offline, path) ==
    Surface("published_verified",
        [status |-> "published_verified", failed |-> {}, version |-> version, tag |-> version,
         install |-> [schema |-> TRUE, status |-> said, offline |-> offline,
                      claims |-> {}, path |-> path, sha |-> "digest"]])

Publication(version, offline) == PublicationOf(version, "verified", offline, "install.json")

Smoke(candidate, verdict) ==
    Surface("passed",
        [status |-> "passed", dirty |-> FALSE, targets |-> [t \in Targets |-> [status |-> "passed"]],
         parity |-> "matched", hashes |-> [key \in ParityKeys |-> verdict],
         candidate |-> candidate, version |-> "0.1.0"])

Evaluator(version) ==
    Surface("accepted",
        [status |-> "accepted", decision |-> "accept_phase1_release_candidate",
         version |-> version, tag |-> version])

Acceptance(version) ==
    Surface("passed", [declared |-> "live", paths |-> {}, version |-> version])

MCEvidence ==
    [publication |-> << Publication("0.4.80", "verified"), Publication("0.4.81", "verified"),
                        Publication("0.4.81", "missing"),
                        PublicationOf("0.4.81", VerifiedWord, "missing", "install.json"),
                        PublicationOf("0.4.81", "verified", "verified", EmptyPath) >>,
     registry    |-> << Surface("accepted", [phase |-> "phase1"]) >>,
     readiness   |-> << Surface("signed", [status |-> "passed"]) >>,
     checklist   |-> << Surface("passed", [phase |-> "phase1"]) >>,
     decision    |-> << [status |-> "signed", signed |-> TRUE] >>,
     smoke       |-> << Smoke("0.4.80", "drift"), Smoke("0.4.80", "matched"), Smoke("0.4.81", "matched") >>,
     evaluator   |-> << Evaluator("0.4.80"), Evaluator("0.4.81") >>,
     codex       |-> << Acceptance("0.4.80"), Acceptance("0.4.81") >>,
     claude      |-> << Acceptance("0.4.80"), Acceptance("0.4.81") >>]

\* All of the first candidate; the same with the summary that drifts; nothing; all
\* of the second, with the install verification whose status is the gate's word.
MCInitials ==
    { [k \in DOMAIN MCEvidence |-> IF k = "smoke" THEN 2 ELSE 1],
      [k \in DOMAIN MCEvidence |-> 1],
      [k \in DOMAIN MCEvidence |-> 0],
      [k \in DOMAIN MCEvidence |-> IF k = "publication" THEN 4 ELSE Len(MCEvidence[k])] }

\* One upload, or all evidence of the next candidate.
MCBursts ==
    { {k} : k \in DOMAIN MCEvidence } \cup { {"publication", "smoke", "evaluator", "codex", "claude"} }
=============================================================================
