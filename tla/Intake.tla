-------------------------------- MODULE Intake --------------------------------
(***************************************************************************)
(* What every POST handler takes in: the check at its door, the status its *)
(* index entry gets, and the sidecar a signed upload leaves.  How body,    *)
(* sidecar and entry reach the disk one await at a time is EvidenceStore's *)
(* part; here an upload is one step with one result.                       *)
(*                                                                         *)
(* A document d is a record of its kind and the fields a verdict looks at; *)
(* d.complete stands for the required fields of its schema, a signature's  *)
(* booleans for what its verification finds.  Too large, not UTF-8 and not *)
(* JSON is not a document.                                                 *)
(***************************************************************************)
EXTENDS Promotion

Refused == None

Unsigned(status)          == [status |-> status, sidecar |-> None]
SignedAs(status, sidecar) == [status |-> status, sidecar |-> sidecar]
Signed(sidecar)           == SignedAs("signed", sidecar)
Accepted(valid, result)   == IF valid THEN result ELSE Refused

-----------------------------------------------------------------------------
(* Signatures.                                                             *)

\* Mutant: a valid signature is authority enough.
AnnotateAnyKey(signature, keys) ==
    [key |-> signature.key, verified |-> TRUE, authoritative |-> TRUE]

\* Authority comes from the pinned keys of the configuration, at the moment of
\* the upload; it is stored with the signature.
AnnotateTrustPolicy(signature, keys) ==
    [key |-> signature.key, verified |-> TRUE, authoritative |-> signature.key \in keys]

\* RSA/SHA-256 over the exact bytes; digests that are declared must match.
RsaVerified(signature) == signature.algorithm /\ signature.digests /\ signature.genuine

VerifiedMemoryExport(signature)     == RsaVerified(signature)
VerifiedOperatorPacket(signature)   == signature.schema /\ RsaVerified(signature)
VerifiedProviderRegistry(signature) == signature.schema /\ RsaVerified(signature)
VerifiedEvidencePack(signature)     == signature.schema /\ RsaVerified(signature)
VerifiedPromotionDecision(signature) == signature.schema /\ RsaVerified(signature)
VerifiedEvaluatorDecision(signature) == signature.schema /\ RsaVerified(signature)

\* Readiness alone refuses fields it does not know and wants a signer.
VerifiedProviderReadiness(signature) ==
    /\ signature.knownFields /\ signature.schema /\ RsaVerified(signature)
    /\ signature.signer # ""

-----------------------------------------------------------------------------
(* The checks at the door.                                                 *)

ValidAcceptance(d) == d.complete /\ d.provider = d.schemaProvider

ValidMemoryExport(d) == d.complete /\ d.recordCount = d.records /\ d.linkCount = d.links

ValidControlPlaneBundle(d) == d.complete

ValidProviderRegistry(d) == d.complete /\ d.executionOwner = "ao2-local-cli" /\ d.providers # {}

ValidProviderReadiness(d) == d.complete /\ \A p \in Providers : d.contracts[p] = "verified"

ValidWatchdogPanel(d) == d.complete

\* claims: the authority over credentials, artifacts or releases it asks for.
ValidAiTaskBoard(d) ==
    /\ d.complete /\ d.tasks # {} /\ d.claims = {}
    /\ \A task \in d.tasks : task.evidence /\ task.stopConditions

ValidProgress(d) == d.complete /\ d.completed <= d.total /\ d.claims = {}

ValidChecklist(d) == d.complete

ValidPublication(d) == d.complete /\ d.archives > 0

\* An accepted decision names no blockers and leaves approval to its owner.
ValidEvaluatorDecision(d) ==
    /\ d.complete /\ d.observer
    /\ d.status = "accepted" => d.blockers = {}

-----------------------------------------------------------------------------
(* The handlers.  A signed upload is listed as "signed"; operator packets   *)
(* and evidence packs, which come signed only, under a word of their own.  *)

PostAcceptance(d)        == Accepted(ValidAcceptance(d), Unsigned(d.status))
PostMemoryExport(d)      == Accepted(ValidMemoryExport(d), Unsigned("accepted"))
PostBundle(d)            == Accepted(ValidControlPlaneBundle(d), Unsigned("none"))
PostProviderRegistry(d)  == Accepted(ValidProviderRegistry(d), Unsigned("accepted"))
PostProviderReadiness(d) == Accepted(ValidProviderReadiness(d), Unsigned(d.status))
PostWatchdogPanel(d)     == Accepted(ValidWatchdogPanel(d), Unsigned(d.route))
PostAiTaskBoard(d)       == Accepted(ValidAiTaskBoard(d), Unsigned(d.status))
PostProgress(d)          == Accepted(ValidProgress(d), Unsigned(d.state))
PostChecklist(d)         == Accepted(ValidChecklist(d), Unsigned(d.status))
PostInputs(d)            == Accepted(ValidInputsVerification(d), Unsigned(d.status))
PostSmoke(d)             == Accepted(ValidSmoke(d), Unsigned(d.status))
PostPublication(d)       == Accepted(ValidPublication(d), Unsigned(d.status))
PostEvaluatorDecision(d) == Accepted(ValidEvaluatorDecision(d), Unsigned(d.status))

PostSignedMemoryExport(d, signature, keys) ==
    Accepted(VerifiedMemoryExport(signature) /\ ValidMemoryExport(d),
        Signed(AnnotateTrustPolicy(signature, keys.artifact)))

PostSignedOperatorPacket(d, signature, keys) ==
    Accepted(VerifiedOperatorPacket(signature) /\ d.complete,
        SignedAs(d.status, AnnotateTrustPolicy(signature, keys.artifact)))

PostSignedProviderRegistry(d, signature, keys) ==
    Accepted(VerifiedProviderRegistry(signature) /\ ValidProviderRegistry(d),
        Signed(AnnotateTrustPolicy(signature, keys.artifact)))

PostSignedEvidencePack(d, signature, keys) ==
    Accepted(VerifiedEvidencePack(signature) /\ d.complete,
        SignedAs(d.verdict, AnnotateTrustPolicy(signature, keys.artifact)))

PostSignedProviderReadiness(d, signature, keys) ==
    Accepted(ValidProviderReadiness(d) /\ VerifiedProviderReadiness(signature),
        Signed(AnnotateTrustPolicy(signature, keys.readiness)))

PostSignedEvaluatorDecision(d, signature, keys) ==
    Accepted(ValidEvaluatorDecision(d) /\ VerifiedEvaluatorDecision(signature),
        Signed(AnnotateTrustPolicy(signature, keys.evaluator)))

\* The checklist it names must be a stored body; whether it is listed, or what
\* it says, is not looked at.
PostSignedPromotionDecision(d, signature, keys, bodies) ==
    Accepted(VerifiedPromotionDecision(signature) /\ ValidDecision(d) /\ d.checklist \in bodies,
        Signed(AnnotateTrustPolicy(signature, keys.artifact)))

\* The router.
Post(d) ==
    CASE d.kind \in {"codex", "claude", "antigravity"} -> PostAcceptance(d)
      [] d.kind = "memory"      -> PostMemoryExport(d)
      [] d.kind = "bundle"      -> PostBundle(d)
      [] d.kind = "registry"    -> PostProviderRegistry(d)
      [] d.kind = "readiness"   -> PostProviderReadiness(d)
      [] d.kind = "watchdog"    -> PostWatchdogPanel(d)
      [] d.kind = "board"       -> PostAiTaskBoard(d)
      [] d.kind = "progress"    -> PostProgress(d)
      [] d.kind = "checklist"   -> PostChecklist(d)
      [] d.kind = "inputs"      -> PostInputs(d)
      [] d.kind = "smoke"       -> PostSmoke(d)
      [] d.kind = "publication" -> PostPublication(d)
      [] d.kind = "evaluator"   -> PostEvaluatorDecision(d)
      [] OTHER                  -> Refused

PostSigned(d, signature, keys, bodies) ==
    CASE d.kind = "memory"    -> PostSignedMemoryExport(d, signature, keys)
      [] d.kind = "packet"    -> PostSignedOperatorPacket(d, signature, keys)
      [] d.kind = "registry"  -> PostSignedProviderRegistry(d, signature, keys)
      [] d.kind = "evidence"  -> PostSignedEvidencePack(d, signature, keys)
      [] d.kind = "readiness" -> PostSignedProviderReadiness(d, signature, keys)
      [] d.kind = "evaluator" -> PostSignedEvaluatorDecision(d, signature, keys)
      [] d.kind = "decision"  -> PostSignedPromotionDecision(d, signature, keys, bodies)
      [] OTHER                -> Refused
=============================================================================
