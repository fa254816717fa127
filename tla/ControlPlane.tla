----------------------------- MODULE ControlPlane -----------------------------
(***************************************************************************)
(* The control plane as its clients see it: uploads with what the handlers *)
(* take in, the prune that gives up old evidence while uploads go on, a    *)
(* restart with other pinned keys.  An upload is one step; its own         *)
(* interleavings are EvidenceStore's.                                      *)
(***************************************************************************)
EXTENDS Intake, StorageReport
CONSTANTS
    Content,        \* a function: the documents and what is in each
    Signatures,     \* the signatures uploads come with
    Configurations, \* the pinned keys a server may be started with
    KeepLatest,     \* keep_latest of the prune
    MaxUploads,     \* bound on the uploads that change the store
    MaxPrunes,      \* bound on prunes
    Seeds           \* sets of documents stored before, unsigned, one of a kind

ASSUME ControlPlaneConstants ==
    /\ \A c \in Configurations : DOMAIN c = {"artifact", "readiness", "evaluator"}
    /\ KeepLatest \in Nat \ {0} /\ MaxUploads \in Nat /\ MaxPrunes \in Nat
    /\ \A seed \in Seeds : IsFiniteSet(seed) /\ seed \subseteq DOMAIN Content
                           /\ \A d \in seed : Post(Content[d]) # Refused

VARIABLES
    bodies,    \* the documents whose body is stored
    sidecar,   \* the signature stored for each document
    index,     \* the entries of each kind, the newest last
    uploads,   \* uploads that changed the store
    trusted,   \* the pinned keys
    everTrusted, \* history: the keys ever pinned
    prune,     \* the prune under way
    prunes     \* prunes begun

storeVars == <<bodies, sidecar, index, uploads>>
configVars == <<trusted, everTrusted>>
pruneVars == <<prune, prunes>>
vars == <<storeVars, configVars, pruneVars>>

Docs  == DOMAIN Content
Kinds == PrunableKinds \cup UnprunableKinds

Keys(configuration) == UNION { configuration[l] : l \in DOMAIN configuration }

\* Mutant: a document is taken for listed when its body is stored.
ListedByBody(d) == d \in bodies

\* An entry of its digest exists, whatever became of its body.
Listed(d) == \E i \in DOMAIN index[Content[d].kind] : index[Content[d].kind][i].doc = d

Idle == [at |-> "idle"]

\* readiness_status and blocking_gaps of the support bundle, all evidence fresh.
Verdict == StorageGaps(index, sidecar, {})

Entry(d, status) == [doc |-> d, status |-> status]

Init ==
    /\ bodies \in Seeds /\ uploads = 0
    /\ sidecar = [d \in Docs |-> Nothing]
    /\ index = [k \in Kinds |->
          SetToSeq({ Entry(d, Post(Content[d]).status) : d \in { s \in bodies : Content[s].kind = k } })]
    /\ trusted \in Configurations /\ everTrusted = Keys(trusted)
    /\ prune = Idle /\ prunes = 0

-----------------------------------------------------------------------------
(* Uploads.                                                                *)

\* Body, sidecar, and an entry unless the digest is listed already: the status
\* stays that of the first upload.
Store(d, status, signature) ==
    /\ bodies' = bodies \cup {d}
    /\ sidecar' = IF signature = None THEN sidecar ELSE [sidecar EXCEPT ![d] = signature]
    /\ index' = IF Listed(d) THEN index
                ELSE [index EXCEPT ![Content[d].kind] = Append(@, Entry(d, status))]
    /\ uploads' = uploads + IF <<bodies, sidecar, index>>' = <<bodies, sidecar, index>> THEN 0 ELSE 1
    /\ uploads' <= MaxUploads
    /\ UNCHANGED <<configVars, pruneVars>>

Upload(d) ==
    LET taken == Post(Content[d]) IN
    /\ taken # Refused
    /\ Store(d, taken.status, None)

\* Write-once: another signature than the stored one is refused, as is the same
\* one when the pinned keys have changed since.
UploadSigned(d, signature) ==
    LET taken == PostSigned(Content[d], signature, trusted, bodies) IN
    /\ taken # Refused
    /\ sidecar[d] \in {Nothing, taken.sidecar}
    /\ Store(d, taken.status, taken.sidecar)

-----------------------------------------------------------------------------
(* prune_retention of a running server, step by step.                      *)

PruneRead ==
    /\ prune = Idle /\ prunes < MaxPrunes
    /\ prune' = [at |-> "removing", read |-> index, todo |-> RetentionCandidates(index, KeepLatest)]
    /\ prunes' = prunes + 1
    /\ UNCHANGED <<storeVars, configVars>>

PruneRemove(d) ==
    /\ prune # Idle /\ d \in prune.todo
    /\ bodies' = bodies \ {d} /\ sidecar' = [sidecar EXCEPT ![d] = Nothing]
    /\ prune' = [prune EXCEPT !.todo = @ \ {d}]
    /\ UNCHANGED <<index, uploads, configVars, prunes>>

\* The retained entries are those of the index as it was read.
PruneRewrite ==
    /\ prune # Idle /\ prune.todo = {}
    /\ index' = RetainedEntries(prune.read, KeepLatest)
    /\ prune' = Idle
    /\ UNCHANGED <<bodies, sidecar, uploads, configVars, prunes>>

\* The request is cancelled or fails on the way.
PruneStops ==
    /\ prune # Idle
    /\ prune' = Idle
    /\ UNCHANGED <<storeVars, configVars, prunes>>

-----------------------------------------------------------------------------
Restart(configuration) ==
    /\ trusted' = configuration /\ everTrusted' = everTrusted \cup Keys(configuration)
    /\ prune' = Idle
    /\ UNCHANGED <<storeVars, prunes>>

Next ==
    \/ \E d \in Docs : Upload(d) \/ PruneRemove(d)
    \/ \E d \in Docs, signature \in Signatures : UploadSigned(d, signature)
    \/ PruneRead \/ PruneRewrite \/ PruneStops
    \/ \E configuration \in Configurations : Restart(configuration)

Spec == Init /\ [][Next]_vars

-----------------------------------------------------------------------------
(* What the Phase 1 surfaces read: the latest of each kind, and what it says. *)

Latest(kind) ==
    LET entry == LatestEntry(index, kind) IN IF entry = Nothing THEN None ELSE Content[entry.doc]

LatestSidecar(kind) ==
    LET entry == LatestEntry(index, kind) IN IF entry = Nothing THEN None ELSE sidecar[entry.doc]

View ==
    [readiness |-> Latest("readiness"), codex |-> Latest("codex"), claude |-> Latest("claude"),
     antigravity |-> Latest("antigravity"), checklist |-> Latest("checklist"),
     decision |-> Latest("decision"), decisionSidecar |-> LatestSidecar("decision"),
     smoke |-> Latest("smoke")]

-----------------------------------------------------------------------------
(* Correctness.                                                            *)

\* Types, and a digest is listed once.
TypeOK ==
    /\ bodies \subseteq Docs
    /\ \A d \in Docs : sidecar[d] = Nothing \/ sidecar[d].key \in everTrusted \cup { s.key : s \in Signatures }
    /\ \A k \in Kinds : \A i \in DOMAIN index[k] :
          Content[index[k][i].doc].kind = k
          /\ \A j \in DOMAIN index[k] : index[k][i].doc = index[k][j].doc => i = j
    /\ trusted \in Configurations
    /\ uploads \in 0 .. MaxUploads /\ prunes \in 0 .. MaxPrunes

\* The operator is never left without a next step: until a signed decision is
\* observed the gap report names something to do, and its critical path begins
\* with an action that waits for none of the others.
AlwaysSomethingToDo ==
    PromotionState(View) # "promotion_decision_observed" =>
        /\ BlockingGaps(View) # <<>>
        /\ ReadyToStart(CriticalPath(BlockingGaps(View))[1], BlockingGaps(View))

\* The Phase 1 dashboard recomputes the three-OS verdict from the targets, the
\* storage dashboard believes the entry's status: they agree on every smoke
\* summary that got in.
SmokeVerdictsAgree ==
    ThreeOsSmokeStatus(View) = "passed"
        <=> \A gap \in Verdict : gap.id # "smoke"

\* An entry of a signed upload: its document would not have been taken in
\* unsigned, or not with this status.
OfSignedUpload(entry) ==
    Post(Content[entry.doc]) = Refused \/ Post(Content[entry.doc]).status # entry.status

\* The latest evidence of a kind can be read, and its signature if it was listed
\* by a signed upload, also while a prune that was planned before goes on and
\* after one that stopped half way.
LatestAnswers ==
    \A k \in Kinds : LatestEntry(index, k) # Nothing =>
        /\ LatestEntry(index, k).doc \in bodies
        /\ OfSignedUpload(LatestEntry(index, k)) => sidecar[LatestEntry(index, k).doc] # Nothing

\* A prune gives up what no verdict looks at: where no upload was listed since
\* it read the index, none of its steps changes what a surface concludes.
PruneKeepsVerdicts ==
    [][prune # Idle /\ prune.read = index /\ ((\E d \in Docs : PruneRemove(d)) \/ PruneRewrite)
        => View' = View /\ Verdict' = Verdict]_vars

\* Whatever the keys are changed to, an authority that is stored was given for a
\* key that was pinned when its upload came in.
AuthorityIsPinned ==
    \A d \in Docs : sidecar[d] # Nothing /\ sidecar[d].authoritative => sidecar[d].key \in everTrusted

\* "a token holder cannot drive a release-authoritative display by self-signing
\* with an arbitrary key": the panel is ready only on a decision signed with a
\* key that some configuration pinned.
NoSelfPromotion ==
    /\ AuthorityIsPinned
    /\ PanelStatus(View) = "ready" => LatestSidecar("decision").key \in everTrusted
=============================================================================
