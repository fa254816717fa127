---------------------------- MODULE EvidenceStore ----------------------------
(***************************************************************************)
(* The data directory under its users: the POST handlers that store a      *)
(* document, its signature sidecar and its index entry one file at a time; *)
(* prune_retention, called by /api/v1/storage/prune or by ao2-cp-gc; and   *)
(* the orphan sweep both processes run when they open the store.           *)
(*                                                                         *)
(* The index is the one AtomicIndex promises (IndexStore implements it): a *)
(* call takes effect at one instant.  A step runs from one await to the    *)
(* next; each bundle file appears by one rename, so a write is one step.   *)
(***************************************************************************)
EXTENDS AtomicIndex
CONSTANTS
    Raws,           \* the texts uploaded; several may have one canonical digest
    RawOf,          \* [Requests -> Raws]
    Signers,        \* what signature sidecars can hold
    SignerOf,       \* [Requests -> Signers \cup {Absent}], Absent if unsigned
    Overwriting,    \* requests whose handler writes the body unconditionally
    Swept,          \* digests of the kinds sweep_orphans lists
    Prunable,       \* digests of the kinds retention may prune
    Prunes,         \* calls of the prune endpoint
    Gcs,            \* runs of ao2-cp-gc
    DryRuns,        \* the prunes and gc runs with dry_run set
    Boot,           \* the server's Storage::open
    Faults,         \* subset of {"cancel", "crash"}
    Absent          \* no such file

Sweeps  == Gcs \cup {Boot}
Jobs    == Prunes \cup Sweeps
Tasks   == Requests \cup Jobs
Signed  == { r \in Requests : SignerOf[r] # Absent }

ASSUME StoreConstants ==
    /\ ShaOf \in [Requests -> Digests]
    /\ RawOf \in [Requests -> Raws]
    /\ SignerOf \in [Requests -> Signers \cup {Absent}]
    /\ Absent \notin Raws \cup Signers
    /\ Overwriting \subseteq Requests
    /\ Swept \subseteq Digests /\ Prunable \subseteq Digests
    /\ Requests \cap Jobs = {} /\ Prunes \cap Sweeps = {} /\ Boot \notin Gcs
    /\ DryRuns \subseteq Prunes \cup Gcs
    /\ Faults \subseteq {"cancel", "crash"}

VARIABLES
    body,           \* [Digests -> Raws \cup {Absent}], the primary bundle files
    sidecar,        \* [Digests -> Signers \cup {Absent}], the signature files
    pc,             \* where each task is
    job             \* what each prune and sweep remembers

vars == <<log, verdict, body, sidecar, pc, job>>

Files == {"body", "sidecar"} \X Digests

\* known: digests sweep_orphans keeps; listed: entries prune_retention read;
\* drop: digests to prune; unprobed: those whose sidecar is still to be looked
\* for; todo: files to remove.
JobRecord == [known : SUBSET Digests, listed : SUBSET Requests, drop : SUBSET Digests,
              unprobed : SUBSET Digests, todo : SUBSET Files]

NoJob == [known |-> {}, listed |-> {}, drop |-> {}, unprobed |-> {}, todo |-> {}]

InHandler   == {"write", "probe_sidecar", "compare", "write_sidecar", "append"}
LateRequest == {"late_body", "late_sidecar", "late_append"}
RequestDone == {"acked", "rejected", "failed", "cancelled", "lost"}
InOpen      == {"bodies", "sweep_bodies", "sweep_sidecars"}
InPrune     == {"read", "plan"}
LateJob     == {"late_remove", "late_rewrite"}
JobDone     == {"done", "failed", "cancelled", "lost"}

\* The listener is bound only after Storage::open returned.
Serving == pc[Boot] = "done"

\* A task of the server that is running, or has an operation still in the
\* blocking pool.
InServer(t) ==
    /\ t \in Requests \cup Prunes
    /\ pc[t] \in InHandler \cup LateRequest \cup InPrune \cup LateJob

Listed(s) == s \in ShasIn(log)

OnDisk(f) == IF f[1] = "body" THEN body[f[2]] # Absent ELSE sidecar[f[2]] # Absent

GoTo(t, where) == pc' = [pc EXCEPT ![t] = where]

Init ==
    /\ AInit
    /\ body = [s \in Digests |-> Absent]
    /\ sidecar = [s \in Digests |-> Absent]
    /\ pc = [t \in Tasks |-> "new"]
    /\ job = [j \in Jobs |-> NoJob]

-----------------------------------------------------------------------------
(* The handlers that ingest a document.                                    *)

\* Mutant: the sidecar of a signed upload is forgotten.
AfterBodyIndex(r) == "append"

\* Once the body is there a signed upload turns to the sidecar, an unsigned one
\* to the index.
AfterBody(r) == IF r \in Signed THEN "probe_sidecar" ELSE "append"

\* Mutant: the body is taken to be there.
StartWithoutBody(r) ==
    /\ pc[r] = "new"
    /\ Serving
    /\ GoTo(r, AfterBody(r))
    /\ UNCHANGED <<log, verdict, body, sidecar, job>>

\* Verification, then `if !exists(kind, sha)`.
Start(r) ==
    /\ pc[r] = "new"
    /\ Serving
    /\ GoTo(r, IF body[ShaOf[r]] = Absent \/ r \in Overwriting
               THEN "write" ELSE AfterBody(r))
    /\ UNCHANGED <<log, verdict, body, sidecar, job>>

\* Mutant: the sidecar's bytes at the body's path.
PutSidecarAsBody(r) == body' = [body EXCEPT ![ShaOf[r]] = SignerOf[r]]

PutBody(r) == body' = [body EXCEPT ![ShaOf[r]] = RawOf[r]]

PutSidecar(r) == sidecar' = [sidecar EXCEPT ![ShaOf[r]] = SignerOf[r]]

WriteBody(r) ==
    /\ pc[r] = "write"
    /\ PutBody(r)
    /\ GoTo(r, AfterBody(r))
    /\ UNCHANGED <<log, verdict, sidecar, job>>

ProbeSidecar(r) ==
    /\ pc[r] = "probe_sidecar"
    /\ GoTo(r, IF sidecar[ShaOf[r]] = Absent THEN "write_sidecar" ELSE "compare")
    /\ UNCHANGED <<log, verdict, body, sidecar, job>>

\* The read fails if the file went away since the probe.
CompareSidecar(r) ==
    /\ pc[r] = "compare"
    /\ GoTo(r, CASE sidecar[ShaOf[r]] = Absent      -> "failed"
                 [] sidecar[ShaOf[r]] = SignerOf[r] -> "append"
                 [] OTHER                           -> "rejected")
    /\ UNCHANGED <<log, verdict, body, sidecar, job>>

WriteSidecar(r) ==
    /\ pc[r] = "write_sidecar"
    /\ PutSidecar(r)
    /\ GoTo(r, "append")
    /\ UNCHANGED <<log, verdict, body, job>>

\* append_if_absent; both of its answers are a 200.
Append(r) ==
    /\ pc[r] = "append"
    /\ Insert(r) \/ Skip(r)
    /\ GoTo(r, "acked")
    /\ UNCHANGED <<body, sidecar, job>>

-----------------------------------------------------------------------------
(* Storage::open and its orphan sweep.                                     *)

\* read_all gives the known digests.
OpenStore(j) ==
    /\ pc[j] = "new" /\ j \in Sweeps
    /\ job' = [job EXCEPT ![j] = [NoJob EXCEPT !.known = ShasIn(log)]]
    /\ GoTo(j, "bodies")
    /\ UNCHANGED <<log, verdict, body, sidecar>>

\* Mutant: the sweep does not look at the index.
AllFiles(j, kind) == { f \in {kind} \X Swept : OnDisk(f) }

\* bundles.list(kind): the files whose digest is not known.
Orphans(j, kind) ==
    { f \in {kind} \X Swept : OnDisk(f) /\ f[2] \notin job[j].known }

ListBodies(j) ==
    /\ pc[j] = "bodies"
    /\ job' = [job EXCEPT ![j].todo = Orphans(j, "body")]
    /\ GoTo(j, "sweep_bodies")
    /\ UNCHANGED <<log, verdict, body, sidecar>>

\* Mutant: the kinds of sidecars are missing from the sweep's table.
ListNoSidecars(j) ==
    /\ pc[j] = "sweep_bodies" /\ job[j].todo = {}
    /\ GoTo(j, "sweep_sidecars")
    /\ UNCHANGED <<log, verdict, body, sidecar, job>>

ListSidecars(j) ==
    /\ pc[j] = "sweep_bodies" /\ job[j].todo = {}
    /\ job' = [job EXCEPT ![j].todo = Orphans(j, "sidecar")]
    /\ GoTo(j, "sweep_sidecars")
    /\ UNCHANGED <<log, verdict, body, sidecar>>

Delete(f) ==
    /\ body' = IF f[1] = "body" THEN [body EXCEPT ![f[2]] = Absent] ELSE body
    /\ sidecar' = IF f[1] = "sidecar" THEN [sidecar EXCEPT ![f[2]] = Absent] ELSE sidecar

\* remove_file(..)?: a file someone else removed first makes open fail.
RemoveOrphan(j) ==
    /\ pc[j] \in {"sweep_bodies", "sweep_sidecars"}
    /\ \E f \in job[j].todo :
          /\ Delete(f)
          /\ job' = [job EXCEPT ![j].todo = @ \ {f}]
          /\ IF OnDisk(f) THEN UNCHANGED pc ELSE GoTo(j, "failed")
    /\ UNCHANGED <<log, verdict>>

Opened(j) ==
    /\ pc[j] = "sweep_sidecars" /\ job[j].todo = {}
    /\ GoTo(j, IF j = Boot THEN "done" ELSE "read")
    /\ UNCHANGED <<log, verdict, body, sidecar, job>>

-----------------------------------------------------------------------------
(* prune_retention.                                                        *)

\* Mutant: take(keep_latest) for skip(keep_latest), the retained are removed.
ReadAllToKeep(j) ==
    /\ \/ j \in Prunes /\ pc[j] = "new" /\ Serving
       \/ j \in Gcs /\ pc[j] = "read"
    /\ \E drop \in SUBSET (ShasIn(log) \cap Prunable) :
          job' = [job EXCEPT ![j] =
                     [@ EXCEPT !.listed = log, !.drop = drop, !.unprobed = ShasIn(log) \ drop]]
    /\ GoTo(j, "plan")
    /\ UNCHANGED <<log, verdict, body, sidecar>>

\* read_all; the policy picks the digests to drop from the entries alone, all
\* but the keep_latest newest of each prunable kind (any subset here).
ReadAll(j) ==
    /\ \/ j \in Prunes /\ pc[j] = "new" /\ Serving
       \/ j \in Gcs /\ pc[j] = "read"
    /\ \E drop \in SUBSET (ShasIn(log) \cap Prunable) :
          job' = [job EXCEPT ![j] =
                     [@ EXCEPT !.listed = log, !.drop = drop, !.unprobed = drop]]
    /\ GoTo(j, "plan")
    /\ UNCHANGED <<log, verdict, body, sidecar>>

\* retention_candidates: a candidate's sidecar is removed only if it exists now.
Removable(s) == { f \in Files : f[2] = s /\ (f[1] = "body" \/ OnDisk(f)) }

Probe(j) ==
    /\ pc[j] = "plan"
    /\ \E s \in job[j].unprobed :
          job' = [job EXCEPT ![j] =
                     [@ EXCEPT !.unprobed = job[j].unprobed \ {s},
                               !.todo = job[j].todo \cup Removable(s)]]
    /\ UNCHANGED <<log, verdict, body, sidecar, pc>>

\* Candidate by candidate, the body before its sidecar.
Upcoming(todo) ==
    LET begun == { f \in todo : f[1] = "sidecar" /\ <<"body", f[2]>> \notin todo }
    IN  IF begun # {} THEN begun ELSE { f \in todo : f[1] = "body" }

\* remove_if_exists
Remove(j) ==
    /\ pc[j] = "plan" /\ j \notin DryRuns /\ job[j].unprobed = {}
    /\ \E f \in Upcoming(job[j].todo) :
          /\ Delete(f)
          /\ job' = [job EXCEPT ![j].todo = @ \ {f}]
    /\ UNCHANGED <<log, verdict, pc>>

Retained(j) == { e \in job[j].listed : ShaOf[e] \notin job[j].drop }

\* index.rewrite(&retained), of the entries read before the removals, even when
\* nothing was dropped.
Rewrite(j) ==
    /\ pc[j] = "plan" /\ j \notin DryRuns
    /\ job[j].unprobed = {} /\ job[j].todo = {}
    /\ log' = Retained(j)
    /\ GoTo(j, "done")
    /\ UNCHANGED <<verdict, body, sidecar, job>>

ReportOnly(j) ==
    /\ pc[j] = "plan" /\ j \in DryRuns /\ job[j].unprobed = {}
    /\ GoTo(j, "done")
    /\ UNCHANGED <<log, verdict, body, sidecar, job>>

-----------------------------------------------------------------------------
(* Faults.                                                                 *)

\* The handler's future is dropped at an await: the rename, append or removal
\* it waited for may have been dropped too, or still be to come.
CancelRequest(r) ==
    /\ "cancel" \in Faults
    /\ pc[r] \in InHandler
    /\ \/ GoTo(r, "cancelled")
       \/ pc[r] = "write" /\ GoTo(r, "late_body")
       \/ pc[r] = "write_sidecar" /\ GoTo(r, "late_sidecar")
       \/ pc[r] = "append" /\ GoTo(r, "late_append")
    /\ UNCHANGED <<log, verdict, body, sidecar, job>>

LateRequestStep(r) ==
    /\ \/ pc[r] = "late_body" /\ PutBody(r) /\ UNCHANGED <<log, verdict, sidecar>>
       \/ pc[r] = "late_sidecar" /\ PutSidecar(r) /\ UNCHANGED <<log, verdict, body>>
       \/ pc[r] = "late_append" /\ (Insert(r) \/ Skip(r)) /\ UNCHANGED <<body, sidecar>>
    /\ GoTo(r, "cancelled")
    /\ UNCHANGED job

CancelPrune(j) ==
    /\ "cancel" \in Faults
    /\ j \in Prunes /\ pc[j] = "plan"
    /\ \/ GoTo(j, "cancelled") /\ UNCHANGED job
       \/ /\ j \notin DryRuns /\ job[j].unprobed = {}
          /\ \/ \E f \in Upcoming(job[j].todo) :
                    job' = [job EXCEPT ![j].todo = {f}] /\ GoTo(j, "late_remove")
             \/ job[j].todo = {} /\ GoTo(j, "late_rewrite") /\ UNCHANGED job
    /\ UNCHANGED <<log, verdict, body, sidecar>>

LatePruneStep(j) ==
    /\ \/ /\ pc[j] = "late_remove"
          /\ \E f \in job[j].todo : Delete(f)
          /\ UNCHANGED log
       \/ /\ pc[j] = "late_rewrite"
          /\ log' = Retained(j)
          /\ UNCHANGED <<body, sidecar>>
    /\ GoTo(j, "cancelled")
    /\ UNCHANGED <<verdict, job>>

\* The server stops, drained of its requests or by a crash, and is started
\* again; so it is when its open failed.
Restart ==
    /\ \/ pc[Boot] \in {"done", "failed"} /\ \A t \in Tasks : ~InServer(t)
       \/ "crash" \in Faults
    /\ pc' = [t \in Tasks |-> IF t = Boot THEN "new"
                              ELSE IF InServer(t) THEN "lost" ELSE pc[t]]
    /\ UNCHANGED <<log, verdict, body, sidecar, job>>

KillGc(j) ==
    /\ "crash" \in Faults
    /\ j \in Gcs /\ pc[j] \in InOpen \cup InPrune
    /\ GoTo(j, "lost")
    /\ UNCHANGED <<log, verdict, body, sidecar, job>>

-----------------------------------------------------------------------------
RequestStep(r) ==
    \/ Start(r) \/ WriteBody(r) \/ ProbeSidecar(r) \/ CompareSidecar(r)
    \/ WriteSidecar(r) \/ Append(r)

JobStep(j) ==
    \/ OpenStore(j) \/ ListBodies(j) \/ ListSidecars(j) \/ RemoveOrphan(j) \/ Opened(j)
    \/ ReadAll(j) \/ Probe(j) \/ Remove(j) \/ Rewrite(j) \/ ReportOnly(j)

Next ==
    \/ \E r \in Requests : RequestStep(r) \/ CancelRequest(r) \/ LateRequestStep(r)
    \/ \E j \in Jobs : JobStep(j) \/ CancelPrune(j) \/ LatePruneStep(j) \/ KillGc(j)
    \/ Restart

Spec == Init /\ [][Next]_vars

-----------------------------------------------------------------------------
(* Correctness.                                                            *)

\* Types of the variables.
TypeOK ==
    /\ log \subseteq Requests
    /\ verdict \in [Requests -> {"pending", "appended", "duplicate"}]
    /\ body \in [Digests -> Raws \cup {Absent}]
    /\ sidecar \in [Digests -> Signers \cup {Absent}]
    /\ pc \in [Tasks -> {"new"} \cup InHandler \cup LateRequest \cup RequestDone
                        \cup InOpen \cup InPrune \cup LateJob \cup JobDone]
    /\ job \in [Jobs -> JobRecord]

\* A digest is served: GET finds its body, the lists find its entry.
Served(s) == body[s] # Absent /\ Listed(s)

\* Once an upload was answered with a receipt, its document can be listed and
\* fetched, and if it was signed its signature is beside it, whatever uploads
\* of the same content are cancelled or die on the way and however often the
\* server restarts and sweeps.
AckedRetrievable ==
    \A r \in Requests : pc[r] = "acked" =>
        Served(ShaOf[r]) /\ (r \in Signed => sidecar[ShaOf[r]] # Absent)

\* The index never lists a document that is not there, nor a signed upload
\* without its signature: body, sidecar and entry are stored in that order and
\* swept by the entry alone.
NoDanglingEntry ==
    \A e \in log : body[ShaOf[e]] # Absent /\ (e \in Signed => sidecar[ShaOf[e]] # Absent)

\* When the server starts to serve, every bundle file of a swept kind has an
\* entry: whatever a crash left half stored is gone.
OpenLeavesNoOrphan ==
    [][~Serving /\ Serving' => \A f \in Files : f[2] \in Swept /\ OnDisk(f) => Listed(f[2])]_vars

\* The same of every kind, as the deployment guide has it ("the orphan sweep on
\* startup will reconcile any in-flight write that crashed"): after a start no
\* bundle file is without an entry.
OpenLeavesNoOrphanOfAnyKind ==
    [][~Serving /\ Serving' => \A f \in Files : OnDisk(f) => Listed(f[2])]_vars

\* The prunes and gc runs that remove what they choose.
Pruners == (Prunes \cup Gcs) \ DryRuns

\* A digest that a pruner chose, or that an ao2-cp-gc did not find in the index
\* it read when it opened the store.
Condemned(s) ==
    \/ \E j \in Pruners : s \in job[j].drop
    \/ \E j \in Gcs : pc[j] # "new" /\ s \notin job[j].known

\* An entry loses its body only if its digest was condemned so: no interleaving
\* of uploads, one prune or gc run, cancellations and restarts removes the body
\* of a document the policy retains, though files go before their entries.
SparedHaveBodies ==
    \A e \in log : ~Condemned(ShaOf[e]) => body[ShaOf[e]] # Absent

\* "A conflicting re-sign is rejected rather than allowed to overwrite the first
\* signer's record": the sidecar of a digest always names the signer of every
\* upload that was accepted for it.
SignerRecorded ==
    \A r \in Signed : pc[r] = "acked" => sidecar[ShaOf[r]] = SignerOf[r]

\* "Bundle files are immutable."
BundlesImmutable ==
    [][\A s \in Digests : body[s] # Absent /\ body'[s] # Absent => body'[s] = body[s]]_vars
-----------------------------------------------------------------------------
(* The strengthening that makes the receipts, the entries and the sweep      *)
(* inductive while nothing is pruned: Gcs = {} /\ Prunes \subseteq DryRuns.  *)

\* A handler past the body has stored it, one that is to be listed has stored
\* its sidecar too.
StoredInOrder ==
    \A r \in Requests :
        /\ pc[r] \in {"probe_sidecar", "compare", "write_sidecar", "late_sidecar"} =>
              r \in Signed /\ body[ShaOf[r]] # Absent
        /\ pc[r] \in {"append", "late_append"} =>
              body[ShaOf[r]] # Absent /\ (r \in Signed => sidecar[ShaOf[r]] # Absent)

\* The server opens the store alone.
OpensAlone ==
    /\ pc[Boot] \in {"new", "done", "failed"} \cup InOpen
    /\ ~Serving => \A r \in Requests : pc[r] \notin InHandler \cup LateRequest
    /\ \A j \in Prunes : pc[j] \notin LateJob \cup InOpen

\* What the sweep is about to remove has no entry, and it misses nothing.
SweepsTheOrphans ==
    /\ pc[Boot] \in InOpen => job[Boot].known = ShasIn(log)
    /\ pc[Boot] \in {"sweep_bodies", "sweep_sidecars"} =>
          \A f \in job[Boot].todo : f[2] \notin job[Boot].known
    /\ pc[Boot] = "sweep_bodies" => Orphans(Boot, "body") \subseteq job[Boot].todo
    /\ pc[Boot] = "sweep_sidecars" =>
          /\ Orphans(Boot, "body") = {}
          /\ Orphans(Boot, "sidecar") \subseteq job[Boot].todo
          /\ \A f \in job[Boot].todo : f[1] = "sidecar"

\* Their conjunction, inductive together with the types: a handler stores in
\* order, the server opens alone, and the sweep takes only what has no entry.
StoredInv ==
    /\ TypeOK
    /\ StoredInOrder
    /\ OpensAlone
    /\ SweepsTheOrphans
    /\ AckedRetrievable
    /\ NoDanglingEntry

-----------------------------------------------------------------------------
(* The strengthening for a store that is pruned, by one pruner at most.      *)

\* While the server opens the store none of its handlers and prunes runs; only
\* ao2-cp-gc may.
StoppedWhileOpening ==
    /\ pc[Boot] \in {"new", "done", "failed"} \cup InOpen
    /\ ~Serving => \A t \in Tasks : ~InServer(t)
    /\ \A j \in Prunes : pc[j] \notin {"read"} \cup InOpen

\* A handler past the body has one, unless its digest was condemned since.
PastBodyHasBody ==
    \A r \in Requests :
        pc[r] \in {"probe_sidecar", "compare", "write_sidecar", "late_sidecar",
                  "append", "late_append"} =>
            Condemned(ShaOf[r]) \/ body[ShaOf[r]] # Absent

\* A sweep removes nothing it found in the index, and the server's own misses no
\* entry: while it runs the index can only lose some.
SweepsSpareTheKnown ==
    /\ pc[Boot] \in InOpen => ShasIn(log) \subseteq job[Boot].known
    /\ \A j \in Sweeps : pc[j] \in {"sweep_bodies", "sweep_sidecars"} =>
          \A f \in job[j].todo : f[2] \notin job[j].known

\* A pruner removes what it chose, chooses once, and lists again only what is
\* still listed.
TakesTheDropped(j) ==
    /\ pc[j] \in {"new", "read"} \cup InOpen => job[j].drop = {}
    /\ pc[j] \in {"new", "read"} => job[j].todo = {}
    /\ pc[j] \in {"plan", "late_remove"} =>
          /\ job[j].unprobed \subseteq job[j].drop
          /\ \A f \in job[j].todo : f[2] \in job[j].drop
    /\ pc[j] \in {"plan", "late_rewrite"} => job[j].listed \subseteq log

PrunersTakeTheDropped ==
    /\ \A j \in Pruners : TakesTheDropped(j)
    /\ \A j \in Jobs : pc[j] \in LateJob => j \in Pruners

\* Their conjunction, inductive together with the types when there is at most one
\* pruner: bodies go only from digests that a pruner or a sweep condemned.
SparedInv ==
    /\ TypeOK
    /\ StoppedWhileOpening
    /\ PastBodyHasBody
    /\ SweepsSpareTheKnown
    /\ PrunersTakeTheDropped
    /\ SparedHaveBodies
=============================================================================
