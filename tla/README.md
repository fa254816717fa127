# A TLA+ model of ao2-cp-server

ao2-control-plane is a read-only observer: producers POST signed or unsigned
JSON evidence, the server verifies it, stores it under the SHA-256 of its
canonical JSON, appends one line to `index.jsonl`, and answers with a receipt;
everybody else lists, fetches, and reads dashboards that conclude from the
latest evidence whether a release may go on. The data directory is the whole
state of the system. It has no database and no transaction: bundle files,
signature sidecars, the index, the audit log and the rejected-smoke file are
separate files, written one `await` after another by handlers that run
concurrently, that a timeout or a lost client may drop at any `await`, and
beside a second process (`ao2-cp-gc`) that opens the same directory.

This directory models that core and what the surfaces conclude from it,
model-checks it with TLC on small instances and proves its main invariants with
TLAPS for every instance.

## 1. Inventory

| Part | State | Operations | Interacts with | What is hard | What makes it correct |
|---|---|---|---|---|---|
| Evidence index, `storage/src/index.rs` | `index.jsonl`; per process an `IndexState` (entries, digests, fingerprint) behind a tokio `Mutex` | `append_if_absent`, `read_all`, `read_page`, `metrics`, `rewrite` | every POST handler, every list, prune, sweep | interleaving at awaits, cancellation with a write still in the blocking pool, torn lines, two processes | each call takes effect at one instant; no digest twice; the copy is never stale; an answered append survives a restart |
| Bundle store, `storage/src/bundle.rs` | one file per kind and digest | `write` (temporary file, fsync, rename), `read`, `exists`, `remove_if_exists`, `list` | handlers, prune, sweep | probe-then-write races | a file is complete or absent; an existing body keeps its text |
| Ingest handlers, `server/src/handlers/*.rs` (20 `POST`s) | none of their own | verify, body if absent, sidecar write-once, index entry, receipt | bundle store, index, pinned keys | dropped between any two files; two signers of one document | what got a receipt stays retrievable with its signature; only pinned keys give authority |
| `Storage::open` and `sweep_orphans`, `storage/src/lib.rs` | none | read the index, list 22 kinds, remove files without an entry | run by the starting server and by `ao2-cp-gc` | runs while another process stores | removes what a crash left, nothing else |
| Retention: `prune_retention`, `POST /storage/prune`, `ao2-cp-gc` | none | plan candidates, remove files, rewrite the index | index, bundle store | works from entries read earlier; removals before the rewrite; cancellation | only what the policy chose is lost; no verdict looks at it |
| Storage report and its Phase-1 readiness | a 2 s cache of the dashboard | reports over index, sidecars and ages | index, bundle store | judges by index entries what others judge by bodies | agrees with the other surfaces |
| Phase-1 promotion, `phase1_promotion.rs` | none | ingest checklist, inputs verification, signed decision, three-OS smoke; dashboard, gap report, operator panel | bundle store, index | verdicts recomputed in several places; a queue of gaps that name each other | never ready on an unpinned key; always a next step |
| Rejected-smoke audit file | `rejected-three-os-smoke.jsonl`, a process-wide lock | append, rotate at 1 MiB | smoke handler, dashboards | rotation rewrites in place under lock-free readers | bounded; the newest records are kept; every refusal is answered |
| Release publication, evaluator decision, support bundle | none | ingest; cockpit, handoff, readiness, assembly, bundle, verification | bundle store, index | 27 readings without a lock; hand-kept lists of conditions | a bundle torn between candidates does not pass its offline verification; attention is explained; tampering is noticed |
| Audit log, `audit_log.rs` | ring buffer, NDJSON file with one rotated generation, broadcast channel | append, rotate, snapshot, subscribe | metrics middleware, SSE stream | two locks and a channel taken one after another; failed rotation | sinks and counters add up; losses are counted; a resume leaves no gap |
| Server, `server.rs`, `metrics.rs` | counters, 512 in-flight slots | route, time out, count | all handlers | waiting under a timeout | slots are returned; the gauge falls back; everybody is answered |
| Authentication, configuration, signing, schemas | the pinned keys | pure functions | all handlers | keys change at a restart | - |
| Readers: GET, HEAD, ETag, embedded documents | none | reads and formatting | bundle store, index | a prune between the index and the body | - |
| Scripts, packaging, deployment, CI | none | tooling | - | - | - |

`PROJECT.json` lists the same parts with their status, and the hazards with the
lines where they bite.

## 2. Plan

1. `AtomicIndex` (abstract) and `IndexStore`, which implements it. **Done.**
2. `EvidenceStore`: handlers, sweep, prune and gc over the atomic index. **Done.**
3. `AuditLog`: admission, ring, file with rotation, broadcast and SSE resume. **Done.**
4. `SmokeAudit`: the rejected-smoke file. **Done.**
5. `Intake`, `Promotion`, `StorageReport`, composed by `ControlPlane`: what gets
   in, what the Phase 1 surfaces conclude from it, what retention gives up. **Done.**
6. `Release` and `SupportBundle`: the release surfaces, the readings of a bundle
   and its verification. **Done.**
7. Proofs of each (section 6). **Done for the theorems listed there.**
8. Left: `SharedTemporary` (two processes writing one `index.jsonl.tmp`);
   overlapping prunes with the history of what each removed; the dashboard's
   cache; what of `CalmInv` survives cancellation and short writes.

## 3. Modules

| Module | Models | Role |
|---|---|---|
| `AtomicIndex` | what `index.rs` promises | abstract: `Insert`, `Skip`, `Replace` |
| `IndexStore` | `index.rs` and its use by `prune_retention` | one action per stretch between two awaits |
| `EvidenceStore` | handlers, `bundle.rs`, `Storage::open`, `prune_retention`, `gc.rs` | extends `AtomicIndex`: an index call is one step, which `IndexStore` justifies |
| `AuditLog` | `audit_log.rs`, its SSE handler, the middleware and admission of `server.rs` | one action per step that another thread can see |
| `SmokeAudit` | `append_rejected_smoke_audit` | one action per await |
| `Subsequences` | filtered lists, `iter().filter(..).collect()` | by the positions kept, without recursion; used by `AuditLog` and `StorageReport` |
| `Promotion` | validators and verdicts of `phase1_promotion.rs` | pure operators |
| `Intake` | the check, the status and the sidecar of each of the 20 POST handlers | pure operators; extends `Promotion` |
| `StorageReport` | retention policy and Phase 1 readiness of `storage/src/lib.rs` | pure operators |
| `ControlPlane` | uploads, prune and restart with other keys, and what the surfaces read | composes `Intake` and `StorageReport` |
| `Release` | verdicts of `release_publication*` | pure operators; extends `Promotion` |
| `SupportBundle` | one `GET support-bundle.json`, the server's verification of it (`verify.json`) and `scripts/verify_release_support_bundle.py` | composes `Release` with an index that changes |
| `MC...` | instances | constants of the `.cfg` files |
| `..._proofs` | - | theorems |

`EvidenceStore` stands on `IndexStore` through `AtomicIndex`; `ControlPlane`
stands on `EvidenceStore` in the sense that an upload is one step in it, which
is what an answered upload amounts to while nothing is pruned
(`ReceiptsAreKept`, `IndexNeverDangles`). `SupportBundle` sees the index as one
"latest" per kind, moved forward by uploads and back by a prune that rewrites
the index from an older reading.

### IndexStore and index.rs

A task is one call. `pc` says at which await it is; `holder[p]` is the owner of
process `p`'s Mutex; `mem[p]` is `IndexState` (its `digest_index` is derived);
`seen[p]` is the fingerprint `load_from_disk` takes before it opens the file.
`file` is `index.jsonl` as its set of well-formed lines plus the tail no newline
ended yet. A line is well formed when it holds the bytes of exactly one entry;
what is glued or torn is skipped by every reader and so is not represented once
it is ended. Order of lines is not represented: no operation modelled here
depends on it. The fingerprint is the content itself, that is, length and mtime
are taken to tell contents apart.

| Code | Actions |
|---|---|
| `state.lock().await` | `Call`, `Lock` |
| `ensure_loaded`, `load_from_disk` | `UseCache`, or `TakeFingerprint` then `Load` |
| `append_if_absent`, `append_inner` | `Proceed` inside `UseCache`/`Load`, `Open`, `WriteLine`, `WriteNewline`, `Remember` |
| `read_all` + policy of `prune_retention` | `Proceed`, `Plan` |
| `rewrite` | `Lock`, `Rename`, `Adopt` |
| future dropped by client or timeout | `Cancel`; the write or rename that tokio's blocking pool already has: `OrphanLands` |
| I/O error, ENOSPC | `WriteFails` |
| stop, crash, start | `Restart` |

`detached` holds the tasks whose open handle is on an `index.jsonl` that a
rename of the other process replaced: their bytes reach no reader. The
temporary file of `rewrite` is written inside the step that renames it.

### EvidenceStore and the handlers

A request is one POST: its document's digest `ShaOf`, the text `RawOf` it would
store and its `SignerOf` (the bytes of its sidecar, `Absent` for an unsigned
upload). All 20 ingest handlers have the same shape, `Start` (verify, probe the
body), `WriteBody`, for a signed upload `ProbeSidecar`, then `CompareSidecar` or
`WriteSidecar`, and `Append`; one of them, the signed provider readiness, skips
the probe of the body and is in `Overwriting`. A bundle file appears by its
rename, so `bundles.write` is one step; the temporary file it may leave is
invisible to `list` and is not modelled.

`Boot` is the server's `Storage::open`: `OpenStore` (read_all), `ListBodies`,
`RemoveOrphan`, `ListSidecars`, `RemoveOrphan`, `Opened`. The listener is bound
afterwards, so requests start only when `Serving`. `ao2-cp-gc` does the same on
its own and goes on to `prune_retention`: `ReadAll`, `Probe` (does the
candidate's sidecar exist now?), `Remove` one file at a time, `Rewrite`. The
prune endpoint enters at `ReadAll`. The code's sweep goes kind by kind through a
table; a digest has one body kind and one sidecar kind here, all body kinds are
listed before all sidecar kinds, which is the order of the table within each
kind. Which listed digests a prune drops is any subset of the prunable ones.

`CancelRequest` and `CancelPrune` drop a future at an await; the file operation
it waited for may still happen later (`late_*`). `Restart` ends the server,
drained or by a crash; `KillGc` ends `ao2-cp-gc`.

### AuditLog and the middleware

A request is its own entry. `Enter` is `track_in_flight`; `Acquire` the permit of
the concurrency limit; `Answer`, `TimeOut` and `Disconnect` the ways out;
`Record`, `Push`, `Persist`, `Rotate`, `Count` and `Broadcast` the synchronous
part that follows an answer, one step for each place where another thread may
come between. `persist` holds its lock from `Flush` through `DropOld`,
`RenameLive` and `OpenFresh`, each of which may fail and then returns without
the writer, as the code does. A line is one unit of size; what a failed flush
leaves in the `BufWriter` goes out with the next one. The clock never goes back
and may stand still, so two entries may share a stamp. `Restart` is a drained
stop, whose `BufWriter` may or may not still flush, or a crash.

The stream is `Subscribe`, `TakeSnapshot`, `Replay` of the ring's newer entries,
then `Receive`, with `Lag` when the channel has overtaken it; the client
reconnects with the id of its last event. The stream request's own entry and
poisoned locks are not modelled.

### SmokeAudit and the rejected-smoke file

`Lock`, `Stat`, then `AppendLine`, or `ReadAll`, `Truncate` and `Fill`. A
cancelled handler releases the lock, and the write it had handed to the blocking
pool still happens (`late_*`). `Crash` may tear the line being appended. `calm`
remembers whether a write was cut short or outlived its request. I/O errors are
left out: the code ignores them and retries nothing.

### Intake, Promotion, StorageReport and ControlPlane

A document is a record of the fields some verdict looks at; `complete` stands for
the required fields of its schema, the booleans of a signature for what its
verification finds. `Post` and `PostSigned` are the router: they give the status
of the index entry and the sidecar, or refuse. A signed upload is listed as
`signed`, except an operator packet, listed with its document's own status, and
an evidence pack, listed with its verdict: both are free text, so that the
status of an entry does not tell whether it has a sidecar (`SignedAs`,
`OfSignedUpload`). `View` is what the Phase 1
handlers read, the latest of each kind; `Verdict` is the gap list of the storage
report. `PruneRead`, `PruneRemove` and `PruneRewrite` are `prune_retention` with
its real policy, one removal at a time between uploads; `PruneStops` is its
cancellation; `Restart` changes the pinned keys. One prune is under way at a
time, and freshness is not let pass (`StorageGaps` takes the stale documents as
an argument, `Verdict` gives none).

### Release and SupportBundle

`Release` translates each verdict from single surfaces to the assembly.
`SupportBundle` has one action per reading of the index (27 of them, in the
code's order: a whole cockpit and the publication for the readiness, a cockpit
for the handoff, a cockpit, the evaluator decision, the storage report), between
which evidence is uploaded or lost. An upload may be of several kinds at once
(`Bursts`): uploads between two readings are seen together. `lost` remembers
that an entry was lost. `Bundle` is the response; a digest stands for the content
it is taken of, and `Detail` is what else of a surface a verification looks at.

Two programs verify a bundle. `VerificationPassed` is the server's check of the
bundle it has computed (`verify.json`): ids, paths, schemas, digests, counts and
the hosted smoke. The script makes the same checks of a bundle somebody received
and then holds cockpit, handoff, readiness and assembly against each other
(`SurfacesAgree`): their correlation objects, byte for byte, and the two parity
verdicts; `OfflineVerified` is both.

The readiness takes its install verification from a reading of the publication
of its own, section `install`, after the cockpit it is computed of. No surface
shows which publication that was and neither verification compares it. The gate
of the readiness and the hosted smoke judge it by two lists of conditions, which
differ in two places. The gate compares text with text: where the install
verification is not verified, it sees the document's own status, and one that is
worded like the verdict (`VerifiedWord`) opens it without being verified. And it
takes a path for given unless it says "missing", while the verification refuses
an empty one (`EmptyPath`). `ReadyBundleVerifies` says that these are the only
ways in which a ready bundle fails the server's verification, and that it does
fail by them; the run has a publication of each.

## 4. Runs

| Run | Instance | Faults | Shows |
|---|---|---|---|
| `index_calls` | r1, r2 of one digest, r3 of another, two prunes, one process | none (clean restarts) | `CalmInv` (the inductive invariant), `UniqueDigests`, `CacheCoherent`, and the refinement `ImplementsAtomicIndex` |
| `index_faults` | r1, r3, one prune | cancel, crash, short write | `TypeOK`, `LockDiscipline`, liveness `EveryCallSettles` |
| `index_gc` | three appends in the server, a prune in gc | none | violation of `AckedReadable` |
| `store_uploads` | u unsigned, v and w signed by two signers, one document; a dry-run prune | cancel, crash | `AckedRetrievable`, `NoDanglingEntry`, `OpenLeavesNoOrphan`, the inductive `StoredInv`, `TypeOK` |
| `store_prune` | u, v of one document, x of another; a destructive prune | cancel, crash | `SparedHaveBodies`, the inductive `SparedInv` |
| `store_gc` | the same with `ao2-cp-gc --apply` | crash | `SparedHaveBodies`, the inductive `SparedInv` |
| `store_signers` | v, w | none | violation of `SignerRecorded` |
| `audit_log` | two requests, one slot, one stream; ring, file and channel of one entry | disconnect, crash, failed flush, rename, open | `CountersAgree`, `FilesHoldTheLatest`, `ByteCountFollowsFile`, `LossIsCounted`, `ResumeLeavesNoGap`, `TypeOK`, liveness `EveryRequestLeaves` |
| `smoke` | four refusals, one with a line twice as long; cap 3, target 2 | cancel, one crash | `NewestAreKept`, `CapObserved`, `TornTailCostsOne`, `TypeOK` with the lock's exclusion, liveness `EveryRejectionSettles` |
| `surfaces` | 13 documents, three stages of a promotion to start from, three signatures, keys pinned or not; three uploads and a prune | restart, cancelled prune | `AlwaysSomethingToDo`, `SmokeVerdictsAgree`, `LatestAnswers`, `NoSelfPromotion`, `PruneKeepsVerdicts`, `TypeOK` |
| `release` | evidence of two candidates, five publications (an unverified one worded as verified, one with an empty path), four initial stores, two changes during the readings | - | `AttentionIsExplained`, `OneCandidateVerified`, `ReadyBundleVerifies`, `AlterationsNoticed`, `TypeOK` |
| `release_assembly` | the same, one change | - | violation of `AssembledSameCandidate` |

Bounds. In `IndexStore`, `EvidenceStore`, `AuditLog` and `SmokeAudit` every call
happens once, so no counter needs a cap; restarts are not bounded, crashes of
`SmokeAudit` are (`MaxCrashes`). Two appends of one digest are what a duplicate
needs, the third append shows a resident copy that misses an unrelated entry,
two prunes let a rewrite be read back by another. In the store, two uploads of
one document and one of another let the sweep and the prune meet a digest that
is absent, half stored and listed, and let a prune keep one digest and drop the
other. In the audit log a capacity of one in every sink makes each append evict,
rotate and lag; one slot for two requests makes one wait. In the rejected-smoke
file three short lines fill the cap and the long one forces a rotation that
drops more than one. In `ControlPlane`, `MaxUploads` counts uploads that change
the store: three, from an empty store, from one whose readiness fails, and from
one that lacks only a good smoke and the decision, reach each state of the
promotion from the one before and put newer evidence under a prune; `KeepLatest`
is 1, since the policy treats the entries of a kind alike. In `SupportBundle` a
change is one upload, the loss of one entry, or a burst of the five uploads
(publication, smoke, evaluator, two acceptances) that make a complete change of
candidate. One change is enough for evidence that is mixed within a reading or
for a bundle torn between two candidates; the second puts another upload, a loss
or a change back anywhere between the other readings, which is what it takes for
the install reading to see what neither of its neighbours does. TLC finds
`OneCandidateVerified` false when `~lost`, `VersionsGoOn` or the cockpit's part in
the comparison is left out, so the instance reaches what they are for.

Deadlock checking is off in every run: when every call is answered, or the
bundle is served, the system rests.

Fairness. `IndexStore`: weak fairness of each task's own steps, since tokio polls
a woken task again, and strong fairness of `Lock`, since tokio's Mutex queues its
waiters in order. `SmokeAudit`: the same, of a waiter's `Lock` and of the steps of
whoever holds it or is in the blocking pool. `AuditLog`: weak fairness of the
timeout, whose timer fires, and of the synchronous steps after an answer, which a
thread runs without waiting for anything but the persistence lock; no fairness
of handlers or permits, so the property holds for handlers that hang. Nowhere is
fairness assumed of faults, restarts or callers.

## 5. Findings

Each is a run that TLC finds violated and an entry of `PROJECT.json` with the
quoted line.

- `ao2-cp-gc --apply` beside the running server discards appends the server
  answered between its read and its rename (`index_gc`).
- Two signed uploads of one document race past the write-once guard
  (`store_signers`).
- A support bundle may be "assembled" with a readiness section about one release
  version and a handoff about the next (`release_assembly`). The offline script
  refuses such a bundle, as if it had been tampered with: its comment (lines
  733-738) takes the surfaces' correlation objects to be equal by construction,
  but they are computed from separate readings. The server's `verify.json` does
  not compare them.

Other disagreements that the models reach, listed under `hazards` where no run
is spent on them: a crash inside an append leaves half a line that swallows the
next one; a dropped append keeps its write but not its lock, and a digest can be
listed twice; `ao2-cp-gc --dry-run` sweeps the body of an upload in progress; the
signed provider-readiness handler overwrites an existing body; three kinds are
missing from the sweep's table; a cancelled rotation of the rejected-smoke file
loses records of later refusals, and the cap with them; overlapping prunes list
again what the other removed; the critical path is not sorted by dependencies
where two actions wait; a bundle whose readiness is ready fails the server's own
verification for an install verification that is worded like the gate's verdict
or has an empty path (`ReadyBundleVerifies` names both).

## 6. Proofs

| Theorem | States | Assumes |
|---|---|---|
| `IndexStore_proofs!TypeCorrect` | `[]TypeOK` | - |
| `IndexStore_proofs!MutexHeld` | `[]LockDiscipline` | - |
| `IndexStore_proofs!CalmHolds` | `[]CalmInv` | `Quiet`: one process, `Faults = {}` |
| `IndexStore_proofs!NoDigestTwice` | `[]UniqueDigests` | `Quiet` |
| `IndexStore_proofs!CacheNeverStale` | `[]CacheCoherent` | `Quiet` |
| `IndexStore_proofs!IndexRefinement` | `ImplementsAtomicIndex` | `Quiet` |
| `EvidenceStore_proofs!TypeCorrect` | `[]TypeOK` | - |
| `EvidenceStore_proofs!StoredHolds` | `[]StoredInv` | `NothingPrunes`: no gc, prunes are dry runs |
| `EvidenceStore_proofs!ReceiptsAreKept` | `[]AckedRetrievable` | `NothingPrunes` |
| `EvidenceStore_proofs!IndexNeverDangles` | `[]NoDanglingEntry` | `NothingPrunes` |
| `EvidenceStore_proofs!SweepIsComplete` | `OpenLeavesNoOrphan` | `NothingPrunes` |
| `EvidenceStore_proofs!SparedInvHolds` | `[]SparedInv` | `OnePruner`: at most one destructive prune or gc run in the whole behaviour |
| `EvidenceStore_proofs!RetainedKeepBodies` | `[]SparedHaveBodies` | `OnePruner` |
| `AuditLog_proofs!TypeCorrect` | `[]TypeOK` | - |
| `AuditLog_proofs!ResumedSeeAll` | `[]ResumeLeavesNoGap` | - |
| `AuditLog_proofs!EveryRequestCounted` | `[]CountersAgree` | - |
| `AuditLog_proofs!BytesAreTheFiles` | `[]ByteCountFollowsFile` | - |
| `AuditLog_proofs!LossesAreCounted` | `[]LossIsCounted` | - |
| `AuditLog_proofs!LatestAreKept` | `[]FilesHoldTheLatest` | - |
| `Subsequences_proofs!Filtered` | what a filtered list holds, and in which order | - |
| `SmokeAudit_proofs!TypeCorrect` | `[]TypeOK` | - |
| `SmokeAudit_proofs!CapIsObserved` | `[]CapObserved` | - |
| `SmokeAudit_proofs!NewestStay` | `[]NewestAreKept` | - |
| `SmokeAudit_proofs!OneWriter` | `[]WritersExclude` | - |
| `SmokeAudit_proofs!TornTailsAreCounted` | `[]TornTailCostsOne` | - |
| `ControlPlane_proofs!AuthorityPinned` | `[]AuthorityIsPinned` | - |
| `ControlPlane_proofs!TypeCorrect` | `[]TypeOK` | - |
| `ControlPlane_proofs!SomethingToDo` | `[]AlwaysSomethingToDo` | - |
| `ControlPlane_proofs!SmokeVerdicts` | `[]SmokeVerdictsAgree` | - |
| `ControlPlane_proofs!LatestEvidenceAnswers` | `[]LatestAnswers` | - |
| `ControlPlane_proofs!SelfSignedIsNotReady` | `[]NoSelfPromotion` | - |
| `ControlPlane_proofs!PrunesChangeNoVerdict` | `PruneKeepsVerdicts` | - |
| `SupportBundle_proofs!TypeCorrect` | `[]TypeOK` | - |
| `SupportBundle_proofs!AttentionExplained` | `[]AttentionIsExplained` | - |
| `SupportBundle_proofs!ReadingsInOrder` | readiness, install gate and handoff saw the publications in order, while none is lost | - |
| `SupportBundle_proofs!OneCandidate` | `[]OneCandidateVerified` | - |
| `SupportBundle_proofs!ReadyBundlesVerify` | `[]ReadyBundleVerifies` | - |
| `SupportBundle_proofs!EveryAlterationIsNoticed` | `[]AlterationsNoticed` | - |

All also rest on the modules' named assumptions on constants, which TLC evaluates
in the runs. `Quiet` and `NothingPrunes` are necessary: section 5 has the
counterexamples without them. So is `OnePruner`: with a prune
and an `ao2-cp-gc` TLC finds a prune that drops an entry appended after its
reading, a restart whose sweep then takes the body for an orphan, and the gc,
which did read the entry, listing it again. `OnePruner` is about the
constants, so it speaks of a whole behaviour and not of one moment. It says
nothing of dry runs, of the server's sweep, of requests or of faults. `NothingPrunes` leaves every
other fault in: any requests may be cancelled or die anywhere, and the server may
restart any number of times.

Arguments. `LockDiscipline` is inductive with the types. `UniqueDigests` is not:
the invariant adds that the line under way is the whole tail of the file
(`OnlyTheWriterHasATail`), that a task about to write knows exactly what the
file holds and that its digest is not there (`WritersKnowTheFile`), that a copy
whose fingerprint matches is the file (`CopiesFollow`) and that snapshots are as
duplicate-free as the file they were read from (`OnlyAppendedListed`); together
they are `CalmInv`. With it every step maps to a step of `AtomicIndex` or
stutters: an append takes effect when its line lands, a duplicate when its
digest is found, a prune when its rename happens.

`AckedRetrievable` needs the order of the files: a handler that is past the body
has it on disk, one about to list has its sidecar too (`StoredInOrder`). That
must survive a sweep: the server opens the store alone (`OpensAlone`), what it
is about to remove has no entry (`SweepsTheOrphans`), and no request is in
progress then. A late file operation of a cancelled request only adds what such
a sweep may take. The conjunction is `StoredInv`.

`SparedHaveBodies` is about a store that does lose files. Bodies go only from
condemned digests, those a pruner chose to drop or a running `ao2-cp-gc` did not
find in the index; the invariant (`SparedInv`) says that this is all that goes.
The server opens the store with no handler beside it (`StoppedWhileOpening`), a
sweep removes nothing it knows of and the server's own knows every entry, since
the index can only shrink meanwhile (`SweepsSpareTheKnown`); a pruner chooses
once, removes what it chose and lists again only what is listed
(`PrunersTakeTheDropped`, where a second pruner would break in); and a handler
past the body has one unless its digest was condemned since
(`PastBodyHasBody`), so that what it lists has a body or was condemned.

`CountersAgree` is inductive once every count is one of requests by place: the
invariant (`CountInv`) says which permits are held (`Permits`) and how gauge,
counters, ring and channel differ by the requests between two sinks (`Numbers`);
each step moves one request from one place to another, and one lemma counts that
move. `ByteCountFollowsFile` adds the requests inside a rotation (`FileInv`):
without a writer nothing is promised, and between the flush and the rename the
count may be at its cap. `LossIsCounted` is inductive for the entries past
`Persist`, those not sent yet included (`LossInv`), with one failure in reserve
while the writer is missing. `FilesHoldTheLatest` needs the lines that are gone
(`Ends`): nothing is gone unless a full generation is left, which rests on the
byte count never running ahead of the file, so that a rotation begins with a
full live file (`HistoryInv`). `ResumeLeavesNoGap` is inductive with the types,
and speaks of four places: each entry of the ring that is newer than the client's
last one has been sent, is queued for replay, is in the channel at or after the
place where the stream reads, or belongs to a request that has not broadcast yet.
The step that matters is the snapshot, whose filter keeps exactly the newer
entries; `Filtered` proves that of any filter, by the ranks of the kept
positions.

`NewestAreKept` and `CapObserved`, both stated while `calm`, need what a rotation
is about to write (`FileInv`): as long as no write was cut short or outlived its request, who is
about to append has found the room, what a rotation will write is an end of all
records with its own, and the file is one too, except while it is being refilled.
Who holds the lock does so alone (`LockInv`). The length of a file is a sum over
its lines, stated as a function of running totals; that they exist, and that
the length of a concatenation is the sum of lengths, is proved from a least
number where they would fail, since the induction theorems of the library
cannot be used. `TornTailCostsOne` needs the debt explicit: a torn tail
in the file is a crash that no merged record has been charged to yet.
`AuthorityIsPinned` rests on the keys of the present configuration being among
those ever pinned.

What the surfaces read of a store under a prune rests on `Evidence`: every list
of the index holds documents of its kind, each once, in the order they came;
the latest entry of each has its body, and its sidecar if its upload was signed;
and a prune under way has planned from an index of which the present one is an
extension. `KeepLatest` is at least one, so the plan names no document that was
latest when it was made, and a later upload only puts newer entries after it:
no removal touches a latest entry, and the rewrite, which may take the index back
to the one the plan was made from, leaves one whose latest entries still answer
(`LatestAnswers`). When nothing was listed meanwhile, neither a removal nor the
rewrite changes what a verdict reads (`PruneKeepsVerdicts`). `NoSelfPromotion` adds
that authority comes from pinned keys, `SmokeVerdictsAgree` that every stored smoke
passed the validator its readers rely on. `AlwaysSomethingToDo` is a fact about
the operators: the gaps that can be open at once form few lists, whose
dependencies are counted, and the sort that puts ready ones first then begins
with one.

`AttentionIsExplained` is a fact about the operators in every state: each
condition of the handoff is a gate (`HandoffGates`). `OneCandidateVerified` has two
parts. An assembled bundle's handoff is `matched`, so its view is of one version;
the script finds the correlation objects of readiness and cockpit equal to the
handoff's, and those objects name every version in a view, so all three views are
of that version (`AgreeingSections`). The install reading is in none of these
objects. For it an invariant of the readings is needed (`ReadInOrder`): while no
entry is lost, the publications seen by the readiness, the install gate and the
handoff were listed in that order, and when no version comes again, what lies
between two of one version is of that version. `ReadyBundleVerifies` traces the
server's two checks of the hosted smoke to the install gate: what opens the gate
is verified with a given path, or worded like the verdict, and the two exemptions
are where that falls short (`VerifiedSmokePassed`); every other check holds of any
bundle the server puts together (`BundleRows`). `AlterationsNoticed` follows the
altered field to the digest or the manifest row that no longer agrees with it.

Only model-checked: what must eventually happen (`EveryCallSettles`,
`EveryRequestLeaves`, `EveryRejectionSettles`), since liveness under fairness
is beyond the prover, and what the violation runs show, which are
counterexamples. Every invariant of every passing run, the refinement and the
two action properties (`OpenLeavesNoOrphan`, `PruneKeepsVerdicts`) are theorems.

## 7. Not modelled

- `EvidenceStore` takes the index as atomic. That is what `IndexRefinement`
  proves for one process without faults; torn lines, dropped appends and two
  processes at the level of lines are `IndexStore`'s subject and are not
  repeated in `EvidenceStore`.
- Power loss (directory entries are not fsynced), full disks in the bundle
  store, temporary files left behind, the fixed name `index.jsonl.tmp` shared by
  two processes, write errors of the rejected-smoke file.
- Two contents of `index.jsonl` of equal length and mtime; equal ingestion times
  within a kind.
- Of the verifications of a bundle: the agreement of the surfaces on
  `rejected_smoke_audit`, the constants of the CI evidence index, secret markers,
  checksums files and `--compare-against`, the endpoint a manifest row names. An
  alteration that changes a surface together with its digest and its row is
  outside `AlterationsNoticed`: the digests travel with the bundle, and nothing in
  it tells such a change from another bundle.
- Crashes in `index_gc`, an `ao2-cp-gc` beside uploads in `store_uploads`, and
  digests listed twice after a dropped append: the models reach what goes wrong
  there (`hazards` in `PROJECT.json` says what they find), no run is spent on it.
- Digest collisions, signature cryptography, JSON texts, sizes in bytes.
- Two prunes at once in `ControlPlane`, ageing of evidence (the stale
  documents are an argument of `StorageGaps` that no run varies), the
  storage dashboard's cache, `ao2-cp-gc`'s `keep_latest` of 0.
- Readers: GET and HEAD of a body, ETags, list filters and pages, the embedded
  evidence documents, HTML. They keep no state; what they may meet during a prune
  is `LatestAnswers`. The token check and the route table are stateless too.
- Scripts, packaging, deployment and CI are drivers around the server.
