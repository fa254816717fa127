----------------------------- MODULE IndexStore -----------------------------
(***************************************************************************)
(* crates/ao2-cp-storage/src/index.rs: the append-only index.jsonl and the *)
(* copy of it each process keeps in memory behind a tokio Mutex.           *)
(*                                                                         *)
(* A task is one call: an append_if_absent of a POST handler, or the       *)
(* read_all and the rewrite of prune_retention.  A step runs from one      *)
(* await to the next.  A task whose future is dropped (client gone, 30 s   *)
(* timeout) stops at an await, but a file operation it had already handed  *)
(* to the blocking pool still happens, at any later time.                  *)
(***************************************************************************)
CONSTANTS
    Requests,       \* append_if_absent calls, each carrying one IndexEntry
    Prunes,         \* prune_retention calls
    Procs,          \* processes that opened the data dir (server, ao2-cp-gc)
    Home,           \* [Requests \cup Prunes -> Procs]
    Digests,        \* canonical sha256 values
    ShaOf,          \* [Requests -> Digests]
    Faults,         \* the faults that may happen, a subset of FaultKinds
    Torn,           \* the bytes of a write that stopped short
    Nobody          \* the holder of a free lock

Tasks == Requests \cup Prunes

FaultKinds == {"cancel", "crash", "short_write"}

ASSUME IndexConstants ==
    /\ Home \in [Tasks -> Procs]
    /\ ShaOf \in [Requests -> Digests]
    /\ Faults \subseteq FaultKinds
    /\ Requests \cap Prunes = {}
    /\ Torn \notin Requests
    /\ Nobody \notin Tasks

VARIABLES
    file,           \* index.jsonl: its complete lines and its unended tail
    detached,       \* tasks whose open handle is on a replaced index.jsonl
    mem,            \* IndexState of each process
    seen,           \* the fingerprint load_from_disk took before reading
    holder,         \* the task that holds each process's Mutex
    pc,             \* where each task is
    snap,           \* the entries a prune got from read_all, then retains
    pruned          \* history: entries some prune decided to drop

vars == <<file, detached, mem, seen, holder, pc, snap, pruned>>

-----------------------------------------------------------------------------
(* The file.  A line is an entry when it holds exactly one entry's bytes;  *)
(* lines glued from several writes, or torn, are skipped by every reader.  *)

File == [lines : SUBSET Requests, tail : SUBSET (Requests \cup {Torn})]

NoFile == [lines |-> {}, tail |-> {}]

\* load_from_disk: the entries on well-formed lines, ended or not.
Readable(f) == f.lines \cup { r \in Requests : f.tail = {r} }

\* One O_APPEND write of an entry's JSON, or of part of it.
WithChunk(f, chunk) == [f EXCEPT !.tail = @ \cup {chunk}]

\* Mutant: the newline starts a fresh line instead of ending the written one.
NewlineLosesLine(f) == [lines |-> f.lines, tail |-> {}]

\* The separate write of the newline.
WithNewline(f) == [lines |-> Readable(f), tail |-> {}]

ShasOf(entries) == { ShaOf[e] : e \in entries }

\* IndexState::default()
Unloaded == [loaded |-> FALSE, entries |-> {}, fp |-> NoFile]

-----------------------------------------------------------------------------
(* Where a task can be.                                                    *)

AppendSteps  == {"opening", "line", "newline", "written"}
RewriteSteps == {"rename", "renamed"}
Holding      == {"locked", "reading"} \cup AppendSteps \cup RewriteSteps
Waiting      == {"waiting", "retaining"}
Orphaned     == {"orphan_line", "orphan_newline", "orphan_rename"}
Settled      == {"appended", "duplicate", "rewritten", "failed",
                 "cancelled", "lost"} \cup Orphaned

AppendStates == {"new", "waiting", "locked", "reading", "appended", "duplicate",
                 "failed", "cancelled", "lost", "orphan_line", "orphan_newline"}
                \cup AppendSteps
PruneStates  == {"new", "waiting", "locked", "reading", "listed", "retaining",
                 "rewritten", "cancelled", "lost", "orphan_rename"}
                \cup RewriteSteps

\* The task still owes its caller an answer.
Active(t) == pc[t] \in Holding \cup Waiting \cup {"listed"}

\* The task has index.jsonl open for appending.
HasOpenHandle(t) == pc[t] \in {"line", "newline", "orphan_line", "orphan_newline"}

GoTo(t, where) == pc' = [pc EXCEPT ![t] = where]

Release(t) == holder' = [holder EXCEPT ![Home[t]] = Nobody]

Init ==
    /\ file = NoFile
    /\ detached = {}
    /\ mem = [p \in Procs |-> Unloaded]
    /\ seen = [p \in Procs |-> NoFile]
    /\ holder = [p \in Procs |-> Nobody]
    /\ pc = [t \in Tasks |-> "new"]
    /\ snap = [t \in Prunes |-> {}]
    /\ pruned = {}

-----------------------------------------------------------------------------
(* The lock and ensure_loaded, shared by every operation.                  *)

Call(t) ==
    /\ pc[t] = "new"
    /\ GoTo(t, "waiting")
    /\ UNCHANGED <<file, detached, mem, seen, holder, snap, pruned>>

\* Mutant: no operation loads the index, each goes on as rewrite does.
LockWithoutLoading(t) ==
    /\ pc[t] \in Waiting
    /\ holder[Home[t]] = Nobody
    /\ holder' = [holder EXCEPT ![Home[t]] = t]
    /\ GoTo(t, "rename")
    /\ UNCHANGED <<file, detached, mem, seen, snap, pruned>>

\* state.lock().await: rewrite goes straight to its temporary file, the other
\* operations start with ensure_loaded.
Lock(t) ==
    /\ pc[t] \in Waiting
    /\ holder[Home[t]] = Nobody
    /\ holder' = [holder EXCEPT ![Home[t]] = t]
    /\ GoTo(t, IF pc[t] = "retaining" THEN "rename" ELSE "locked")
    /\ UNCHANGED <<file, detached, mem, seen, snap, pruned>>

\* What a call does as soon as ensure_loaded has returned, `entries` being the
\* resident entries: no await separates the two.
Proceed(t, entries) ==
    IF t \in Requests
    THEN /\ IF ShaOf[t] \in ShasOf(entries)
            THEN GoTo(t, "duplicate") /\ Release(t)
            ELSE GoTo(t, "opening") /\ UNCHANGED holder
         /\ UNCHANGED snap
    ELSE /\ snap' = [snap EXCEPT ![t] = entries]
         /\ GoTo(t, "listed")
         /\ Release(t)

CacheHit(p) == mem[p].loaded /\ mem[p].fp = file

UseCache(t) ==
    /\ pc[t] = "locked"
    /\ CacheHit(Home[t])
    /\ Proceed(t, mem[Home[t]].entries)
    /\ UNCHANGED <<file, detached, mem, seen, pruned>>

\* The fingerprint differs: load_from_disk takes it again, then opens and reads.
TakeFingerprint(t) ==
    /\ pc[t] = "locked"
    /\ ~CacheHit(Home[t])
    /\ seen' = [seen EXCEPT ![Home[t]] = file]
    /\ GoTo(t, "reading")
    /\ UNCHANGED <<file, detached, mem, holder, snap, pruned>>

Load(t) ==
    /\ pc[t] = "reading"
    /\ mem' = [mem EXCEPT ![Home[t]] =
                  [loaded |-> TRUE, entries |-> Readable(file), fp |-> seen[Home[t]]]]
    /\ seen' = [seen EXCEPT ![Home[t]] = NoFile]
    /\ Proceed(t, Readable(file))
    /\ UNCHANGED <<file, detached, pruned>>

-----------------------------------------------------------------------------
(* append_if_absent: open, two writes, sync, then the resident copy.       *)

\* The bytes reach index.jsonl unless a rename has put another file there.
Write(t, after) == file' = IF t \in detached THEN file ELSE after

\* Mutant: the file is opened for writing, not for appending.
OpenTruncating(t) ==
    /\ pc[t] = "opening"
    /\ file' = NoFile
    /\ GoTo(t, "line")
    /\ UNCHANGED <<detached, mem, seen, holder, snap, pruned>>

Open(t) ==
    /\ pc[t] = "opening"
    /\ GoTo(t, "line")
    /\ UNCHANGED <<file, detached, mem, seen, holder, snap, pruned>>

WriteLine(t) ==
    /\ pc[t] = "line"
    /\ Write(t, WithChunk(file, t))
    /\ GoTo(t, "newline")
    /\ UNCHANGED <<detached, mem, seen, holder, snap, pruned>>

WriteNewline(t) ==
    /\ pc[t] = "newline"
    /\ Write(t, WithNewline(file))
    /\ GoTo(t, "written")
    /\ UNCHANGED <<detached, mem, seen, holder, snap, pruned>>

\* Mutant: the fingerprint is refreshed but the entry is not remembered.
RememberFingerprint(t) ==
    /\ pc[t] = "written"
    /\ mem' = [mem EXCEPT ![Home[t]].fp = file]
    /\ GoTo(t, "appended")
    /\ Release(t)
    /\ UNCHANGED <<file, detached, seen, snap, pruned>>

\* The entry joins the resident entries and the fingerprint is taken anew, of
\* whatever index.jsonl is by then.
Remember(t) ==
    /\ pc[t] = "written"
    /\ mem' = [mem EXCEPT ![Home[t]] =
                  [loaded |-> TRUE, entries |-> @.entries \cup {t}, fp |-> file]]
    /\ GoTo(t, "appended")
    /\ Release(t)
    /\ UNCHANGED <<file, detached, seen, snap, pruned>>

-----------------------------------------------------------------------------
(* prune_retention's rewrite of the entries its policy retains.            *)

\* The policy splits the entries read_all returned; it is some subset here.
Plan(t) ==
    /\ pc[t] = "listed"
    /\ \E drop \in SUBSET snap[t] :
          /\ snap' = [snap EXCEPT ![t] = @ \ drop]
          /\ pruned' = pruned \cup drop
    /\ GoTo(t, "retaining")
    /\ UNCHANGED <<file, detached, mem, seen, holder>>

\* rename(index.jsonl.tmp, index.jsonl): a new file with one line per entry.
Replacement(t) == [lines |-> snap[t], tail |-> {}]

Rename(t) ==
    /\ pc[t] = "rename"
    /\ file' = Replacement(t)
    /\ detached' = detached \cup { u \in Tasks : HasOpenHandle(u) }
    /\ GoTo(t, "renamed")
    /\ UNCHANGED <<mem, seen, holder, snap, pruned>>

\* Mutant: the fingerprint of the rewritten file over the old entries.
AdoptFingerprint(t) ==
    /\ pc[t] = "renamed"
    /\ mem' = [mem EXCEPT ![Home[t]].fp = file]
    /\ GoTo(t, "rewritten")
    /\ Release(t)
    /\ UNCHANGED <<file, detached, seen, snap, pruned>>

Adopt(t) ==
    /\ pc[t] = "renamed"
    /\ mem' = [mem EXCEPT ![Home[t]] =
                  [loaded |-> TRUE, entries |-> snap[t], fp |-> file]]
    /\ GoTo(t, "rewritten")
    /\ Release(t)
    /\ UNCHANGED <<file, detached, seen, snap, pruned>>

-----------------------------------------------------------------------------
(* Faults.                                                                 *)

\* ENOSPC or an I/O error: part of the line is in the file and the error comes
\* back from the newline's write_all; an error of the newline itself is left in
\* the tokio File and sync_data may or may not surface it.
WriteFails(t) ==
    /\ "short_write" \in Faults
    /\ \/ /\ pc[t] = "line"
          /\ Write(t, WithChunk(file, Torn))
          /\ GoTo(t, "failed")
          /\ Release(t)
       \/ /\ pc[t] = "newline"
          /\ \/ GoTo(t, "failed") /\ Release(t)
             \/ GoTo(t, "written") /\ UNCHANGED holder
          /\ UNCHANGED file
    /\ UNCHANGED <<detached, mem, seen, snap, pruned>>

\* Mutant: a lock that survives the future that took it.
CancelHoldingLock(t) ==
    /\ "cancel" \in Faults
    /\ Active(t)
    /\ GoTo(t, "cancelled")
    /\ UNCHANGED <<file, detached, mem, seen, holder, snap, pruned>>

\* The future is dropped at an await; the guard unlocks, and the file operation
\* it was waiting for stays with the blocking pool.
Cancel(t) ==
    /\ "cancel" \in Faults
    /\ Active(t)
    /\ GoTo(t, CASE pc[t] = "line" -> "orphan_line"
                 [] pc[t] = "newline" -> "orphan_newline"
                 [] pc[t] = "rename" -> "orphan_rename"
                 [] OTHER -> "cancelled")
    /\ IF pc[t] \in Holding THEN Release(t) ELSE UNCHANGED holder
    /\ UNCHANGED <<file, detached, mem, seen, snap, pruned>>

OrphanLands(t) ==
    /\ \/ /\ pc[t] = "orphan_line"
          /\ Write(t, WithChunk(file, t))
          /\ UNCHANGED detached
       \/ /\ pc[t] = "orphan_newline"
          /\ Write(t, WithNewline(file))
          /\ UNCHANGED detached
       \/ /\ pc[t] = "orphan_rename"
          /\ file' = Replacement(t)
          /\ detached' = detached \cup { u \in Tasks : HasOpenHandle(u) }
    /\ GoTo(t, "cancelled")
    /\ UNCHANGED <<mem, seen, holder, snap, pruned>>

\* The process stops and its successor starts with an empty IndexState.  A
\* graceful shutdown drains its tasks first; a crash does not, and may cut a
\* line short.
Restart(p) ==
    LET mine == { t \in Tasks : Home[t] = p }
        unsettled == { t \in mine : Active(t) \/ pc[t] \in Orphaned }
    IN  /\ unsettled = {} \/ "crash" \in Faults
        /\ mem' = [mem EXCEPT ![p] = Unloaded]
        /\ holder' = [holder EXCEPT ![p] = Nobody]
        /\ pc' = [t \in Tasks |-> IF t \in unsettled THEN "lost" ELSE pc[t]]
        /\ \/ UNCHANGED file
           \/ /\ \E t \in unsettled \ detached : pc[t] \in {"line", "orphan_line"}
              /\ file' = WithChunk(file, Torn)
        /\ UNCHANGED <<detached, seen, snap, pruned>>

-----------------------------------------------------------------------------
Step(t) ==
    \/ UseCache(t) \/ TakeFingerprint(t) \/ Load(t)
    \/ Open(t) \/ WriteLine(t) \/ WriteNewline(t) \/ Remember(t)
    \/ Plan(t) \/ Rename(t) \/ Adopt(t)

Next ==
    \/ \E t \in Tasks : Call(t) \/ Lock(t) \/ Step(t)
                        \/ WriteFails(t) \/ Cancel(t) \/ OrphanLands(t)
    \/ \E p \in Procs : Restart(p)

Spec == Init /\ [][Next]_vars

\* A running task is polled again, and tokio's Mutex queues its waiters.
Fairness == \A t \in Tasks : WF_vars(Step(t)) /\ SF_vars(Lock(t))

FairSpec == Spec /\ Fairness

-----------------------------------------------------------------------------
(* Correctness.                                                            *)

\* Types of the variables.
TypeOK ==
    /\ file \in File
    /\ detached \subseteq Tasks
    /\ mem \in [Procs -> [loaded : BOOLEAN, entries : SUBSET Requests, fp : File]]
    /\ seen \in [Procs -> File]
    /\ holder \in [Procs -> Tasks \cup {Nobody}]
    /\ pc \in [Tasks -> AppendStates \cup PruneStates]
    /\ \A r \in Requests : pc[r] \in AppendStates
    /\ \A t \in Prunes : pc[t] \in PruneStates
    /\ snap \in [Prunes -> SUBSET Requests]
    /\ pruned \subseteq Requests

\* Every task inside a critical section of index.rs is the holder of its own
\* process's Mutex, and a held Mutex has its holder inside one: no await drops
\* the guard early and no return keeps it.
LockDiscipline ==
    \A p \in Procs :
        \A t \in Tasks : holder[p] = t <=> (Home[t] = p /\ pc[t] \in Holding)

\* append_if_absent "returns true if newly appended, false if sha256 already
\* present (no append)": index.jsonl never lists a digest twice.
UniqueDigests ==
    \A d, e \in Readable(file) : ShaOf[d] = ShaOf[e] => d = e

\* A resident copy whose fingerprint still matches the file holds exactly the
\* entries a fresh read would find, whenever the Mutex is free: ensure_loaded's
\* shortcut never serves a stale index.
CacheCoherent ==
    \A p \in Procs :
        holder[p] = Nobody /\ CacheHit(p) => mem[p].entries = Readable(file)

\* Once an append has been answered, every later reader of index.jsonl, a
\* restarted server among them, finds the digest, unless a prune chose to drop
\* it.
AckedReadable ==
    \A r \in Requests :
        pc[r] \in {"appended", "duplicate"} =>
            ShaOf[r] \in ShasOf(Readable(file) \cup pruned)

\* The strengthening that makes UniqueDigests and CacheCoherent inductive, for
\* one process and no fault.  The line being written is the file's whole tail,
\* and a copy that a task is about to extend is the file's own content.
OnlyTheWriterHasATail ==
    /\ detached = {}
    /\ \A t \in Tasks : pc[t] \notin Orphaned
    /\ \A t \in Tasks : pc[t] = "newline" => file.tail = {t}
    /\ (\A t \in Tasks : pc[t] # "newline") => file.tail = {}

WritersKnowTheFile ==
    \A t \in Tasks :
        /\ pc[t] = "reading" => seen[Home[t]] = file
        /\ pc[t] \in {"opening", "line"} =>
              /\ mem[Home[t]].entries = Readable(file)
              /\ ShaOf[t] \notin ShasOf(Readable(file))
        /\ pc[t] \in {"newline", "written"} =>
              mem[Home[t]].entries \cup {t} = Readable(file)
        /\ pc[t] = "renamed" => file = Replacement(t)

\* Between a change of the file and the refresh of the copy the two may differ.
Changing(p) == \E t \in Tasks : Home[t] = p /\ pc[t] \in {"newline", "written", "renamed"}

CopiesFollow ==
    \A p \in Procs : CacheHit(p) /\ ~Changing(p) => mem[p].entries = Readable(file)

\* Everything listed was appended, and a snapshot is as duplicate-free as the
\* index it was taken from.
Inserted == { r \in Requests : pc[r] \in {"newline", "written", "appended"} }

OnlyAppendedListed ==
    /\ Readable(file) \subseteq Inserted
    /\ \A t \in Prunes :
          /\ snap[t] \subseteq Inserted
          /\ \A d, e \in snap[t] : ShaOf[d] = ShaOf[e] => d = e

\* Their conjunction: while no fault happens, lock, file, tail and resident copy
\* stay consistent through every await of every operation.
CalmInv ==
    /\ TypeOK
    /\ LockDiscipline
    /\ UniqueDigests
    /\ OnlyTheWriterHasATail
    /\ WritersKnowTheFile
    /\ CopiesFollow
    /\ OnlyAppendedListed

\* Every call that asks for the Mutex is answered, whatever the other callers
\* do and wherever they are dropped.
EveryCallSettles ==
    \A t \in Tasks : pc[t] = "waiting" ~> pc[t] \in Settled

\* What a call has decided: an append when its line lands, a duplicate when its
\* digest is found resident.
Verdict(r) ==
    CASE pc[r] \in {"newline", "written", "appended"} -> "appended"
      [] pc[r] = "duplicate" -> "duplicate"
      [] OTHER -> "pending"

Promise == INSTANCE AtomicIndex WITH
    log <- Readable(file),
    verdict <- [r \in Requests |-> Verdict(r)]

\* The file, the lock and the cache together implement the atomic index: every
\* call takes effect at one instant between its start and its answer.
ImplementsAtomicIndex == Promise!ASpec
=============================================================================
