------------------------------- MODULE AuditLog -------------------------------
(***************************************************************************)
(* The request middleware and the audit log it feeds: admission to the 512 *)
(* slots under a timeout, the metrics counters, the in-memory ring, the    *)
(* NDJSON file with its one rotated generation, and the SSE stream with    *)
(* its resume.  Ring, file and channel are three sinks that one append     *)
(* reaches one after another, each under its own lock, on any thread.      *)
(*                                                                         *)
(* A line is one unit of size.  Faults are what may go wrong: the client   *)
(* disconnects, the process dies, a flush, a rename or an open fails.      *)
(***************************************************************************)
EXTENDS Naturals, FiniteSets, Sequences, SequencesExt, Subsequences
CONSTANTS
    Requests,       \* the HTTP requests, each also its AuditEntry
    Streams,        \* clients of /api/v1/audit-log/stream
    Slots,          \* MAX_INFLIGHT_REQUESTS
    Capacity,       \* AO2_CP_AUDIT_LOG_CAPACITY
    MaxLines,       \* AO2_CP_AUDIT_LOG_MAX_BYTES
    StreamCapacity, \* STREAM_BROADCAST_CAPACITY
    Faults          \* subset of {"disconnect", "crash", "flush", "rename", "open"}

ASSUME AuditConstants ==
    /\ IsFiniteSet(Requests)
    /\ Slots \in Nat \ {0} /\ Capacity \in Nat
    /\ MaxLines \in Nat \ {0} /\ StreamCapacity \in Nat \ {0}
    /\ Faults \subseteq {"disconnect", "crash", "flush", "rename", "open"}

VARIABLES
    pc,         \* where each request is in the middleware
    slots,      \* who holds a permit of the concurrency limit
    inFlight,   \* the in-flight gauge
    recorded,   \* requests counted by Metrics::record_request
    clock,      \* now_unix_micros
    stamp,      \* timestamp_unix_micros of each entry
    ring,       \* the VecDeque of recent entries
    appended,   \* total_appended
    dropped,    \* total_dropped
    file,       \* PersistenceState and the two files behind it
    stored,     \* history: the lines that ever reached the live file, in order
    sent,       \* what went through the broadcast channel since boot
    stream,     \* each SSE connection
    lastId      \* the Last-Event-ID each client would send, 0 if none

requestVars == <<pc, slots, inFlight, recorded, clock, stamp>>
ringVars    == <<ring, appended, dropped>>
fileVars    == <<file, stored>>
streamVars  == <<sent, stream, lastId>>
vars        == <<requestVars, ringVars, fileVars, streamVars>>

Admitted   == {"waiting", "running"}
Rotating   == {"rotate_drop", "rotate_rename", "rotate_open"}
Appending  == {"push", "persist", "count", "broadcast"} \cup Rotating
InServer   == Admitted \cup Appending \cup {"answered"}
Left       == {"done", "disconnected", "lost"}

Closed == [phase |-> "closed", from |-> 0, next |-> 1, queue |-> <<>>,
           got |-> {}, lagged |-> FALSE]

\* buffer: what BufWriter kept of a flush that failed; writer: whether it is Some.
FreshFile == [live |-> <<>>, old |-> <<>>, buffer |-> <<>>, writer |-> TRUE,
              bytes |-> 0, rotations |-> 0, errors |-> 0]

Init ==
    /\ pc = [r \in Requests |-> "new"]
    /\ slots = {} /\ inFlight = 0 /\ recorded = 0 /\ clock = 1
    /\ stamp = [r \in Requests |-> 0]
    /\ ring = <<>> /\ appended = 0 /\ dropped = 0
    /\ file = FreshFile
    /\ stored = <<>> /\ sent = <<>>
    /\ stream = [s \in Streams |-> Closed]
    /\ lastId = [s \in Streams |-> 0]

GoTo(r, where) == pc' = [pc EXCEPT ![r] = where]

-----------------------------------------------------------------------------
(* Admission.                                                              *)

\* track_in_flight, then the layers below.
Enter(r) ==
    /\ pc[r] = "new"
    /\ inFlight' = inFlight + 1
    /\ GoTo(r, "waiting")
    /\ UNCHANGED <<slots, recorded, clock, stamp, ringVars, fileVars, streamVars>>

\* A permit of the concurrency limit; the handler starts.
Acquire(r) ==
    /\ pc[r] = "waiting"
    /\ Cardinality(slots) < Slots
    /\ slots' = slots \cup {r}
    /\ GoTo(r, "running")
    /\ UNCHANGED <<inFlight, recorded, clock, stamp, ringVars, fileVars, streamVars>>

\* The handler answers.
Answer(r) ==
    /\ pc[r] = "running"
    /\ slots' = slots \ {r}
    /\ GoTo(r, "answered")
    /\ UNCHANGED <<inFlight, recorded, clock, stamp, ringVars, fileVars, streamVars>>

\* Mutant: the timeout applies inside the concurrency limit only.
TimeOutRunning(r) ==
    /\ pc[r] = "running"
    /\ slots' = slots \ {r}
    /\ GoTo(r, "answered")
    /\ UNCHANGED <<inFlight, recorded, clock, stamp, ringVars, fileVars, streamVars>>

\* 408 for a handler that runs too long and for a waiter that gets no permit.
TimeOut(r) ==
    /\ pc[r] \in Admitted
    /\ slots' = slots \ {r}
    /\ GoTo(r, "answered")
    /\ UNCHANGED <<inFlight, recorded, clock, stamp, ringVars, fileVars, streamVars>>

\* Mutant: the gauge is decremented only after an answer.
DisconnectUncounted(r) ==
    /\ "disconnect" \in Faults
    /\ pc[r] \in Admitted
    /\ slots' = slots \ {r}
    /\ GoTo(r, "disconnected")
    /\ UNCHANGED <<inFlight, recorded, clock, stamp, ringVars, fileVars, streamVars>>

\* The client goes away: the future is dropped with its permit and its guard;
\* nothing is recorded.
Disconnect(r) ==
    /\ "disconnect" \in Faults
    /\ pc[r] \in Admitted
    /\ slots' = slots \ {r}
    /\ inFlight' = inFlight - 1
    /\ GoTo(r, "disconnected")
    /\ UNCHANGED <<recorded, clock, stamp, ringVars, fileVars, streamVars>>

\* record_request, and the timestamp of the entry.
Record(r) ==
    /\ pc[r] = "answered"
    /\ recorded' = recorded + 1
    /\ \E now \in {clock, clock + 1} :
          clock' = now /\ stamp' = [stamp EXCEPT ![r] = now]
    /\ GoTo(r, "push")
    /\ UNCHANGED <<slots, inFlight, ringVars, fileVars, streamVars>>

-----------------------------------------------------------------------------
(* AuditLog::append.                                                       *)

\* Under the lock of the ring.
Push(r) ==
    /\ pc[r] = "push"
    /\ ring' = IF Capacity = 0 THEN ring
               ELSE Append(IF Len(ring) = Capacity THEN Tail(ring) ELSE ring, r)
    /\ dropped' = IF Capacity # 0 /\ Len(ring) = Capacity THEN dropped + 1 ELSE dropped
    /\ GoTo(r, "persist")
    /\ UNCHANGED <<slots, inFlight, recorded, clock, stamp, appended, fileVars, streamVars>>

\* The persistence lock is held from persist's first step to its last.
PersistenceFree == \A r \in Requests : pc[r] \notin Rotating

Flushed(r) == file.buffer \o <<r>>

\* The line and what an earlier failure left in the BufWriter reach the file;
\* bytes_written grows by the line alone.
Flush(r) ==
    /\ pc[r] = "persist" /\ PersistenceFree /\ file.writer
    /\ file' = [file EXCEPT !.live = @ \o Flushed(r), !.buffer = <<>>, !.bytes = @ + 1]
    /\ stored' = stored \o Flushed(r)
    /\ GoTo(r, IF file.bytes + 1 >= MaxLines THEN "rotate_drop" ELSE "count")
    /\ UNCHANGED <<slots, inFlight, recorded, clock, stamp, ringVars, streamVars>>

\* The error is counted and the next append tries again.
FlushFails(r) ==
    /\ "flush" \in Faults
    /\ pc[r] = "persist" /\ PersistenceFree /\ file.writer
    /\ file' = [file EXCEPT !.buffer = Flushed(r), !.errors = @ + 1]
    /\ GoTo(r, "count")
    /\ UNCHANGED <<slots, inFlight, recorded, clock, stamp, ringVars, stored, streamVars>>

\* Mutant: without a writer there is nothing to do.
NoWriterQuiet(r) ==
    /\ pc[r] = "persist" /\ PersistenceFree /\ ~file.writer
    /\ GoTo(r, "count")
    /\ UNCHANGED <<slots, inFlight, recorded, clock, stamp, ringVars, fileVars, streamVars>>

\* "writer absent (rotation invariant broken)"
NoWriter(r) ==
    /\ pc[r] = "persist" /\ PersistenceFree /\ ~file.writer
    /\ file' = [file EXCEPT !.errors = @ + 1]
    /\ GoTo(r, "count")
    /\ UNCHANGED <<slots, inFlight, recorded, clock, stamp, ringVars, stored, streamVars>>

\* rotate_persistence: the writer is taken and the previous generation removed.
DropOld(r) ==
    /\ pc[r] = "rotate_drop"
    /\ file' = [file EXCEPT !.old = <<>>, !.writer = FALSE]
    /\ GoTo(r, "rotate_rename")
    /\ UNCHANGED <<slots, inFlight, recorded, clock, stamp, ringVars, stored, streamVars>>

\* Mutant: the old generation is removed after the rename instead of before.
RenameThenDrop(r) ==
    /\ pc[r] = "rotate_rename"
    /\ file' = [file EXCEPT !.old = <<>>, !.live = <<>>]
    /\ GoTo(r, "rotate_open")
    /\ UNCHANGED <<slots, inFlight, recorded, clock, stamp, ringVars, stored, streamVars>>

RenameLive(r) ==
    /\ pc[r] = "rotate_rename"
    /\ file' = [file EXCEPT !.old = file.live, !.live = <<>>]
    /\ GoTo(r, "rotate_open")
    /\ UNCHANGED <<slots, inFlight, recorded, clock, stamp, ringVars, stored, streamVars>>

OpenFresh(r) ==
    /\ pc[r] = "rotate_open"
    /\ file' = [file EXCEPT !.writer = TRUE, !.bytes = 0, !.rotations = @ + 1]
    /\ GoTo(r, "count")
    /\ UNCHANGED <<slots, inFlight, recorded, clock, stamp, ringVars, stored, streamVars>>

\* rename(..)? or open(..)? returns with the writer still taken.
RotationFails(r) ==
    /\ \/ pc[r] = "rotate_rename" /\ "rename" \in Faults
       \/ pc[r] = "rotate_open" /\ "open" \in Faults
    /\ file' = [file EXCEPT !.errors = @ + 1]
    /\ GoTo(r, "count")
    /\ UNCHANGED <<slots, inFlight, recorded, clock, stamp, ringVars, stored, streamVars>>

Count(r) ==
    /\ pc[r] = "count"
    /\ appended' = appended + 1
    /\ GoTo(r, "broadcast")
    /\ UNCHANGED <<slots, inFlight, recorded, clock, stamp, ring, dropped, fileVars, streamVars>>

\* Mutant: the gauge is decremented by hand and once more by the guard.
BroadcastTwiceOut(r) ==
    /\ pc[r] = "broadcast"
    /\ sent' = Append(sent, r)
    /\ inFlight' = inFlight - 2
    /\ GoTo(r, "done")
    /\ UNCHANGED <<slots, recorded, clock, stamp, ringVars, fileVars, stream, lastId>>

\* stream_tx.send; the in-flight guard is dropped with the response.
Broadcast(r) ==
    /\ pc[r] = "broadcast"
    /\ sent' = Append(sent, r)
    /\ inFlight' = inFlight - 1
    /\ GoTo(r, "done")
    /\ UNCHANGED <<slots, recorded, clock, stamp, ringVars, fileVars, stream, lastId>>

-----------------------------------------------------------------------------
(* audit_log_stream.                                                       *)

\* stream_tx.subscribe(): from here on the receiver sees what is sent.
Subscribe(s) ==
    /\ stream[s].phase = "closed"
    /\ stream' = [stream EXCEPT ![s] =
          [Closed EXCEPT !.phase = "subscribed", !.from = lastId[s], !.next = Len(sent) + 1]]
    /\ UNCHANGED <<requestVars, ringVars, fileVars, sent, lastId>>

\* Mutant: the first entry after the last one seen is skipped.
NewerSkipping(from) ==
    IF from = 0 THEN <<>> ELSE ElementsAt(ring, { i \in DOMAIN ring : stamp[ring[i]] > from + 1 })

\* The buffered entries strictly newer than the Last-Event-ID, if there is one.
Newer(from) ==
    IF from = 0 THEN <<>> ELSE ElementsAt(ring, { i \in DOMAIN ring : stamp[ring[i]] > from })

TakeSnapshot(s) ==
    /\ stream[s].phase = "subscribed"
    /\ stream' = [stream EXCEPT ![s].phase = "open", ![s].queue = Newer(stream[s].from)]
    /\ UNCHANGED <<requestVars, ringVars, fileVars, sent, lastId>>

Deliver(s, r, rest) ==
    /\ stream' = [stream EXCEPT ![s] = [rest EXCEPT !.got = @ \cup {r}]]
    /\ lastId' = [lastId EXCEPT ![s] = stamp[r]]

\* The resumed entries go out before the live ones.
Replay(s) ==
    /\ stream[s].phase = "open" /\ stream[s].queue # <<>>
    /\ Deliver(s, Head(stream[s].queue), [stream[s] EXCEPT !.queue = Tail(@)])
    /\ UNCHANGED <<requestVars, ringVars, fileVars, sent>>

Unread(s) == Len(sent) - stream[s].next + 1

\* Lagged(n): the receiver jumps to the oldest entry the channel still holds.
Lag(s) ==
    /\ stream[s].phase = "open" /\ stream[s].queue = <<>>
    /\ Unread(s) > StreamCapacity
    /\ stream' = [stream EXCEPT ![s].next = Len(sent) - StreamCapacity + 1, ![s].lagged = TRUE]
    /\ UNCHANGED <<requestVars, ringVars, fileVars, sent, lastId>>

Receive(s) ==
    /\ stream[s].phase = "open" /\ stream[s].queue = <<>>
    /\ Unread(s) \in 1 .. StreamCapacity
    /\ Deliver(s, sent[stream[s].next], [stream[s] EXCEPT !.next = @ + 1])
    /\ UNCHANGED <<requestVars, ringVars, fileVars, sent>>

\* The connection ends; the client keeps the id of its last event.
Close(s) ==
    /\ stream[s].phase # "closed"
    /\ stream' = [stream EXCEPT ![s] = Closed]
    /\ UNCHANGED <<requestVars, ringVars, fileVars, sent, lastId>>

-----------------------------------------------------------------------------
\* Mutant: the byte count starts at zero on a file that is not empty.
ReopenedUncounted(live) ==
    [FreshFile EXCEPT !.live = live, !.old = file.old]

\* open_persistence on what the last process left.
Reopened(live) ==
    [FreshFile EXCEPT !.live = live, !.old = file.old, !.bytes = Len(live)]

\* The process stops, drained of its requests or by a crash, and is started
\* again; a drained one may still flush what the BufWriter holds.
Restart ==
    /\ \/ /\ \A r \in Requests : pc[r] \notin InServer
          /\ \E flushed \in {<<>>, file.buffer} :
                file' = Reopened(file.live \o flushed) /\ stored' = stored \o flushed
       \/ /\ "crash" \in Faults
          /\ file' = Reopened(file.live) /\ UNCHANGED stored
    /\ pc' = [r \in Requests |-> IF pc[r] \in InServer THEN "lost" ELSE pc[r]]
    /\ slots' = {} /\ inFlight' = 0 /\ recorded' = 0
    /\ ring' = <<>> /\ appended' = 0 /\ dropped' = 0 /\ sent' = <<>>
    /\ stream' = [s \in Streams |-> Closed]
    /\ UNCHANGED <<clock, stamp, lastId>>

Persist(r) == Flush(r) \/ FlushFails(r) \/ NoWriter(r)

Rotate(r) == DropOld(r) \/ RenameLive(r) \/ OpenFresh(r) \/ RotationFails(r)

RequestStep(r) ==
    \/ Enter(r) \/ Acquire(r) \/ Answer(r) \/ TimeOut(r) \/ Disconnect(r)
    \/ Record(r) \/ Push(r) \/ Persist(r) \/ Rotate(r) \/ Count(r) \/ Broadcast(r)

StreamStep(s) ==
    \/ Subscribe(s) \/ TakeSnapshot(s) \/ Replay(s) \/ Lag(s) \/ Receive(s) \/ Close(s)

Next ==
    \/ \E r \in Requests : RequestStep(r)
    \/ \E s \in Streams : StreamStep(s)
    \/ Restart

Spec == Init /\ [][Next]_vars

\* The timer of the timeout layer fires, and a thread in the synchronous part of
\* the middleware runs on.  Nothing is assumed of handlers, permits or clients,
\* nor that the persistence lock is fair: each request takes it once.
FairSpec ==
    /\ Spec
    /\ \A r \in Requests :
          /\ WF_vars(TimeOut(r))
          /\ WF_vars(Record(r) \/ Push(r) \/ Persist(r) \/ Rotate(r) \/ Count(r) \/ Broadcast(r))

-----------------------------------------------------------------------------
(* Correctness.                                                            *)

\* Types of the variables.
TypeOK ==
    /\ pc \in [Requests -> {"new"} \cup InServer \cup Left]
    /\ slots \subseteq Requests
    /\ inFlight \in Nat /\ recorded \in Nat /\ clock \in Nat
    /\ stamp \in [Requests -> Nat]
    /\ ring \in Seq(Requests) /\ appended \in Nat /\ dropped \in Nat
    /\ file \in [live : Seq(Requests), old : Seq(Requests), buffer : Seq(Requests),
                  writer : BOOLEAN, bytes : Nat, rotations : Nat, errors : Nat]
    /\ stored \in Seq(Requests) /\ sent \in Seq(Requests)
    /\ stream \in [Streams -> [phase : {"closed", "subscribed", "open"}, from : Nat,
                               next : Nat \ {0}, queue : Seq(Requests),
                               got : SUBSET Requests, lagged : BOOLEAN]]
    /\ lastId \in [Streams -> Nat]

NumberAt(at) == Cardinality({ r \in Requests : pc[r] \in at })

\* The gauge, the permits and the counters account for every request, however
\* it leaves: a permit is held exactly while a handler runs, the gauge counts who
\* is inside, and what was recorded, appended and evicted adds up with what is
\* still on its way between the sinks.
CountersAgree ==
    /\ slots = { r \in Requests : pc[r] = "running" } /\ Cardinality(slots) <= Slots
    /\ inFlight = NumberAt(InServer)
    /\ recorded = Len(sent) + NumberAt(Appending)
    /\ appended = Len(sent) + NumberAt({"broadcast"})
    /\ Capacity > 0 => dropped + Len(ring) = Len(sent) + NumberAt(Appending \ {"push"})

\* Across crashes inside a rotation, failed renames and failed flushes, the two
\* generations hold the latest lines stored, in order and each once, and never
\* fewer than one full generation.
FilesHoldTheLatest ==
    LET kept == file.old \o file.live IN
    /\ IsSuffix(kept, stored)
    /\ Len(kept) >= MaxLines \/ kept = stored

\* "Running byte count of the live file": it never runs ahead of the file, and
\* lags by at most the flushes that failed since boot, also on a file found at
\* the start.
ByteCountFollowsFile ==
    file.writer =>
        /\ file.bytes <= Len(file.live)
        /\ Len(file.live) + Len(file.buffer) <= file.bytes + file.errors

\* Whatever a failed flush or rotation, or the writer it leaves missing, does to
\* the lines that follow, the operator can tell: no more of the entries appended
\* since boot are missing from the files than persist_errors counts, beside the
\* failure that took the writer.
LossIsCounted ==
    LET missing    == ToSet(sent) \ (ToSet(stored) \cup ToSet(file.buffer))
        writerLost == PersistenceFree /\ ~file.writer
    IN  Cardinality(missing) + (IF writerLost THEN 1 ELSE 0) <= file.errors

\* An entry still in the ring, newer than the id a client resumed from, has been
\* or will be sent to it: none falls between the subscription and the snapshot,
\* whatever thread appends meanwhile.  Only a lagging receiver, which is told,
\* is exempt.
ResumeLeavesNoGap ==
    \A s \in Streams :
        stream[s].phase = "open" /\ stream[s].from # 0 /\ ~stream[s].lagged =>
            \A i \in DOMAIN ring :
                stamp[ring[i]] > stream[s].from =>
                    \/ ring[i] \in stream[s].got \cup ToSet(stream[s].queue)
                    \/ \E k \in stream[s].next .. Len(sent) : sent[k] = ring[i]
                    \/ pc[ring[i]] # "done"

\* A request that came in is answered, dropped or lost with the process: no
\* handler that hangs and no lack of permits keeps it inside.
EveryRequestLeaves ==
    \A r \in Requests : pc[r] = "waiting" ~> pc[r] \in Left
=============================================================================
