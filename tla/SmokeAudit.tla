------------------------------ MODULE SmokeAudit ------------------------------
(***************************************************************************)
(* rejected-three-os-smoke.jsonl: every three-OS smoke summary the control *)
(* plane refuses leaves one line in it.  Writers append or, at the cap,    *)
(* rebuild the file in place, one at a time under a process-wide lock;     *)
(* readers take no lock.  A handler may be cancelled while the blocking    *)
(* pool still holds its write, and the process may die in the middle.      *)
(* Writes that fail with an error are left out: nothing is retried.        *)
(***************************************************************************)
EXTENDS Integers, FiniteSets, Sequences, SequencesExt, FiniteSetsExt
CONSTANTS
    Rejections, \* the refused uploads, each also the line it leaves
    Bytes,      \* Bytes[r]: the length of that line
    Cap,        \* REJECTED_SMOKE_AUDIT_MAX_BYTES
    Target,     \* REJECTED_SMOKE_AUDIT_ROTATE_TARGET_BYTES
    Broken,     \* a line that does not parse
    MaxCrashes  \* bound of the instance

ASSUME SmokeAuditConstants ==
    /\ Broken \notin Rejections
    /\ Bytes \in [Rejections \cup {Broken} -> Nat \ {0}]
    /\ Cap \in Nat /\ Target \in Nat /\ Target <= Cap /\ MaxCrashes \in Nat

VARIABLES
    pc,      \* where each rejection is
    holder,  \* who holds REJECTED_SMOKE_AUDIT_WRITER_LOCK, {} or one rejection
    lines,   \* the file
    open,    \* the last line has no newline
    plan,    \* the content a rotation is about to write
    written, \* history: the records in the order they reached the file
    merged,  \* history: the records that landed on a line without a newline
    calm,    \* history: no write was cut short and none outlived its request
    crashes

vars == <<pc, holder, lines, open, plan, written, merged, calm, crashes>>

Holding  == {"stat", "append", "read", "truncate", "fill"}
Late     == {"late_append", "late_truncate", "late_fill"}
Settled  == {"answered", "gone", "lost"}

\* A write in the blocking pool, from its request's future to none.
Outlives == [append |-> "late_append", truncate |-> "late_truncate", fill |-> "late_fill"]

\* The bytes of a sequence of lines.
Length(s) ==
    LET upTo[n \in 0 .. Len(s)] == IF n = 0 THEN 0 ELSE upTo[n - 1] + Bytes[s[n]]
    IN  upTo[Len(s)]

Init ==
    /\ pc = [r \in Rejections |-> "new"] /\ holder = {}
    /\ lines = <<>> /\ open = FALSE
    /\ plan = [r \in Rejections |-> <<>>]
    /\ written = <<>> /\ merged = {} /\ calm = TRUE /\ crashes = 0

GoTo(r, where) == pc' = [pc EXCEPT ![r] = where]

\* The upload fails its validation and the handler waits for the lock.
Reject(r) ==
    /\ pc[r] = "new"
    /\ GoTo(r, "wait")
    /\ UNCHANGED <<holder, lines, open, plan, written, merged, calm, crashes>>

Lock(r) ==
    /\ pc[r] = "wait" /\ holder = {}
    /\ holder' = {r}
    /\ GoTo(r, "stat")
    /\ UNCHANGED <<lines, open, plan, written, merged, calm, crashes>>

\* Mutant: the decision looks at the file alone.
StatWithoutLine(r) ==
    /\ pc[r] = "stat"
    /\ GoTo(r, IF Length(lines) <= Cap THEN "append" ELSE "read")
    /\ UNCHANGED <<holder, lines, open, plan, written, merged, calm, crashes>>

\* projected_size decides between append and rotation.
Stat(r) ==
    /\ pc[r] = "stat"
    /\ GoTo(r, IF Length(lines) + Bytes[r] <= Cap THEN "append" ELSE "read")
    /\ UNCHANGED <<holder, lines, open, plan, written, merged, calm, crashes>>

\* Mutant: the line goes out without its newline.
LandWithoutNewline(r) ==
    /\ lines' = IF open THEN Append(Front(lines), Broken) ELSE Append(lines, r)
    /\ open' = TRUE
    /\ merged' = IF open THEN merged \cup {r} ELSE merged
    /\ written' = Append(written, r)

\* The line and its newline in one write; after a torn tail they become part of it.
Land(r) ==
    /\ lines' = IF open THEN Append(Front(lines), Broken) ELSE Append(lines, r)
    /\ open' = FALSE
    /\ merged' = IF open THEN merged \cup {r} ELSE merged
    /\ written' = Append(written, r)

\* The request is answered and the lock released; a late write frees no lock.
Return(r) ==
    /\ GoTo(r, IF pc[r] \in Late THEN "gone" ELSE "answered")
    /\ holder' = holder \ {r}

AppendLine(r) ==
    /\ pc[r] \in {"append", "late_append"}
    /\ Land(r)
    /\ Return(r)
    /\ UNCHANGED <<plan, calm, crashes>>

\* Mutant: the oldest lines that fit are kept.
KeptOldest(s, r) ==
    LET room == IF Target > Bytes[r] THEN Target ELSE Bytes[r]
        fits == { n \in 0 .. Len(s) : Bytes[r] + Length(SubSeq(s, 1, n)) <= room }
    IN  SubSeq(s, 1, Max(fits))

\* The newest lines that fit into the target beside the new one.
Kept(s, r) ==
    LET room == IF Target > Bytes[r] THEN Target ELSE Bytes[r]
        fits == { n \in 1 .. Len(s) + 1 : Bytes[r] + Length(SubSeq(s, n, Len(s))) <= room }
    IN  SubSeq(s, Min(fits), Len(s))

ReadAll(r) ==
    /\ pc[r] = "read"
    /\ plan' = [plan EXCEPT ![r] = Append(Kept(lines, r), r)]
    /\ GoTo(r, "truncate")
    /\ UNCHANGED <<holder, lines, open, written, merged, calm, crashes>>

\* tokio::fs::write opens with truncation ...
Truncate(r) ==
    /\ pc[r] \in {"truncate", "late_truncate"}
    /\ lines' = <<>> /\ open' = FALSE
    /\ GoTo(r, IF pc[r] \in Late THEN "late_fill" ELSE "fill")
    /\ UNCHANGED <<holder, plan, written, merged, calm, crashes>>

\* ... and then writes from the start, over what was appended since.
Fill(r) ==
    /\ pc[r] \in {"fill", "late_fill"}
    /\ IF Length(lines) > Length(plan[r])
       THEN lines' = Append(plan[r], Broken) /\ UNCHANGED open
       ELSE lines' = plan[r] /\ open' = FALSE
    /\ written' = Append(written, r)
    /\ Return(r)
    /\ UNCHANGED <<plan, merged, calm, crashes>>

\* Mutant: the lock outlives the process, like a lock file.
CrashKeepingLock ==
    /\ crashes < MaxCrashes
    /\ crashes' = crashes + 1
    /\ calm' = FALSE
    /\ pc' = [r \in Rejections |-> IF pc[r] \in {"wait"} \cup Holding \cup Late THEN "lost" ELSE pc[r]]
    /\ UNCHANGED <<holder, lines, open, plan, written, merged>>

\* Mutant: the guard of the lock is forgotten with the future.
CancelKeepingLock(r) ==
    /\ \/ pc[r] \in {"wait", "stat", "append", "read", "truncate"}
          /\ GoTo(r, "gone") /\ UNCHANGED calm
       \/ pc[r] \in {"append", "truncate", "fill"}
          /\ GoTo(r, Outlives[pc[r]]) /\ calm' = FALSE
    /\ UNCHANGED <<holder, lines, open, plan, written, merged, crashes>>

\* The timeout or the client drops the handler with its guard: before the write
\* is handed to the blocking pool, or while it is there.
Cancel(r) ==
    /\ \/ pc[r] \in {"wait", "stat", "append", "read", "truncate"}
          /\ GoTo(r, "gone") /\ UNCHANGED calm
       \/ pc[r] \in {"append", "truncate", "fill"}
          /\ GoTo(r, Outlives[pc[r]]) /\ calm' = FALSE
    /\ holder' = holder \ {r}
    /\ UNCHANGED <<lines, open, plan, written, merged, crashes>>

\* The process dies; a line being appended may be torn, a rebuilt file lost.
Crash ==
    /\ crashes < MaxCrashes
    /\ crashes' = crashes + 1
    /\ \/ UNCHANGED <<lines, open>>
       \/ /\ \E r \in Rejections : pc[r] \in {"append", "late_append"}
          /\ lines' = IF open THEN lines ELSE Append(lines, Broken)
          /\ open' = TRUE
    /\ calm' = (calm /\ ~open' /\ \A r \in Rejections : pc[r] \notin {"fill", "late_fill"})
    /\ pc' = [r \in Rejections |-> IF pc[r] \in {"wait"} \cup Holding \cup Late THEN "lost" ELSE pc[r]]
    /\ holder' = {}
    /\ UNCHANGED <<plan, written, merged>>

Write(r) == AppendLine(r) \/ Truncate(r) \/ Fill(r)

Step(r) == Reject(r) \/ Lock(r) \/ Stat(r) \/ ReadAll(r) \/ Write(r) \/ Cancel(r)

Next == (\E r \in Rejections : Step(r)) \/ Crash

Spec == Init /\ [][Next]_vars

\* The runtime polls whoever holds the lock, the pool runs what it was handed,
\* and tokio's Mutex serves its waiters in order.
FairSpec ==
    /\ Spec
    /\ \A r \in Rejections : WF_vars(Stat(r) \/ ReadAll(r) \/ Write(r)) /\ SF_vars(Lock(r))

-----------------------------------------------------------------------------
(* Correctness.                                                            *)

\* The lock names who is in the critical section, one at most, however the
\* ones before left it.
WritersExclude ==
    holder = { r \in Rejections : pc[r] \in Holding } /\ Cardinality(holder) <= 1

\* Types, and the lock.
TypeOK ==
    /\ pc \in [Rejections -> {"new", "wait"} \cup Holding \cup Late \cup Settled]
    /\ WritersExclude
    /\ lines \in Seq(Rejections \cup {Broken}) /\ open \in BOOLEAN
    /\ plan \in [Rejections -> Seq(Rejections \cup {Broken})]
    /\ written \in Seq(Rejections) /\ merged \subseteq Rejections
    /\ calm \in BOOLEAN /\ crashes \in Nat

\* What rejected_smoke_audit_summary may read while the file is being rebuilt
\* is nothing at all; at every other moment, also while an append is under way,
\* it reads the newest records, in order, each once, and a record has aged out
\* only when it did not fit the target any more.  All this while calm, that is,
\* until a write is cut short or outlives its request; it is false afterwards.
NewestAreKept ==
    calm /\ (\A r \in Rejections : pc[r] # "fill") =>
        /\ IsSuffix(lines, written)
        /\ lines # written =>
              Length(lines) + Bytes[written[Len(written) - Len(lines)]] > Target

\* "the file size cap is always observed": until a write is cut short or
\* outlives its request, unless one record alone is larger.
CapObserved == calm => Length(lines) <= Cap \/ Len(lines) = 1

\* A crash in the middle of an append costs the line it tore and at most the
\* next one, never every line after it.
TornTailCostsOne == Cardinality(merged) <= crashes

\* Whatever happens to the others, a refused upload gets its 422 or leaves: the
\* lock that serialises the writers is always handed on.
EveryRejectionSettles == \A r \in Rejections : pc[r] = "wait" ~> pc[r] \in Settled \cup Late
=============================================================================
