------------------------- MODULE IndexStore_proofs -------------------------
(***************************************************************************)
(* Proofs about IndexStore.  The Mutex discipline and the types hold for   *)
(* every set of callers, processes and faults.                             *)
(***************************************************************************)
EXTENDS IndexStore, TLAPS

LEMMA ReadableType ==
    ASSUME NEW f \in File
    PROVE  Readable(f) \in SUBSET Requests
BY DEF Readable, File

LEMMA ChunkType ==
    ASSUME NEW f \in File, NEW c \in Requests \cup {Torn}
    PROVE  WithChunk(f, c) \in File
BY DEF WithChunk, File

LEMMA NewlineType ==
    ASSUME NEW f \in File
    PROVE  WithNewline(f) \in File
BY ReadableType DEF WithNewline, File

(* The variables keep their types under every operation and every fault.   *)
THEOREM TypeCorrect == Spec => []TypeOK
<1> USE IndexConstants DEF Tasks
<1>1. Init => TypeOK
  BY DEF Init, TypeOK, File, NoFile, Unloaded, AppendStates, PruneStates
<1>2. TypeOK /\ [Next]_vars => TypeOK'
  <2> SUFFICES ASSUME TypeOK, [Next]_vars
               PROVE  TypeOK'
    OBVIOUS
  <2> USE DEF TypeOK
  <2>1. ASSUME NEW t \in Tasks, Call(t) PROVE TypeOK'
    BY <2>1 DEF Call, GoTo, AppendStates, PruneStates
  <2>2. ASSUME NEW t \in Tasks, Lock(t) PROVE TypeOK'
    BY <2>2 DEF Lock, GoTo, Waiting, AppendStates, PruneStates, AppendSteps, RewriteSteps
  <2>3. ASSUME NEW t \in Tasks, NEW entries \in SUBSET Requests, Proceed(t, entries)
        PROVE  /\ holder' \in [Procs -> Tasks \cup {Nobody}]
               /\ pc' \in [Tasks -> AppendStates \cup PruneStates]
               /\ \A r \in Requests : pc'[r] \in AppendStates
               /\ \A u \in Prunes : pc'[u] \in PruneStates
               /\ snap' \in [Prunes -> SUBSET Requests]
    <3>0. Home[t] \in Procs
      BY DEF IndexConstants
    <3>1. CASE t \in Requests
      <4>1. t \notin Prunes
        BY <3>1 DEF IndexConstants
      <4>2. CASE ShaOf[t] \in ShasOf(entries)
        BY <2>3, <3>0, <3>1, <4>1, <4>2 DEF Proceed, GoTo, Release, AppendStates
      <4>3. CASE ShaOf[t] \notin ShasOf(entries)
        BY <2>3, <3>1, <4>1, <4>3 DEF Proceed, GoTo, AppendStates, AppendSteps
      <4> QED BY <4>2, <4>3
    <3>2. CASE t \notin Requests
      <4>1. /\ snap' = [snap EXCEPT ![t] = entries]
            /\ pc' = [pc EXCEPT ![t] = "listed"]
            /\ holder' = [holder EXCEPT ![Home[t]] = Nobody]
        BY <2>3, <3>2 DEF Proceed, GoTo, Release
      <4>2. "listed" \in PruneStates
        BY DEF PruneStates
      <4> QED BY <3>0, <3>2, <4>1, <4>2
    <3> QED BY <3>1, <3>2
  <2>4. ASSUME NEW t \in Tasks, UseCache(t) PROVE TypeOK'
    BY <2>3, <2>4 DEF UseCache
  <2>5. ASSUME NEW t \in Tasks, TakeFingerprint(t) PROVE TypeOK'
    BY <2>5 DEF TakeFingerprint, GoTo, AppendStates, PruneStates
  <2>6. ASSUME NEW t \in Tasks, Load(t) PROVE TypeOK'
    <3>1. Readable(file) \in SUBSET Requests
      BY ReadableType
    <3>2. mem' \in [Procs -> [loaded : BOOLEAN, entries : SUBSET Requests, fp : File]]
      BY <2>6, <3>1 DEF Load
    <3>3. seen' \in [Procs -> File]
      BY <2>6 DEF Load, NoFile, File
    <3> QED BY <2>3, <2>6, <3>1, <3>2, <3>3 DEF Load
  <2>7. ASSUME NEW t \in Tasks, Open(t) PROVE TypeOK'
    BY <2>7 DEF Open, GoTo, AppendStates, PruneStates, AppendSteps, RewriteSteps
  <2>8. ASSUME NEW t \in Tasks, WriteLine(t) PROVE TypeOK'
    <3>1. t \in Requests
      BY <2>8 DEF WriteLine, PruneStates, RewriteSteps
    <3>2. file' \in File
      BY <2>8, <3>1, ChunkType DEF WriteLine, Write
    <3> QED BY <2>8, <3>1, <3>2 DEF WriteLine, GoTo, AppendStates, AppendSteps
  <2>9. ASSUME NEW t \in Tasks, WriteNewline(t) PROVE TypeOK'
    <3>1. t \in Requests
      BY <2>9 DEF WriteNewline, PruneStates, RewriteSteps
    <3>2. file' \in File
      BY <2>9, NewlineType DEF WriteNewline, Write
    <3> QED BY <2>9, <3>1, <3>2 DEF WriteNewline, GoTo, AppendStates, AppendSteps
  <2>10. ASSUME NEW t \in Tasks, Remember(t) PROVE TypeOK'
    <3>1. t \in Requests
      BY <2>10 DEF Remember, PruneStates, RewriteSteps
    <3>2. mem' \in [Procs -> [loaded : BOOLEAN, entries : SUBSET Requests, fp : File]]
      BY <2>10, <3>1 DEF Remember
    <3> QED BY <2>10, <3>1, <3>2 DEF Remember, GoTo, Release, AppendStates
  <2>11. ASSUME NEW t \in Tasks, Plan(t) PROVE TypeOK'
    <3>1. t \in Prunes
      BY <2>11 DEF Plan, AppendStates, AppendSteps
    <3> QED BY <2>11, <3>1 DEF Plan, GoTo, PruneStates
  <2>12. ASSUME NEW t \in Tasks, pc[t] = "rename" \/ pc[t] = "orphan_rename"
         PROVE  t \in Prunes /\ Replacement(t) \in File
    BY <2>12 DEF Replacement, File, AppendStates, AppendSteps
  <2>13. ASSUME NEW t \in Tasks, Rename(t) PROVE TypeOK'
    BY <2>12, <2>13 DEF Rename, GoTo, PruneStates, RewriteSteps
  <2>14. ASSUME NEW t \in Tasks, Adopt(t) PROVE TypeOK'
    <3>1. t \in Prunes
      BY <2>14 DEF Adopt, AppendStates, AppendSteps
    <3>2. mem' \in [Procs -> [loaded : BOOLEAN, entries : SUBSET Requests, fp : File]]
      BY <2>14, <3>1 DEF Adopt
    <3> QED BY <2>14, <3>1, <3>2 DEF Adopt, GoTo, Release, PruneStates
  <2>15. ASSUME NEW t \in Tasks, WriteFails(t) PROVE TypeOK'
    <3>1. t \in Requests
      BY <2>15 DEF WriteFails, PruneStates, RewriteSteps
    <3>2. file' \in File
      BY <2>15, ChunkType DEF WriteFails, Write
    <3>3. t \notin Prunes /\ Home[t] \in Procs
      BY <3>1 DEF IndexConstants
    <3>4. pc' = [pc EXCEPT ![t] = "failed"] \/ pc' = [pc EXCEPT ![t] = "written"]
      BY <2>15 DEF WriteFails, GoTo
    <3>5. holder' = holder \/ holder' = [holder EXCEPT ![Home[t]] = Nobody]
      BY <2>15 DEF WriteFails, Release
    <3> QED BY <2>15, <3>1, <3>2, <3>3, <3>4, <3>5 DEF WriteFails, AppendStates, AppendSteps
  <2>16. ASSUME NEW t \in Tasks, Cancel(t) PROVE TypeOK'
    <3>1. t \in Requests => pc'[t] \in AppendStates
      BY <2>16 DEF Cancel, GoTo, AppendStates, AppendSteps
    <3>2. t \in Prunes => pc'[t] \in PruneStates
      BY <2>16 DEF Cancel, GoTo, PruneStates, RewriteSteps
    <3>3. holder' = holder \/ holder' = [holder EXCEPT ![Home[t]] = Nobody]
      BY <2>16 DEF Cancel, Release
    <3>4. /\ pc' = [pc EXCEPT ![t] = pc'[t]]
          /\ UNCHANGED <<file, detached, mem, seen, snap, pruned>>
      BY <2>16 DEF Cancel, GoTo
    <3>5. Home[t] \in Procs
      BY DEF IndexConstants
    <3>6. pc' \in [Tasks -> AppendStates \cup PruneStates]
      BY <3>1, <3>2, <3>4
    <3>7. holder' \in [Procs -> Tasks \cup {Nobody}]
      BY <3>3, <3>5
    <3> QED BY <3>1, <3>2, <3>4, <3>6, <3>7
  <2>17. ASSUME NEW t \in Tasks, OrphanLands(t) PROVE TypeOK'
    <3>1. file' \in File
      <4>1. CASE pc[t] = "orphan_line"
        <5>1. t \in Requests
          BY <4>1 DEF PruneStates, RewriteSteps
        <5> QED BY <2>17, <4>1, <5>1, ChunkType DEF OrphanLands, Write
      <4>2. CASE pc[t] = "orphan_newline"
        BY <2>17, <4>2, NewlineType DEF OrphanLands, Write
      <4>3. CASE pc[t] = "orphan_rename"
        BY <2>17, <4>3, <2>12 DEF OrphanLands
      <4> QED BY <2>17, <4>1, <4>2, <4>3 DEF OrphanLands
    <3>2. detached' \subseteq Tasks
      BY <2>17 DEF OrphanLands
    <3>3. /\ pc' = [pc EXCEPT ![t] = "cancelled"]
          /\ UNCHANGED <<mem, seen, holder, snap, pruned>>
      BY <2>17 DEF OrphanLands, GoTo
    <3>4. "cancelled" \in AppendStates \cap PruneStates
      BY DEF AppendStates, PruneStates
    <3> QED BY <3>1, <3>2, <3>3, <3>4
  <2>18. ASSUME NEW p \in Procs, Restart(p) PROVE TypeOK'
    <3>1. file' \in File
      BY <2>18, ChunkType DEF Restart
    <3> QED BY <2>18, <3>1 DEF Restart, Unloaded, NoFile, File, AppendStates, PruneStates
  <2>19. CASE UNCHANGED vars
    BY <2>19 DEF vars
  <2> QED BY <2>1, <2>2, <2>4, <2>5, <2>6, <2>7, <2>8, <2>9, <2>10, <2>11, <2>13,
             <2>14, <2>15, <2>16, <2>17, <2>18, <2>19 DEF Next, Step
<1> QED BY <1>1, <1>2, PTL DEF Spec

-----------------------------------------------------------------------------
(* The Mutex.  A step moves one task; it keeps the discipline when it stays *)
(* on its side of the lock, takes a free lock, or gives its own lock back.  *)
LEMMA LockStep ==
    ASSUME TypeOK, LockDiscipline, NEW t \in Tasks, NEW where,
           pc' = [pc EXCEPT ![t] = where],
           \/ /\ UNCHANGED holder
              /\ pc[t] \in Holding <=> where \in Holding
           \/ /\ holder[Home[t]] = Nobody
              /\ holder' = [holder EXCEPT ![Home[t]] = t]
              /\ where \in Holding
           \/ /\ pc[t] \in Holding
              /\ holder' = [holder EXCEPT ![Home[t]] = Nobody]
              /\ where \notin Holding
    PROVE  LockDiscipline'
<1> USE IndexConstants DEF Tasks
<1>1. SUFFICES ASSUME NEW p \in Procs, NEW u \in Tasks
               PROVE  holder'[p] = u <=> (Home[u] = p /\ pc'[u] \in Holding)
  BY DEF LockDiscipline
<1>2. /\ pc \in [Tasks -> AppendStates \cup PruneStates]
      /\ holder \in [Procs -> Tasks \cup {Nobody}]
      /\ Home[t] \in Procs /\ u # Nobody /\ t # Nobody
  BY DEF TypeOK
<1>3. /\ holder[p] = u <=> (Home[u] = p /\ pc[u] \in Holding)
      /\ holder[p] = t <=> (Home[t] = p /\ pc[t] \in Holding)
      /\ holder[Home[t]] = t <=> pc[t] \in Holding
  BY <1>2 DEF LockDiscipline
<1>4. pc'[u] = IF u = t THEN where ELSE pc[u]
  BY <1>2
<1>5. CASE UNCHANGED holder /\ (pc[t] \in Holding <=> where \in Holding)
  BY <1>2, <1>3, <1>4, <1>5
<1>6. CASE /\ holder[Home[t]] = Nobody
           /\ holder' = [holder EXCEPT ![Home[t]] = t]
           /\ where \in Holding
  BY <1>2, <1>3, <1>4, <1>6
<1>7. CASE /\ pc[t] \in Holding
           /\ holder' = [holder EXCEPT ![Home[t]] = Nobody]
           /\ where \notin Holding
  BY <1>2, <1>3, <1>4, <1>7
<1> QED BY <1>5, <1>6, <1>7

(* No await of index.rs drops the guard early and no return keeps it, with  *)
(* any number of callers and processes and under every fault.               *)
THEOREM MutexHeld == Spec => []LockDiscipline
<1>1. Init => LockDiscipline
  BY IndexConstants DEF Init, LockDiscipline, Holding, AppendSteps, RewriteSteps, Tasks
<1>2. TypeOK /\ LockDiscipline /\ [Next]_vars => LockDiscipline'
  <2> SUFFICES ASSUME TypeOK, LockDiscipline, [Next]_vars
               PROVE  LockDiscipline'
    OBVIOUS
  <2> USE DEF GoTo, Release, Holding, AppendSteps, RewriteSteps
  <2>1. ASSUME NEW t \in Tasks, Call(t) PROVE LockDiscipline'
    BY <2>1, LockStep DEF Call
  <2>2. ASSUME NEW t \in Tasks, Lock(t) PROVE LockDiscipline'
    <3>1. CASE pc[t] = "retaining"
      BY <2>2, <3>1, LockStep DEF Lock
    <3>2. CASE pc[t] # "retaining"
      BY <2>2, <3>2, LockStep DEF Lock
    <3> QED BY <3>1, <3>2
  <2>3. ASSUME NEW t \in Tasks, NEW entries, pc[t] \in Holding, Proceed(t, entries)
        PROVE  LockDiscipline'
    <3>1. CASE t \in Requests /\ ShaOf[t] \in ShasOf(entries)
      BY <2>3, <3>1, LockStep DEF Proceed
    <3>2. CASE t \in Requests /\ ShaOf[t] \notin ShasOf(entries)
      BY <2>3, <3>2, LockStep DEF Proceed
    <3>3. CASE t \notin Requests
      BY <2>3, <3>3, LockStep DEF Proceed
    <3> QED BY <3>1, <3>2, <3>3
  <2>4. ASSUME NEW t \in Tasks, UseCache(t) PROVE LockDiscipline'
    BY <2>3, <2>4 DEF UseCache
  <2>5. ASSUME NEW t \in Tasks, TakeFingerprint(t) PROVE LockDiscipline'
    BY <2>5, LockStep DEF TakeFingerprint
  <2>6. ASSUME NEW t \in Tasks, Load(t) PROVE LockDiscipline'
    BY <2>3, <2>6 DEF Load
  <2>7. ASSUME NEW t \in Tasks, Open(t) PROVE LockDiscipline'
    BY <2>7, LockStep DEF Open
  <2>8. ASSUME NEW t \in Tasks, WriteLine(t) PROVE LockDiscipline'
    BY <2>8, LockStep DEF WriteLine
  <2>9. ASSUME NEW t \in Tasks, WriteNewline(t) PROVE LockDiscipline'
    BY <2>9, LockStep DEF WriteNewline
  <2>10. ASSUME NEW t \in Tasks, Remember(t) PROVE LockDiscipline'
    BY <2>10, LockStep DEF Remember
  <2>11. ASSUME NEW t \in Tasks, Plan(t) PROVE LockDiscipline'
    BY <2>11, LockStep DEF Plan
  <2>12. ASSUME NEW t \in Tasks, Rename(t) PROVE LockDiscipline'
    BY <2>12, LockStep DEF Rename
  <2>13. ASSUME NEW t \in Tasks, Adopt(t) PROVE LockDiscipline'
    BY <2>13, LockStep DEF Adopt
  <2>14. ASSUME NEW t \in Tasks, WriteFails(t) PROVE LockDiscipline'
    <3>1. \/ pc' = [pc EXCEPT ![t] = "failed"]
             /\ holder' = [holder EXCEPT ![Home[t]] = Nobody]
          \/ pc' = [pc EXCEPT ![t] = "written"] /\ UNCHANGED holder
      BY <2>14 DEF WriteFails
    <3>2. pc[t] \in {"line", "newline"}
      BY <2>14 DEF WriteFails
    <3> QED BY <3>1, <3>2, LockStep
  <2>15. ASSUME NEW t \in Tasks, Cancel(t) PROVE LockDiscipline'
    <3> DEFINE where == CASE pc[t] = "line" -> "orphan_line"
                          [] pc[t] = "newline" -> "orphan_newline"
                          [] pc[t] = "rename" -> "orphan_rename"
                          [] OTHER -> "cancelled"
    <3>1. where \notin Holding
      OBVIOUS
    <3>2. pc' = [pc EXCEPT ![t] = where]
      BY <2>15 DEF Cancel
    <3>3. \/ pc[t] \in Holding /\ holder' = [holder EXCEPT ![Home[t]] = Nobody]
          \/ pc[t] \notin Holding /\ UNCHANGED holder
      BY <2>15 DEF Cancel
    <3> HIDE DEF where
    <3> QED BY <3>1, <3>2, <3>3, LockStep
  <2>16. ASSUME NEW t \in Tasks, OrphanLands(t) PROVE LockDiscipline'
    <3>1. pc[t] \in {"orphan_line", "orphan_newline", "orphan_rename"}
      BY <2>16 DEF OrphanLands
    <3>2. pc' = [pc EXCEPT ![t] = "cancelled"] /\ UNCHANGED holder
      BY <2>16 DEF OrphanLands
    <3> QED BY <3>1, <3>2, LockStep
  <2>17. ASSUME NEW p \in Procs, Restart(p) PROVE LockDiscipline'
    <3> SUFFICES ASSUME NEW q \in Procs, NEW u \in Tasks
                 PROVE  holder'[q] = u <=> (Home[u] = q /\ pc'[u] \in Holding)
      BY DEF LockDiscipline
    <3>1. holder[q] = u <=> (Home[u] = q /\ pc[u] \in Holding)
      BY DEF LockDiscipline
    <3>2. /\ holder'[q] = IF q = p THEN Nobody ELSE holder[q]
          /\ u # Nobody
      BY <2>17, IndexConstants DEF Restart, TypeOK
    <3>3. CASE Home[u] = p /\ (Active(u) \/ pc[u] \in Orphaned)
      <4>1. pc'[u] = "lost"
        BY <2>17, <3>3 DEF Restart
      <4> QED BY <3>1, <3>2, <3>3, <4>1
    <3>4. CASE ~(Home[u] = p /\ (Active(u) \/ pc[u] \in Orphaned))
      <4>1. pc'[u] = pc[u]
        BY <2>17, <3>4 DEF Restart
      <4> QED BY <3>1, <3>2, <3>4, <4>1 DEF Active
    <3> QED BY <3>3, <3>4
  <2>18. CASE UNCHANGED vars
    BY <2>18 DEF vars, LockDiscipline
  <2> QED BY <2>1, <2>2, <2>4, <2>5, <2>6, <2>7, <2>8, <2>9, <2>10, <2>11, <2>12,
             <2>13, <2>14, <2>15, <2>16, <2>17, <2>18 DEF Next, Step
<1> QED BY <1>1, <1>2, TypeCorrect, PTL DEF Spec

-----------------------------------------------------------------------------
(* One process without faults.                                             *)
Quiet(p) == Faults = {} /\ Procs = {p}

LEMMA ReadableFacts ==
    ASSUME NEW f \in File, f.tail = {}, NEW r \in Requests
    PROVE  /\ Readable(f) = f.lines
           /\ Readable(WithChunk(f, r)) = Readable(f) \cup {r}
           /\ WithChunk(f, r).tail = {r}
BY DEF Readable, WithChunk, File

LEMMA NewlineFacts ==
    ASSUME NEW f \in File
    PROVE  /\ Readable(WithNewline(f)) = Readable(f)
           /\ WithNewline(f).tail = {}
BY DEF Readable, WithNewline, File

LEMMA ReplacementFacts ==
    ASSUME NEW t \in Prunes, snap[t] \in SUBSET Requests
    PROVE  /\ Readable(Replacement(t)) = snap[t]
           /\ Replacement(t).tail = {}
BY DEF Readable, Replacement

LEMMA OneHolder ==
    ASSUME TypeOK, LockDiscipline, NEW p, Quiet(p),
           NEW t \in Tasks, pc[t] \in Holding
    PROVE  \A u \in Tasks \ {t} : pc[u] \notin Holding
BY IndexConstants DEF LockDiscipline, Quiet, TypeOK

Calm == UniqueDigests /\ OnlyTheWriterHasATail /\ WritersKnowTheFile
        /\ CopiesFollow /\ OnlyAppendedListed

(* A step that only moves a task's program counter, between places where   *)
(* the invariant asks nothing of it, keeps the invariant.                  *)
LEMMA CalmMove ==
    ASSUME TypeOK, Calm, NEW t \in Tasks, NEW where,
           pc' = [pc EXCEPT ![t] = where],
           UNCHANGED <<file, detached, mem, seen, snap>>,
           pc[t] \in {"new", "waiting", "retaining", "locked", "listed"},
           where \in {"waiting", "locked", "rename", "duplicate"}
    PROVE  Calm'
<1>1. pc \in [Tasks -> AppendStates \cup PruneStates]
  BY DEF TypeOK
<1>2. \A u \in Tasks : pc'[u] = IF u = t THEN where ELSE pc[u]
  BY <1>1
<1>3. UniqueDigests'
  BY DEF Calm, UniqueDigests, Readable
<1>4. OnlyTheWriterHasATail'
  BY <1>2 DEF Calm, OnlyTheWriterHasATail, Orphaned
<1>5. WritersKnowTheFile'
  BY <1>2 DEF Calm, WritersKnowTheFile, Readable, Replacement
<1>6. CopiesFollow'
  BY <1>2 DEF Calm, CopiesFollow, Changing, CacheHit, Readable
<1>7. OnlyAppendedListed'
  BY <1>2, IndexConstants DEF Calm, OnlyAppendedListed, Inserted, Readable, Tasks
<1> QED BY <1>3, <1>4, <1>5, <1>6, <1>7 DEF Calm

(* What ensure_loaded leaves to the caller: the resident copy is the file.  *)
LEMMA CalmProceed ==
    ASSUME TypeOK, LockDiscipline, Calm, NEW p, Quiet(p), NEW t \in Tasks,
           pc[t] \in {"locked", "reading"},
           Proceed(t, Readable(file)),
           UNCHANGED <<file, detached>>,
           mem' \in [Procs -> [loaded : BOOLEAN, entries : SUBSET Requests, fp : File]],
           mem'[p].entries = Readable(file)
    PROVE  Calm'
<1> DEFINE where == pc'[t]
<1>1. /\ pc \in [Tasks -> AppendStates \cup PruneStates]
      /\ Home[t] = p
      /\ \A u \in Tasks : Home[u] = p
      /\ \A u \in Tasks \ {t} : pc[u] \notin Holding
  BY OneHolder, IndexConstants DEF TypeOK, Quiet, Holding
<1>2. /\ pc' = [pc EXCEPT ![t] = where]
      /\ \/ t \in Requests /\ where = "duplicate" /\ UNCHANGED snap
         \/ /\ t \in Requests /\ where = "opening" /\ UNCHANGED snap
            /\ ShaOf[t] \notin ShasOf(Readable(file))
         \/ t \in Prunes /\ where = "listed" /\ snap' = [snap EXCEPT ![t] = Readable(file)]
  BY <1>1 DEF Proceed, GoTo, Tasks
<1> HIDE DEF where
<1>3. \A u \in Tasks : pc'[u] = IF u = t THEN where ELSE pc[u]
  BY <1>1, <1>2
<1>4. UniqueDigests'
  BY DEF Calm, UniqueDigests, Readable
<1>5. OnlyTheWriterHasATail'
  BY <1>2, <1>3 DEF Calm, OnlyTheWriterHasATail, Orphaned
<1>6. WritersKnowTheFile'
  <2>1. ASSUME NEW u \in Tasks
        PROVE  pc'[u] \notin {"reading", "line", "newline", "written", "renamed"}
    BY <1>1, <1>2, <1>3 DEF Holding, AppendSteps, RewriteSteps
  <2>2. ASSUME NEW u \in Tasks, pc'[u] = "opening"
        PROVE  u = t
    BY <1>1, <1>3, <2>2 DEF Holding, AppendSteps
  <2>3. ASSUME NEW u \in Tasks, pc'[u] = "opening"
        PROVE  mem'[Home[u]].entries = Readable(file') /\ ShaOf[u] \notin ShasOf(Readable(file'))
    BY <1>1, <1>2, <1>3, <2>2, <2>3
  <2>4. Readable(file)' = Readable(file')
    BY DEF Readable
  <2> QED BY <2>1, <2>3, <2>4 DEF WritersKnowTheFile
<1>7. CopiesFollow'
  <2>1. Readable(file)' = Readable(file)
    BY DEF Readable
  <2> QED BY <2>1 DEF CopiesFollow, Quiet
<1>8. OnlyAppendedListed'
  <2>1. Inserted' = Inserted
    BY <1>1, <1>2, <1>3 DEF Inserted, Tasks
  <2>2. Readable(file)' = Readable(file)
    BY DEF Readable
  <2>3. ASSUME NEW u \in Prunes
        PROVE  snap'[u] = snap[u] \/ snap'[u] = Readable(file)
    BY <1>2, <2>3 DEF TypeOK
  <2> QED BY <2>1, <2>2, <2>3 DEF Calm, OnlyAppendedListed, UniqueDigests
<1> QED BY <1>4, <1>5, <1>6, <1>7, <1>8 DEF Calm

(* The two writes of an append, with the new entry's digest still absent.   *)
LEMMA CalmWriteLine ==
    ASSUME TypeOK, LockDiscipline, Calm, NEW p, Quiet(p), NEW t \in Tasks,
           WriteLine(t)
    PROVE  Calm'
<1>1. /\ pc \in [Tasks -> AppendStates \cup PruneStates]
      /\ \A u \in Tasks : Home[u] = p
      /\ \A u \in Tasks \ {t} : pc[u] \notin Holding
      /\ t \in Requests /\ file \in File
      /\ pc[t] = "line"
  BY OneHolder, IndexConstants DEF TypeOK, Quiet, Holding, WriteLine, AppendSteps,
     PruneStates, RewriteSteps, Tasks
<1>2. \A u \in Tasks : pc'[u] = IF u = t THEN "newline" ELSE pc[u]
  BY <1>1 DEF WriteLine, GoTo
<1>3. file.tail = {} /\ detached = {} /\ file' = WithChunk(file, t)
  BY <1>1 DEF Calm, OnlyTheWriterHasATail, WriteLine, Write, Holding, AppendSteps
<1>4. Readable(file') = Readable(file) \cup {t} /\ file'.tail = {t}
  BY <1>1, <1>3, ReadableFacts
<1>5. Readable(file)' = Readable(file')
  BY DEF Readable
<1>6. /\ mem[Home[t]].entries = Readable(file)
      /\ ShaOf[t] \notin ShasOf(Readable(file))
  BY <1>1 DEF Calm, WritersKnowTheFile
<1>7. UniqueDigests'
  BY <1>4, <1>5, <1>6 DEF Calm, UniqueDigests, ShasOf
<1>8. OnlyTheWriterHasATail'
  BY <1>1, <1>2, <1>4 DEF Calm, OnlyTheWriterHasATail, Orphaned, WriteLine, Holding, AppendSteps
<1>9. WritersKnowTheFile'
  BY <1>1, <1>2, <1>4, <1>5, <1>6
     DEF WritersKnowTheFile, WriteLine, Holding, AppendSteps, RewriteSteps
<1>10. CopiesFollow'
  BY <1>1, <1>2 DEF CopiesFollow, Changing, Quiet
<1>11. OnlyAppendedListed'
  <2>1. Inserted \cup {t} \subseteq Inserted'
    BY <1>1, <1>2 DEF Inserted, Tasks
  <2> QED BY <1>4, <1>5, <2>1 DEF Calm, OnlyAppendedListed, WriteLine
<1> QED BY <1>7, <1>8, <1>9, <1>10, <1>11 DEF Calm

LEMMA CalmWriteNewline ==
    ASSUME TypeOK, LockDiscipline, Calm, NEW p, Quiet(p), NEW t \in Tasks,
           WriteNewline(t)
    PROVE  Calm'
<1>1. /\ pc \in [Tasks -> AppendStates \cup PruneStates]
      /\ \A u \in Tasks : Home[u] = p
      /\ \A u \in Tasks \ {t} : pc[u] \notin Holding
      /\ t \in Requests /\ file \in File
      /\ pc[t] = "newline"
  BY OneHolder, IndexConstants DEF TypeOK, Quiet, Holding, WriteNewline, AppendSteps,
     PruneStates, RewriteSteps, Tasks
<1>2. \A u \in Tasks : pc'[u] = IF u = t THEN "written" ELSE pc[u]
  BY <1>1 DEF WriteNewline, GoTo
<1>3. detached = {} /\ file' = WithNewline(file)
  BY <1>1 DEF Calm, OnlyTheWriterHasATail, WriteNewline, Write
<1>4. Readable(file') = Readable(file) /\ file'.tail = {}
  BY <1>1, <1>3, NewlineFacts
<1>5. Readable(file)' = Readable(file')
  BY DEF Readable
<1>6. mem[Home[t]].entries \cup {t} = Readable(file)
  BY <1>1 DEF Calm, WritersKnowTheFile
<1>7. UniqueDigests'
  BY <1>4, <1>5 DEF Calm, UniqueDigests
<1>8. OnlyTheWriterHasATail'
  BY <1>1, <1>2, <1>4 DEF Calm, OnlyTheWriterHasATail, Orphaned, WriteNewline, Holding, AppendSteps
<1>9. WritersKnowTheFile'
  BY <1>1, <1>2, <1>4, <1>5, <1>6
     DEF WritersKnowTheFile, WriteNewline, Holding, AppendSteps, RewriteSteps
<1>10. CopiesFollow'
  BY <1>1, <1>2 DEF CopiesFollow, Changing, Quiet
<1>11. OnlyAppendedListed'
  <2>1. Inserted' = Inserted
    BY <1>1, <1>2 DEF Inserted, Tasks
  <2> QED BY <1>4, <1>5, <2>1 DEF Calm, OnlyAppendedListed, WriteNewline
<1> QED BY <1>7, <1>8, <1>9, <1>10, <1>11 DEF Calm

(* A finished append or rewrite leaves the copy equal to the file.          *)
LEMMA CalmFinish ==
    ASSUME TypeOK, LockDiscipline, Calm, NEW p, Quiet(p), NEW t \in Tasks,
           pc[t] \in {"written", "renamed"},
           NEW where, where \in {"appended", "rewritten"},
           pc[t] = "written" <=> where = "appended",
           pc' = [pc EXCEPT ![t] = where],
           UNCHANGED <<file, detached, seen, snap>>,
           mem'[p].entries = Readable(file)
    PROVE  Calm'
<1>1. /\ pc \in [Tasks -> AppendStates \cup PruneStates]
      /\ \A u \in Tasks : Home[u] = p
      /\ \A u \in Tasks \ {t} : pc[u] \notin Holding
  BY OneHolder, IndexConstants DEF TypeOK, Quiet, Holding, AppendSteps, RewriteSteps
<1>2. \A u \in Tasks : pc'[u] = IF u = t THEN where ELSE pc[u]
  BY <1>1
<1>3. Readable(file)' = Readable(file)
  BY DEF Readable
<1>4. UniqueDigests'
  BY <1>3 DEF Calm, UniqueDigests
<1>5. OnlyTheWriterHasATail'
  BY <1>2 DEF Calm, OnlyTheWriterHasATail, Orphaned
<1>6. WritersKnowTheFile'
  BY <1>1, <1>2 DEF WritersKnowTheFile, Holding, AppendSteps, RewriteSteps
<1>7. CopiesFollow'
  BY <1>3 DEF CopiesFollow, Quiet
<1>8. OnlyAppendedListed'
  <2>1. Inserted \subseteq Inserted'
    BY <1>1, <1>2 DEF Inserted, Tasks
  <2> QED BY <1>3, <2>1 DEF Calm, OnlyAppendedListed
<1> QED BY <1>4, <1>5, <1>6, <1>7, <1>8 DEF Calm

LEMMA CalmRename ==
    ASSUME TypeOK, LockDiscipline, Calm, NEW p, Quiet(p), NEW t \in Tasks,
           Rename(t)
    PROVE  Calm'
<1>1. /\ pc \in [Tasks -> AppendStates \cup PruneStates]
      /\ \A u \in Tasks : Home[u] = p
      /\ \A u \in Tasks \ {t} : pc[u] \notin Holding
      /\ t \in Prunes /\ snap[t] \in SUBSET Requests
      /\ pc[t] = "rename"
  BY OneHolder, IndexConstants DEF TypeOK, Quiet, Holding, Rename, AppendSteps,
     AppendStates, RewriteSteps, Tasks
<1>2. \A u \in Tasks : pc'[u] = IF u = t THEN "renamed" ELSE pc[u]
  BY <1>1 DEF Rename, GoTo
<1>3. detached' = {}
  BY <1>1 DEF Rename, Calm, OnlyTheWriterHasATail, HasOpenHandle, Orphaned, Holding, AppendSteps
<1>4. Readable(file') = snap[t] /\ file'.tail = {}
  BY <1>1, ReplacementFacts DEF Rename
<1>5. Readable(file)' = Readable(file') /\ snap' = snap
  BY DEF Readable, Rename
<1>6. UniqueDigests'
  BY <1>1, <1>4, <1>5 DEF Calm, UniqueDigests, OnlyAppendedListed
<1>7. OnlyTheWriterHasATail'
  BY <1>1, <1>2, <1>3, <1>4 DEF Calm, OnlyTheWriterHasATail, Orphaned, Holding, AppendSteps
<1>8. WritersKnowTheFile'
  <2>1. file' = Replacement(t) /\ Replacement(t)' = Replacement(t)
    BY DEF Rename, Replacement
  <2>2. ASSUME NEW u \in Tasks
        PROVE  /\ pc'[u] \notin {"reading", "opening", "line", "newline", "written"}
               /\ pc'[u] = "renamed" => u = t
    BY <1>1, <1>2 DEF Holding, AppendSteps, RewriteSteps
  <2> QED BY <2>1, <2>2 DEF WritersKnowTheFile
<1>9. CopiesFollow'
  BY <1>1, <1>2 DEF CopiesFollow, Changing, Quiet
<1>10. OnlyAppendedListed'
  <2>1. Inserted' = Inserted
    BY <1>1, <1>2 DEF Inserted, Tasks
  <2> QED BY <1>1, <1>4, <1>5, <2>1 DEF Calm, OnlyAppendedListed
<1> QED BY <1>6, <1>7, <1>8, <1>9, <1>10 DEF Calm

LEMMA CalmRestart ==
    ASSUME TypeOK, Calm, NEW p, Quiet(p), Restart(p)
    PROVE  Calm'
<1>1. \A u \in Tasks : Home[u] = p
  BY IndexConstants DEF Quiet
<1>2. \A u \in Tasks : ~Active(u)
  BY <1>1 DEF Restart, Quiet
<1>3. pc' = pc /\ UNCHANGED <<file, detached, seen, snap>> /\ ~mem'[p].loaded
  <2>1. pc \in [Tasks -> AppendStates \cup PruneStates] /\ mem \in [Procs -> [loaded : BOOLEAN, entries : SUBSET Requests, fp : File]]
    BY DEF TypeOK
  <2>2. \A u \in Tasks : ~(Active(u) \/ pc[u] \in Orphaned)
    BY <1>2 DEF Calm, OnlyTheWriterHasATail
  <2>3. pc' = [u \in Tasks |-> pc[u]] /\ UNCHANGED <<file, detached, seen, snap>>
    BY <2>2 DEF Restart, Active, Holding, AppendSteps, Orphaned
  <2>4. ~mem'[p].loaded
    BY <2>1 DEF Restart, Unloaded, Quiet
  <2> QED BY <2>1, <2>3, <2>4
<1>4. Readable(file)' = Readable(file)
  BY <1>3 DEF Readable
<1>5. UniqueDigests'
  BY <1>4 DEF Calm, UniqueDigests
<1>6. OnlyTheWriterHasATail'
  BY <1>3 DEF Calm, OnlyTheWriterHasATail
<1>7. WritersKnowTheFile'
  BY <1>2, <1>3 DEF WritersKnowTheFile, Active, Holding, AppendSteps, RewriteSteps
<1>8. CopiesFollow'
  BY <1>3 DEF CopiesFollow, CacheHit, Quiet
<1>9. OnlyAppendedListed'
  BY <1>3, <1>4 DEF Calm, OnlyAppendedListed, Inserted
<1> QED BY <1>5, <1>6, <1>7, <1>8, <1>9 DEF Calm

LEMMA CalmStep ==
    ASSUME TypeOK, TypeOK', LockDiscipline, Calm, [Next]_vars, NEW p, Quiet(p)
    PROVE  Calm'
<1>1. /\ \A u \in Tasks : Home[u] = p
      /\ p \in Procs
  BY IndexConstants DEF Quiet
<1>2. ASSUME NEW t \in Tasks, Call(t) PROVE Calm'
  BY <1>2, CalmMove DEF Call, GoTo
<1>3. ASSUME NEW t \in Tasks, Lock(t) PROVE Calm'
  <2>1. CASE pc[t] = "retaining"
    BY <1>3, <2>1, CalmMove DEF Lock, GoTo
  <2>2. CASE pc[t] # "retaining"
    BY <1>3, <2>2, CalmMove DEF Lock, GoTo, Waiting
  <2> QED BY <2>1, <2>2
<1>4. ASSUME NEW t \in Tasks, UseCache(t) PROVE Calm'
  <2>1. ~Changing(p)
    BY <1>1, <1>4, OneHolder DEF UseCache, Changing, Holding, AppendSteps, RewriteSteps
  <2>2. mem[p].entries = Readable(file)
    BY <1>1, <1>4, <2>1 DEF UseCache, Calm, CopiesFollow
  <2> QED BY <1>1, <1>4, <2>2, CalmProceed DEF UseCache, TypeOK
<1>5. ASSUME NEW t \in Tasks, TakeFingerprint(t) PROVE Calm'
  <2>1. /\ pc \in [Tasks -> AppendStates \cup PruneStates]
        /\ seen \in [Procs -> File]
        /\ pc[t] = "locked"
        /\ \A u \in Tasks \ {t} : pc[u] \notin Holding
    BY <1>5, OneHolder DEF TakeFingerprint, TypeOK, Holding
  <2>2. \A u \in Tasks : pc'[u] = IF u = t THEN "reading" ELSE pc[u]
    BY <1>5, <2>1 DEF TakeFingerprint, GoTo
  <2>3. UNCHANGED <<file, detached, mem, snap>> /\ seen'[p] = file
    BY <1>1, <1>5, <2>1 DEF TakeFingerprint
  <2>4. Readable(file)' = Readable(file)
    BY <2>3 DEF Readable
  <2>5. UniqueDigests'
    BY <2>4 DEF Calm, UniqueDigests
  <2>6. OnlyTheWriterHasATail'
    BY <2>1, <2>2, <2>3 DEF Calm, OnlyTheWriterHasATail, Orphaned
  <2>7. WritersKnowTheFile'
    BY <1>1, <2>1, <2>2, <2>3 DEF WritersKnowTheFile, Holding, AppendSteps, RewriteSteps
  <2>8. CopiesFollow'
    BY <2>1, <2>2, <2>3, <2>4 DEF Calm, CopiesFollow, Changing, CacheHit
  <2>9. OnlyAppendedListed'
    BY <2>1, <2>2, <2>3, <2>4 DEF Calm, OnlyAppendedListed, Inserted, Tasks
  <2> QED BY <2>5, <2>6, <2>7, <2>8, <2>9 DEF Calm
<1>6. ASSUME NEW t \in Tasks, Load(t) PROVE Calm'
  <2>1. mem' \in [Procs -> [loaded : BOOLEAN, entries : SUBSET Requests, fp : File]]
    BY DEF TypeOK
  <2>2. mem'[p].entries = Readable(file)
    BY <1>1, <1>6 DEF Load, TypeOK
  <2> QED BY <1>6, <2>1, <2>2, CalmProceed DEF Load
<1>7. ASSUME NEW t \in Tasks, Open(t) PROVE Calm'
  <2>1. /\ pc \in [Tasks -> AppendStates \cup PruneStates]
        /\ pc[t] = "opening"
    BY <1>7 DEF Open, TypeOK
  <2>2. \A u \in Tasks : pc'[u] = IF u = t THEN "line" ELSE pc[u]
    BY <1>7, <2>1 DEF Open, GoTo
  <2>3. UNCHANGED <<file, detached, mem, seen, snap>>
    BY <1>7 DEF Open
  <2>4. Readable(file)' = Readable(file)
    BY <2>3 DEF Readable
  <2>5. UniqueDigests'
    BY <2>4 DEF Calm, UniqueDigests
  <2>6. OnlyTheWriterHasATail'
    BY <2>1, <2>2, <2>3 DEF Calm, OnlyTheWriterHasATail, Orphaned
  <2>7. WritersKnowTheFile'
    BY <2>1, <2>2, <2>3, <2>4 DEF Calm, WritersKnowTheFile, Replacement
  <2>8. CopiesFollow'
    BY <2>1, <2>2, <2>3, <2>4 DEF Calm, CopiesFollow, Changing, CacheHit
  <2>9. OnlyAppendedListed'
    BY <2>1, <2>2, <2>3, <2>4 DEF Calm, OnlyAppendedListed, Inserted, Tasks
  <2> QED BY <2>5, <2>6, <2>7, <2>8, <2>9 DEF Calm
<1>8. ASSUME NEW t \in Tasks, WriteLine(t) PROVE Calm'
  BY <1>8, CalmWriteLine
<1>9. ASSUME NEW t \in Tasks, WriteNewline(t) PROVE Calm'
  BY <1>9, CalmWriteNewline
<1>10. ASSUME NEW t \in Tasks, Remember(t) PROVE Calm'
  <2>1. mem'[p].entries = mem[p].entries \cup {t}
    BY <1>1, <1>10 DEF Remember, TypeOK
  <2>2. mem[p].entries \cup {t} = Readable(file)
    BY <1>1, <1>10 DEF Remember, Calm, WritersKnowTheFile
  <2> QED BY <1>10, <2>1, <2>2, CalmFinish DEF Remember, GoTo
<1>11. ASSUME NEW t \in Tasks, Plan(t) PROVE Calm'
  <2>1. /\ pc \in [Tasks -> AppendStates \cup PruneStates]
        /\ snap \in [Prunes -> SUBSET Requests]
        /\ pc[t] = "listed"
    BY <1>11 DEF Plan, TypeOK
  <2>2. \A u \in Tasks : pc'[u] = IF u = t THEN "retaining" ELSE pc[u]
    BY <1>11, <2>1 DEF Plan, GoTo
  <2>3. /\ UNCHANGED <<file, detached, mem, seen>>
        /\ \A u \in Prunes : snap'[u] \subseteq snap[u]
    BY <1>11, <2>1 DEF Plan
  <2>4. Readable(file)' = Readable(file)
    BY <2>3 DEF Readable
  <2>5. UniqueDigests'
    BY <2>4 DEF Calm, UniqueDigests
  <2>6. OnlyTheWriterHasATail'
    BY <2>1, <2>2, <2>3 DEF Calm, OnlyTheWriterHasATail, Orphaned
  <2>7. WritersKnowTheFile'
    <3>1. ASSUME NEW u \in Tasks, pc'[u] = "renamed"
          PROVE  file' = Replacement(u)'
      <4>1. u # t /\ pc[u] = "renamed"
        BY <2>2, <3>1
      <4>2. snap'[u] = snap[u]
        BY <1>11, <2>1, <4>1, <3>1 DEF Plan, TypeOK, Tasks, AppendStates, AppendSteps
      <4> QED BY <2>3, <4>1, <4>2 DEF Calm, WritersKnowTheFile, Replacement
    <3> QED BY <2>1, <2>2, <2>3, <2>4, <3>1 DEF Calm, WritersKnowTheFile
  <2>8. CopiesFollow'
    BY <2>1, <2>2, <2>3, <2>4 DEF Calm, CopiesFollow, Changing, CacheHit
  <2>9. OnlyAppendedListed'
    BY <2>1, <2>2, <2>3, <2>4 DEF Calm, OnlyAppendedListed, Inserted, Tasks
  <2> QED BY <2>5, <2>6, <2>7, <2>8, <2>9 DEF Calm
<1>12. ASSUME NEW t \in Tasks, Rename(t) PROVE Calm'
  BY <1>12, CalmRename
<1>13. ASSUME NEW t \in Tasks, Adopt(t) PROVE Calm'
  <2>1. mem'[p].entries = snap[t]
    BY <1>1, <1>13 DEF Adopt, TypeOK
  <2>2. t \in Prunes /\ snap[t] \in SUBSET Requests
    BY <1>13 DEF Adopt, TypeOK, Tasks, AppendStates, AppendSteps
  <2>3. snap[t] = Readable(file)
    BY <1>13, <2>2, ReplacementFacts DEF Adopt, Calm, WritersKnowTheFile
  <2> QED BY <1>13, <2>1, <2>3, CalmFinish DEF Adopt, GoTo
<1>14. ASSUME NEW t \in Tasks, WriteFails(t) \/ Cancel(t) \/ OrphanLands(t) PROVE Calm'
  BY <1>14 DEF WriteFails, Cancel, OrphanLands, Quiet, Calm, OnlyTheWriterHasATail, Orphaned
<1>15. ASSUME NEW q \in Procs, Restart(q) PROVE Calm'
  BY <1>15, CalmRestart DEF Quiet
<1>16. CASE UNCHANGED vars
  <2>1. UNCHANGED <<file, detached, mem, seen, pc, snap>>
    BY <1>16 DEF vars
  <2> QED BY <2>1, SMTT(30) DEF Calm, UniqueDigests, OnlyTheWriterHasATail, WritersKnowTheFile,
             CopiesFollow, OnlyAppendedListed, Changing, CacheHit, Inserted, Readable, Replacement
<1> QED BY <1>2, <1>3, <1>4, <1>5, <1>6, <1>7, <1>8, <1>9, <1>10, <1>11, <1>12,
           <1>13, <1>14, <1>15, <1>16 DEF Next, Step

LEMMA CalmInit ==
    ASSUME Init
    PROVE  Calm
BY DEF Init, Calm, UniqueDigests, OnlyTheWriterHasATail, WritersKnowTheFile, CopiesFollow,
       OnlyAppendedListed, Readable, NoFile, Unloaded, CacheHit, Orphaned, Inserted, Tasks

\* CalmInv for any number of appends, prunes and clean restarts of one process.
THEOREM CalmHolds ==
    ASSUME NEW p, Quiet(p)
    PROVE  Spec => []CalmInv
<1>1. Init => Calm
  BY CalmInit
<1>2. TypeOK /\ TypeOK' /\ LockDiscipline /\ Calm /\ [Next]_vars => Calm'
  BY CalmStep
<1>3. TypeOK /\ LockDiscipline /\ Calm => CalmInv
  BY DEF Calm, CalmInv
<1> QED BY <1>1, <1>2, <1>3, TypeCorrect, MutexHeld, PTL DEF Spec

(* Within one process, and while nothing fails, no interleaving of appends, *)
(* prunes and clean restarts lists a digest twice.                         *)
THEOREM NoDigestTwice ==
    ASSUME NEW p, Quiet(p)
    PROVE  Spec => []UniqueDigests
<1>1. Init => Calm
  BY CalmInit
<1>2. TypeOK /\ TypeOK' /\ LockDiscipline /\ Calm /\ [Next]_vars => Calm'
  BY CalmStep
<1>3. Calm => UniqueDigests
  BY DEF Calm
<1> QED BY <1>1, <1>2, <1>3, TypeCorrect, MutexHeld, PTL DEF Spec

(* ... and ensure_loaded's shortcut never serves a stale index.            *)
THEOREM CacheNeverStale ==
    ASSUME NEW p, Quiet(p)
    PROVE  Spec => []CacheCoherent
<1>1. Init => Calm
  BY CalmInit
<1>2. TypeOK /\ TypeOK' /\ LockDiscipline /\ Calm /\ [Next]_vars => Calm'
  BY CalmStep
<1>3. TypeOK /\ LockDiscipline /\ Calm => CacheCoherent
  <2> SUFFICES ASSUME TypeOK, LockDiscipline, Calm,
                      NEW q \in Procs, holder[q] = Nobody, CacheHit(q)
               PROVE  mem[q].entries = Readable(file)
    BY DEF CacheCoherent
  <2>1. \A t \in Tasks : Home[t] = q => pc[t] \notin Holding
    BY IndexConstants DEF LockDiscipline
  <2>2. ~Changing(q)
    BY <2>1 DEF Changing, Holding, AppendSteps, RewriteSteps
  <2> QED BY <2>2 DEF Calm, CopiesFollow
<1> QED BY <1>1, <1>2, <1>3, TypeCorrect, MutexHeld, PTL DEF Spec

-----------------------------------------------------------------------------
(* Refinement.  A line that lands is the abstract insertion, a digest found *)
(* resident the abstract refusal, a rename the abstract replacement; every  *)
(* other step is invisible.                                                *)
LEMMA SameVerdicts ==
    ASSUME TypeOK, NEW t \in Tasks, NEW where, pc' = [pc EXCEPT ![t] = where],
           \/ t \notin Requests
           \/ /\ pc[t] \notin {"newline", "written", "appended", "duplicate"}
              /\ where \notin {"newline", "written", "appended", "duplicate"}
           \/ /\ pc[t] \in {"newline", "written", "appended"}
              /\ where \in {"newline", "written", "appended"}
    PROVE  [r \in Requests |-> Verdict(r)]' = [r \in Requests |-> Verdict(r)]
<1>1. \A r \in Requests : pc'[r] = IF r = t THEN where ELSE pc[r]
  BY DEF TypeOK, Tasks
<1>2. \A r \in Requests : Verdict(r)' = Verdict(r)
  BY <1>1 DEF Verdict
<1> QED BY <1>2

LEMMA ProceedRefines ==
    ASSUME TypeOK, NEW t \in Tasks, pc[t] \in {"locked", "reading"},
           Proceed(t, Readable(file)), UNCHANGED file
    PROVE  [Promise!ANext]_(Promise!avars)
<1>1. Readable(file)' = Readable(file)
  BY DEF Readable
<1>2. CASE t \in Requests /\ ShaOf[t] \in ShasOf(Readable(file))
  <2>1. \A r \in Requests : pc'[r] = IF r = t THEN "duplicate" ELSE pc[r]
    BY <1>2 DEF Proceed, GoTo, TypeOK, Tasks
  <2>2. Verdict(t) = "pending" /\ Verdict(t)' = "duplicate"
    BY <1>2, <2>1 DEF Verdict
  <2>3. \A r \in Requests : Verdict(r)' = IF r = t THEN "duplicate" ELSE Verdict(r)
    BY <2>1, <2>2 DEF Verdict
  <2>4. Promise!Skip(t)
    BY <1>1, <1>2, <2>2, <2>3 DEF Promise!Skip, Promise!ShasIn, ShasOf
  <2> QED BY <1>2, <2>4 DEF Promise!ANext
<1>3. CASE t \notin Requests \/ ShaOf[t] \notin ShasOf(Readable(file))
  <2>1. \/ pc' = [pc EXCEPT ![t] = "opening"]
        \/ t \notin Requests /\ pc' = [pc EXCEPT ![t] = "listed"]
    BY <1>3 DEF Proceed, GoTo
  <2> QED BY <1>1, <2>1, SameVerdicts DEF Promise!avars
<1> QED BY <1>2, <1>3

LEMMA StepRefines ==
    ASSUME TypeOK, LockDiscipline, Calm, [Next]_vars, NEW p, Quiet(p)
    PROVE  [Promise!ANext]_(Promise!avars)
<1>0. \A u \in Tasks : Home[u] = p
  BY IndexConstants DEF Quiet
<1> DEFINE Stutters(t) ==
      \E where : pc' = [pc EXCEPT ![t] = where]
                 /\ \/ t \notin Requests
                    \/ /\ pc[t] \notin {"newline", "written", "appended", "duplicate"}
                       /\ where \notin {"newline", "written", "appended", "duplicate"}
                    \/ /\ pc[t] \in {"newline", "written", "appended"}
                       /\ where \in {"newline", "written", "appended"}
<1>1. ASSUME NEW t \in Tasks, Stutters(t), Readable(file)' = Readable(file)
      PROVE  UNCHANGED Promise!avars
  BY <1>1, SameVerdicts DEF Promise!avars
<1>2. ASSUME UNCHANGED file PROVE Readable(file)' = Readable(file)
  BY <1>2 DEF Readable
<1>3. ASSUME NEW t \in Tasks, Call(t) PROVE UNCHANGED Promise!avars
  <2>1. /\ pc[t] \notin {"newline", "written", "appended", "duplicate"}
        /\ pc' = [pc EXCEPT ![t] = "waiting"]
        /\ UNCHANGED file
    BY <1>3 DEF Call, GoTo
  <2>2. Stutters(t)
    <3>1. "waiting" \notin {"newline", "written", "appended", "duplicate"}
      OBVIOUS
    <3> QED BY <2>1, <3>1
  <2> QED BY <1>1, <1>2, <2>1, <2>2
<1>4. ASSUME NEW t \in Tasks, Lock(t) PROVE UNCHANGED Promise!avars
  <2>1. /\ pc[t] \in {"waiting", "retaining"}
        /\ \/ pc' = [pc EXCEPT ![t] = "locked"]
           \/ pc' = [pc EXCEPT ![t] = "rename"]
        /\ UNCHANGED file
    BY <1>4 DEF Lock, GoTo, Waiting
  <2>2. Stutters(t)
    BY <2>1
  <2> QED BY <1>1, <1>2, <2>1, <2>2
<1>5. ASSUME NEW t \in Tasks, UseCache(t) PROVE [Promise!ANext]_(Promise!avars)
  <2>1. ~Changing(p)
    BY <1>0, <1>5, OneHolder DEF UseCache, Changing, Holding, AppendSteps, RewriteSteps
  <2>2. mem[p].entries = Readable(file)
    BY <1>0, <1>5, <2>1 DEF UseCache, Calm, CopiesFollow, Quiet
  <2> QED BY <1>0, <1>5, <2>2, ProceedRefines DEF UseCache
<1>6. ASSUME NEW t \in Tasks, Load(t) PROVE [Promise!ANext]_(Promise!avars)
  BY <1>6, ProceedRefines DEF Load
<1>7. ASSUME NEW t \in Tasks, TakeFingerprint(t) \/ Open(t) PROVE UNCHANGED Promise!avars
  BY <1>1, <1>2, <1>7 DEF TakeFingerprint, Open, GoTo
<1>8. ASSUME NEW t \in Tasks, WriteLine(t) PROVE [Promise!ANext]_(Promise!avars)
  <2>1. /\ t \in Requests /\ file \in File /\ pc[t] = "line"
        /\ \A u \in Tasks \ {t} : pc[u] \notin Holding
    BY <1>8, OneHolder DEF TypeOK, WriteLine, Tasks, PruneStates, RewriteSteps, Holding, AppendSteps
  <2>2. file.tail = {} /\ file' = WithChunk(file, t)
    BY <1>8, <2>1 DEF Calm, OnlyTheWriterHasATail, WriteLine, Write, Holding, AppendSteps
  <2>3. Readable(file)' = Readable(file) \cup {t}
    BY <2>1, <2>2, ReadableFacts DEF Readable
  <2>4. \A r \in Requests : pc'[r] = IF r = t THEN "newline" ELSE pc[r]
    BY <1>8 DEF WriteLine, GoTo, TypeOK, Tasks
  <2>5. Verdict(t) = "pending" /\ \A r \in Requests : Verdict(r)' = IF r = t THEN "appended" ELSE Verdict(r)
    BY <2>1, <2>4 DEF Verdict
  <2>6. ShaOf[t] \notin ShasOf(Readable(file))
    BY <2>1 DEF Calm, WritersKnowTheFile
  <2>7. Promise!Insert(t)
    BY <2>1, <2>3, <2>5, <2>6 DEF Promise!Insert, Promise!ShasIn, ShasOf
  <2> QED BY <2>1, <2>7 DEF Promise!ANext
<1>9. ASSUME NEW t \in Tasks, WriteNewline(t) PROVE UNCHANGED Promise!avars
  <2>1. Readable(file)' = Readable(file)
    <3>1. file' = file \/ file' = WithNewline(file)
      BY <1>9 DEF WriteNewline, Write
    <3> QED BY <3>1, NewlineFacts DEF TypeOK, Readable
  <2> QED BY <1>1, <1>9, <2>1 DEF WriteNewline, GoTo
<1>10. ASSUME NEW t \in Tasks, Remember(t) PROVE UNCHANGED Promise!avars
  BY <1>1, <1>2, <1>10 DEF Remember, GoTo
<1>11. ASSUME NEW t \in Tasks, Plan(t) \/ Adopt(t) PROVE UNCHANGED Promise!avars
  <2>1. t \notin Requests
    BY <1>11 DEF Plan, Adopt, TypeOK, AppendStates, AppendSteps
  <2> QED BY <1>1, <1>2, <1>11, <2>1 DEF Plan, Adopt, GoTo
<1>12. ASSUME NEW t \in Tasks, Rename(t) PROVE [Promise!ANext]_(Promise!avars)
  <2>1. t \in Prunes /\ t \notin Requests /\ snap[t] \in SUBSET Requests
    BY <1>12 DEF Rename, TypeOK, Tasks, AppendStates, AppendSteps
  <2>2. Readable(file)' = snap[t]
    BY <1>12, <2>1, ReplacementFacts DEF Rename, Readable
  <2>3. UNCHANGED [r \in Requests |-> Verdict(r)]
    BY <1>12, <2>1, SameVerdicts DEF Rename, GoTo
  <2>4. snap[t] \in SUBSET { r \in Requests : [q \in Requests |-> Verdict(q)][r] = "appended" }
    BY <2>1 DEF Calm, OnlyAppendedListed, Inserted, Verdict
  <2>5. Promise!DistinctShas(snap[t])
    BY <2>1 DEF Calm, OnlyAppendedListed, Promise!DistinctShas
  <2>6. Promise!Replace
    BY <2>2, <2>3, <2>4, <2>5 DEF Promise!Replace
  <2> QED BY <2>6 DEF Promise!ANext
<1>13. ASSUME NEW t \in Tasks, WriteFails(t) \/ Cancel(t) \/ OrphanLands(t)
       PROVE  UNCHANGED Promise!avars
  BY <1>13 DEF WriteFails, Cancel, OrphanLands, Quiet, Calm, OnlyTheWriterHasATail, Orphaned
<1>14. ASSUME NEW q \in Procs, Restart(q) PROVE UNCHANGED Promise!avars
  <2>1. pc' = pc /\ UNCHANGED file
    <3>1. pc \in [Tasks -> AppendStates \cup PruneStates]
      BY DEF TypeOK
    <3>2. \A u \in Tasks : ~(Active(u) \/ pc[u] \in Orphaned)
      BY <1>0, <1>14 DEF Restart, Quiet
    <3>3. pc' = [u \in Tasks |-> pc[u]] /\ UNCHANGED file
      BY <1>14, <3>2 DEF Restart, Active, Holding, AppendSteps, Orphaned
    <3> QED BY <3>1, <3>3
  <2>2. \A r \in Requests : Verdict(r)' = Verdict(r)
    BY <2>1 DEF Verdict
  <2> QED BY <1>2, <2>1, <2>2 DEF Promise!avars
<1>15. CASE UNCHANGED vars
  <2>1. UNCHANGED <<file, pc>>
    BY <1>15 DEF vars
  <2>2. \A r \in Requests : Verdict(r)' = Verdict(r)
    BY <2>1 DEF Verdict
  <2> QED BY <1>2, <2>1, <2>2 DEF Promise!avars
<1> QED BY <1>3, <1>4, <1>5, <1>6, <1>7, <1>8, <1>9, <1>10, <1>11, <1>12, <1>13, <1>14, <1>15
        DEF Next, Step

(* Within one process, and while nothing fails, the file, the lock and the  *)
(* cache implement the atomic index.                                       *)
THEOREM IndexRefinement ==
    ASSUME NEW p, Quiet(p)
    PROVE  Spec => ImplementsAtomicIndex
<1>1. Init => Calm
  BY CalmInit
<1>2. TypeOK /\ TypeOK' /\ LockDiscipline /\ Calm /\ [Next]_vars => Calm'
  BY CalmStep
<1>3. Init => Promise!AInit
  BY DEF Init, Promise!AInit, Readable, NoFile, Verdict, Tasks
<1>4. TypeOK /\ LockDiscipline /\ Calm /\ [Next]_vars => [Promise!ANext]_(Promise!avars)
  BY StepRefines
<1> QED BY <1>1, <1>2, <1>3, <1>4, TypeCorrect, MutexHeld, PTL
        DEF Spec, ImplementsAtomicIndex, Promise!ASpec
=============================================================================
