------------------------ MODULE EvidenceStore_proofs ------------------------
(***************************************************************************)
(* EvidenceStore for every number of uploads, digests and signers, under   *)
(* every cancellation and crash: types; while only uploads, restarts and   *)
(* dry-run prunes touch the data directory, receipts that are never taken  *)
(* back, an index that never dangles, and an open that leaves no orphan;   *)
(* with one destructive prune or ao2-cp-gc beside them, bodies that go     *)
(* only from what was dropped or swept.                                    *)
(***************************************************************************)
EXTENDS EvidenceStore, TLAPS

USE StoreConstants

PCs == {"new"} \cup InHandler \cup LateRequest \cup RequestDone
       \cup InOpen \cup InPrune \cup LateJob \cup JobDone

LEMMA PCValues ==
    PCs = {"new", "write", "probe_sidecar", "compare", "write_sidecar", "append",
           "late_body", "late_sidecar", "late_append", "acked", "rejected", "failed",
           "cancelled", "lost", "bodies", "sweep_bodies", "sweep_sidecars", "read",
           "plan", "late_remove", "late_rewrite", "done"}
BY DEF PCs, InHandler, LateRequest, RequestDone, InOpen, InPrune, LateJob, JobDone

LEMMA GoToType ==
    ASSUME pc \in [Tasks -> PCs], NEW t, NEW where \in PCs, GoTo(t, where)
    PROVE  pc' \in [Tasks -> PCs]
BY DEF GoTo

LEMMA DeleteType ==
    ASSUME body \in [Digests -> Raws \cup {Absent}],
           sidecar \in [Digests -> Signers \cup {Absent}],
           NEW f \in Files, Delete(f)
    PROVE  /\ body' \in [Digests -> Raws \cup {Absent}]
           /\ sidecar' \in [Digests -> Signers \cup {Absent}]
BY DEF Delete, Files

LEMMA KnownType ==
    ASSUME NEW K \in SUBSET Digests
    PROVE  [NoJob EXCEPT !.known = K] \in JobRecord
BY DEF NoJob, JobRecord

LEMMA TodoType ==
    ASSUME NEW j \in Jobs, job \in [Jobs -> JobRecord], NEW T \in SUBSET Files
    PROVE  [job EXCEPT ![j].todo = T] \in [Jobs -> JobRecord]
BY DEF JobRecord

LEMMA UpcomingInTodo ==
    ASSUME NEW T PROVE Upcoming(T) \subseteq T
BY DEF Upcoming

LEMMA PlanType ==
    ASSUME NEW j \in Jobs, job \in [Jobs -> JobRecord],
           NEW L \in SUBSET Requests, NEW D \in SUBSET Digests
    PROVE  [job EXCEPT ![j] = [@ EXCEPT !.listed = L, !.drop = D, !.unprobed = D]]
              \in [Jobs -> JobRecord]
<1>1. job[j] \in JobRecord
  OBVIOUS
<1>2. [job[j] EXCEPT !.listed = L, !.drop = D, !.unprobed = D] \in JobRecord
  BY <1>1 DEF JobRecord
<1> QED BY <1>2

\* Types of the variables.
THEOREM TypeCorrect == Spec => []TypeOK
<1> USE PCValues
<1>1. Init => TypeOK
  BY DEF Init, AInit, TypeOK, PCs, Tasks, JobRecord, NoJob
<1>2. TypeOK /\ [Next]_vars => TypeOK'
  <2> SUFFICES ASSUME TypeOK, [Next]_vars PROVE TypeOK'
    OBVIOUS
  <2>0. pc \in [Tasks -> PCs] /\ \A t \in Requests : t \in Tasks
    BY DEF TypeOK, PCs, Tasks
  <2>00. job \in [Jobs -> JobRecord]
    BY DEF TypeOK
  <2>1. ASSUME NEW r \in Requests, RequestStep(r) PROVE TypeOK'
    <3>1. pc' \in [Tasks -> PCs]
      BY <2>0, <2>1 DEF RequestStep, Start, WriteBody, ProbeSidecar, CompareSidecar,
         WriteSidecar, Append, GoTo, AfterBody
    <3>2. body' \in [Digests -> Raws \cup {Absent}]
      BY <2>1 DEF TypeOK, RequestStep, Start, WriteBody, ProbeSidecar, CompareSidecar,
         WriteSidecar, Append, PutBody
    <3>3. sidecar' \in [Digests -> Signers \cup {Absent}]
      BY <2>1 DEF TypeOK, RequestStep, Start, WriteBody, ProbeSidecar, CompareSidecar,
         WriteSidecar, Append, PutSidecar
    <3>4. log' \subseteq Requests /\ verdict' \in [Requests -> {"pending", "appended", "duplicate"}]
      BY <2>1 DEF TypeOK, RequestStep, Start, WriteBody, ProbeSidecar, CompareSidecar,
         WriteSidecar, Append, Insert, Skip
    <3>5. UNCHANGED job
      BY <2>1 DEF RequestStep, Start, WriteBody, ProbeSidecar, CompareSidecar, WriteSidecar, Append
    <3> QED BY <3>1, <3>2, <3>3, <3>4, <3>5 DEF TypeOK, PCs
  <2>2. ASSUME NEW r \in Requests, CancelRequest(r) \/ LateRequestStep(r) PROVE TypeOK'
    <3>1. pc' \in [Tasks -> PCs]
      BY <2>0, <2>2 DEF CancelRequest, LateRequestStep, GoTo
    <3> QED BY <2>2, <3>1 DEF TypeOK, PCs, CancelRequest, LateRequestStep, PutBody,
               PutSidecar, Insert, Skip
  <2>3. ASSUME NEW j \in Jobs, OpenStore(j) \/ ListBodies(j) \/ ListSidecars(j) PROVE TypeOK'
    <3>1. pc' \in [Tasks -> PCs]
      BY <2>0, <2>3 DEF OpenStore, ListBodies, ListSidecars, GoTo
    <3>2. \A k : Orphans(j, k) \subseteq {k} \X Digests
      BY DEF Orphans
    <3>3. ShasIn(log) \subseteq Digests
      BY DEF TypeOK, ShasIn
    <3>4. ASSUME OpenStore(j) PROVE job' \in [Jobs -> JobRecord]
      <4>1. [NoJob EXCEPT !.known = ShasIn(log)] \in JobRecord
        BY <3>3, KnownType
      <4>2. job' = [job EXCEPT ![j] = [NoJob EXCEPT !.known = ShasIn(log)]]
        BY <3>4 DEF OpenStore
      <4> QED BY <2>00, <4>1, <4>2
    <3>5. ASSUME ListBodies(j) \/ ListSidecars(j) PROVE job' \in [Jobs -> JobRecord]
      <4>1. PICK k \in {"body", "sidecar"} : job' = [job EXCEPT ![j].todo = Orphans(j, k)]
        BY <3>5 DEF ListBodies, ListSidecars
      <4>2. Orphans(j, k) \in SUBSET Files
        BY <3>2 DEF Files
      <4> QED BY <2>00, <4>1, <4>2, TodoType
    <3>6. job' \in [Jobs -> JobRecord]
      BY <2>3, <3>4, <3>5
    <3> QED BY <2>3, <3>1, <3>6 DEF TypeOK, PCs, OpenStore, ListBodies, ListSidecars
  <2>4. ASSUME NEW j \in Jobs, RemoveOrphan(j) \/ Remove(j) PROVE TypeOK'
    <3>1. pc' \in [Tasks -> PCs]
      BY <2>0, <2>4 DEF RemoveOrphan, Remove, GoTo
    <3>2. PICK f \in job[j].todo : Delete(f) /\ job' = [job EXCEPT ![j].todo = @ \ {f}]
      BY <2>4, UpcomingInTodo DEF RemoveOrphan, Remove
    <3>3. job[j].todo \subseteq Files
      BY DEF TypeOK, JobRecord
    <3>4. job' \in [Jobs -> JobRecord]
      <4>1. job[j].todo \ {f} \in SUBSET Files
        BY <3>3
      <4> QED BY <2>00, <3>2, <4>1, TodoType
    <3> QED BY <2>4, <3>1, <3>2, <3>3, <3>4, DeleteType DEF TypeOK, PCs, RemoveOrphan, Remove
  <2>5. ASSUME NEW j \in Jobs, Opened(j) \/ ReportOnly(j) \/ KillGc(j) PROVE TypeOK'
    BY <2>0, <2>5, GoToType DEF Opened, ReportOnly, KillGc, TypeOK, PCs
  <2>6. ASSUME NEW j \in Jobs, ReadAll(j) \/ Probe(j) PROVE TypeOK'
    <3>1. pc' \in [Tasks -> PCs]
      BY <2>0, <2>6 DEF ReadAll, Probe, GoTo
    <3>2. ShasIn(log) \subseteq Digests
      BY DEF TypeOK, ShasIn
    <3>3. job' \in [Jobs -> JobRecord]
      <4>1. CASE ReadAll(j)
        <5>1. PICK drop \in SUBSET ShasIn(log) :
                 job' = [job EXCEPT ![j] =
                            [@ EXCEPT !.listed = log, !.drop = drop, !.unprobed = drop]]
          BY <4>1 DEF ReadAll
        <5>2. drop \in SUBSET Digests /\ log \in SUBSET Requests
          BY <3>2 DEF TypeOK
        <5> QED BY <5>1, <5>2, PlanType DEF TypeOK
      <4>2. CASE Probe(j)
        <5>1. PICK s \in job[j].unprobed :
                 job' = [job EXCEPT ![j] =
                            [@ EXCEPT !.unprobed = job[j].unprobed \ {s},
                                      !.todo = job[j].todo \cup Removable(s)]]
          BY <4>2 DEF Probe
        <5>2. /\ job[j].unprobed \ {s} \in SUBSET Digests
              /\ job[j].todo \cup Removable(s) \in SUBSET Files
          BY DEF TypeOK, JobRecord, Removable
        <5>3. [job[j] EXCEPT !.unprobed = job[j].unprobed \ {s},
                             !.todo = job[j].todo \cup Removable(s)] \in JobRecord
          <6>1. job[j] \in JobRecord
            BY <2>00
          <6> QED BY <5>2, <6>1 DEF JobRecord
        <5> QED BY <2>00, <5>1, <5>3
      <4> QED BY <2>6, <4>1, <4>2
    <3> QED BY <2>6, <3>1, <3>3 DEF TypeOK, PCs, ReadAll, Probe
  <2>7. ASSUME NEW j \in Jobs, Rewrite(j) PROVE TypeOK'
    BY <2>0, <2>7, GoToType DEF Rewrite, Retained, TypeOK, PCs, JobRecord
  <2>8. ASSUME NEW j \in Jobs, CancelPrune(j) PROVE TypeOK'
    <3>1. pc' \in [Tasks -> PCs]
      BY <2>0, <2>8 DEF CancelPrune, GoTo
    <3>2. job' \in [Jobs -> JobRecord]
      <4>1. \A f \in Upcoming(job[j].todo) : {f} \in SUBSET Files
        BY UpcomingInTodo DEF TypeOK, JobRecord
      <4>2. \/ UNCHANGED job
            \/ \E f \in Upcoming(job[j].todo) : job' = [job EXCEPT ![j].todo = {f}]
        BY <2>8 DEF CancelPrune
      <4> QED BY <2>00, <4>1, <4>2, TodoType, SMTT(30)
    <3> QED BY <2>8, <3>1, <3>2 DEF TypeOK, PCs, CancelPrune
  <2>9. ASSUME NEW j \in Jobs, LatePruneStep(j) PROVE TypeOK'
    <3>1. pc' \in [Tasks -> PCs]
      BY <2>0, <2>9 DEF LatePruneStep, GoTo
    <3>2. job[j].todo \subseteq Files /\ Retained(j) \subseteq Requests
      BY DEF TypeOK, JobRecord, Retained
    <3> QED BY <2>9, <3>1, <3>2, DeleteType DEF TypeOK, PCs, LatePruneStep
  <2>10. CASE Restart
    BY <2>0, <2>10 DEF Restart, TypeOK, PCs
  <2>11. CASE UNCHANGED vars
    BY <2>11 DEF vars, TypeOK
  <2> QED BY <2>1, <2>2, <2>3, <2>4, <2>5, <2>6, <2>7, <2>8, <2>9, <2>10, <2>11
          DEF Next, JobStep
<1> QED BY <1>1, <1>2, PTL DEF Spec

-----------------------------------------------------------------------------
(* Receipts, entries and the sweep, while nothing is pruned.               *)
NothingPrunes == Gcs = {} /\ Prunes \subseteq DryRuns

Stored ==
    /\ StoredInOrder
    /\ OpensAlone
    /\ SweepsTheOrphans
    /\ AckedRetrievable
    /\ NoDanglingEntry

\* Where the tasks are, as sets the provers see through.
LEMMA Places ==
    /\ InHandler = {"write", "probe_sidecar", "compare", "write_sidecar", "append"}
    /\ LateRequest = {"late_body", "late_sidecar", "late_append"}
    /\ InOpen = {"bodies", "sweep_bodies", "sweep_sidecars"}
    /\ InPrune = {"read", "plan"}
    /\ LateJob = {"late_remove", "late_rewrite"}
BY DEF InHandler, LateRequest, InOpen, InPrune, LateJob

\* The tasks are told apart.
LEMMA TasksDiffer ==
    /\ Boot \in Tasks /\ Boot \notin Requests /\ Boot \notin Prunes
    /\ \A t \in Requests : t \in Tasks /\ t \notin Prunes
    /\ \A t \in Prunes : t \in Tasks
BY DEF Tasks, Jobs, Sweeps

\* No step but the sweep's makes a file disappear; no step takes back an entry.
FilesStay ==
    \A s \in Digests : /\ body[s] # Absent => body'[s] # Absent
                       /\ sidecar[s] # Absent => sidecar'[s] # Absent

\* A step of one handler, cancelled or not: what it has to establish.
LEMMA HandlerStep ==
    ASSUME TypeOK, TypeOK', Stored, NEW r \in Requests, NEW where,
           Serving, GoTo(r, where), UNCHANGED job, FilesStay,
           log' = log \/ log' = log \cup {r},
           r \in log' \ log =>
              body'[ShaOf[r]] # Absent /\ (r \in Signed => sidecar'[ShaOf[r]] # Absent),
           where \in {"probe_sidecar", "compare", "write_sidecar", "late_sidecar"} =>
              r \in Signed /\ body'[ShaOf[r]] # Absent,
           where \in {"append", "late_append", "acked"} =>
              body'[ShaOf[r]] # Absent /\ (r \in Signed => sidecar'[ShaOf[r]] # Absent),
           where = "acked" => ShaOf[r] \in ShasIn(log')
    PROVE  Stored'
<1>1. \A t \in Tasks : pc'[t] = IF t = r THEN where ELSE pc[t]
  BY DEF TypeOK, GoTo
<1>2. pc'[Boot] = "done" /\ Serving'
  BY <1>1, TasksDiffer DEF Serving
<1>3. \A q \in Requests : ShaOf[q] \in Digests /\ q \in Tasks
  BY TasksDiffer
<1>4. StoredInOrder'
  BY <1>1, <1>3 DEF Stored, StoredInOrder, FilesStay, Signed
<1>5. OpensAlone'
  <2>1. \A j \in Prunes : pc'[j] = pc[j]
    BY <1>1, TasksDiffer
  <2> QED BY <1>2, <2>1 DEF Stored, OpensAlone
<1>6. SweepsTheOrphans'
  BY <1>2, Places DEF SweepsTheOrphans
<1>7. ShasIn(log) \subseteq ShasIn(log')
  BY DEF ShasIn
<1>8. NoDanglingEntry'
  BY <1>3 DEF Stored, NoDanglingEntry, FilesStay, Signed, TypeOK
<1>9. AckedRetrievable'
  <2> SUFFICES ASSUME NEW q \in Requests, pc'[q] = "acked"
               PROVE  /\ body'[ShaOf[q]] # Absent /\ ShaOf[q] \in ShasIn(log')
                      /\ q \in Signed => sidecar'[ShaOf[q]] # Absent
    BY DEF AckedRetrievable, Served, Listed, Signed, ShasIn
  <2>1. CASE q = r
    BY <1>1, <1>3, <2>1
  <2>2. CASE q # r
    <3>1. pc[q] = "acked"
      BY <1>1, <1>3, <2>2
    <3> QED BY <1>3, <1>7, <3>1 DEF Stored, AckedRetrievable, Served, Listed, FilesStay, Signed
  <2> QED BY <2>1, <2>2
<1> QED BY <1>4, <1>5, <1>6, <1>8, <1>9 DEF Stored


LEMMA RequestKeepsStored ==
    ASSUME TypeOK, TypeOK', Stored, NEW r \in Requests,
           RequestStep(r) \/ CancelRequest(r) \/ LateRequestStep(r)
    PROVE  Stored'
<1> DEFINE s == ShaOf[r]
<1>0. /\ s \in Digests /\ r \in Tasks
      /\ RawOf[r] # Absent
      /\ r \in Signed => SignerOf[r] # Absent
  BY TasksDiffer DEF Signed
<1>1. pc[r] # "new" /\ pc[r] \in InHandler \cup LateRequest => Serving
  BY DEF Stored, OpensAlone
<1>2. CASE Start(r)
  <2>1. PICK where : /\ GoTo(r, where)
                     /\ \/ where = "write"
                        \/ body[s] # Absent /\ where = AfterBody(r)
    BY <1>2 DEF Start
  <2> QED BY <1>0, <1>2, <2>1, HandlerStep DEF Start, FilesStay, AfterBody
<1>3. CASE WriteBody(r)
  <2>1. FilesStay /\ body'[s] # Absent
    BY <1>0, <1>3 DEF WriteBody, PutBody, FilesStay, TypeOK
  <2>2. Serving
    BY <1>1, <1>3, Places DEF WriteBody
  <2> QED BY <1>0, <1>3, <2>1, <2>2, HandlerStep DEF WriteBody, AfterBody
<1>4. CASE ProbeSidecar(r)
  <2>1. r \in Signed /\ body[s] # Absent
    BY <1>4 DEF ProbeSidecar, Stored, StoredInOrder
  <2>2. Serving
    BY <1>1, <1>4, Places DEF ProbeSidecar
  <2>3. PICK where \in {"write_sidecar", "compare"} : GoTo(r, where)
    BY <1>4 DEF ProbeSidecar
  <2> QED BY <1>4, <2>1, <2>2, <2>3, HandlerStep DEF ProbeSidecar, FilesStay
<1>5. CASE CompareSidecar(r)
  <2>1. r \in Signed /\ body[s] # Absent
    BY <1>5 DEF CompareSidecar, Stored, StoredInOrder
  <2>2. Serving
    BY <1>1, <1>5, Places DEF CompareSidecar
  <2>3. PICK where : /\ GoTo(r, where)
                     /\ \/ where \in {"failed", "rejected"}
                        \/ where = "append" /\ sidecar[s] # Absent
    BY <1>0, <1>5, <2>1 DEF CompareSidecar
  <2> QED BY <1>5, <2>1, <2>2, <2>3, HandlerStep DEF CompareSidecar, FilesStay
<1>6. CASE WriteSidecar(r)
  <2>1. r \in Signed /\ body[s] # Absent
    BY <1>6 DEF WriteSidecar, Stored, StoredInOrder
  <2>2. FilesStay /\ sidecar'[s] # Absent
    BY <1>0, <1>6, <2>1 DEF WriteSidecar, PutSidecar, FilesStay, TypeOK
  <2>3. Serving
    BY <1>1, <1>6, Places DEF WriteSidecar
  <2> QED BY <1>6, <2>1, <2>2, <2>3, HandlerStep DEF WriteSidecar
<1>7. ASSUME Insert(r) \/ Skip(r), UNCHANGED <<body, sidecar>>, pc[r] \in {"append", "late_append"}
      PROVE  /\ FilesStay /\ Serving
             /\ log' = log \/ log' = log \cup {r}
             /\ body'[s] # Absent /\ (r \in Signed => sidecar'[s] # Absent)
             /\ s \in ShasIn(log')
  <2>1. body[s] # Absent /\ (r \in Signed => sidecar[s] # Absent)
    BY <1>7 DEF Stored, StoredInOrder
  <2>2. s \in ShasIn(log')
    BY <1>7 DEF Insert, Skip, ShasIn
  <2> QED BY <1>1, <1>7, <2>1, <2>2, Places DEF Insert, Skip, FilesStay
<1>8. CASE Append(r)
  BY <1>7, <1>8, HandlerStep DEF Append
<1>9. CASE CancelRequest(r)
  <2>1. PICK where : /\ GoTo(r, where)
                     /\ \/ where = "cancelled"
                        \/ pc[r] = "write" /\ where = "late_body"
                        \/ pc[r] = "write_sidecar" /\ where = "late_sidecar"
                        \/ pc[r] = "append" /\ where = "late_append"
    BY <1>9 DEF CancelRequest
  <2>2. Serving
    BY <1>1, <1>9, Places DEF CancelRequest
  <2>3. /\ pc[r] = "write_sidecar" => r \in Signed /\ body[s] # Absent
        /\ pc[r] = "append" => body[s] # Absent /\ (r \in Signed => sidecar[s] # Absent)
    BY DEF Stored, StoredInOrder
  <2> QED BY <1>9, <2>1, <2>2, <2>3, HandlerStep DEF CancelRequest, FilesStay
<1>10. CASE LateRequestStep(r)
  <2>1. Serving
    BY <1>1, <1>10, Places DEF LateRequestStep
  <2>2. GoTo(r, "cancelled") /\ UNCHANGED job
    BY <1>10 DEF LateRequestStep
  <2>3. CASE pc[r] = "late_body"
    <3>1. FilesStay /\ UNCHANGED log
      BY <1>0, <1>10, <2>3 DEF LateRequestStep, PutBody, FilesStay, TypeOK
    <3> QED BY <2>1, <2>2, <3>1, HandlerStep
  <2>4. CASE pc[r] = "late_sidecar"
    <3>1. FilesStay /\ UNCHANGED log
      BY <1>0, <1>10, <2>4 DEF LateRequestStep, PutSidecar, FilesStay, TypeOK, Stored, StoredInOrder
    <3> QED BY <2>1, <2>2, <3>1, HandlerStep
  <2>5. CASE pc[r] = "late_append"
    BY <1>7, <1>10, <2>2, <2>5, HandlerStep DEF LateRequestStep
  <2> QED BY <1>10, <2>3, <2>4, <2>5 DEF LateRequestStep
<1> QED BY <1>2, <1>3, <1>4, <1>5, <1>6, <1>8, <1>9, <1>10 DEF RequestStep


\* A step of the server's own sweep: nobody else is running, and what is listed
\* is left alone.
LEMMA BootStep ==
    ASSUME TypeOK, TypeOK', Stored, ~Serving, UNCHANGED log,
           \A t \in Tasks : t # Boot => pc'[t] = pc[t],
           pc'[Boot] \in {"done", "failed"} \cup InOpen,
           \A s \in ShasIn(log) : body'[s] = body[s] /\ sidecar'[s] = sidecar[s],
           SweepsTheOrphans'
    PROVE  Stored'
<1>1. \A q \in Requests : pc'[q] = pc[q] /\ ShaOf[q] \in Digests
  BY TasksDiffer
<1>2. \A q \in Requests : pc[q] \notin InHandler \cup LateRequest
  BY DEF Stored, OpensAlone
<1>3. StoredInOrder'
  BY <1>1, <1>2, Places DEF StoredInOrder
<1>4. OpensAlone'
  <2>1. \A j \in Prunes : pc'[j] = pc[j]
    BY TasksDiffer
  <2> QED BY <1>1, <1>2, <2>1 DEF Stored, OpensAlone
<1>5. NoDanglingEntry'
  BY DEF Stored, NoDanglingEntry, ShasIn, Signed
<1>6. AckedRetrievable'
  BY <1>1 DEF Stored, AckedRetrievable, Served, Listed, Signed, ShasIn
<1> QED BY <1>3, <1>4, <1>5, <1>6 DEF Stored

LEMMA SweepKeepsStored ==
    ASSUME TypeOK, TypeOK', Stored, NothingPrunes, NEW j \in Sweeps,
           OpenStore(j) \/ ListBodies(j) \/ ListSidecars(j) \/ RemoveOrphan(j) \/ Opened(j)
    PROVE  Stored'
<1>1. j = Boot /\ Boot \in Jobs /\ Boot \in Tasks
  BY TasksDiffer DEF NothingPrunes, Sweeps, Jobs
<1>2. /\ pc[Boot] \in {"new"} \cup InOpen /\ ~Serving /\ UNCHANGED log
      /\ \A t \in Tasks : t # Boot => pc'[t] = pc[t]
  BY <1>1, Places DEF TypeOK, GoTo, Serving, OpenStore, ListBodies, ListSidecars, RemoveOrphan, Opened
<1>3. job[Boot] \in JobRecord /\ job \in [Jobs -> JobRecord]
  BY <1>1 DEF TypeOK
<1>4. ShasIn(log)' = ShasIn(log)
  BY <1>2 DEF ShasIn
<1>5. CASE OpenStore(j)
  <2>1. pc'[Boot] = "bodies" /\ job'[Boot].known = ShasIn(log)
    BY <1>1, <1>3, <1>5 DEF OpenStore, GoTo, TypeOK, NoJob
  <2>2. SweepsTheOrphans'
    BY <1>4, <2>1, Places DEF SweepsTheOrphans
  <2> QED BY <1>2, <1>5, <2>1, <2>2, BootStep, Places DEF OpenStore
<1>6. CASE ListBodies(j)
  <2>1. /\ pc'[Boot] = "sweep_bodies" /\ job'[Boot].known = job[Boot].known
        /\ job'[Boot].todo = Orphans(Boot, "body")
    BY <1>1, <1>3, <1>6 DEF ListBodies, GoTo, TypeOK, JobRecord
  <2>2. Orphans(Boot, "body")' = Orphans(Boot, "body")
    BY <1>6, <2>1 DEF ListBodies, Orphans, OnDisk
  <2>3. \A f \in Orphans(Boot, "body") : f[2] \notin job[Boot].known
    BY DEF Orphans
  <2>4. job[Boot].known = ShasIn(log)
    BY <1>1, <1>6, Places DEF Stored, SweepsTheOrphans, ListBodies
  <2>5. SweepsTheOrphans'
    BY <1>4, <2>1, <2>2, <2>3, <2>4 DEF SweepsTheOrphans
  <2> QED BY <1>2, <1>6, <2>1, <2>5, BootStep, Places DEF ListBodies
<1>7. CASE ListSidecars(j)
  <2>1. /\ pc'[Boot] = "sweep_sidecars" /\ job'[Boot].known = job[Boot].known
        /\ job'[Boot].todo = Orphans(Boot, "sidecar")
    BY <1>1, <1>3, <1>7 DEF ListSidecars, GoTo, TypeOK, JobRecord
  <2>2. \A k : Orphans(Boot, k)' = Orphans(Boot, k)
    BY <1>7, <2>1 DEF ListSidecars, Orphans, OnDisk
  <2>3. \A f \in Orphans(Boot, "sidecar") : f[1] = "sidecar" /\ f[2] \notin job[Boot].known
    BY DEF Orphans
  <2>4. job[Boot].known = ShasIn(log) /\ Orphans(Boot, "body") = {}
    BY <1>1, <1>7, Places DEF Stored, SweepsTheOrphans, ListSidecars
  <2>5. SweepsTheOrphans'
    BY <1>4, <2>1, <2>2, <2>3, <2>4 DEF SweepsTheOrphans
  <2> QED BY <1>2, <1>7, <2>1, <2>5, BootStep, Places DEF ListSidecars
<1>8. CASE RemoveOrphan(j)
  <2>1. PICK f \in job[Boot].todo :
           /\ Delete(f)
           /\ job' = [job EXCEPT ![Boot].todo = @ \ {f}]
           /\ pc' = pc \/ GoTo(Boot, "failed")
    BY <1>1, <1>8 DEF RemoveOrphan
  <2>2. /\ pc[Boot] \in {"sweep_bodies", "sweep_sidecars"}
        /\ job[Boot].known = ShasIn(log)
        /\ f \in Files /\ f[2] \notin ShasIn(log) /\ job[Boot].todo \subseteq Files
    BY <1>1, <1>3, <1>8, Places DEF RemoveOrphan, Stored, SweepsTheOrphans, JobRecord
  <2>3. /\ job'[Boot].known = job[Boot].known
        /\ job'[Boot].todo = job[Boot].todo \ {f}
        /\ pc'[Boot] = pc[Boot] \/ pc'[Boot] = "failed"
    BY <1>1, <1>3, <2>1 DEF JobRecord, GoTo, TypeOK
  <2>4. \A g \in Files : OnDisk(g)' => OnDisk(g) /\ g # f
    BY <2>1, <2>2 DEF Delete, OnDisk, Files, TypeOK
  <2>5. \A k \in {"body", "sidecar"} : Orphans(Boot, k)' \subseteq Orphans(Boot, k) \ {f}
    BY <2>3, <2>4 DEF Orphans, Files
  <2>6. \A s \in ShasIn(log) : body'[s] = body[s] /\ sidecar'[s] = sidecar[s]
    BY <2>1, <2>2 DEF Delete, TypeOK, Files
  <2>7. SweepsTheOrphans'
    BY <1>4, <2>2, <2>3, <2>5, Places DEF Stored, SweepsTheOrphans
  <2> QED BY <1>2, <2>2, <2>3, <2>6, <2>7, BootStep, Places
<1>9. CASE Opened(j)
  <2>1. pc'[Boot] = "done"
    BY <1>1, <1>9 DEF Opened, GoTo, TypeOK
  <2>2. SweepsTheOrphans'
    BY <2>1, Places DEF SweepsTheOrphans
  <2> QED BY <1>2, <1>9, <2>1, <2>2, BootStep DEF Opened
<1> QED BY <1>5, <1>6, <1>7, <1>8, <1>9

LEMMA DryRunKeepsStored ==
    ASSUME TypeOK, TypeOK', Stored, NothingPrunes, NEW j \in Prunes,
           \/ ReadAll(j) \/ Probe(j) \/ Remove(j) \/ Rewrite(j) \/ ReportOnly(j)
           \/ CancelPrune(j) \/ LatePruneStep(j)
    PROVE  Stored'
<1>1. j \in DryRuns /\ j # Boot /\ j \notin Gcs /\ j \in Jobs /\ j \in Tasks /\ j \notin Requests
  BY TasksDiffer DEF NothingPrunes, Jobs, Sweeps
<1>2. ~LatePruneStep(j)
  BY Places DEF Stored, OpensAlone, LatePruneStep
<1>3. UNCHANGED <<log, body, sidecar>>
  BY <1>1, <1>2 DEF ReadAll, Probe, Remove, Rewrite, ReportOnly, CancelPrune
<1>4. \A t \in Tasks : t # j => pc'[t] = pc[t]
  BY <1>1, <1>2 DEF TypeOK, GoTo, ReadAll, Probe, Remove, Rewrite, ReportOnly, CancelPrune
<1>5. pc'[j] \notin LateJob \cup InOpen
  <2>1. UNCHANGED pc \/ GoTo(j, "plan") \/ GoTo(j, "done") \/ GoTo(j, "cancelled")
    BY <1>1, <1>2 DEF ReadAll, Probe, Remove, Rewrite, ReportOnly, CancelPrune
  <2>2. UNCHANGED pc \/ pc'[j] \in {"plan", "done", "cancelled"}
    BY <1>1, <2>1 DEF GoTo, TypeOK
  <2> QED BY <2>2, Places DEF Stored, OpensAlone
<1>6. job'[Boot] = job[Boot]
  <2>1. \/ UNCHANGED job
        \/ \E rec : job' = [job EXCEPT ![j] = rec]
    <3>1. CASE ReadAll(j)
      BY <3>1 DEF ReadAll
    <3>2. CASE Probe(j)
      BY <3>2 DEF Probe
    <3> QED BY <1>1, <1>2, <3>1, <3>2 DEF Remove, Rewrite, ReportOnly, CancelPrune
  <2> QED BY <1>1, <2>1, TasksDiffer DEF TypeOK, Jobs, Sweeps
<1>7. /\ pc'[Boot] = pc[Boot] /\ \A q \in Requests : pc'[q] = pc[q]
      /\ \A i \in Prunes : i # j => pc'[i] = pc[i]
  BY <1>1, <1>4, TasksDiffer
<1>8. OpensAlone'
  BY <1>5, <1>7 DEF Stored, OpensAlone, Serving
<1>9. \A k : Orphans(Boot, k)' = Orphans(Boot, k)
  BY <1>3, <1>6 DEF Orphans, OnDisk
<1>10. SweepsTheOrphans'
  BY <1>3, <1>6, <1>7, <1>9 DEF Stored, SweepsTheOrphans, ShasIn
<1>11. StoredInOrder' /\ AckedRetrievable' /\ NoDanglingEntry'
  BY <1>3, <1>7 DEF Stored, StoredInOrder, AckedRetrievable, NoDanglingEntry, Served, Listed, ShasIn, Signed
<1> QED BY <1>8, <1>10, <1>11 DEF Stored

LEMMA RestartKeepsStored ==
    ASSUME TypeOK, TypeOK', Stored, Restart
    PROVE  Stored'
<1>1. pc'[Boot] = "new" /\ ~Serving' /\ UNCHANGED <<log, body, sidecar, job>>
  BY TasksDiffer DEF Restart, Serving
<1>2. \A r \in Requests : /\ pc'[r] \notin InHandler \cup LateRequest
                          /\ pc'[r] = "acked" => pc[r] = "acked"
  BY TasksDiffer, Places DEF Restart, InServer
<1>3. \A j \in Prunes : pc'[j] \notin LateJob \cup InOpen
  BY TasksDiffer, Places DEF Restart, InServer, Stored, OpensAlone
<1>4. OpensAlone'
  BY <1>1, <1>2, <1>3 DEF OpensAlone
<1>5. StoredInOrder'
  BY <1>2, Places DEF StoredInOrder
<1>6. SweepsTheOrphans'
  BY <1>1, Places DEF SweepsTheOrphans
<1>7. AckedRetrievable' /\ NoDanglingEntry'
  BY <1>1, <1>2 DEF Stored, AckedRetrievable, NoDanglingEntry, Served, Listed, ShasIn, Signed
<1> QED BY <1>4, <1>5, <1>6, <1>7 DEF Stored


LEMMA StoredStep ==
    ASSUME TypeOK, TypeOK', Stored, NothingPrunes, [Next]_vars
    PROVE  Stored'
<1>1. ASSUME NEW r \in Requests, RequestStep(r) \/ CancelRequest(r) \/ LateRequestStep(r)
      PROVE  Stored'
  BY <1>1, RequestKeepsStored
<1>2. ASSUME NEW j \in Jobs, JobStep(j) \/ CancelPrune(j) \/ LatePruneStep(j) \/ KillGc(j)
      PROVE  Stored'
  <2>1. CASE j \in Prunes
    <3>1. j \notin Sweeps
      BY <2>1
    <3>2. ~(OpenStore(j) \/ ListBodies(j) \/ ListSidecars(j) \/ RemoveOrphan(j) \/ Opened(j))
      BY <2>1, <3>1, Places DEF OpenStore, ListBodies, ListSidecars, RemoveOrphan, Opened,
         Stored, OpensAlone
    <3> QED BY <1>2, <2>1, <3>2, DryRunKeepsStored DEF JobStep, KillGc, NothingPrunes
  <2>2. CASE j \in Sweeps
    <3>1. j = Boot /\ j \notin Prunes /\ j \notin Gcs
      BY <2>2 DEF NothingPrunes, Sweeps
    <3>2. pc[j] \notin {"plan", "late_remove", "late_rewrite"}
      BY <3>1, Places DEF Stored, OpensAlone
    <3> QED BY <1>2, <2>2, <3>1, <3>2, SweepKeepsStored DEF JobStep, KillGc, CancelPrune,
               LatePruneStep, ReadAll, Probe, Remove, Rewrite, ReportOnly
  <2> QED BY <2>1, <2>2 DEF Jobs
<1>3. CASE Restart
  BY <1>3, RestartKeepsStored
<1>4. CASE UNCHANGED vars
  <2>1. \A k : Orphans(Boot, k)' = Orphans(Boot, k)
    BY <1>4 DEF vars, Orphans, OnDisk
  <2>2. UNCHANGED <<log, body, sidecar, pc, job>>
    BY <1>4 DEF vars
  <2> QED BY <2>1, <2>2 DEF Stored, StoredInOrder, OpensAlone, SweepsTheOrphans, Serving,
             AckedRetrievable, NoDanglingEntry, Served, Listed, ShasIn, Signed
<1> QED BY <1>1, <1>2, <1>3, <1>4 DEF Next

LEMMA StoredInit ==
    ASSUME Init
    PROVE  Stored
<1>1. \A t \in Tasks : pc[t] = "new"
  BY DEF Init
<1>2. \A r \in Requests : pc[r] = "new"
  BY <1>1, TasksDiffer
<1>3. pc[Boot] = "new" /\ \A j \in Prunes : pc[j] = "new"
  BY <1>1, TasksDiffer
<1>4. log = {}
  BY DEF Init, AInit
<1> QED BY <1>2, <1>3, <1>4, Places DEF Stored, StoredInOrder, OpensAlone, SweepsTheOrphans,
           AckedRetrievable, NoDanglingEntry

\* StoredInv, for any uploads, cancellations, crashes and restarts.
THEOREM StoredHolds == NothingPrunes => (Spec => []StoredInv)
<1> SUFFICES ASSUME NothingPrunes PROVE Spec => []StoredInv
  OBVIOUS
<1>1. Init => Stored
  BY StoredInit
<1>2. TypeOK /\ TypeOK' /\ Stored /\ [Next]_vars => Stored'
  BY StoredStep
<1>3. TypeOK /\ Stored => StoredInv
  BY DEF Stored, StoredInv
<1> QED BY <1>1, <1>2, <1>3, TypeCorrect, PTL DEF Spec

\* While nothing is pruned, a receipt is never taken back: any number of uploads
\* of any contents by any signers, cancelled or killed anywhere, and any number
\* of restarts and sweeps.
THEOREM ReceiptsAreKept == NothingPrunes => (Spec => []AckedRetrievable)
<1> SUFFICES ASSUME NothingPrunes PROVE Spec => []AckedRetrievable
  OBVIOUS
<1>1. Init => Stored
  BY StoredInit
<1>2. TypeOK /\ TypeOK' /\ Stored /\ [Next]_vars => Stored'
  BY StoredStep
<1>3. Stored => AckedRetrievable
  BY DEF Stored
<1> QED BY <1>1, <1>2, <1>3, TypeCorrect, PTL DEF Spec

\* ... and the index never lists what is not stored.
THEOREM IndexNeverDangles == NothingPrunes => (Spec => []NoDanglingEntry)
<1> SUFFICES ASSUME NothingPrunes PROVE Spec => []NoDanglingEntry
  OBVIOUS
<1>1. Init => Stored
  BY StoredInit
<1>2. TypeOK /\ TypeOK' /\ Stored /\ [Next]_vars => Stored'
  BY StoredStep
<1>3. Stored => NoDanglingEntry
  BY DEF Stored
<1> QED BY <1>1, <1>2, <1>3, TypeCorrect, PTL DEF Spec

\* ... and a server that starts to serve has no half-stored file of a swept kind.
THEOREM SweepIsComplete == NothingPrunes => (Spec => OpenLeavesNoOrphan)
<1> SUFFICES ASSUME NothingPrunes PROVE Spec => OpenLeavesNoOrphan
  OBVIOUS
<1>1. Init => Stored
  BY StoredInit
<1>2. TypeOK /\ TypeOK' /\ Stored /\ [Next]_vars => Stored'
  BY StoredStep
<1>3. ASSUME TypeOK, Stored, [Next]_vars, ~Serving, Serving',
             NEW f \in Files, f[2] \in Swept, OnDisk(f)
      PROVE  Listed(f[2])
  <2>1. Opened(Boot) /\ UNCHANGED <<body, sidecar, log>>
    <3>1. Opened(Boot)
      <4>1. \A t \in Tasks : t # Boot => \A where : GoTo(t, where) => pc'[Boot] = pc[Boot]
        BY <1>3, TasksDiffer DEF GoTo, TypeOK
      <4>2. pc'[Boot] = "done" /\ pc[Boot] # "done"
        BY <1>3 DEF Serving
      <4>3. ASSUME NEW r \in Requests, RequestStep(r) \/ CancelRequest(r) \/ LateRequestStep(r)
            PROVE  FALSE
        BY <4>1, <4>2, <4>3, TasksDiffer DEF RequestStep, CancelRequest, LateRequestStep, Start,
           WriteBody, ProbeSidecar, CompareSidecar, WriteSidecar, Append
      <4>4. ASSUME NEW j \in Jobs, j # Boot, JobStep(j) \/ CancelPrune(j) \/ LatePruneStep(j) \/ KillGc(j)
            PROVE  FALSE
        <5>1. j \in Tasks
          BY DEF Tasks
        <5> QED BY <4>1, <4>2, <4>4, <5>1 DEF JobStep, CancelPrune, LatePruneStep, KillGc, OpenStore,
                   ListBodies, ListSidecars, RemoveOrphan, Opened, ReadAll, Probe, Remove, Rewrite, ReportOnly
      <4>5. ASSUME JobStep(Boot) \/ CancelPrune(Boot) \/ LatePruneStep(Boot) \/ KillGc(Boot)
            PROVE  Opened(Boot)
        <5>1. pc[Boot] \notin {"plan", "late_remove", "late_rewrite"} /\ Boot \notin Prunes /\ Boot \notin Gcs
          BY <1>3, TasksDiffer, Places DEF Stored, OpensAlone
        <5>2. \A where : GoTo(Boot, where) => pc'[Boot] = where
          BY <1>3, TasksDiffer DEF GoTo, TypeOK
        <5> QED BY <4>2, <4>5, <5>1, <5>2 DEF JobStep, CancelPrune, LatePruneStep, KillGc, OpenStore,
                   ListBodies, ListSidecars, RemoveOrphan, ReadAll, Probe, Remove, Rewrite, ReportOnly
      <4>6. ~Restart /\ ~UNCHANGED vars
        BY <4>2, TasksDiffer DEF Restart, vars
      <4> QED BY <1>3, <4>3, <4>4, <4>5, <4>6 DEF Next
    <3> QED BY <3>1 DEF Opened
  <2>2. /\ Orphans(Boot, "body") = {} /\ Orphans(Boot, "sidecar") = {}
        /\ job[Boot].known = ShasIn(log)
    BY <1>3, <2>1, Places DEF Opened, Stored, SweepsTheOrphans
  <2> QED BY <1>3, <2>2 DEF Orphans, Listed, Files
<1>4. TypeOK /\ Stored /\ [Next]_vars =>
        [~Serving /\ Serving' => \A f \in Files : f[2] \in Swept /\ OnDisk(f) => Listed(f[2])]_vars
  BY <1>3
<1> QED BY <1>1, <1>2, <1>4, TypeCorrect, PTL DEF Spec, OpenLeavesNoOrphan

-----------------------------------------------------------------------------
(* A store that is pruned, by one pruner at most: bodies go only from the     *)
(* digests that were condemned.                                              *)
OnePruner == \A i, j \in Pruners : i = j

Spared ==
    /\ StoppedWhileOpening
    /\ PastBodyHasBody
    /\ SweepsSpareTheKnown
    /\ PrunersTakeTheDropped
    /\ SparedHaveBodies

\* Who prunes and who sweeps.
LEMMA JobsDiffer ==
    /\ Boot \in Jobs /\ Boot \notin Gcs /\ Boot \notin Prunes /\ Boot \notin Pruners
    /\ \A j \in Jobs : j \in Tasks /\ j \notin Requests
    /\ \A j \in Gcs : j \in Jobs /\ j \in Sweeps /\ j \notin Prunes
    /\ \A j \in Pruners : j \in Jobs
    /\ \A j \in Jobs : j \in Prunes \/ j \in Gcs \/ j = Boot
BY DEF Tasks, Jobs, Sweeps, Pruners

\* What was condemned stays condemned when no pruner chooses less and no gc
\* forgets what it knew.
LEMMA CondemnedStays ==
    ASSUME \A i \in Pruners : job[i].drop \subseteq job'[i].drop,
           \A i \in Gcs : pc[i] # "new" => pc'[i] # "new" /\ job'[i].known = job[i].known,
           NEW s, Condemned(s)
    PROVE  Condemned(s)'
BY DEF Condemned

\* A step of one handler, cancelled or not: what it has to establish.
LEMMA HandlerSpares ==
    ASSUME TypeOK, TypeOK', Spared, NEW r \in Requests, NEW where,
           Serving, GoTo(r, where), UNCHANGED job,
           \A s \in Digests : body[s] # Absent => body'[s] # Absent,
           log \subseteq log', log' \subseteq log \cup {r},
           \/ where \in {"write", "late_body", "rejected", "failed", "cancelled"} /\ log' = log
           \/ Condemned(ShaOf[r]) \/ body'[ShaOf[r]] # Absent
    PROVE  Spared'
<1>1. \A t \in Tasks : pc'[t] = IF t = r THEN where ELSE pc[t]
  BY DEF TypeOK, GoTo
<1>2. /\ pc'[Boot] = "done" /\ Serving'
      /\ \A j \in Jobs : pc'[j] = pc[j] /\ job'[j] = job[j]
  BY <1>1, TasksDiffer, JobsDiffer DEF Serving
<1>3. \A s : Condemned(s)' <=> Condemned(s)
  BY <1>2, JobsDiffer DEF Condemned
<1>4. \A q \in Requests : ShaOf[q] \in Digests /\ q \in Tasks
  BY TasksDiffer
<1>5. StoppedWhileOpening'
  BY <1>2, JobsDiffer DEF Spared, StoppedWhileOpening, Jobs
<1>6. PastBodyHasBody'
  BY <1>1, <1>3, <1>4 DEF Spared, PastBodyHasBody
<1>7. SweepsSpareTheKnown'
  BY <1>2, Places DEF Spared, SweepsSpareTheKnown, Jobs
<1>8. PrunersTakeTheDropped'
  BY <1>2, JobsDiffer DEF Spared, PrunersTakeTheDropped, TakesTheDropped
<1>9. SparedHaveBodies'
  BY <1>3, <1>4 DEF Spared, SparedHaveBodies, TypeOK
<1> QED BY <1>5, <1>6, <1>7, <1>8, <1>9 DEF Spared

LEMMA RequestSpares ==
    ASSUME TypeOK, TypeOK', Spared, NEW r \in Requests,
           RequestStep(r) \/ CancelRequest(r) \/ LateRequestStep(r)
    PROVE  Spared'
<1> DEFINE s == ShaOf[r]
<1> DEFINE Kept == \A d \in Digests : body[d] # Absent => body'[d] # Absent
<1>0. s \in Digests /\ r \in Tasks /\ RawOf[r] # Absent
  BY TasksDiffer
<1>1. pc[r] \in InHandler \cup LateRequest => Serving
  BY <1>0 DEF Spared, StoppedWhileOpening, InServer
<1>2. pc[r] \in {"probe_sidecar", "compare", "write_sidecar", "late_sidecar",
                 "append", "late_append"} => Condemned(s) \/ body[s] # Absent
  BY DEF Spared, PastBodyHasBody
<1>3. CASE Start(r)
  <2>1. PICK where : /\ GoTo(r, where)
                     /\ where = "write" \/ body[s] # Absent
    BY <1>3 DEF Start
  <2> QED BY <1>3, <2>1, HandlerSpares DEF Start
<1>4. CASE WriteBody(r)
  <2>1. Kept /\ body'[s] # Absent
    BY <1>0, <1>4 DEF WriteBody, PutBody, TypeOK
  <2>2. Serving
    BY <1>1, <1>4, Places DEF WriteBody
  <2> QED BY <1>4, <2>1, <2>2, HandlerSpares DEF WriteBody
<1>5. CASE ProbeSidecar(r) \/ CompareSidecar(r) \/ WriteSidecar(r)
  <2>1. PICK where : GoTo(r, where)
    BY <1>5 DEF ProbeSidecar, CompareSidecar, WriteSidecar
  <2>2. UNCHANGED <<log, body, job>> /\ Serving /\ (Condemned(s) \/ body[s] # Absent)
    BY <1>1, <1>2, <1>5, Places DEF ProbeSidecar, CompareSidecar, WriteSidecar
  <2> QED BY <2>1, <2>2, HandlerSpares
<1>6. ASSUME Insert(r) \/ Skip(r), UNCHANGED body, pc[r] \in {"append", "late_append"}
      PROVE  /\ Kept /\ Serving /\ log \subseteq log' /\ log' \subseteq log \cup {r}
             /\ Condemned(s) \/ body'[s] # Absent
  BY <1>1, <1>2, <1>6, Places DEF Insert, Skip
<1>7. CASE Append(r)
  BY <1>6, <1>7, HandlerSpares DEF Append
<1>8. CASE CancelRequest(r)
  <2>1. PICK where : /\ GoTo(r, where)
                     /\ \/ where \in {"cancelled", "late_body"}
                        \/ pc[r] \in {"write_sidecar", "append"}
    BY <1>8 DEF CancelRequest
  <2>2. UNCHANGED <<log, body, job>> /\ Serving
    BY <1>1, <1>8 DEF CancelRequest
  <2>3. where \in {"cancelled", "late_body"} \/ Condemned(s) \/ body'[s] # Absent
    BY <1>2, <2>1, <2>2
  <2> QED BY <2>1, <2>2, <2>3, HandlerSpares
<1>9. CASE LateRequestStep(r)
  <2>1. Serving /\ GoTo(r, "cancelled") /\ UNCHANGED job
    BY <1>1, <1>9, Places DEF LateRequestStep
  <2>2. CASE pc[r] # "late_append"
    <3>1. Kept /\ UNCHANGED log
      BY <1>0, <1>9, <2>2 DEF LateRequestStep, PutBody, TypeOK
    <3> QED BY <2>1, <3>1, HandlerSpares
  <2>3. CASE pc[r] = "late_append"
    BY <1>6, <1>9, <2>1, <2>3, HandlerSpares DEF LateRequestStep
  <2> QED BY <2>2, <2>3
<1> QED BY <1>3, <1>4, <1>5, <1>7, <1>8, <1>9 DEF RequestStep

\* A step of one prune or sweep moves nobody else,
OnlyMoves(j) ==
    /\ \A t \in Tasks : t # j => pc'[t] = pc[t]
    /\ \A i \in Jobs : i # j => job'[i] = job[i]

\* takes only bodies that are condemned, or that have no entry while the server
\* opens the store,
TakesCondemned ==
    \A s \in Digests : body'[s] = body[s] \/ Condemned(s)' \/ (~Serving /\ s \notin ShasIn(log))

\* takes entries only if it prunes, condemns no less than before, and keeps to
\* its own part of the invariant.
KeepsToItself(j) ==
    /\ log' = log \/ (log' \subseteq log /\ j \in Pruners)
    /\ j \in Pruners => job[j].drop \subseteq job'[j].drop /\ TakesTheDropped(j)'
    /\ j \in Gcs /\ pc[j] # "new" => pc'[j] # "new" /\ job'[j].known = job[j].known
    /\ j = Boot => ~Serving /\ pc'[j] \in {"done", "failed"} \cup InOpen
    /\ j = Boot /\ pc'[j] \in InOpen => ShasIn(log) \subseteq job'[j].known
    /\ j \in Prunes => Serving /\ pc'[j] \notin {"read"} \cup InOpen
    /\ pc'[j] \in {"sweep_bodies", "sweep_sidecars"} =>
          \A f \in job'[j].todo : f[2] \notin job'[j].known
    /\ pc'[j] \in LateJob => j \in Pruners

\* These three are all a step has to establish.
LEMMA JobSpares ==
    ASSUME TypeOK, TypeOK', Spared, OnePruner, NEW j \in Jobs,
           OnlyMoves(j), TakesCondemned, KeepsToItself(j)
    PROVE  Spared'
<1> USE DEF OnlyMoves, TakesCondemned, KeepsToItself
<1>1. \A s : Condemned(s) => Condemned(s)'
  <2>1. \A i \in Gcs : pc[i] # "new" => pc'[i] # "new" /\ job'[i].known = job[i].known
    BY JobsDiffer
  <2>2. \A i \in Pruners : job[i].drop \subseteq job'[i].drop
    BY JobsDiffer
  <2> QED BY <2>1, <2>2, CondemnedStays
<1>2. \A q \in Requests : pc'[q] = pc[q] /\ ShaOf[q] \in Digests
  BY TasksDiffer, JobsDiffer
<1>3. j # Boot => pc'[Boot] = pc[Boot] /\ job'[Boot] = job[Boot]
  BY JobsDiffer
<1>4. log' \subseteq log /\ ShasIn(log') \subseteq ShasIn(log)
  BY DEF ShasIn
<1>5. StoppedWhileOpening'
  <2>1. pc'[Boot] \in {"new", "done", "failed"} \cup InOpen
    BY <1>3 DEF Spared, StoppedWhileOpening
  <2>2. \A i \in Prunes : pc'[i] \notin {"read"} \cup InOpen
    BY TasksDiffer DEF Spared, StoppedWhileOpening
  <2>3. ASSUME ~Serving', NEW t \in Tasks PROVE ~InServer(t)'
    <3>1. ~Serving
      BY <1>3, <2>3 DEF Serving
    <3>2. j \notin Prunes
      BY <3>1
    <3> QED BY <3>1, <3>2, JobsDiffer DEF InServer, Spared, StoppedWhileOpening
  <2> QED BY <2>1, <2>2, <2>3 DEF StoppedWhileOpening
<1>6. PastBodyHasBody'
  <2> SUFFICES ASSUME NEW r \in Requests,
                      pc[r] \in {"probe_sidecar", "compare", "write_sidecar",
                                 "late_sidecar", "append", "late_append"},
                      ~Condemned(ShaOf[r])'
               PROVE  body'[ShaOf[r]] # Absent
    BY <1>2 DEF PastBodyHasBody
  <2>1. body[ShaOf[r]] # Absent
    BY <1>1 DEF Spared, PastBodyHasBody
  <2>2. Serving
    BY Places, TasksDiffer DEF Spared, StoppedWhileOpening, InServer
  <2> QED BY <1>2, <2>1, <2>2
<1>7. SparedHaveBodies'
  <2> SUFFICES ASSUME NEW e \in log', ~Condemned(ShaOf[e])'
               PROVE  body'[ShaOf[e]] # Absent
    BY DEF SparedHaveBodies
  <2>1. e \in log /\ e \in Requests /\ ShaOf[e] \in ShasIn(log)
    BY <1>4 DEF ShasIn, TypeOK
  <2>2. body[ShaOf[e]] # Absent
    BY <1>1, <2>1 DEF Spared, SparedHaveBodies
  <2> QED BY <1>2, <2>1, <2>2
<1>8. SweepsSpareTheKnown'
  <2>1. pc'[Boot] \in InOpen => ShasIn(log') \subseteq job'[Boot].known
    BY <1>3, <1>4 DEF Spared, SweepsSpareTheKnown
  <2>2. \A i \in Sweeps : pc'[i] \in {"sweep_bodies", "sweep_sidecars"} =>
           \A f \in job'[i].todo : f[2] \notin job'[i].known
    BY JobsDiffer DEF Spared, SweepsSpareTheKnown, Jobs
  <2> QED BY <2>1, <2>2 DEF SweepsSpareTheKnown, ShasIn
<1>9. PrunersTakeTheDropped'
  <2>1. ASSUME NEW i \in Pruners PROVE TakesTheDropped(i)'
    <3>1. CASE i = j
      BY <3>1
    <3>2. CASE i # j
      <4>1. pc'[i] = pc[i] /\ job'[i] = job[i] /\ log' = log
        BY <3>2, JobsDiffer DEF OnePruner
      <4>2. TakesTheDropped(i)
        BY DEF Spared, PrunersTakeTheDropped
      <4> QED BY <4>1, <4>2 DEF TakesTheDropped
    <3> QED BY <3>1, <3>2
  <2>2. \A i \in Jobs : pc'[i] \in LateJob => i \in Pruners
    BY JobsDiffer DEF Spared, PrunersTakeTheDropped
  <2> QED BY <2>1, <2>2 DEF PrunersTakeTheDropped
<1> QED BY <1>5, <1>6, <1>7, <1>8, <1>9 DEF Spared

LEMMA SweepSpares ==
    ASSUME TypeOK, TypeOK', Spared, OnePruner, NEW j \in Jobs,
           \/ OpenStore(j) \/ ListBodies(j) \/ ListSidecars(j) \/ RemoveOrphan(j) \/ Opened(j)
    PROVE  Spared'
<1>1. j \in Sweeps /\ j \notin Prunes /\ (j \in Pruners => TakesTheDropped(j))
  BY JobsDiffer, Places DEF OpenStore, ListBodies, ListSidecars, RemoveOrphan, Opened, Spared,
     StoppedWhileOpening, PrunersTakeTheDropped, Sweeps
<1>2. /\ pc[j] \in {"new"} \cup InOpen /\ log' = log
      /\ \A t \in Tasks : t # j => pc'[t] = pc[t]
      /\ j = Boot => ~Serving
  BY Places DEF TypeOK, GoTo, Serving, OpenStore, ListBodies, ListSidecars, RemoveOrphan, Opened
<1>3. job[j] \in JobRecord /\ job \in [Jobs -> JobRecord] /\ j \in Tasks
  BY JobsDiffer DEF TypeOK
<1>4. \A t \in Tasks : \A where : GoTo(t, where) => pc'[t] = where
  BY DEF GoTo, TypeOK
<1>5. j = Boot /\ pc[j] \in InOpen => ShasIn(log) \subseteq job[j].known
  BY DEF Spared, SweepsSpareTheKnown
<1>6. CASE OpenStore(j)
  <2>1. job'[j] = [NoJob EXCEPT !.known = ShasIn(log)] /\ \A i \in Jobs : i # j => job'[i] = job[i]
    BY <1>3, <1>6 DEF OpenStore
  <2>2. job'[j].known = ShasIn(log) /\ job'[j].drop = {}
    BY <2>1 DEF NoJob
  <2>3. pc[j] = "new" /\ pc'[j] = "bodies" /\ body' = body
    BY <1>3, <1>4, <1>6 DEF OpenStore
  <2>4. j \in Pruners => job[j].drop = {} /\ TakesTheDropped(j)'
    BY <1>1, <2>2, <2>3, Places DEF TakesTheDropped
  <2>a. OnlyMoves(j)
    BY <1>1, <1>2, <2>1, <2>2, <2>3, <2>4 DEF OnlyMoves
  <2>b. TakesCondemned
    BY <1>1, <1>2, <2>1, <2>2, <2>3, <2>4 DEF TakesCondemned
  <2>c. KeepsToItself(j)
    BY <1>1, <1>2, <2>1, <2>2, <2>3, <2>4, Places DEF KeepsToItself
  <2> QED BY <2>a, <2>b, <2>c, JobSpares
<1>7. CASE ListBodies(j) \/ ListSidecars(j)
  <2>1. PICK k \in {"body", "sidecar"} : job' = [job EXCEPT ![j].todo = Orphans(j, k)]
    BY <1>7 DEF ListBodies, ListSidecars
  <2>2. /\ job'[j].known = job[j].known /\ job'[j].drop = job[j].drop
        /\ job'[j].todo = Orphans(j, k)
        /\ \A i \in Jobs : i # j => job'[i] = job[i]
    BY <1>3, <2>1 DEF JobRecord
  <2>3. \A f \in Orphans(j, k) : f[2] \notin job[j].known
    BY DEF Orphans
  <2>4. /\ pc[j] \in {"bodies", "sweep_bodies"} /\ body' = body
        /\ pc'[j] \in {"sweep_bodies", "sweep_sidecars"}
    BY <1>3, <1>4, <1>7 DEF ListBodies, ListSidecars
  <2>5. j \in Pruners => TakesTheDropped(j)'
    BY <1>1, <2>2, <2>4, Places DEF TakesTheDropped
  <2>a. OnlyMoves(j)
    BY <1>1, <1>2, <1>5, <2>2, <2>3, <2>4, <2>5 DEF OnlyMoves
  <2>b. TakesCondemned
    BY <1>1, <1>2, <1>5, <2>2, <2>3, <2>4, <2>5 DEF TakesCondemned
  <2>c. KeepsToItself(j)
    BY <1>1, <1>2, <1>5, <2>2, <2>3, <2>4, <2>5, Places DEF KeepsToItself
  <2> QED BY <2>a, <2>b, <2>c, JobSpares
<1>8. CASE RemoveOrphan(j)
  <2>1. PICK f \in job[j].todo :
           /\ Delete(f)
           /\ job' = [job EXCEPT ![j].todo = @ \ {f}]
           /\ pc' = pc \/ GoTo(j, "failed")
    BY <1>8 DEF RemoveOrphan
  <2>2. /\ pc[j] \in {"sweep_bodies", "sweep_sidecars"}
        /\ \A g \in job[j].todo : g[2] \notin job[j].known
        /\ f \in Files
    BY <1>1, <1>3, <1>8 DEF RemoveOrphan, Spared, SweepsSpareTheKnown, JobRecord
  <2>3. /\ job'[j].known = job[j].known /\ job'[j].drop = job[j].drop
        /\ job'[j].todo = job[j].todo \ {f}
        /\ \A i \in Jobs : i # j => job'[i] = job[i]
    BY <1>3, <2>1 DEF JobRecord
  <2>4. pc'[j] = pc[j] \/ pc'[j] = "failed"
    BY <1>3, <1>4, <2>1
  <2>5. \A s \in Digests : s # f[2] => body'[s] = body[s]
    BY <2>1 DEF Delete, TypeOK
  <2>6. j \in Gcs => Condemned(f[2])'
    BY <2>2, <2>3, <2>4 DEF Condemned
  <2>7. j = Boot => f[2] \notin ShasIn(log)
    BY <1>5, <2>2, Places
  <2>8. j \in Pruners => TakesTheDropped(j)'
    BY <1>1, <2>2, <2>3, <2>4, Places DEF TakesTheDropped
  <2>9. \A s \in Digests : body'[s] = body[s] \/ Condemned(s)' \/ (~Serving /\ s \notin ShasIn(log))
    BY <1>1, <1>2, <2>5, <2>6, <2>7 DEF Sweeps
  <2>10. pc'[j] \in {"sweep_bodies", "sweep_sidecars"} =>
            \A g \in job'[j].todo : g[2] \notin job'[j].known
    BY <2>2, <2>3
  <2>a. OnlyMoves(j)
    BY <1>1, <1>2, <1>5, <2>2, <2>3, <2>4, <2>8, <2>9, <2>10 DEF OnlyMoves
  <2>b. TakesCondemned
    BY <1>1, <1>2, <1>5, <2>2, <2>3, <2>4, <2>8, <2>9, <2>10 DEF TakesCondemned
  <2>c. KeepsToItself(j)
    BY <1>1, <1>2, <1>5, <2>2, <2>3, <2>4, <2>8, <2>9, <2>10, Places DEF KeepsToItself
  <2> QED BY <2>a, <2>b, <2>c, JobSpares
<1>9. CASE Opened(j)
  <2>1. /\ job' = job /\ body' = body /\ pc[j] = "sweep_sidecars" /\ job[j].todo = {}
        /\ pc'[j] = IF j = Boot THEN "done" ELSE "read"
    BY <1>3, <1>4, <1>9 DEF Opened
  <2>2. j \in Pruners => TakesTheDropped(j)'
    BY <1>1, <2>1, Places, JobsDiffer DEF TakesTheDropped
  <2>a. OnlyMoves(j)
    BY <1>1, <1>2, <2>1, <2>2 DEF OnlyMoves
  <2>b. TakesCondemned
    BY <1>1, <1>2, <2>1, <2>2 DEF TakesCondemned
  <2>c. KeepsToItself(j)
    BY <1>1, <1>2, <2>1, <2>2, Places DEF KeepsToItself
  <2> QED BY <2>a, <2>b, <2>c, JobSpares
<1> QED BY <1>6, <1>7, <1>8, <1>9

LEMMA PruneSpares ==
    ASSUME TypeOK, TypeOK', Spared, OnePruner, NEW j \in Jobs,
           \/ ReadAll(j) \/ Probe(j) \/ Remove(j) \/ Rewrite(j) \/ ReportOnly(j)
           \/ CancelPrune(j) \/ LatePruneStep(j) \/ KillGc(j)
    PROVE  Spared'
<1>1. j # Boot
  BY JobsDiffer, Places DEF ReadAll, Probe, Remove, Rewrite, ReportOnly, CancelPrune,
     LatePruneStep, KillGc, Spared, StoppedWhileOpening
<1>2. /\ j \in Tasks /\ (j \in Prunes \/ j \in Gcs) /\ (j \notin DryRuns => j \in Pruners)
      /\ j \in Pruners => TakesTheDropped(j)
      /\ j \in Gcs => j \notin Prunes
      /\ pc[j] \in LateJob => j \in Pruners
  BY <1>1, JobsDiffer DEF Pruners, Spared, PrunersTakeTheDropped
<1>3. job[j] \in JobRecord /\ job \in [Jobs -> JobRecord]
  BY DEF TypeOK
<1>4. \A t \in Tasks : \A where : GoTo(t, where) => pc'[t] = where
  BY DEF GoTo, TypeOK
<1>5. \A t \in Tasks : t # j => pc'[t] = pc[t]
  BY DEF TypeOK, GoTo, ReadAll, Probe, Remove, Rewrite, ReportOnly, CancelPrune, LatePruneStep, KillGc
<1>6. j \in Prunes => Serving
  <2>1. j \in Prunes => (pc[j] = "new" /\ Serving) \/ pc[j] \in InPrune \cup LateJob
    BY <1>2, Places DEF ReadAll, Probe, Remove, Rewrite, ReportOnly, CancelPrune, LatePruneStep, KillGc
  <2> QED BY <1>2, <2>1 DEF Spared, StoppedWhileOpening, InServer
<1>7. \A f \in job[j].todo : j \in Pruners /\ f[2] \in job'[j].drop => Condemned(f[2])'
  BY DEF Condemned
<1>8. CASE ReadAll(j)
  <2>1. PICK drop \in SUBSET (ShasIn(log) \cap Prunable) :
           job' = [job EXCEPT ![j] =
                      [@ EXCEPT !.listed = log, !.drop = drop, !.unprobed = drop]]
    BY <1>8 DEF ReadAll
  <2>2. job'[j] = [job[j] EXCEPT !.listed = log, !.drop = drop, !.unprobed = drop]
    BY <1>3, <2>1
  <2>3. /\ job'[j].listed = log /\ job'[j].drop = drop /\ job'[j].unprobed = drop
        /\ job'[j].known = job[j].known /\ job'[j].todo = job[j].todo
    BY <1>3, <2>2 DEF JobRecord
  <2>4. \A i \in Jobs : i # j => job'[i] = job[i]
    BY <1>3, <2>1
  <2>5. pc[j] \in {"new", "read"} /\ pc'[j] = "plan" /\ UNCHANGED <<log, body>>
    BY <1>2, <1>4, <1>8 DEF ReadAll
  <2>6. j \in Pruners => job[j].drop = {} /\ TakesTheDropped(j)'
    BY <1>2, <2>3, <2>5, Places DEF TakesTheDropped
  <2>7. j \in Gcs => pc[j] # "new"
    BY <1>2, <1>8 DEF ReadAll
  <2>a. OnlyMoves(j)
    BY <1>1, <1>5, <1>6, <2>3, <2>4, <2>5, <2>6, <2>7 DEF OnlyMoves
  <2>b. TakesCondemned
    BY <1>1, <1>5, <1>6, <2>3, <2>4, <2>5, <2>6, <2>7 DEF TakesCondemned
  <2>c. KeepsToItself(j)
    BY <1>1, <1>5, <1>6, <2>3, <2>4, <2>5, <2>6, <2>7, Places DEF KeepsToItself
  <2> QED BY <2>a, <2>b, <2>c, JobSpares
<1>9. CASE Probe(j)
  <2>1. PICK s \in job[j].unprobed :
           job' = [job EXCEPT ![j] =
                      [@ EXCEPT !.unprobed = job[j].unprobed \ {s},
                                !.todo = job[j].todo \cup Removable(s)]]
    BY <1>9 DEF Probe
  <2>2. job'[j] = [job[j] EXCEPT !.unprobed = job[j].unprobed \ {s},
                                 !.todo = job[j].todo \cup Removable(s)]
    BY <1>3, <2>1
  <2>3. /\ job'[j].listed = job[j].listed /\ job'[j].drop = job[j].drop
        /\ job'[j].unprobed = job[j].unprobed \ {s}
        /\ job'[j].known = job[j].known /\ job'[j].todo = job[j].todo \cup Removable(s)
    BY <1>3, <2>2 DEF JobRecord
  <2>4. \A i \in Jobs : i # j => job'[i] = job[i]
    BY <1>3, <2>1
  <2>5. pc[j] = "plan" /\ pc' = pc /\ UNCHANGED <<log, body>>
    BY <1>9 DEF Probe
  <2>6. \A f \in Removable(s) : f[2] = s
    BY DEF Removable
  <2>7. j \in Pruners => TakesTheDropped(j)'
    BY <1>2, <2>3, <2>5, <2>6, Places DEF TakesTheDropped
  <2>a. OnlyMoves(j)
    BY <1>1, <1>5, <1>6, <2>3, <2>4, <2>5, <2>7 DEF OnlyMoves
  <2>b. TakesCondemned
    BY <1>1, <1>5, <1>6, <2>3, <2>4, <2>5, <2>7 DEF TakesCondemned
  <2>c. KeepsToItself(j)
    BY <1>1, <1>5, <1>6, <2>3, <2>4, <2>5, <2>7, Places DEF KeepsToItself
  <2> QED BY <2>a, <2>b, <2>c, JobSpares
<1>10. CASE Remove(j)
  <2>1. PICK f \in job[j].todo : Delete(f) /\ job' = [job EXCEPT ![j].todo = @ \ {f}]
    BY <1>10, UpcomingInTodo DEF Remove
  <2>2. /\ job'[j].listed = job[j].listed /\ job'[j].drop = job[j].drop
        /\ job'[j].unprobed = job[j].unprobed
        /\ job'[j].known = job[j].known /\ job'[j].todo = job[j].todo \ {f}
        /\ \A i \in Jobs : i # j => job'[i] = job[i]
    BY <1>3, <2>1 DEF JobRecord
  <2>3. pc[j] = "plan" /\ pc' = pc /\ log' = log /\ j \in Pruners
    BY <1>2, <1>10 DEF Remove
  <2>4. TakesTheDropped(j)' /\ f[2] \in job'[j].drop
    BY <1>2, <2>2, <2>3, Places DEF TakesTheDropped
  <2>5. \A s \in Digests : body'[s] = body[s] \/ Condemned(s)'
    BY <1>7, <2>1, <2>3, <2>4 DEF Delete, TypeOK
  <2>a. OnlyMoves(j)
    BY <1>1, <1>5, <1>6, <2>2, <2>3, <2>4, <2>5 DEF OnlyMoves
  <2>b. TakesCondemned
    BY <1>1, <1>5, <1>6, <2>2, <2>3, <2>4, <2>5 DEF TakesCondemned
  <2>c. KeepsToItself(j)
    BY <1>1, <1>5, <1>6, <2>2, <2>3, <2>4, <2>5, Places DEF KeepsToItself
  <2> QED BY <2>a, <2>b, <2>c, JobSpares
<1>11. CASE Rewrite(j) \/ ReportOnly(j) \/ KillGc(j)
  <2>1. /\ job' = job /\ body' = body /\ pc'[j] \in {"done", "lost"}
        /\ log' = log \/ (log' = Retained(j) /\ j \in Pruners /\ pc[j] = "plan")
    BY <1>2, <1>4, <1>11 DEF Rewrite, ReportOnly, KillGc
  <2>2. Retained(j) \subseteq job[j].listed
    BY DEF Retained
  <2>3. log' = log \/ (log' \subseteq log /\ j \in Pruners)
    BY <1>2, <2>1, <2>2 DEF TakesTheDropped
  <2>4. j \in Pruners => TakesTheDropped(j)'
    BY <2>1, Places DEF TakesTheDropped
  <2>a. OnlyMoves(j)
    BY <1>1, <1>5, <1>6, <2>1, <2>3, <2>4 DEF OnlyMoves
  <2>b. TakesCondemned
    BY <1>1, <1>5, <1>6, <2>1, <2>3, <2>4 DEF TakesCondemned
  <2>c. KeepsToItself(j)
    BY <1>1, <1>5, <1>6, <2>1, <2>3, <2>4, Places DEF KeepsToItself
  <2> QED BY <2>a, <2>b, <2>c, JobSpares
<1>12. CASE CancelPrune(j)
  <2>1. j \in Prunes /\ j \notin Gcs /\ pc[j] = "plan" /\ UNCHANGED <<log, body>>
    BY <1>2, <1>12 DEF CancelPrune
  <2>2. \/ pc'[j] \in {"cancelled", "late_rewrite"} /\ job' = job
        \/ pc'[j] = "late_remove"
           /\ \E f \in Upcoming(job[j].todo) : job' = [job EXCEPT ![j].todo = {f}]
    BY <1>2, <1>4, <1>12 DEF CancelPrune
  <2>3. pc'[j] \in LateJob => j \in Pruners
    BY <1>2, <1>4, <1>12, Places DEF CancelPrune
  <2>4. /\ job'[j].listed = job[j].listed /\ job'[j].drop = job[j].drop
        /\ job'[j].unprobed = job[j].unprobed
        /\ job'[j].known = job[j].known /\ job'[j].todo \subseteq job[j].todo
        /\ \A i \in Jobs : i # j => job'[i] = job[i]
    BY <1>3, <2>2, UpcomingInTodo DEF JobRecord
  <2>5. j \in Pruners => TakesTheDropped(j)'
    BY <1>2, <2>1, <2>2, <2>4, Places DEF TakesTheDropped
  <2>a. OnlyMoves(j)
    BY <1>1, <1>5, <1>6, <2>1, <2>2, <2>3, <2>4, <2>5 DEF OnlyMoves
  <2>b. TakesCondemned
    BY <1>1, <1>5, <1>6, <2>1, <2>2, <2>3, <2>4, <2>5 DEF TakesCondemned
  <2>c. KeepsToItself(j)
    BY <1>1, <1>5, <1>6, <2>1, <2>2, <2>3, <2>4, <2>5, Places DEF KeepsToItself
  <2> QED BY <2>a, <2>b, <2>c, JobSpares
<1>13. CASE LatePruneStep(j)
  <2>1. /\ pc[j] \in LateJob /\ pc'[j] = "cancelled" /\ job' = job /\ j \in Pruners
    BY <1>2, <1>4, <1>13, Places DEF LatePruneStep
  <2>2. TakesTheDropped(j)'
    BY <2>1, Places DEF TakesTheDropped
  <2>3. CASE pc[j] = "late_remove"
    <3>1. PICK f \in job[j].todo : Delete(f) /\ UNCHANGED log
      BY <1>13, <2>3 DEF LatePruneStep
    <3>2. Condemned(f[2])'
      BY <1>2, <1>7, <2>1, <2>3 DEF TakesTheDropped
    <3>3. \A s \in Digests : body'[s] = body[s] \/ Condemned(s)'
      BY <3>1, <3>2 DEF Delete, TypeOK
    <3>a. OnlyMoves(j)
      BY <1>1, <1>5, <1>6, <2>1, <2>2, <3>1, <3>3 DEF OnlyMoves
    <3>b. TakesCondemned
      BY <1>1, <1>5, <1>6, <2>1, <2>2, <3>1, <3>3 DEF TakesCondemned
    <3>c. KeepsToItself(j)
      BY <1>1, <1>5, <1>6, <2>1, <2>2, <3>1, <3>3, Places DEF KeepsToItself
    <3> QED BY <3>a, <3>b, <3>c, JobSpares
  <2>4. CASE pc[j] = "late_rewrite"
    <3>1. log' \subseteq log /\ body' = body
      BY <1>2, <1>13, <2>1, <2>4 DEF LatePruneStep, Retained, TakesTheDropped
    <3>a. OnlyMoves(j)
      BY <1>1, <1>5, <1>6, <2>1, <2>2, <3>1 DEF OnlyMoves
    <3>b. TakesCondemned
      BY <1>1, <1>5, <1>6, <2>1, <2>2, <3>1 DEF TakesCondemned
    <3>c. KeepsToItself(j)
      BY <1>1, <1>5, <1>6, <2>1, <2>2, <3>1, Places DEF KeepsToItself
    <3> QED BY <3>a, <3>b, <3>c, JobSpares
  <2> QED BY <2>1, <2>3, <2>4, Places
<1> QED BY <1>8, <1>9, <1>10, <1>11, <1>12, <1>13

LEMMA RestartSpares ==
    ASSUME TypeOK, TypeOK', Spared, Restart
    PROVE  Spared'
<1>1. /\ pc'[Boot] = "new" /\ ~Serving' /\ UNCHANGED <<log, body, job>>
      /\ \A t \in Tasks : t # Boot => pc'[t] = IF InServer(t) THEN "lost" ELSE pc[t]
  BY TasksDiffer DEF Restart, Serving
<1>2. \A t \in Tasks : ~InServer(t)' /\ (t # Boot => pc'[t] = "lost" \/ pc'[t] = pc[t])
  BY <1>1, Places, TasksDiffer DEF InServer
<1>3. \A j \in Gcs : pc'[j] = pc[j]
  BY <1>1, JobsDiffer DEF InServer, Tasks
<1>4. \A s : Condemned(s)' <=> Condemned(s)
  BY <1>1, <1>3 DEF Condemned
<1>5. StoppedWhileOpening'
  <2>1. \A j \in Prunes : pc'[j] \notin {"read"} \cup InOpen
    BY <1>2, TasksDiffer, Places DEF Spared, StoppedWhileOpening
  <2> QED BY <1>1, <1>2, <2>1 DEF StoppedWhileOpening
<1>6. PastBodyHasBody'
  BY <1>1, <1>2, <1>4, TasksDiffer DEF Spared, PastBodyHasBody
<1>7. SweepsSpareTheKnown'
  <2>1. \A j \in Sweeps : j = Boot \/ pc'[j] = pc[j]
    BY <1>3 DEF Sweeps
  <2> QED BY <1>1, <2>1, Places DEF Spared, SweepsSpareTheKnown
<1>8. PrunersTakeTheDropped'
  <2>1. \A j \in Jobs : j # Boot => pc'[j] = "lost" \/ pc'[j] = pc[j]
    BY <1>2, JobsDiffer
  <2>2. \A j \in Pruners : TakesTheDropped(j)'
    BY <1>1, <2>1, JobsDiffer, Places DEF Spared, PrunersTakeTheDropped, TakesTheDropped
  <2>3. \A j \in Jobs : pc'[j] \in LateJob => j \in Pruners
    BY <1>1, <2>1, Places DEF Spared, PrunersTakeTheDropped
  <2> QED BY <2>2, <2>3 DEF PrunersTakeTheDropped
<1>9. SparedHaveBodies'
  BY <1>1, <1>4 DEF Spared, SparedHaveBodies
<1> QED BY <1>5, <1>6, <1>7, <1>8, <1>9 DEF Spared

LEMMA SparedStep ==
    ASSUME TypeOK, TypeOK', Spared, OnePruner, [Next]_vars
    PROVE  Spared'
<1>1. ASSUME NEW r \in Requests, RequestStep(r) \/ CancelRequest(r) \/ LateRequestStep(r)
      PROVE  Spared'
  BY <1>1, RequestSpares
<1>2. ASSUME NEW j \in Jobs, JobStep(j) \/ CancelPrune(j) \/ LatePruneStep(j) \/ KillGc(j)
      PROVE  Spared'
  BY <1>2, SweepSpares, PruneSpares DEF JobStep
<1>3. CASE Restart
  BY <1>3, RestartSpares
<1>4. CASE UNCHANGED vars
  <2>1. UNCHANGED <<log, body, sidecar, pc, job>>
    BY <1>4 DEF vars
  <2>2. \A s : Condemned(s)' <=> Condemned(s)
    BY <2>1 DEF Condemned
  <2>3. \A j : TakesTheDropped(j)' <=> TakesTheDropped(j)
    BY <2>1 DEF TakesTheDropped
  <2>4. StoppedWhileOpening' /\ SweepsSpareTheKnown' /\ PrunersTakeTheDropped'
    BY <2>1, <2>3 DEF Spared, StoppedWhileOpening, SweepsSpareTheKnown, PrunersTakeTheDropped,
       Serving, InServer, ShasIn
  <2>5. PastBodyHasBody' /\ SparedHaveBodies'
    BY <2>1, <2>2 DEF Spared, PastBodyHasBody, SparedHaveBodies
  <2> QED BY <2>4, <2>5 DEF Spared
<1> QED BY <1>1, <1>2, <1>3, <1>4 DEF Next

LEMMA SparedInit ==
    ASSUME Init
    PROVE  Spared
<1>1. \A t \in Tasks : pc[t] = "new"
  BY DEF Init
<1>2. \A r \in Requests : pc[r] = "new"
  BY <1>1, TasksDiffer
<1>3. \A j \in Jobs : pc[j] = "new" /\ job[j] = NoJob
  BY <1>1, JobsDiffer DEF Init
<1>4. log = {}
  BY DEF Init, AInit
<1>5. \A j \in Pruners : TakesTheDropped(j)
  BY <1>3, JobsDiffer, Places DEF TakesTheDropped, NoJob
<1>6. StoppedWhileOpening /\ SweepsSpareTheKnown
  BY <1>1, <1>3, JobsDiffer, Places DEF StoppedWhileOpening, SweepsSpareTheKnown, InServer, Jobs
<1> QED BY <1>2, <1>3, <1>4, <1>5, <1>6, Places DEF Spared, PastBodyHasBody, PrunersTakeTheDropped,
           SparedHaveBodies

\* The inductive invariant of a pruned store, for any uploads, cancellations,
\* crashes and restarts and any choice of what to drop.
THEOREM SparedInvHolds == OnePruner => (Spec => []SparedInv)
<1> SUFFICES ASSUME OnePruner PROVE Spec => []SparedInv
  OBVIOUS
<1>1. Init => Spared
  BY SparedInit
<1>2. TypeOK /\ TypeOK' /\ Spared /\ [Next]_vars => Spared'
  BY SparedStep
<1>3. TypeOK /\ Spared => SparedInv
  BY DEF Spared, SparedInv
<1> QED BY <1>1, <1>2, <1>3, TypeCorrect, PTL DEF Spec

\* However uploads, restarts, dry runs and one destructive prune or ao2-cp-gc
\* interleave, and wherever they are cancelled or killed, no listed document
\* that the policy retains loses its body.
THEOREM RetainedKeepBodies == OnePruner => (Spec => []SparedHaveBodies)
<1> SUFFICES ASSUME OnePruner PROVE Spec => []SparedHaveBodies
  OBVIOUS
<1>1. Init => Spared
  BY SparedInit
<1>2. TypeOK /\ TypeOK' /\ Spared /\ [Next]_vars => Spared'
  BY SparedStep
<1>3. Spared => SparedHaveBodies
  BY DEF Spared
<1> QED BY <1>1, <1>2, <1>3, TypeCorrect, PTL DEF Spec
=============================================================================
