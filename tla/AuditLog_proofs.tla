---------------------------- MODULE AuditLog_proofs ----------------------------
(***************************************************************************)
(* The counters of the middleware and of the audit log, the byte count of  *)
(* its file, the count of its losses, what its two generations hold, the   *)
(* types and what a resumed stream is sent, for any number of requests,    *)
(* slots, streams and faults.                                              *)
(***************************************************************************)
EXTENDS AuditLog, Subsequences_proofs

PCs == {"new"} \cup InServer \cup Left

-----------------------------------------------------------------------------
(* Counting.                                                               *)

At(f, at) == Cardinality({ r \in Requests : f[r] \in at })

In(where, at) == IF where \in at THEN 1 ELSE 0

\* One request that moves changes a number by its leaving and its arrival.
LEMMA Move ==
    ASSUME NEW f \in [Requests -> PCs], NEW r \in Requests, NEW where \in PCs, NEW at
    PROVE  /\ At(f, at) \in Nat /\ At([f EXCEPT ![r] = where], at) \in Nat
           /\ At([f EXCEPT ![r] = where], at) = At(f, at) + In(where, at) - In(f[r], at)
<1>. DEFINE g == [f EXCEPT ![r] = where]
            F == { x \in Requests : f[x] \in at }
            G == { x \in Requests : g[x] \in at }
<1>1. IsFiniteSet(F) /\ IsFiniteSet(G)
  BY FS_Subset, AuditConstants
<1>2. Cardinality(F) \in Nat /\ Cardinality(G) \in Nat
  BY <1>1, FS_CardinalityType
<1>3. \A x \in Requests : g[x] = IF x = r THEN where ELSE f[x]
  OBVIOUS
<1>4. CASE f[r] \in at <=> where \in at
  <2>1. G = F
    BY <1>3, <1>4
  <2> QED BY <1>2, <1>4, <2>1 DEF At, In
<1>5. CASE f[r] \in at /\ where \notin at
  <2>1. G = F \ {r} /\ r \in F
    BY <1>3, <1>5
  <2>2. Cardinality(G) = Cardinality(F) - 1
    BY <1>1, <2>1, FS_RemoveElement
  <2> QED BY <1>2, <1>5, <2>2 DEF At, In
<1>6. CASE f[r] \notin at /\ where \in at
  <2>1. G = F \cup {r} /\ r \notin F
    BY <1>3, <1>6
  <2>2. Cardinality(G) = Cardinality(F) + 1
    BY <1>1, <2>1, FS_AddElement
  <2> QED BY <1>2, <1>6, <2>2 DEF At, In
<1> QED BY <1>4, <1>5, <1>6

\* A number nobody contributes to.
LEMMA Nobody ==
    ASSUME NEW f, NEW at, \A r \in Requests : f[r] \notin at
    PROVE  At(f, at) = 0
<1>1. { r \in Requests : f[r] \in at } = {}
  OBVIOUS
<1> QED BY <1>1, FS_EmptySet DEF At

-----------------------------------------------------------------------------
(* The invariant.                                                          *)

Numbers ==
    /\ inFlight = At(pc, InServer)
    /\ recorded = Len(sent) + At(pc, Appending)
    /\ appended = Len(sent) + At(pc, {"broadcast"})
    /\ Capacity > 0 => dropped + Len(ring) = Len(sent) + At(pc, Appending \ {"push"})

Permits ==
    /\ slots = { r \in Requests : pc[r] = "running" }
    /\ Cardinality(slots) <= Slots

CountInv ==
    /\ pc \in [Requests -> PCs]
    /\ ring \in Seq(Requests) /\ sent \in Seq(Requests) /\ dropped \in Nat
    /\ Permits
    /\ Numbers

\* What every move changes.
LEMMA Moved ==
    ASSUME CountInv, NEW r \in Requests, NEW where \in PCs, GoTo(r, where)
    PROVE  /\ pc' \in [Requests -> PCs]
           /\ At(pc', InServer) = At(pc, InServer) + In(where, InServer) - In(pc[r], InServer)
           /\ At(pc', Appending) = At(pc, Appending) + In(where, Appending) - In(pc[r], Appending)
           /\ At(pc', {"broadcast"})
                = At(pc, {"broadcast"}) + In(where, {"broadcast"}) - In(pc[r], {"broadcast"})
           /\ At(pc', Appending \ {"push"})
                = At(pc, Appending \ {"push"}) + In(where, Appending \ {"push"})
                    - In(pc[r], Appending \ {"push"})
           /\ At(pc, InServer) \in Nat /\ At(pc, Appending) \in Nat
           /\ At(pc, {"broadcast"}) \in Nat /\ At(pc, Appending \ {"push"}) \in Nat
BY Move DEF CountInv, GoTo

\* A move that no counter counts leaves the numbers as they are.
LEMMA Unnumbered ==
    ASSUME CountInv, NEW r \in Requests, NEW where \in PCs, GoTo(r, where),
           In(where, InServer) = In(pc[r], InServer),
           In(where, Appending) = In(pc[r], Appending),
           In(where, {"broadcast"}) = In(pc[r], {"broadcast"}),
           In(where, Appending \ {"push"}) = In(pc[r], Appending \ {"push"}),
           UNCHANGED <<inFlight, recorded, sent, ringVars>>
    PROVE  Numbers'
<1>1. In(pc[r], InServer) \in {0, 1} /\ In(pc[r], Appending) \in {0, 1}
      /\ In(pc[r], {"broadcast"}) \in {0, 1} /\ In(pc[r], Appending \ {"push"}) \in {0, 1}
  BY DEF In
<1>2. /\ At(pc', InServer) = At(pc, InServer)
      /\ At(pc', Appending) = At(pc, Appending)
      /\ At(pc', {"broadcast"}) = At(pc, {"broadcast"})
      /\ At(pc', Appending \ {"push"}) = At(pc, Appending \ {"push"})
  BY <1>1, Moved
<1> QED BY <1>2 DEF CountInv, Numbers, ringVars

\* Permits where a request moves.
LEMMA Kept ==
    ASSUME CountInv, NEW r \in Requests, NEW where \in PCs, GoTo(r, where),
           where # "running", slots' = slots \ {r}
    PROVE  Permits'
<1>1. IsFiniteSet(slots)
  BY FS_Subset, AuditConstants DEF CountInv, Permits
<1>2. slots' \subseteq slots
  OBVIOUS
<1>3. IsFiniteSet(slots') /\ Cardinality(slots') <= Cardinality(slots)
  BY <1>1, <1>2, FS_Subset
<1>4. Cardinality(slots) \in Nat /\ Cardinality(slots') \in Nat
  BY <1>1, <1>3, FS_CardinalityType
<1>5. slots' = { x \in Requests : pc'[x] = "running" }
  BY DEF CountInv, Permits, GoTo
<1> QED BY <1>3, <1>4, <1>5, AuditConstants DEF CountInv, Permits

\* A request without a permit that moves keeps the permits as they are.
LEMMA KeptOutside ==
    ASSUME CountInv, NEW r \in Requests, NEW where \in PCs, GoTo(r, where),
           where # "running", pc[r] # "running", UNCHANGED slots
    PROVE  Permits'
<1>1. slots' = slots \ {r}
  BY DEF CountInv, Permits
<1> QED BY <1>1, Kept

-----------------------------------------------------------------------------
(* Every step.                                                             *)

\* The parts of the invariant beside the numbers and the permits.
Sinks == ring \in Seq(Requests) /\ sent \in Seq(Requests) /\ dropped \in Nat

\* The parts make the invariant.
LEMMA Together ==
    ASSUME pc' \in [Requests -> PCs], Sinks', Permits', Numbers'
    PROVE  CountInv'
BY DEF CountInv, Sinks

\* What a file action does: somebody inside append goes on inside append.
LEMMA Inside ==
    ASSUME CountInv, NEW r \in Requests, NEW where \in {"count"} \cup Rotating, GoTo(r, where),
           pc[r] \in {"persist"} \cup Rotating,
           UNCHANGED <<slots, inFlight, recorded, sent, ringVars>>
    PROVE  CountInv'
<1>1. where \in PCs
  BY DEF PCs, InServer, Appending
<1>2. /\ In(where, InServer) = In(pc[r], InServer)
      /\ In(where, Appending) = In(pc[r], Appending)
      /\ In(where, {"broadcast"}) = In(pc[r], {"broadcast"})
      /\ In(where, Appending \ {"push"}) = In(pc[r], Appending \ {"push"})
  BY DEF In, InServer, Appending, Rotating
<1>3. Numbers'
  BY <1>1, <1>2, Unnumbered
<1>4. Permits'
  BY <1>1, KeptOutside DEF Rotating
<1>5. pc' \in [Requests -> PCs]
  BY <1>1, Moved
<1> QED BY <1>3, <1>4, <1>5, Together DEF CountInv, Sinks, ringVars

\* Coming in, being admitted, being answered.
LEMMA Admission ==
    ASSUME CountInv, NEW r \in Requests,
           Enter(r) \/ Acquire(r) \/ Answer(r) \/ TimeOut(r) \/ Disconnect(r)
    PROVE  CountInv'
<1>. USE DEF In, PCs, InServer, Appending, Rotating, Admitted, Left
<1>0. Sinks'
  BY DEF Enter, Acquire, Answer, TimeOut, Disconnect, CountInv, Sinks, ringVars, streamVars
<1>1. CASE Enter(r)
  <2>1. pc' \in [Requests -> PCs] /\ Permits'
    BY <1>1, Moved, KeptOutside DEF Enter
  <2>2. Numbers'
    <3>1. GoTo(r, "waiting") /\ pc[r] = "new" /\ inFlight' = inFlight + 1
      BY <1>1 DEF Enter
    <3>2. /\ At(pc', InServer) = At(pc, InServer) + 1
          /\ At(pc', Appending) = At(pc, Appending)
          /\ At(pc', {"broadcast"}) = At(pc, {"broadcast"})
          /\ At(pc', Appending \ {"push"}) = At(pc, Appending \ {"push"})
      BY <3>1, Moved
    <3>. HIDE DEF InServer, Appending
    <3> QED BY <1>1, <3>1, <3>2 DEF Enter, CountInv, Numbers, ringVars, streamVars
  <2> QED BY <1>0, <2>1, <2>2, Together
<1>2. CASE Acquire(r)
  <2>1. pc' \in [Requests -> PCs]
    BY <1>2, Moved DEF Acquire
  <2>2. Permits'
    <3>1. IsFiniteSet(slots) /\ r \notin slots
      BY <1>2, FS_Subset, AuditConstants DEF CountInv, Permits, Acquire
    <3>2. Cardinality(slots') = Cardinality(slots) + 1 /\ Cardinality(slots) \in Nat
      BY <1>2, <3>1, FS_AddElement, FS_CardinalityType DEF Acquire
    <3>3. slots' = { x \in Requests : pc'[x] = "running" }
      BY <1>2 DEF CountInv, Permits, Acquire, GoTo
    <3> QED BY <1>2, <3>2, <3>3, AuditConstants DEF Acquire, Permits
  <2>3. Numbers'
    BY <1>2, Unnumbered DEF Acquire, ringVars, streamVars
  <2> QED BY <1>0, <2>1, <2>2, <2>3, Together
<1>3. CASE Answer(r) \/ TimeOut(r)
  <2>1. pc' \in [Requests -> PCs] /\ Permits'
    BY <1>3, Moved, Kept DEF Answer, TimeOut
  <2>2. Numbers'
    BY <1>3, Unnumbered DEF Answer, TimeOut, ringVars, streamVars
  <2> QED BY <1>0, <2>1, <2>2, Together
<1>4. CASE Disconnect(r)
  <2>1. pc' \in [Requests -> PCs] /\ Permits'
    BY <1>4, Moved, Kept DEF Disconnect
  <2>2. Numbers'
    <3>1. GoTo(r, "disconnected") /\ pc[r] \in Admitted /\ inFlight' = inFlight - 1
      BY <1>4 DEF Disconnect
    <3>2. /\ At(pc', InServer) = At(pc, InServer) - 1
          /\ At(pc', Appending) = At(pc, Appending)
          /\ At(pc', {"broadcast"}) = At(pc, {"broadcast"})
          /\ At(pc', Appending \ {"push"}) = At(pc, Appending \ {"push"})
      BY <3>1, Moved
    <3>. HIDE DEF InServer, Appending
    <3> QED BY <1>4, <3>1, <3>2 DEF Disconnect, CountInv, Numbers, ringVars, streamVars
  <2> QED BY <1>0, <2>1, <2>2, Together
<1> QED BY <1>1, <1>2, <1>3, <1>4

\* record_request and the three counted steps of append.
LEMMA Counted ==
    ASSUME CountInv, NEW r \in Requests,
           Record(r) \/ Push(r) \/ Count(r) \/ Broadcast(r)
    PROVE  CountInv'
<1>. USE DEF In, PCs, InServer, Appending, Rotating, Admitted, Left
<1>1. CASE Record(r)
  <2>1. pc' \in [Requests -> PCs] /\ Permits'
    BY <1>1, Moved, KeptOutside DEF Record
  <2>2. GoTo(r, "push") /\ pc[r] = "answered" /\ recorded' = recorded + 1
    BY <1>1 DEF Record
  <2>3. /\ At(pc', InServer) = At(pc, InServer)
        /\ At(pc', Appending) = At(pc, Appending) + 1
        /\ At(pc', {"broadcast"}) = At(pc, {"broadcast"})
        /\ At(pc', Appending \ {"push"}) = At(pc, Appending \ {"push"})
        /\ At(pc, Appending) \in Nat
    BY <2>2, Moved
  <2>4. Numbers' /\ Sinks'
    <3>. HIDE DEF InServer, Appending
    <3> QED BY <1>1, <2>2, <2>3 DEF Record, CountInv, Numbers, Sinks, ringVars, streamVars
  <2> QED BY <2>1, <2>4, Together
<1>2. CASE Push(r)
  <2>1. pc' \in [Requests -> PCs] /\ Permits'
    BY <1>2, Moved, KeptOutside DEF Push
  <2>2. GoTo(r, "persist") /\ pc[r] = "push"
    BY <1>2 DEF Push
  <2>3. /\ At(pc', InServer) = At(pc, InServer)
        /\ At(pc', Appending) = At(pc, Appending)
        /\ At(pc', {"broadcast"}) = At(pc, {"broadcast"})
        /\ At(pc', Appending \ {"push"}) = At(pc, Appending \ {"push"}) + 1
        /\ At(pc, Appending \ {"push"}) \in Nat
    BY <2>2, Moved
  <2>4. Sinks' /\ (Capacity > 0 => dropped' + Len(ring') = dropped + Len(ring) + 1)
    <3>1. CASE Capacity = 0
      BY <1>2, <3>1 DEF Push, CountInv, Sinks, streamVars
    <3>2. CASE Capacity # 0 /\ Len(ring) = Capacity
      <4>1. Tail(ring) \in Seq(Requests) /\ Len(Tail(ring)) = Len(ring) - 1
        BY <3>2, AuditConstants DEF CountInv
      <4>2. ring' = Append(Tail(ring), r) /\ dropped' = dropped + 1 /\ sent' = sent
        BY <1>2, <3>2 DEF Push, streamVars
      <4>3. ring' \in Seq(Requests) /\ Len(ring') = Len(ring)
        BY <4>1, <4>2 DEF CountInv
      <4> QED BY <4>2, <4>3 DEF CountInv, Sinks
    <3>3. CASE Capacity # 0 /\ Len(ring) # Capacity
      <4>1. ring' = Append(ring, r) /\ dropped' = dropped /\ sent' = sent
        BY <1>2, <3>3 DEF Push, streamVars
      <4>2. ring' \in Seq(Requests) /\ Len(ring') = Len(ring) + 1 /\ Len(ring) \in Nat
        BY <4>1 DEF CountInv
      <4> QED BY <4>1, <4>2 DEF CountInv, Sinks
    <3> QED BY <3>1, <3>2, <3>3
  <2>5. Numbers'
    <3>. HIDE DEF InServer, Appending
    <3>1. UNCHANGED <<inFlight, recorded, sent, appended>>
      BY <1>2 DEF Push, streamVars
    <3> QED BY <2>3, <2>4, <3>1, SMTT(30) DEF CountInv, Numbers
  <2> QED BY <2>1, <2>4, <2>5, Together
<1>3. CASE Count(r)
  <2>1. pc' \in [Requests -> PCs] /\ Permits'
    BY <1>3, Moved, KeptOutside DEF Count
  <2>2. GoTo(r, "broadcast") /\ pc[r] = "count" /\ appended' = appended + 1
    BY <1>3 DEF Count
  <2>3. /\ At(pc', InServer) = At(pc, InServer)
        /\ At(pc', Appending) = At(pc, Appending)
        /\ At(pc', {"broadcast"}) = At(pc, {"broadcast"}) + 1
        /\ At(pc', Appending \ {"push"}) = At(pc, Appending \ {"push"})
        /\ At(pc, {"broadcast"}) \in Nat
    BY <2>2, Moved
  <2>4. Numbers' /\ Sinks'
    <3>. HIDE DEF InServer, Appending
    <3> QED BY <1>3, <2>2, <2>3 DEF Count, CountInv, Numbers, Sinks, streamVars
  <2> QED BY <2>1, <2>4, Together
<1>4. CASE Broadcast(r)
  <2>1. pc' \in [Requests -> PCs] /\ Permits'
    BY <1>4, Moved, KeptOutside DEF Broadcast
  <2>2. GoTo(r, "done") /\ pc[r] = "broadcast" /\ inFlight' = inFlight - 1
    BY <1>4 DEF Broadcast
  <2>3. /\ At(pc', InServer) = At(pc, InServer) - 1
        /\ At(pc', Appending) = At(pc, Appending) - 1
        /\ At(pc', {"broadcast"}) = At(pc, {"broadcast"}) - 1
        /\ At(pc', Appending \ {"push"}) = At(pc, Appending \ {"push"}) - 1
        /\ At(pc, InServer) \in Nat /\ At(pc, Appending) \in Nat
        /\ At(pc, {"broadcast"}) \in Nat /\ At(pc, Appending \ {"push"}) \in Nat
    BY <2>2, Moved
  <2>4. sent' \in Seq(Requests) /\ Len(sent') = Len(sent) + 1 /\ Len(sent) \in Nat
    BY <1>4 DEF Broadcast, CountInv
  <2>5. Numbers' /\ Sinks'
    <3>1. UNCHANGED <<recorded, ring, appended, dropped>>
      BY <1>4 DEF Broadcast, ringVars
    <3>2. Sinks'
      BY <2>4, <3>1 DEF CountInv, Sinks
    <3>. HIDE DEF InServer, Appending
    <3>3. Capacity > 0 => dropped' + Len(ring') = Len(sent') + At(pc', Appending \ {"push"})
      BY <2>3, <2>4, <3>1 DEF CountInv, Numbers
    <3>4. inFlight' = At(pc', InServer)
      BY <2>2, <2>3 DEF CountInv, Numbers
    <3>5. recorded' = Len(sent') + At(pc', Appending)
      BY <2>3, <2>4, <3>1 DEF CountInv, Numbers
    <3>6. appended' = Len(sent') + At(pc', {"broadcast"})
      BY <2>3, <2>4, <3>1 DEF CountInv, Numbers
    <3> QED BY <3>2, <3>3, <3>4, <3>5, <3>6 DEF Numbers
  <2> QED BY <2>1, <2>5, Together
<1> QED BY <1>1, <1>2, <1>3, <1>4

\* A restart sends everybody out and starts every counter at zero.
LEMMA Restarted ==
    ASSUME CountInv, Restart
    PROVE  CountInv'
<1>1. pc' \in [Requests -> PCs]
  BY DEF Restart, CountInv, PCs, Left
<1>2. \A r \in Requests : pc'[r] \notin InServer /\ pc'[r] # "running"
  BY DEF Restart, CountInv, InServer, Appending, Rotating, Admitted
<1>3. /\ At(pc', InServer) = 0 /\ At(pc', Appending) = 0
      /\ At(pc', {"broadcast"}) = 0 /\ At(pc', Appending \ {"push"}) = 0
  BY <1>2, Nobody DEF InServer, Appending
<1>4. Numbers'
  BY <1>3 DEF Restart, Numbers
<1>5. Permits'
  BY <1>2, FS_EmptySet, AuditConstants DEF Restart, Permits
<1>6. Sinks'
  BY DEF Restart, Sinks
<1> QED BY <1>1, <1>4, <1>5, <1>6, Together

\* Every step keeps the counters.
LEMMA CountInvStep == CountInv /\ [Next]_vars => CountInv'
<1>. SUFFICES ASSUME CountInv, [Next]_vars PROVE CountInv'
  OBVIOUS
<1>1. ASSUME NEW r \in Requests, RequestStep(r) PROVE CountInv'
  <2>1. CASE Persist(r)
    <3>. DEFINE where == IF file.bytes + 1 >= MaxLines THEN "rotate_drop" ELSE "count"
    <3>1. CASE Flush(r)
      BY <3>1, Inside DEF Flush, Rotating, streamVars
    <3>2. CASE FlushFails(r)
      BY <3>2, Inside DEF FlushFails, streamVars
    <3>3. CASE NoWriter(r)
      BY <3>3, Inside DEF NoWriter, streamVars
    <3> QED BY <2>1, <3>1, <3>2, <3>3 DEF Persist
  <2>2. CASE Rotate(r)
    BY <2>2, Inside DEF Rotate, DropOld, RenameLive, OpenFresh, RotationFails, Rotating, streamVars
  <2> QED BY <1>1, <2>1, <2>2, Admission, Counted DEF RequestStep
<1>2. ASSUME NEW s \in Streams, StreamStep(s) PROVE CountInv'
  <2>1. UNCHANGED <<requestVars, ringVars, sent>>
    BY <1>2 DEF StreamStep, Subscribe, TakeSnapshot, Replay, Lag, Receive, Close
  <2> QED BY <2>1 DEF CountInv, Numbers, Permits, requestVars, ringVars
<1>3. CASE UNCHANGED vars
  BY <1>3 DEF vars, CountInv, Numbers, Permits, requestVars, ringVars, streamVars
<1> QED BY <1>1, <1>2, <1>3, Restarted DEF Next

\* At boot nobody is counted.
LEMMA CountInvInit == Init => CountInv
<1>. SUFFICES ASSUME Init PROVE CountInv
  OBVIOUS
<1>1. /\ At(pc, InServer) = 0 /\ At(pc, Appending) = 0
      /\ At(pc, {"broadcast"}) = 0 /\ At(pc, Appending \ {"push"}) = 0
  BY Nobody DEF Init, InServer, Appending, Rotating, Admitted
<1>2. pc \in [Requests -> PCs]
  BY DEF Init, PCs
<1>3. Numbers
  BY <1>1 DEF Init, Numbers
<1>4. Permits
  BY FS_EmptySet, AuditConstants DEF Init, Permits
<1> QED BY <1>2, <1>3, <1>4 DEF Init, CountInv

\* CountersAgree for any number of requests and slots, whatever disconnects,
\* times out, crashes or fails to be written.
THEOREM EveryRequestCounted == Spec => []CountersAgree
<1>1. CountInv => CountersAgree
  BY DEF CountInv, Numbers, Permits, CountersAgree, NumberAt, At
<1> QED BY <1>1, CountInvInit, CountInvStep, PTL DEF Spec

-----------------------------------------------------------------------------
(* The byte count.                                                         *)

Fields == {"live", "old", "buffer", "writer", "bytes", "rotations", "errors"}

IsFile(f) ==
    /\ DOMAIN f = Fields
    /\ f.live \in Seq(Requests) /\ f.buffer \in Seq(Requests)
    /\ f.bytes \in Nat /\ f.errors \in Nat

\* One request rotates at a time, and it begins with an empty BufWriter and ends
\* with an empty live file.
RotationInv ==
    /\ \A r, s \in Requests : pc[r] \in Rotating /\ pc[s] \in Rotating => r = s
    /\ \A r \in Requests : pc[r] \in Rotating => Len(file.buffer) = 0
    /\ \A r \in Requests : pc[r] = "rotate_rename" => ~file.writer
    /\ \A r \in Requests : pc[r] = "rotate_open" => Len(file.live) = 0

Bounded(f) ==
    f.writer =>
        /\ f.bytes <= Len(f.live)
        /\ Len(f.live) + Len(f.buffer) <= f.bytes + f.errors

FileInv ==
    /\ pc \in [Requests -> PCs]
    /\ IsFile(file)
    /\ RotationInv
    /\ Bounded(file)

\* A step that leaves the file alone and moves nobody into a rotation.
LEMMA FileUntouched ==
    ASSUME FileInv, pc' \in [Requests -> PCs], UNCHANGED file,
           \A r \in Requests : pc'[r] \in Rotating => pc'[r] = pc[r]
    PROVE  FileInv'
<1>1. RotationInv'
  BY DEF FileInv, RotationInv, Rotating
<1> QED BY <1>1 DEF FileInv

\* Lengths add up.
LEMMA Concatenated ==
    ASSUME NEW s \in Seq(Requests), NEW t \in Seq(Requests)
    PROVE  /\ s \o t \in Seq(Requests) /\ Len(s \o t) = Len(s) + Len(t)
           /\ Len(s) \in Nat /\ Len(t) \in Nat
OBVIOUS

\* The bounds in numbers: a line more in both, or a failure more.
LEMMA BoundsKept ==
    ASSUME NEW n \in Nat, NEW l \in Nat, NEW b \in Nat, NEW e \in Nat,
           n <= l, l + b <= n + e
    PROVE  /\ n + 1 <= l + (b + 1) /\ l + (b + 1) + 0 <= n + 1 + e
           /\ n <= l /\ l + (b + 1) <= n + (e + 1) /\ l + b <= n + (e + 1)
           /\ e + 1 \in Nat /\ n + 1 \in Nat
OBVIOUS

\* What a step makes of the file, field by field, where it keeps the record.
LEMMA FileChanged ==
    ASSUME FileInv, pc' \in [Requests -> PCs], RotationInv',
           DOMAIN file' = Fields, file'.live \in Seq(Requests), file'.buffer \in Seq(Requests),
           file'.bytes \in Nat, file'.errors \in Nat, Bounded(file')
    PROVE  FileInv'
BY DEF FileInv, IsFile

\* The requests that append to the file.
LEMMA Persisting ==
    ASSUME FileInv, NEW r \in Requests, Persist(r)
    PROVE  FileInv'
<1>. DEFINE new == Flushed(r)
<1>1. /\ DOMAIN file = Fields /\ file.live \in Seq(Requests) /\ file.buffer \in Seq(Requests)
      /\ file.bytes \in Nat /\ file.errors \in Nat
  BY DEF FileInv, IsFile
<1>2. /\ new \in Seq(Requests) /\ Len(new) = Len(file.buffer) + 1
      /\ Len(file.live) \in Nat /\ Len(file.buffer) \in Nat
  BY <1>1 DEF Flushed
<1>3. file.live \o new \in Seq(Requests) /\ Len(file.live \o new) = Len(file.live) + Len(new)
  BY <1>1, <1>2, Concatenated
<1>. HIDE DEF new
<1>4. CASE Flush(r)
  <2>1. PersistenceFree /\ file.writer
    BY <1>4 DEF Flush
  <2>2. file' = [file EXCEPT !.live = @ \o new, !.buffer = <<>>, !.bytes = @ + 1]
    BY <1>4 DEF Flush, new
  <2>3. /\ DOMAIN file' = Fields /\ file'.live = file.live \o new /\ file'.buffer = <<>>
        /\ file'.bytes = file.bytes + 1 /\ file'.errors = file.errors
    BY <1>1, <2>2 DEF Fields
  <2>4. file'.buffer \in Seq(Requests) /\ Len(file'.buffer) = 0 /\ file'.bytes \in Nat
    BY <1>1, <2>3
  <2>5. /\ file'.bytes <= Len(file'.live)
        /\ Len(file'.live) + Len(file'.buffer) <= file'.bytes + file'.errors
    <3>1. file.bytes <= Len(file.live) /\ Len(file.live) + Len(file.buffer) <= file.bytes + file.errors
      BY <2>1 DEF FileInv, Bounded
    <3>2. Len(file'.live) = Len(file.live) + (Len(file.buffer) + 1)
      BY <1>2, <1>3, <2>3
    <3>3. /\ file.bytes + 1 <= Len(file.live) + (Len(file.buffer) + 1)
          /\ Len(file.live) + (Len(file.buffer) + 1) + 0 <= file.bytes + 1 + file.errors
      BY <1>1, <1>2, <3>1, BoundsKept
    <3> QED BY <2>3, <2>4, <3>2, <3>3
  <2>6. PICK where \in {"rotate_drop", "count"} : pc' = [pc EXCEPT ![r] = where]
    BY <1>4 DEF Flush, GoTo
  <2>7. pc' \in [Requests -> PCs]
    BY <2>6 DEF FileInv, PCs, InServer, Appending, Rotating
  <2>8. RotationInv'
    BY <2>1, <2>4, <2>6 DEF FileInv, PersistenceFree, RotationInv, Rotating
  <2>9. Bounded(file')
    BY <2>5 DEF Bounded
  <2> QED BY <1>1, <1>3, <2>3, <2>4, <2>7, <2>8, <2>9, FileChanged
<1>5. CASE FlushFails(r) \/ NoWriter(r)
  <2>1. PersistenceFree /\ GoTo(r, "count")
    BY <1>5 DEF FlushFails, NoWriter
  <2>2. pc' \in [Requests -> PCs] /\ \A x \in Requests : pc'[x] \notin Rotating
    BY <2>1 DEF FileInv, GoTo, PersistenceFree, PCs, InServer, Appending, Rotating
  <2>3. RotationInv'
    BY <2>2 DEF RotationInv, Rotating
  <2>4. CASE FlushFails(r)
    <3>1. file' = [file EXCEPT !.buffer = new, !.errors = @ + 1] /\ file.writer
      BY <2>4 DEF FlushFails, new
    <3>2. /\ DOMAIN file' = Fields /\ file'.live = file.live /\ file'.buffer = new
          /\ file'.bytes = file.bytes /\ file'.errors = file.errors + 1
      BY <1>1, <3>1 DEF Fields
    <3>3. file.bytes <= Len(file.live) /\ Len(file.live) + Len(file.buffer) <= file.bytes + file.errors
      BY <3>1 DEF FileInv, Bounded
    <3>4. /\ file'.bytes <= Len(file'.live) /\ file'.errors \in Nat
          /\ Len(file'.live) + Len(file'.buffer) <= file'.bytes + file'.errors
      <4>1. Len(file'.buffer) = Len(file.buffer) + 1
        BY <1>2, <3>2
      <4>2. /\ Len(file.live) + (Len(file.buffer) + 1) <= file.bytes + (file.errors + 1)
            /\ file.errors + 1 \in Nat
        BY <1>1, <1>2, <3>3, BoundsKept
      <4> QED BY <3>2, <3>3, <4>1, <4>2
    <3>5. Bounded(file')
      BY <3>4 DEF Bounded
    <3> QED BY <1>1, <1>2, <2>2, <2>3, <3>2, <3>4, <3>5, FileChanged
  <2>5. CASE NoWriter(r)
    <3>1. file' = [file EXCEPT !.errors = @ + 1] /\ ~file.writer
      BY <2>5 DEF NoWriter
    <3>2. /\ DOMAIN file' = Fields /\ file'.live = file.live /\ file'.buffer = file.buffer
          /\ file'.bytes = file.bytes /\ file'.errors \in Nat /\ file'.writer = file.writer
      BY <1>1, <3>1 DEF Fields
    <3>3. Bounded(file')
      BY <3>1, <3>2 DEF Bounded
    <3> QED BY <1>1, <2>2, <2>3, <3>2, <3>3, FileChanged
  <2> QED BY <1>5, <2>4, <2>5
<1> QED BY <1>4, <1>5 DEF Persist

\* The request that rotates it.
LEMMA Rotation ==
    ASSUME FileInv, NEW r \in Requests, Rotate(r)
    PROVE  FileInv'
<1>1. /\ DOMAIN file = Fields /\ file.live \in Seq(Requests) /\ file.buffer \in Seq(Requests)
      /\ file.bytes \in Nat /\ file.errors \in Nat /\ Len(file.live) \in Nat
  BY DEF FileInv, IsFile
<1>2. Len(file.buffer) = 0 /\ \A x \in Requests \ {r} : pc[x] \notin Rotating
  BY DEF Rotate, DropOld, RenameLive, OpenFresh, RotationFails, FileInv, RotationInv, Rotating
<1>3. PICK where \in {"rotate_rename", "rotate_open", "count"} : pc' = [pc EXCEPT ![r] = where]
  BY DEF Rotate, DropOld, RenameLive, OpenFresh, RotationFails, GoTo
<1>4. /\ pc' \in [Requests -> PCs] /\ pc'[r] = where
      /\ \A x \in Requests \ {r} : pc'[x] \notin Rotating
  BY <1>2, <1>3 DEF FileInv, PCs, InServer, Appending, Rotating
<1>5. ASSUME Len(file'.buffer) = 0, where = "rotate_rename" => ~file'.writer,
             where = "rotate_open" => Len(file'.live) = 0
      PROVE RotationInv'
  BY <1>4, <1>5 DEF RotationInv, Rotating
<1>6. << >> \in Seq(Requests) /\ Len(<<>>) = 0
  OBVIOUS
<1>7. CASE DropOld(r)
  <2>1. file' = [file EXCEPT !.old = <<>>, !.writer = FALSE] /\ pc'[r] = "rotate_rename"
    BY <1>4, <1>7 DEF DropOld, GoTo, FileInv
  <2>2. /\ DOMAIN file' = Fields /\ file'.live = file.live /\ file'.buffer = file.buffer
        /\ file'.bytes = file.bytes /\ file'.errors = file.errors /\ ~file'.writer
    BY <1>1, <2>1 DEF Fields
  <2>3. RotationInv'
    BY <1>2, <1>4, <1>5, <2>1, <2>2
  <2> QED BY <1>1, <1>4, <2>2, <2>3, FileChanged DEF Bounded
<1>8. CASE RenameLive(r)
  <2>1. file' = [file EXCEPT !.old = file.live, !.live = <<>>]
    BY <1>8 DEF RenameLive
  <2>6. where = "rotate_open"
    BY <1>4, <1>8 DEF RenameLive, GoTo, FileInv
  <2>2. /\ DOMAIN file' = Fields /\ file'.live = <<>> /\ file'.buffer = file.buffer
        /\ file'.bytes = file.bytes /\ file'.errors = file.errors /\ file'.writer = file.writer
    BY <1>1, <2>1 DEF Fields
  <2>3. RotationInv'
    BY <1>2, <1>5, <1>6, <2>2, <2>6
  <2>4. ~file.writer
    BY <1>8 DEF RenameLive, FileInv, RotationInv
  <2>5. Bounded(file')
    BY <2>2, <2>4 DEF Bounded
  <2> QED BY <1>1, <1>4, <1>6, <2>2, <2>3, <2>5, FileChanged
<1>9. CASE OpenFresh(r)
  <2>1. file' = [file EXCEPT !.writer = TRUE, !.bytes = 0, !.rotations = @ + 1]
    BY <1>9 DEF OpenFresh
  <2>6. where = "count"
    BY <1>4, <1>9 DEF OpenFresh, GoTo, FileInv
  <2>2. /\ DOMAIN file' = Fields /\ file'.live = file.live /\ file'.buffer = file.buffer
        /\ file'.bytes = 0 /\ file'.errors = file.errors
    BY <1>1, <2>1 DEF Fields
  <2>3. Len(file.live) = 0
    BY <1>9 DEF OpenFresh, FileInv, RotationInv
  <2>4. Bounded(file')
    BY <1>1, <1>2, <2>2, <2>3 DEF Bounded
  <2>5. RotationInv'
    BY <1>2, <1>5, <2>2, <2>3, <2>6
  <2> QED BY <1>1, <1>4, <2>2, <2>4, <2>5, FileChanged
<1>10. CASE RotationFails(r)
  <2>1. file' = [file EXCEPT !.errors = @ + 1] /\ pc'[r] = "count"
    BY <1>4, <1>10 DEF RotationFails, GoTo, FileInv
  <2>2. /\ DOMAIN file' = Fields /\ file'.live = file.live /\ file'.buffer = file.buffer
        /\ file'.writer = file.writer /\ file'.bytes = file.bytes /\ file'.errors = file.errors + 1
    BY <1>1, <2>1 DEF Fields
  <2>3. Bounded(file')
    <3>. SUFFICES ASSUME file'.writer
                  PROVE  /\ file'.bytes <= Len(file'.live)
                         /\ Len(file'.live) + Len(file'.buffer) <= file'.bytes + file'.errors
      BY DEF Bounded
    <3>1. file.bytes <= Len(file.live) /\ Len(file.live) + Len(file.buffer) <= file.bytes + file.errors
      BY <2>2 DEF FileInv, Bounded
    <3>2. Len(file.live) + Len(file.buffer) <= file.bytes + (file.errors + 1)
      BY <1>1, <1>2, <3>1, BoundsKept
    <3> QED BY <2>2, <3>1, <3>2
  <2>4. RotationInv'
    BY <1>2, <1>4, <1>5, <2>1, <2>2
  <2> QED BY <1>1, <1>4, <2>2, <2>3, <2>4, FileChanged
<1> QED BY <1>7, <1>8, <1>9, <1>10 DEF Rotate

\* Every step keeps the byte count.
LEMMA FileInvStep == FileInv /\ [Next]_vars => FileInv'
<1>. SUFFICES ASSUME FileInv, [Next]_vars PROVE FileInv'
  OBVIOUS
<1>1. ASSUME NEW r \in Requests, RequestStep(r) PROVE FileInv'
  <2>1. CASE Enter(r) \/ Acquire(r) \/ Answer(r) \/ TimeOut(r) \/ Disconnect(r)
             \/ Record(r) \/ Push(r) \/ Count(r) \/ Broadcast(r)
    <3>1. PICK where \in {"waiting", "running", "answered", "disconnected", "push", "persist",
                          "broadcast", "done"} : pc' = [pc EXCEPT ![r] = where]
      BY <2>1 DEF Enter, Acquire, Answer, TimeOut, Disconnect, Record, Push, Count, Broadcast, GoTo
    <3>2. where \in PCs \ Rotating
      BY DEF PCs, InServer, Appending, Rotating, Admitted, Left
    <3>3. UNCHANGED file
      BY <2>1 DEF Enter, Acquire, Answer, TimeOut, Disconnect, Record, Push, Count, Broadcast, fileVars
    <3>4. pc' \in [Requests -> PCs] /\ \A x \in Requests : pc'[x] \in Rotating => pc'[x] = pc[x]
      BY <3>1, <3>2 DEF FileInv
    <3> QED BY <3>3, <3>4, FileUntouched
  <2> QED BY <1>1, <2>1, Persisting, Rotation DEF RequestStep
<1>2. ASSUME NEW s \in Streams, StreamStep(s) PROVE FileInv'
  <2>1. UNCHANGED <<requestVars, fileVars>>
    BY <1>2 DEF StreamStep, Subscribe, TakeSnapshot, Replay, Lag, Receive, Close
  <2> QED BY <2>1, FileUntouched DEF FileInv, requestVars, fileVars
<1>3. CASE Restart
  <2>1. PICK live : live \in Seq(Requests) /\ file' = Reopened(live)
    <3>1. file.live \in Seq(Requests) /\ file.buffer \in Seq(Requests)
      BY DEF FileInv, IsFile
    <3>2. file.live \o <<>> \in Seq(Requests) /\ file.live \o file.buffer \in Seq(Requests)
      BY <3>1
    <3>3. CASE file' = Reopened(file.live)
      BY <3>1, <3>3
    <3>4. CASE \E flushed \in {<<>>, file.buffer} : file' = Reopened(file.live \o flushed)
      BY <3>2, <3>4
    <3> QED BY <1>3, <3>3, <3>4 DEF Restart
  <2>2. Len(live) \in Nat /\ << >> \in Seq(Requests) /\ Len(<<>>) = 0
    BY <2>1
  <2>3. /\ DOMAIN file' = Fields /\ file'.live = live /\ file'.buffer = <<>>
        /\ file'.bytes = Len(live) /\ file'.errors = 0
    BY <2>1 DEF Reopened, FreshFile, Fields
  <2>4. Bounded(file')
    BY <2>2, <2>3 DEF Bounded
  <2>5. pc' \in [Requests -> PCs] /\ \A r \in Requests : pc'[r] \notin Rotating
    BY <1>3 DEF Restart, FileInv, PCs, Left, InServer, Appending, Rotating
  <2>6. RotationInv'
    BY <2>5 DEF RotationInv, Rotating
  <2> QED BY <2>1, <2>2, <2>3, <2>4, <2>5, <2>6, FileChanged
<1>4. CASE UNCHANGED vars
  BY <1>4, FileUntouched DEF vars, FileInv, requestVars, fileVars
<1> QED BY <1>1, <1>2, <1>3, <1>4 DEF Next

\* ByteCountFollowsFile for any number of requests, any cap, and every failure
\* of a flush, a rename or an open.
THEOREM BytesAreTheFiles == Spec => []ByteCountFollowsFile
<1>1. Init => FileInv
  BY DEF Init, FileInv, FreshFile, IsFile, Fields, RotationInv, Bounded, PCs, Rotating
<1>2. FileInv => ByteCountFollowsFile
  BY DEF FileInv, Bounded, ByteCountFollowsFile
<1> QED BY <1>1, <1>2, FileInvStep, PTL DEF Spec

-----------------------------------------------------------------------------
(* The count of losses.                                                    *)

\* The entries that are past Persist, those that were not sent yet included.
Persisted == Rotating \cup {"count", "broadcast"}

Past == ToSet(sent) \cup { r \in Requests : pc[r] \in Persisted }

Unkept == Past \ (ToSet(stored) \cup ToSet(file.buffer))

WriterLost == IF PersistenceFree /\ ~file.writer THEN 1 ELSE 0

Sequences == sent \in Seq(Requests) /\ stored \in Seq(Requests)

LossInv ==
    /\ FileInv
    /\ Sequences
    /\ Cardinality(Unkept) + WriterLost <= file.errors

\* What a sequence holds when it grows.
LEMMA HeldTogether ==
    ASSUME NEW s \in Seq(Requests), NEW t \in Seq(Requests), NEW r \in Requests
    PROVE  /\ ToSet(s) \subseteq Requests
           /\ s \o t \in Seq(Requests) /\ ToSet(s \o t) = ToSet(s) \cup ToSet(t)
           /\ Append(s, r) \in Seq(Requests) /\ ToSet(Append(s, r)) = ToSet(s) \cup {r}
           /\ <<r>> \in Seq(Requests) /\ ToSet(<<r>>) = {r}
           /\ << >> \in Seq(Requests) /\ ToSet(<<>>) = {}
<1>1. ToSet(s) \subseteq Requests
  BY DEF ToSet
<1>2. s \o t \in Seq(Requests) /\ Append(s, r) \in Seq(Requests)
  OBVIOUS
<1>3. ToSet(s \o t) = ToSet(s) \cup ToSet(t)
  <2>1. /\ Len(s) \in Nat /\ Len(t) \in Nat /\ DOMAIN s = 1 .. Len(s) /\ DOMAIN t = 1 .. Len(t)
        /\ DOMAIN (s \o t) = 1 .. Len(s) + Len(t)
    OBVIOUS
  <2>2. /\ \A i \in DOMAIN s : (s \o t)[i] = s[i]
        /\ \A i \in DOMAIN t : (s \o t)[Len(s) + i] = t[i]
    OBVIOUS
  <2>3. \A i \in DOMAIN (s \o t) : i \in DOMAIN s \/ i - Len(s) \in DOMAIN t
    BY <2>1
  <2>4. ToSet(s \o t) \subseteq ToSet(s) \cup ToSet(t)
    <3>. SUFFICES ASSUME NEW i \in DOMAIN (s \o t)
                  PROVE  (s \o t)[i] \in ToSet(s) \cup ToSet(t)
      BY DEF ToSet
    <3>1. CASE i \in DOMAIN s
      BY <2>2, <3>1 DEF ToSet
    <3>2. CASE i - Len(s) \in DOMAIN t
      <4>1. i = Len(s) + (i - Len(s))
        BY <2>1
      <4>2. (s \o t)[i] = t[i - Len(s)]
        BY <2>2, <3>2, <4>1
      <4> QED BY <3>2, <4>2 DEF ToSet
    <3> QED BY <2>3, <3>1, <3>2
  <2>5. \A i \in DOMAIN s : i \in DOMAIN (s \o t)
    BY <2>1
  <2>6. \A i \in DOMAIN t : Len(s) + i \in DOMAIN (s \o t)
    BY <2>1
  <2>7. ToSet(s) \subseteq ToSet(s \o t) /\ ToSet(t) \subseteq ToSet(s \o t)
    BY <2>2, <2>5, <2>6 DEF ToSet
  <2> QED BY <2>4, <2>7
<1>4. ToSet(Append(s, r)) = ToSet(s) \cup {r}
  <2>1. Len(s) \in Nat /\ DOMAIN s = 1 .. Len(s) /\ DOMAIN Append(s, r) = 1 .. Len(s) + 1
    OBVIOUS
  <2>2. /\ \A i \in DOMAIN s : Append(s, r)[i] = s[i]
        /\ Append(s, r)[Len(s) + 1] = r
    OBVIOUS
  <2>3. \A i \in DOMAIN Append(s, r) : i \in DOMAIN s \/ i = Len(s) + 1
    BY <2>1
  <2>4. Len(s) + 1 \in DOMAIN Append(s, r) /\ \A i \in DOMAIN s : i \in DOMAIN Append(s, r)
    BY <2>1
  <2>5. ToSet(Append(s, r)) \subseteq ToSet(s) \cup {r}
    BY <2>2, <2>3 DEF ToSet
  <2>6. ToSet(s) \subseteq ToSet(Append(s, r)) /\ r \in ToSet(Append(s, r))
    BY <2>2, <2>4 DEF ToSet
  <2> QED BY <2>5, <2>6
<1>5. <<r>> \in Seq(Requests) /\ ToSet(<<r>>) = {r}
  BY DEF ToSet
<1>6. << >> \in Seq(Requests) /\ ToSet(<<>>) = {}
  BY DEF ToSet
<1> QED BY <1>1, <1>2, <1>3, <1>4, <1>5, <1>6

\* The losses are finitely many.
LEMMA Losses ==
    ASSUME Sequences
    PROVE  IsFiniteSet(Unkept) /\ Cardinality(Unkept) \in Nat /\ WriterLost \in {0, 1}
<1>1. Unkept \subseteq Requests
  BY DEF Sequences, Unkept, Past, ToSet
<1>2. IsFiniteSet(Unkept)
  BY <1>1, FS_Subset, AuditConstants
<1> QED BY <1>2, FS_CardinalityType DEF WriterLost

\* A step that loses no entry, and counts a failure if it may lose the writer.
LEMMA NothingLost ==
    ASSUME LossInv, FileInv', Sequences', Unkept' \subseteq Unkept,
           \/ WriterLost' = WriterLost /\ file'.errors = file.errors
           \/ WriterLost' = 0 /\ file'.errors = file.errors
           \/ file'.errors = file.errors + 1
    PROVE  LossInv'
<1>1. IsFiniteSet(Unkept) /\ Cardinality(Unkept) \in Nat /\ WriterLost \in {0, 1}
  BY Losses DEF LossInv
<1>2. Cardinality(Unkept') <= Cardinality(Unkept)
  BY <1>1, FS_Subset
<1>3. IsFiniteSet(Unkept') /\ Cardinality(Unkept') \in Nat
  BY <1>1, FS_Subset, FS_CardinalityType
<1>4. WriterLost' \in {0, 1}
  BY DEF WriterLost
<1>5. file.errors \in Nat /\ file'.errors \in Nat
  BY DEF LossInv, FileInv, IsFile
<1>6. Cardinality(Unkept) + WriterLost <= file.errors
  BY DEF LossInv
<1>7. Cardinality(Unkept') + WriterLost' <= file'.errors
  BY <1>1, <1>2, <1>3, <1>4, <1>5, <1>6
<1> QED BY <1>7 DEF LossInv

\* The steps that reach the file or fail to.
LEMMA PersistingCounts ==
    ASSUME LossInv, NEW r \in Requests, Persist(r)
    PROVE  LossInv'
<1>1. FileInv /\ FileInv'
  BY Persisting DEF LossInv
<1>2. /\ file.buffer \in Seq(Requests) /\ DOMAIN file = Fields /\ file.errors \in Nat
      /\ sent \in Seq(Requests) /\ stored \in Seq(Requests) /\ pc \in [Requests -> PCs]
  BY <1>1 DEF LossInv, Sequences, FileInv, IsFile
<1>3. PersistenceFree /\ UNCHANGED sent
  BY DEF Persist, Flush, FlushFails, NoWriter, streamVars
<1>4. PICK where \in {"rotate_drop", "count"} : pc' = [pc EXCEPT ![r] = where]
  BY DEF Persist, Flush, FlushFails, NoWriter, GoTo
<1>5. Past' \subseteq Past \cup {r}
  BY <1>2, <1>3, <1>4 DEF Past
<1>6. /\ Flushed(r) \in Seq(Requests)
      /\ ToSet(Flushed(r)) = ToSet(file.buffer) \cup {r}
  <2>1. <<r>> \in Seq(Requests) /\ ToSet(<<r>>) = {r}
    BY <1>2, HeldTogether
  <2>2. /\ file.buffer \o <<r>> \in Seq(Requests)
        /\ ToSet(file.buffer \o <<r>>) = ToSet(file.buffer) \cup ToSet(<<r>>)
    BY <1>2, <2>1, HeldTogether
  <2> QED BY <2>1, <2>2 DEF Flushed
<1>7. CASE Flush(r)
  <2>1. stored' = stored \o Flushed(r)
    BY <1>7 DEF Flush
  <2>2. file'.buffer = <<>> /\ file'.errors = file.errors /\ file'.writer = file.writer /\ file.writer
    BY <1>2, <1>7 DEF Flush, Fields
  <2>3. Sequences' /\ ToSet(stored') = ToSet(stored) \cup ToSet(file.buffer) \cup {r}
    <3>1. /\ stored \o Flushed(r) \in Seq(Requests)
          /\ ToSet(stored \o Flushed(r)) = ToSet(stored) \cup ToSet(Flushed(r))
      BY <1>2, <1>6, HeldTogether
    <3> QED BY <1>2, <1>3, <1>6, <2>1, <3>1 DEF Sequences
  <2>4. Unkept' \subseteq Unkept
    BY <1>5, <2>3 DEF Unkept
  <2>5. WriterLost' = 0
    BY <2>2 DEF WriterLost
  <2> QED BY <1>1, <2>2, <2>3, <2>4, <2>5, NothingLost
<1>8. CASE FlushFails(r)
  <2>1. file'.buffer = Flushed(r) /\ file'.errors = file.errors + 1
    BY <1>2, <1>8 DEF FlushFails, Fields
  <2>2. UNCHANGED stored
    BY <1>8 DEF FlushFails
  <2>3. Sequences'
    BY <1>2, <1>3, <2>2 DEF Sequences
  <2>4. Unkept' \subseteq Unkept
    BY <1>5, <1>6, <2>1, <2>2 DEF Unkept
  <2> QED BY <1>1, <2>1, <2>3, <2>4, NothingLost
<1>9. CASE NoWriter(r)
  <2>1. /\ file'.buffer = file.buffer /\ file'.errors = file.errors + 1
        /\ file'.writer = file.writer /\ ~file.writer
    BY <1>2, <1>9 DEF NoWriter, Fields
  <2>2. UNCHANGED stored /\ pc' = [pc EXCEPT ![r] = "count"]
    BY <1>9 DEF NoWriter, GoTo
  <2>3. Sequences'
    BY <1>2, <1>3, <2>2 DEF Sequences
  <2>4. Unkept' \subseteq Unkept \cup {r}
    BY <1>5, <2>1, <2>2 DEF Unkept
  <2>5. WriterLost' <= 1 /\ WriterLost = 1
    BY <1>3, <2>1 DEF WriterLost
  <2>6. IsFiniteSet(Unkept) /\ Cardinality(Unkept) \in Nat
    BY Losses DEF LossInv
  <2>7. /\ IsFiniteSet(Unkept \cup {r})
        /\ Cardinality(Unkept \cup {r}) <= Cardinality(Unkept) + 1
        /\ Cardinality(Unkept \cup {r}) \in Nat
    <3>1. CASE r \in Unkept
      <4>1. Unkept \cup {r} = Unkept
        BY <3>1
      <4> QED BY <2>6, <4>1, SMTT(30)
    <3>2. CASE r \notin Unkept
      <4>1. /\ IsFiniteSet(Unkept \cup {r})
            /\ Cardinality(Unkept \cup {r}) = Cardinality(Unkept) + 1
        BY <2>6, <3>2, FS_AddElement
      <4> QED BY <2>6, <4>1
    <3> QED BY <3>1, <3>2
  <2>8. Cardinality(Unkept') <= Cardinality(Unkept \cup {r}) /\ Cardinality(Unkept') \in Nat
    BY <2>4, <2>7, FS_Subset, FS_CardinalityType
  <2>9. Cardinality(Unkept) + 1 <= file.errors
    BY <2>5 DEF LossInv
  <2>10. WriterLost' \in {0, 1}
    BY DEF WriterLost
  <2>11. Cardinality(Unkept') + WriterLost' <= file'.errors
    BY <1>2, <2>1, <2>6, <2>7, <2>8, <2>9, <2>10
  <2> QED BY <1>1, <2>3, <2>11 DEF LossInv
<1> QED BY <1>7, <1>8, <1>9 DEF Persist

\* A rotation loses no entry; one that fails is counted, with the writer it took.
LEMMA RotationCounts ==
    ASSUME LossInv, NEW r \in Requests, Rotate(r)
    PROVE  LossInv'
<1>1. FileInv /\ FileInv'
  BY Rotation DEF LossInv
<1>2. DOMAIN file = Fields /\ pc \in [Requests -> PCs]
  BY <1>1 DEF FileInv, IsFile
<1>3. UNCHANGED <<sent, stored>>
  BY DEF Rotate, DropOld, RenameLive, OpenFresh, RotationFails, streamVars
<1>4. Sequences'
  BY <1>3 DEF LossInv, Sequences
<1>5. PICK where \in {"rotate_rename", "rotate_open", "count"} : pc' = [pc EXCEPT ![r] = where]
  BY DEF Rotate, DropOld, RenameLive, OpenFresh, RotationFails, GoTo
<1>6. pc[r] \in Rotating
  BY DEF Rotate, DropOld, RenameLive, OpenFresh, RotationFails, Rotating
<1>7. Past' = Past
  BY <1>2, <1>3, <1>5, <1>6 DEF Past, Persisted, Rotating
<1>8. file'.buffer = file.buffer
  BY <1>2 DEF Rotate, DropOld, RenameLive, OpenFresh, RotationFails, Fields
<1>9. Unkept' \subseteq Unkept
  BY <1>3, <1>7, <1>8 DEF Unkept
<1>10. CASE DropOld(r) \/ RenameLive(r)
  <2>1. file'.errors = file.errors
    BY <1>2, <1>10 DEF DropOld, RenameLive, Fields
  <2>2. pc'[r] \in Rotating
    BY <1>2, <1>10 DEF DropOld, RenameLive, GoTo, Rotating
  <2>3. WriterLost' = 0
    BY <2>2 DEF WriterLost, PersistenceFree
  <2> QED BY <1>1, <1>4, <1>9, <2>1, <2>3, NothingLost
<1>11. CASE OpenFresh(r)
  <2>1. file'.errors = file.errors /\ file'.writer
    BY <1>2, <1>11 DEF OpenFresh, Fields
  <2>2. WriterLost' = 0
    BY <2>1 DEF WriterLost
  <2> QED BY <1>1, <1>4, <1>9, <2>1, <2>2, NothingLost
<1>12. CASE RotationFails(r)
  <2>1. file'.errors = file.errors + 1
    BY <1>2, <1>12 DEF RotationFails, Fields
  <2> QED BY <1>1, <1>4, <1>9, <2>1, NothingLost
<1> QED BY <1>10, <1>11, <1>12 DEF Rotate

\* A request that moves outside the file and its lock.
LEMMA ElsewhereCounts ==
    ASSUME LossInv, FileInv', NEW r \in Requests,
           \/ Enter(r) \/ Acquire(r) \/ Answer(r) \/ TimeOut(r) \/ Disconnect(r)
           \/ Record(r) \/ Push(r) \/ Count(r) \/ Broadcast(r)
    PROVE  LossInv'
<1>1. pc \in [Requests -> PCs] /\ sent \in Seq(Requests) /\ stored \in Seq(Requests)
  BY DEF LossInv, FileInv, Sequences
<1>2. UNCHANGED <<file, stored>>
  BY DEF Enter, Acquire, Answer, TimeOut, Disconnect, Record, Push, Count, Broadcast, fileVars
<1>3. PICK where : pc' = [pc EXCEPT ![r] = where] /\ where \notin Rotating /\ pc[r] \notin Rotating
  BY DEF Enter, Acquire, Answer, TimeOut, Disconnect, Record, Push, Count, Broadcast, GoTo,
         Rotating, Admitted
<1>4. PersistenceFree' = PersistenceFree
  BY <1>1, <1>3 DEF PersistenceFree
<1>5. WriterLost' = WriterLost
  BY <1>2, <1>4 DEF WriterLost
<1>6. Sequences' /\ Past' \subseteq Past
  <2>1. CASE Broadcast(r)
    <3>1. sent' = Append(sent, r) /\ pc[r] = "broadcast" /\ pc' = [pc EXCEPT ![r] = "done"]
      BY <2>1 DEF Broadcast, GoTo
    <3>2. sent' \in Seq(Requests) /\ ToSet(sent') = ToSet(sent) \cup {r}
      BY <1>1, <3>1, HeldTogether
    <3>3. r \in Past /\ ToSet(sent) \subseteq Past
      BY <3>1 DEF Past, Persisted
    <3>4. \A x \in Requests : pc'[x] \in Persisted => x \in Past
      BY <1>1, <3>1 DEF Past, Persisted, Rotating
    <3> QED BY <1>1, <1>2, <3>2, <3>3, <3>4 DEF Past, Sequences
  <2>2. CASE Count(r)
    <3>1. UNCHANGED sent /\ pc[r] = "count" /\ pc' = [pc EXCEPT ![r] = "broadcast"]
      BY <2>2 DEF Count, GoTo, streamVars
    <3>2. \A x \in Requests : pc'[x] \in Persisted => pc[x] \in Persisted
      BY <1>1, <3>1 DEF Persisted
    <3> QED BY <1>1, <1>2, <3>1, <3>2 DEF Past, Sequences
  <2>3. CASE Enter(r) \/ Acquire(r) \/ Answer(r) \/ TimeOut(r) \/ Disconnect(r)
             \/ Record(r) \/ Push(r)
    <3>1. UNCHANGED sent
      BY <2>3 DEF Enter, Acquire, Answer, TimeOut, Disconnect, Record, Push, streamVars
    <3>2. PICK place \in {"waiting", "running", "answered", "disconnected", "push", "persist"} :
              pc' = [pc EXCEPT ![r] = place]
      BY <2>3 DEF Enter, Acquire, Answer, TimeOut, Disconnect, Record, Push, GoTo
    <3>3. \A x \in Requests : pc'[x] \in Persisted => pc[x] \in Persisted
      BY <1>1, <3>2 DEF Persisted, Rotating
    <3> QED BY <1>1, <1>2, <3>1, <3>3 DEF Past, Sequences
  <2> QED BY <2>1, <2>2, <2>3
<1>7. Unkept' \subseteq Unkept
  BY <1>2, <1>6 DEF Unkept
<1> QED BY <1>2, <1>5, <1>6, <1>7, NothingLost

\* Every step counts what it loses.
LEMMA LossInvStep == LossInv /\ [Next]_vars => LossInv'
<1>. SUFFICES ASSUME LossInv, [Next]_vars PROVE LossInv'
  OBVIOUS
<1>1. FileInv'
  BY FileInvStep DEF LossInv
<1>2. ASSUME NEW r \in Requests, RequestStep(r) PROVE LossInv'
  BY <1>1, <1>2, PersistingCounts, RotationCounts, ElsewhereCounts DEF RequestStep
<1>3. ASSUME UNCHANGED <<pc, file, stored, sent>> PROVE LossInv'
  BY <1>1, <1>3 DEF LossInv, Sequences, Unkept, Past, WriterLost, PersistenceFree
<1>4. ASSUME NEW s \in Streams, StreamStep(s) PROVE LossInv'
  <2>1. UNCHANGED <<pc, file, stored, sent>>
    BY <1>4 DEF StreamStep, Subscribe, TakeSnapshot, Replay, Lag, Receive, Close, requestVars, fileVars
  <2> QED BY <1>3, <2>1
<1>5. CASE Restart
  <2>1. /\ sent' = <<>> /\ file'.writer /\ file'.errors = 0
    BY <1>5 DEF Restart, Reopened, FreshFile
  <2>2. stored' \in Seq(Requests)
    <3>1. stored \in Seq(Requests) /\ file.buffer \in Seq(Requests)
      BY DEF LossInv, FileInv, IsFile, Sequences
    <3>2. stored \o <<>> \in Seq(Requests) /\ stored \o file.buffer \in Seq(Requests)
      BY <3>1
    <3>3. \A flushed \in {<<>>, file.buffer} : stored \o flushed \in Seq(Requests)
      BY <3>2
    <3>4. stored' = stored \/ \E flushed \in {<<>>, file.buffer} : stored' = stored \o flushed
      BY <1>5 DEF Restart
    <3> QED BY <3>1, <3>3, <3>4
  <2>3. \A r \in Requests : pc'[r] \notin Persisted
    BY <1>5 DEF Restart, LossInv, FileInv, PCs, Persisted, Left, InServer, Appending, Rotating
  <2>4. Past' = {}
    BY <2>1, <2>3 DEF Past, ToSet
  <2>5. Unkept' = {} /\ Cardinality({}) = 0
    BY <2>4, FS_EmptySet DEF Unkept
  <2>6. WriterLost' = 0
    BY <2>1 DEF WriterLost
  <2> QED BY <1>1, <2>1, <2>2, <2>5, <2>6 DEF LossInv, Sequences
<1>6. CASE UNCHANGED vars
  BY <1>3, <1>6 DEF vars, requestVars, fileVars, streamVars
<1> QED BY <1>2, <1>4, <1>5, <1>6 DEF Next

\* LossIsCounted for any number of requests, any capacity and cap, and every
\* failure of a flush, a rename or an open.
THEOREM LossesAreCounted == Spec => []LossIsCounted
<1>1. Init => LossInv
  <2>. SUFFICES ASSUME Init PROVE LossInv
    OBVIOUS
  <2>1. FileInv
    BY DEF Init, FileInv, FreshFile, IsFile, Fields, RotationInv, Bounded, PCs, Rotating
  <2>2. Sequences /\ file.writer /\ file.errors = 0
    BY DEF Init, Sequences, FreshFile
  <2>3. Past = {}
    BY DEF Init, Past, Persisted, Rotating, ToSet
  <2>4. Unkept = {} /\ Cardinality({}) = 0
    BY <2>3, FS_EmptySet DEF Unkept
  <2>5. WriterLost = 0
    BY <2>2 DEF WriterLost
  <2> QED BY <2>1, <2>2, <2>4, <2>5 DEF LossInv
<1>2. LossInv => LossIsCounted
  <2>. SUFFICES ASSUME LossInv PROVE LossIsCounted
    OBVIOUS
  <2>. DEFINE missing == ToSet(sent) \ (ToSet(stored) \cup ToSet(file.buffer))
  <2>1. missing \subseteq Unkept
    BY DEF Unkept, Past
  <2>2. IsFiniteSet(Unkept) /\ Cardinality(Unkept) \in Nat /\ WriterLost \in {0, 1}
    BY Losses DEF LossInv
  <2>3. Cardinality(missing) <= Cardinality(Unkept) /\ Cardinality(missing) \in Nat
    BY <2>1, <2>2, FS_Subset, FS_CardinalityType
  <2>4. Cardinality(Unkept) + WriterLost <= file.errors /\ file.errors \in Nat
    BY DEF LossInv, FileInv, IsFile
  <2>5. Cardinality(missing) + WriterLost <= file.errors
    BY <2>2, <2>3, <2>4
  <2> QED BY <2>5 DEF LossIsCounted, WriterLost
<1> QED BY <1>1, <1>2, LossInvStep, PTL DEF Spec

-----------------------------------------------------------------------------
(* What the two generations hold.                                          *)

\* The lines of old and live end all, and what went before them is nothing or
\* has made room for a full generation.
Ends(all, old, live) ==
    \E before \in Seq(Requests) :
        /\ all = before \o (old \o live)
        /\ before = <<>> \/ Len(old \o live) >= MaxLines

HistoryInv ==
    /\ FileInv
    /\ Sequences
    /\ file.old \in Seq(Requests)
    /\ \A r \in Requests :
          pc[r] \in {"rotate_drop", "rotate_rename"} => Len(file.live) >= MaxLines
    /\ Ends(stored, file.old, file.live)

\* Three sequences of requests in one.
LEMMA Associative ==
    ASSUME NEW s \in Seq(Requests), NEW t \in Seq(Requests), NEW u \in Seq(Requests)
    PROVE  (s \o t) \o u = s \o (t \o u)
BY ConcatAssociative

\* Lines added to the live file.
LEMMA Grown ==
    ASSUME NEW all \in Seq(Requests), NEW old \in Seq(Requests), NEW live \in Seq(Requests),
           NEW new \in Seq(Requests), Ends(all, old, live)
    PROVE  Ends(all \o new, old, live \o new)
<1>1. PICK before \in Seq(Requests) :
          all = before \o (old \o live) /\ (before = <<>> \/ Len(old \o live) >= MaxLines)
  BY DEF Ends
<1>2. /\ old \o live \in Seq(Requests) /\ live \o new \in Seq(Requests)
      /\ old \o (live \o new) = (old \o live) \o new
  <2>1. (old \o live) \o new = old \o (live \o new)
    BY Associative, SMTT(30)
  <2>2. old \o live \in Seq(Requests) /\ live \o new \in Seq(Requests)
    BY Concatenated
  <2> QED BY <2>1, <2>2
<1>3. all \o new = before \o (old \o (live \o new))
  <2>1. (before \o (old \o live)) \o new = before \o ((old \o live) \o new)
    BY <1>2, Associative
  <2> QED BY <1>1, <1>2, <2>1, Zenon
<1>4. Len(old \o (live \o new)) = Len(old \o live) + Len(new)
      /\ Len(old \o live) \in Nat /\ Len(new) \in Nat
  BY <1>2, Concatenated
<1>5. Len(old \o live) >= MaxLines => Len(old \o (live \o new)) >= MaxLines
  BY <1>4, AuditConstants
<1> QED BY <1>1, <1>3, <1>5 DEF Ends

\* The previous generation given up for a full live file.
LEMMA Shed ==
    ASSUME NEW all \in Seq(Requests), NEW old \in Seq(Requests), NEW live \in Seq(Requests),
           Ends(all, old, live), Len(live) >= MaxLines
    PROVE  Ends(all, <<>>, live) /\ Ends(all, live, <<>>)
<1>1. PICK before \in Seq(Requests) : all = before \o (old \o live)
  BY DEF Ends
<1>2. all = (before \o old) \o live /\ before \o old \in Seq(Requests)
  <2>1. (before \o old) \o live = before \o (old \o live)
    BY Associative
  <2>2. before \o old \in Seq(Requests)
    BY Concatenated
  <2> QED BY <1>1, <2>1, <2>2, Zenon
<1>3. <<>> \o live = live /\ live \o <<>> = live
  BY ConcatEmptySeq
<1> QED BY <1>2, <1>3 DEF Ends

\* Every step keeps the history.
LEMMA HistoryInvStep == HistoryInv /\ [Next]_vars => HistoryInv'
<1>. SUFFICES ASSUME HistoryInv, [Next]_vars PROVE HistoryInv'
  OBVIOUS
<1>1. FileInv /\ FileInv'
  BY FileInvStep DEF HistoryInv
<1>2. /\ DOMAIN file = Fields /\ file.live \in Seq(Requests) /\ file.buffer \in Seq(Requests)
      /\ file.old \in Seq(Requests) /\ pc \in [Requests -> PCs]
      /\ stored \in Seq(Requests) /\ sent \in Seq(Requests)
      /\ << >> \in Seq(Requests)
  BY <1>1 DEF HistoryInv, FileInv, IsFile, Sequences
<1>3. ASSUME UNCHANGED <<pc, file, stored, sent>> PROVE HistoryInv'
  BY <1>1, <1>3 DEF HistoryInv, Sequences
<1>4. ASSUME NEW r \in Requests, RequestStep(r) PROVE HistoryInv'
  <2>1. Sequences'
    <3>1. CASE Broadcast(r)
      <4>1. sent' = Append(sent, r) /\ UNCHANGED stored
        BY <3>1 DEF Broadcast, fileVars
      <4> QED BY <1>2, <4>1 DEF Sequences
    <3>2. CASE Flush(r)
      <4>1. stored' = stored \o Flushed(r) /\ UNCHANGED sent
        BY <3>2 DEF Flush, streamVars
      <4>2. Flushed(r) \in Seq(Requests)
        BY <1>2 DEF Flushed
      <4> QED BY <1>2, <4>1, <4>2, ConcatProperties DEF Sequences
    <3>3. CASE \/ Enter(r) \/ Acquire(r) \/ Answer(r) \/ TimeOut(r) \/ Disconnect(r)
               \/ Record(r) \/ Push(r) \/ Count(r) \/ FlushFails(r) \/ NoWriter(r) \/ Rotate(r)
      <4>1. UNCHANGED <<sent, stored>>
        BY <3>3 DEF Enter, Acquire, Answer, TimeOut, Disconnect, Record, Push, Count, FlushFails,
           NoWriter, Rotate, DropOld, RenameLive, OpenFresh, RotationFails, fileVars, streamVars
      <4> QED BY <1>2, <4>1 DEF Sequences
    <3> QED BY <1>4, <3>1, <3>2, <3>3 DEF RequestStep, Persist
  <2>2. CASE \/ Enter(r) \/ Acquire(r) \/ Answer(r) \/ TimeOut(r) \/ Disconnect(r)
             \/ Record(r) \/ Push(r) \/ Count(r) \/ Broadcast(r)
    <3>1. UNCHANGED <<file, stored>>
      BY <2>2 DEF Enter, Acquire, Answer, TimeOut, Disconnect, Record, Push, Count, Broadcast, fileVars
    <3>2. PICK where \in {"waiting", "running", "answered", "disconnected", "push", "persist",
                          "broadcast", "done"} : pc' = [pc EXCEPT ![r] = where]
      BY <2>2 DEF Enter, Acquire, Answer, TimeOut, Disconnect, Record, Push, Count, Broadcast, GoTo
    <3>3. \A x \in Requests : pc'[x] \in {"rotate_drop", "rotate_rename"} => pc'[x] = pc[x]
      BY <1>2, <3>2 DEF Rotating
    <3> QED BY <1>1, <2>1, <3>1, <3>3 DEF HistoryInv
  <2>3. CASE FlushFails(r) \/ NoWriter(r) \/ OpenFresh(r) \/ RotationFails(r)
    <3>1. UNCHANGED stored /\ pc' = [pc EXCEPT ![r] = "count"]
      BY <2>3 DEF FlushFails, NoWriter, OpenFresh, RotationFails, GoTo
    <3>2. file'.old = file.old /\ file'.live = file.live
      BY <1>2, <2>3 DEF FlushFails, NoWriter, OpenFresh, RotationFails, Fields
    <3>3. \A x \in Requests : pc'[x] \in {"rotate_drop", "rotate_rename"} => pc'[x] = pc[x]
      BY <1>2, <3>1
    <3> QED BY <1>1, <2>1, <3>1, <3>2, <3>3 DEF HistoryInv
  <2>4. CASE Flush(r)
    <3>1. Flushed(r) \in Seq(Requests)
      BY <1>2 DEF Flushed
    <3>2. stored' = stored \o Flushed(r) /\ PersistenceFree /\ file.writer
      BY <2>4 DEF Flush
    <3>3. /\ file'.old = file.old /\ file'.live = file.live \o Flushed(r)
          /\ file'.bytes = file.bytes + 1 /\ file'.writer = file.writer
      BY <1>2, <2>4 DEF Flush, Fields
    <3>4. Ends(stored', file'.old, file'.live)
      BY <1>2, <3>1, <3>2, <3>3, Grown DEF HistoryInv
    <3>5. ASSUME NEW x \in Requests, pc'[x] \in {"rotate_drop", "rotate_rename"}
          PROVE  Len(file'.live) >= MaxLines
      <4>1. x = r /\ file.bytes + 1 >= MaxLines
        BY <1>2, <2>4, <3>2, <3>5 DEF Flush, GoTo, PersistenceFree, Rotating
      <4>2. file'.bytes <= Len(file'.live) /\ file'.bytes \in Nat
        BY <1>1, <3>2, <3>3 DEF FileInv, Bounded, IsFile
      <4>3. Len(file'.live) \in Nat
        BY <1>1 DEF FileInv, IsFile
      <4> QED BY <3>3, <4>1, <4>2, <4>3, AuditConstants
    <3> QED BY <1>1, <1>2, <2>1, <3>3, <3>4, <3>5 DEF HistoryInv
  <2>5. CASE DropOld(r)
    <3>1. /\ UNCHANGED stored /\ pc[r] = "rotate_drop" /\ pc' = [pc EXCEPT ![r] = "rotate_rename"]
          /\ file'.old = <<>> /\ file'.live = file.live
      BY <1>2, <2>5 DEF DropOld, GoTo, Fields
    <3>2. Len(file.live) >= MaxLines
      BY <3>1 DEF HistoryInv
    <3>3. Ends(stored', file'.old, file'.live)
      BY <1>2, <3>1, <3>2, Shed DEF HistoryInv
    <3> QED BY <1>1, <1>2, <2>1, <3>1, <3>2, <3>3 DEF HistoryInv
  <2>6. CASE RenameLive(r)
    <3>1. /\ UNCHANGED stored /\ pc[r] = "rotate_rename" /\ pc' = [pc EXCEPT ![r] = "rotate_open"]
          /\ file'.old = file.live /\ file'.live = <<>>
      BY <1>2, <2>6 DEF RenameLive, GoTo, Fields
    <3>2. Len(file.live) >= MaxLines
      BY <3>1 DEF HistoryInv
    <3>3. Ends(stored', file'.old, file'.live)
      BY <1>2, <3>1, <3>2, Shed DEF HistoryInv
    <3>4. \A x \in Requests : pc'[x] \notin {"rotate_drop", "rotate_rename"}
      BY <1>1, <1>2, <3>1 DEF FileInv, RotationInv, Rotating
    <3> QED BY <1>1, <1>2, <2>1, <3>1, <3>3, <3>4 DEF HistoryInv
  <2> QED BY <1>4, <2>2, <2>3, <2>4, <2>5, <2>6 DEF RequestStep, Persist, Rotate
<1>5. ASSUME NEW s \in Streams, StreamStep(s) PROVE HistoryInv'
  <2>1. UNCHANGED <<pc, file, stored, sent>>
    BY <1>5 DEF StreamStep, Subscribe, TakeSnapshot, Replay, Lag, Receive, Close, requestVars, fileVars
  <2> QED BY <1>3, <2>1
<1>6. CASE Restart
  <2>1. /\ sent' = <<>> /\ file'.old = file.old
    BY <1>6 DEF Restart, Reopened, FreshFile
  <2>2. \A r \in Requests : pc'[r] \notin Rotating
    BY <1>2, <1>6 DEF Restart, PCs, Left, InServer, Appending, Rotating
  <2>3. PICK new \in Seq(Requests) :
            \/ file' = Reopened(file.live) /\ stored' = stored
            \/ file' = Reopened(file.live \o new) /\ stored' = stored \o new
    BY <1>2, <1>6 DEF Restart
  <2>4. CASE file' = Reopened(file.live) /\ stored' = stored
    <3>1. file'.live = file.live
      BY <2>4 DEF Reopened, FreshFile
    <3> QED BY <1>1, <1>2, <2>1, <2>2, <2>4, <3>1 DEF HistoryInv, Sequences, Rotating
  <2>5. CASE file' = Reopened(file.live \o new) /\ stored' = stored \o new
    <3>1. file'.live = file.live \o new
      BY <2>5 DEF Reopened, FreshFile
    <3>2. stored' \in Seq(Requests) /\ Ends(stored', file'.old, file'.live)
      BY <1>2, <2>1, <2>5, <3>1, Grown, ConcatProperties DEF HistoryInv
    <3> QED BY <1>1, <1>2, <2>1, <2>2, <3>2 DEF HistoryInv, Sequences, Rotating
  <2> QED BY <2>3, <2>4, <2>5
<1>7. CASE UNCHANGED vars
  BY <1>3, <1>7 DEF vars, requestVars, fileVars, streamVars
<1> QED BY <1>4, <1>5, <1>6, <1>7 DEF Next

\* FilesHoldTheLatest for any number of requests and any cap, whatever rotation
\* is interrupted and whatever flush, rename or open fails.
THEOREM LatestAreKept == Spec => []FilesHoldTheLatest
<1>1. Init => HistoryInv
  <2>. SUFFICES ASSUME Init PROVE HistoryInv
    OBVIOUS
  <2>1. FileInv
    BY DEF Init, FileInv, FreshFile, IsFile, Fields, RotationInv, Bounded, PCs, Rotating
  <2>2. Sequences /\ file.old = <<>> /\ file.live = <<>> /\ stored = <<>>
    BY DEF Init, Sequences, FreshFile
  <2>3. << >> \in Seq(Requests) /\ << >> \o (<<>> \o <<>>) = << >>
    BY ConcatEmptySeq
  <2>4. Ends(stored, file.old, file.live)
    BY <2>2, <2>3 DEF Ends
  <2>5. \A r \in Requests : pc[r] \notin Rotating
    BY DEF Init, Rotating
  <2> QED BY <2>1, <2>2, <2>3, <2>4, <2>5 DEF HistoryInv, Rotating
<1>2. HistoryInv => FilesHoldTheLatest
  <2>. SUFFICES ASSUME HistoryInv PROVE FilesHoldTheLatest
    OBVIOUS
  <2>. DEFINE kept == file.old \o file.live
  <2>1. kept \in Seq(Requests)
    BY ConcatProperties DEF HistoryInv, FileInv, IsFile
  <2>2. PICK before \in Seq(Requests) :
            stored = before \o kept /\ (before = <<>> \/ Len(kept) >= MaxLines)
    BY DEF HistoryInv, Ends
  <2>3. IsSuffix(kept, stored)
    BY <2>1, <2>2, EndIsSuffix
  <2>4. before = <<>> => kept = stored
    BY <2>1, <2>2, ConcatEmptySeq
  <2> QED BY <2>2, <2>3, <2>4 DEF FilesHoldTheLatest
<1> QED BY <1>1, <1>2, HistoryInvStep, PTL DEF Spec

-----------------------------------------------------------------------------
(* The types, and the streams.                                             *)

FileRecord ==
    [live : Seq(Requests), old : Seq(Requests), buffer : Seq(Requests),
     writer : BOOLEAN, bytes : Nat, rotations : Nat, errors : Nat]

StreamRecord ==
    [phase : {"closed", "subscribed", "open"}, from : Nat, next : Nat \ {0},
     queue : Seq(Requests), got : SUBSET Requests, lagged : BOOLEAN]

\* The types, and a stream that is not ahead of what was sent.
TypeInv ==
    /\ pc \in [Requests -> PCs]
    /\ recorded \in Nat /\ clock \in Nat /\ appended \in Nat /\ dropped \in Nat
    /\ stamp \in [Requests -> Nat]
    /\ ring \in Seq(Requests) /\ stored \in Seq(Requests) /\ sent \in Seq(Requests)
    /\ file \in FileRecord
    /\ stream \in [Streams -> StreamRecord] /\ lastId \in [Streams -> Nat]
    /\ \A s \in Streams : stream[s].next <= Len(sent) + 1

\* What a resumed client is sent is what the ring holds that is newer.
LEMMA NewerIs ==
    ASSUME ring \in Seq(Requests), NEW from \in Nat
    PROVE  /\ Newer(from) \in Seq(Requests)
           /\ from # 0 => \A i \in DOMAIN ring : stamp[ring[i]] > from => ring[i] \in ToSet(Newer(from))
<1> DEFINE positions == { i \in DOMAIN ring : stamp[ring[i]] > from }
           taken == ElementsAt(ring, positions)
<1>1. positions \in SUBSET DOMAIN ring
  OBVIOUS
<1> HIDE DEF positions
<1>2. taken \in Seq(Requests) /\ IsFiltered(taken, ring, positions)
  BY <1>1, Filtered
<1>3. Newer(from) = IF from = 0 THEN <<>> ELSE taken
  BY DEF Newer, positions
<1> HIDE DEF taken
<1>4. ASSUME NEW i \in DOMAIN ring, stamp[ring[i]] > from PROVE ring[i] \in ToSet(taken)
  <2>1. i \in positions
    BY <1>4 DEF positions
  <2>2. PICK nth \in [1 .. Len(taken) -> positions] :
            /\ \A m \in 1 .. Len(taken) : taken[m] = ring[nth[m]]
            /\ \A h \in positions : \E m \in 1 .. Len(taken) : nth[m] = h
    BY <1>2 DEF IsFiltered
  <2>3. PICK m \in 1 .. Len(taken) : nth[m] = i
    BY <2>1, <2>2
  <2>4. m \in DOMAIN taken /\ taken[m] = ring[i]
    BY <1>2, <2>2, <2>3
  <2> QED BY <2>4 DEF ToSet
<1>5. <<>> \in Seq(Requests)
  OBVIOUS
<1> QED BY <1>2, <1>3, <1>4, <1>5

\* A file record with some of its fields replaced is one.
LEMMA FileFields ==
    ASSUME NEW f \in FileRecord, NEW a \in Seq(Requests), NEW b \in Seq(Requests),
           NEW w \in BOOLEAN, NEW n \in Nat, NEW m \in Nat
    PROVE  /\ [f EXCEPT !.live = a, !.buffer = b, !.bytes = n] \in FileRecord
           /\ [f EXCEPT !.buffer = b, !.errors = n] \in FileRecord
           /\ [f EXCEPT !.errors = n] \in FileRecord
           /\ [f EXCEPT !.old = a, !.writer = w] \in FileRecord
           /\ [f EXCEPT !.old = a, !.live = b] \in FileRecord
           /\ [f EXCEPT !.writer = w, !.bytes = n, !.rotations = m] \in FileRecord
           /\ [f EXCEPT !.live = a, !.old = b, !.bytes = n] \in FileRecord
           /\ [f EXCEPT !.live = a, !.old = b] \in FileRecord
<1>1. [f EXCEPT !.live = a, !.buffer = b, !.bytes = n] \in FileRecord
  BY DEF FileRecord
<1>2. [f EXCEPT !.buffer = b, !.errors = n] \in FileRecord
  BY DEF FileRecord
<1>3. [f EXCEPT !.errors = n] \in FileRecord
  BY DEF FileRecord
<1>4. [f EXCEPT !.old = a, !.writer = w] \in FileRecord
  BY DEF FileRecord
<1>5. [f EXCEPT !.old = a, !.live = b] \in FileRecord
  BY DEF FileRecord
<1>6. [f EXCEPT !.writer = w, !.bytes = n, !.rotations = m] \in FileRecord
  BY DEF FileRecord
<1>7. [f EXCEPT !.live = a, !.old = b, !.bytes = n] \in FileRecord
  BY DEF FileRecord
<1>8. [f EXCEPT !.live = a, !.old = b] \in FileRecord
  BY DEF FileRecord
<1> QED BY <1>1, <1>2, <1>3, <1>4, <1>5, <1>6, <1>7, <1>8

\* So is a stream record.
LEMMA StreamFields ==
    ASSUME NEW f \in StreamRecord, NEW p \in {"closed", "subscribed", "open"}, NEW n \in Nat,
           NEW k \in Nat \ {0}, NEW q \in Seq(Requests), NEW g \in SUBSET Requests, NEW b \in BOOLEAN
    PROVE  /\ [f EXCEPT !.phase = p, !.from = n, !.next = k] \in StreamRecord
           /\ [f EXCEPT !.phase = p, !.queue = q] \in StreamRecord
           /\ [f EXCEPT !.queue = q] \in StreamRecord
           /\ [f EXCEPT !.got = g] \in StreamRecord
           /\ [f EXCEPT !.next = k] \in StreamRecord
           /\ [f EXCEPT !.next = k, !.lagged = b] \in StreamRecord
<1>1. [f EXCEPT !.phase = p, !.from = n, !.next = k] \in StreamRecord
  BY DEF StreamRecord
<1>2. [f EXCEPT !.phase = p, !.queue = q] \in StreamRecord
  BY DEF StreamRecord
<1>3. [f EXCEPT !.queue = q] \in StreamRecord
  BY DEF StreamRecord
<1>4. [f EXCEPT !.got = g] \in StreamRecord
  BY DEF StreamRecord
<1>5. [f EXCEPT !.next = k] \in StreamRecord
  BY DEF StreamRecord
<1>6. [f EXCEPT !.next = k, !.lagged = b] \in StreamRecord
  BY DEF StreamRecord
<1> QED BY <1>1, <1>2, <1>3, <1>4, <1>5, <1>6

\* A request moves the file by these.
LEMMA FileStaysTyped ==
    ASSUME TypeInv, NEW r \in Requests, Persist(r) \/ Rotate(r)
    PROVE  file' \in FileRecord /\ stored' \in Seq(Requests)
<1>1. /\ file \in FileRecord /\ stored \in Seq(Requests) /\ << >> \in Seq(Requests)
      /\ file.live \in Seq(Requests) /\ file.old \in Seq(Requests) /\ file.buffer \in Seq(Requests)
      /\ file.bytes \in Nat /\ file.rotations \in Nat /\ file.errors \in Nat
  BY DEF TypeInv, FileRecord
<1>2. Flushed(r) \in Seq(Requests)
  BY <1>1 DEF Flushed
<1>3. file.live \o Flushed(r) \in Seq(Requests) /\ stored \o Flushed(r) \in Seq(Requests)
  BY <1>1, <1>2, ConcatProperties
<1>4. file.bytes + 1 \in Nat /\ file.errors + 1 \in Nat /\ file.rotations + 1 \in Nat
  BY <1>1
<1>5. CASE Flush(r)
  <2>1. file' = [file EXCEPT !.live = file.live \o Flushed(r), !.buffer = <<>>, !.bytes = file.bytes + 1]
        /\ stored' = stored \o Flushed(r)
    BY <1>5 DEF Flush
  <2> QED BY <1>1, <1>3, <1>4, <2>1, FileFields
<1>6. CASE FlushFails(r)
  <2>1. file' = [file EXCEPT !.buffer = Flushed(r), !.errors = file.errors + 1] /\ UNCHANGED stored
    BY <1>6 DEF FlushFails
  <2> QED BY <1>1, <1>2, <1>4, <2>1, FileFields
<1>7. CASE NoWriter(r) \/ RotationFails(r)
  <2>1. file' = [file EXCEPT !.errors = file.errors + 1] /\ UNCHANGED stored
    BY <1>7 DEF NoWriter, RotationFails
  <2> QED BY <1>1, <1>4, <2>1, FileFields
<1>8. CASE DropOld(r)
  <2>1. file' = [file EXCEPT !.old = <<>>, !.writer = FALSE] /\ UNCHANGED stored
    BY <1>8 DEF DropOld
  <2> QED BY <1>1, <2>1, FileFields
<1>9. CASE RenameLive(r)
  <2>1. file' = [file EXCEPT !.old = file.live, !.live = <<>>] /\ UNCHANGED stored
    BY <1>9 DEF RenameLive
  <2> QED BY <1>1, <2>1, FileFields
<1>10. CASE OpenFresh(r)
  <2>1. file' = [file EXCEPT !.writer = TRUE, !.bytes = 0, !.rotations = file.rotations + 1] /\ UNCHANGED stored
    BY <1>10 DEF OpenFresh
  <2>2. file' \in FileRecord
    BY <1>1, <1>4, <2>1, FileFields
  <2> QED BY <1>1, <2>1, <2>2
<1> QED BY <1>5, <1>6, <1>7, <1>8, <1>9, <1>10 DEF Persist, Rotate

\* Where every request goes.
LEMMA Goes ==
    ASSUME TypeInv, NEW r \in Requests, RequestStep(r)
    PROVE  \E where \in PCs : /\ pc' = [pc EXCEPT ![r] = where]
                              /\ where = "done" => Broadcast(r)
                              /\ pc[r] # "done"
<1>1. {"waiting", "running", "answered", "disconnected", "push", "persist", "count", "broadcast",
       "done", "rotate_drop", "rotate_rename", "rotate_open"} \subseteq PCs
  BY DEF PCs, InServer, Admitted, Appending, Rotating, Left
<1>2. CASE Persist(r) \/ Rotate(r)
  BY <1>1, <1>2 DEF Persist, Rotate, Flush, FlushFails, NoWriter, DropOld, RenameLive, OpenFresh,
       RotationFails, GoTo
<1>3. CASE Enter(r) \/ Acquire(r) \/ Answer(r) \/ TimeOut(r) \/ Disconnect(r) \/ Record(r)
           \/ Push(r) \/ Count(r) \/ Broadcast(r)
  BY <1>1, <1>3 DEF Enter, Acquire, Answer, TimeOut, Disconnect, Record, Push, Count, Broadcast,
       GoTo, Admitted
<1> QED BY <1>2, <1>3 DEF RequestStep

\* Every step of a request keeps the types.
LEMMA RequestStaysTyped ==
    ASSUME TypeInv, NEW r \in Requests, RequestStep(r)
    PROVE  TypeInv'
<1>1. pc' \in [Requests -> PCs]
  BY Goes DEF TypeInv
<1>2. CASE Persist(r) \/ Rotate(r)
  <2>1. UNCHANGED <<recorded, clock, stamp, ringVars, streamVars>>
    BY <1>2 DEF Persist, Rotate, Flush, FlushFails, NoWriter, DropOld, RenameLive, OpenFresh, RotationFails
  <2> QED BY <1>1, <1>2, <2>1, FileStaysTyped DEF TypeInv, ringVars, streamVars
<1>3. CASE Enter(r) \/ Acquire(r) \/ Answer(r) \/ TimeOut(r) \/ Disconnect(r)
  <2>1. UNCHANGED <<recorded, clock, stamp, ringVars, fileVars, streamVars>>
    BY <1>3 DEF Enter, Acquire, Answer, TimeOut, Disconnect
  <2> QED BY <1>1, <2>1 DEF TypeInv, ringVars, fileVars, streamVars
<1>4. CASE Record(r)
  <2>1. /\ UNCHANGED <<ringVars, fileVars, streamVars>> /\ recorded' = recorded + 1
        /\ \E now \in {clock, clock + 1} : clock' = now /\ stamp' = [stamp EXCEPT ![r] = now]
    BY <1>4 DEF Record
  <2> QED BY <1>1, <2>1 DEF TypeInv, ringVars, fileVars, streamVars
<1>5. CASE Push(r)
  <2>1. /\ UNCHANGED <<recorded, clock, stamp, appended, fileVars, streamVars>>
        /\ dropped' \in {dropped, dropped + 1}
    BY <1>5 DEF Push
  <2>2. ring' \in Seq(Requests)
    <3>1. ring \in Seq(Requests)
      BY DEF TypeInv
    <3>2. CASE Capacity = 0
      BY <1>5, <3>1, <3>2 DEF Push
    <3>3. CASE Capacity # 0 /\ Len(ring) = Capacity
      <4>1. ring # <<>>
        BY <3>3, AuditConstants
      <4>2. Tail(ring) \in Seq(Requests) /\ ring' = Append(Tail(ring), r)
        BY <1>5, <3>1, <3>3, <4>1 DEF Push
      <4> QED BY <4>2
    <3>4. CASE Capacity # 0 /\ Len(ring) # Capacity
      <4>1. ring' = Append(ring, r)
        BY <1>5, <3>4 DEF Push
      <4> QED BY <3>1, <4>1
    <3> QED BY <3>2, <3>3, <3>4
  <2> QED BY <1>1, <2>1, <2>2 DEF TypeInv, fileVars, streamVars
<1>6. CASE Count(r)
  <2>1. UNCHANGED <<recorded, clock, stamp, ring, dropped, fileVars, streamVars>> /\ appended' = appended + 1
    BY <1>6 DEF Count
  <2> QED BY <1>1, <2>1 DEF TypeInv, fileVars, streamVars
<1>7. CASE Broadcast(r)
  <2>1. /\ UNCHANGED <<recorded, clock, stamp, ringVars, fileVars, stream, lastId>>
        /\ sent' = Append(sent, r)
    BY <1>7 DEF Broadcast
  <2>2. sent' \in Seq(Requests) /\ Len(sent') = Len(sent) + 1 /\ Len(sent) \in Nat
    BY <2>1 DEF TypeInv
  <2>3. \A s \in Streams : stream[s].next \in Nat
    BY DEF TypeInv, StreamRecord
  <2>4. \A s \in Streams : stream'[s].next <= Len(sent') + 1
    BY <2>1, <2>2, <2>3 DEF TypeInv
  <2> QED BY <1>1, <2>1, <2>2, <2>4 DEF TypeInv, ringVars, fileVars
<1> QED BY <1>2, <1>3, <1>4, <1>5, <1>6, <1>7 DEF RequestStep

\* So does every step of a stream.
LEMMA StreamStaysTyped ==
    ASSUME TypeInv, NEW s \in Streams, StreamStep(s)
    PROVE  TypeInv'
<1>1. UNCHANGED <<pc, recorded, clock, stamp, ringVars, fileVars, sent>>
  BY DEF StreamStep, Subscribe, TakeSnapshot, Replay, Lag, Receive, Close, requestVars
<1>2. /\ stream[s] \in StreamRecord /\ lastId[s] \in Nat /\ Len(sent) \in Nat /\ sent \in Seq(Requests)
      /\ stream[s].next \in Nat \ {0} /\ stream[s].next <= Len(sent) + 1
      /\ stream[s].queue \in Seq(Requests) /\ stream[s].from \in Nat /\ stream[s].got \subseteq Requests
      /\ StreamCapacity \in Nat \ {0} /\ ring \in Seq(Requests)
  BY AuditConstants DEF TypeInv, StreamRecord
<1>3. Closed \in StreamRecord /\ Closed.next = 1
  BY DEF Closed, StreamRecord
<1>4. \E new \in StreamRecord : /\ stream' = [stream EXCEPT ![s] = new]
                                /\ new.next <= Len(sent) + 1
                                /\ lastId' \in [Streams -> Nat]
  <2>1. CASE Subscribe(s)
    <3> DEFINE new == [Closed EXCEPT !.phase = "subscribed", !.from = lastId[s], !.next = Len(sent) + 1]
    <3>0. Len(sent) + 1 \in Nat \ {0}
      BY <1>2
    <3>1. new \in StreamRecord
      BY <1>2, <1>3, <3>0, StreamFields
    <3>2. new.next = Len(sent) + 1
      BY DEF Closed
    <3>3. stream' = [stream EXCEPT ![s] = new] /\ lastId' \in [Streams -> Nat]
      BY <2>1 DEF Subscribe, TypeInv
    <3>4. Len(sent) + 1 <= Len(sent) + 1
      BY <1>2
    <3> HIDE DEF new
    <3> QED BY <3>1, <3>2, <3>3, <3>4
  <2>2. CASE TakeSnapshot(s)
    <3> DEFINE new == [stream[s] EXCEPT !.phase = "open", !.queue = Newer(stream[s].from)]
    <3>1. Newer(stream[s].from) \in Seq(Requests)
      BY <1>2, NewerIs
    <3>2. new \in StreamRecord /\ new.next = stream[s].next
      BY <1>2, <3>1 DEF StreamRecord
    <3>3. stream' = [stream EXCEPT ![s] = new] /\ UNCHANGED lastId
      BY <2>2 DEF TakeSnapshot, TypeInv
    <3> HIDE DEF new
    <3> QED BY <1>2, <3>2, <3>3 DEF TypeInv
  <2>3. CASE Replay(s)
    <3> DEFINE new == [[stream[s] EXCEPT !.queue = Tail(@)] EXCEPT !.got = @ \cup {Head(stream[s].queue)}]
    <3>1. Head(stream[s].queue) \in Requests /\ Tail(stream[s].queue) \in Seq(Requests)
      BY <1>2, <2>3 DEF Replay
    <3>2. new \in StreamRecord /\ new.next = stream[s].next
      BY <1>2, <3>1 DEF StreamRecord
    <3>3. stream' = [stream EXCEPT ![s] = new] /\ lastId' = [lastId EXCEPT ![s] = stamp[Head(stream[s].queue)]]
      BY <2>3 DEF Replay, Deliver
    <3>4. lastId' \in [Streams -> Nat]
      BY <3>1, <3>3 DEF TypeInv
    <3> HIDE DEF new
    <3> QED BY <1>2, <3>2, <3>3, <3>4
  <2>4. CASE Lag(s)
    <3> DEFINE new == [stream[s] EXCEPT !.next = Len(sent) - StreamCapacity + 1, !.lagged = TRUE]
    <3>1. Len(sent) - stream[s].next + 1 > StreamCapacity
      BY <2>4 DEF Lag, Unread
    <3>2. Len(sent) - StreamCapacity + 1 \in Nat \ {0} /\ Len(sent) - StreamCapacity + 1 <= Len(sent) + 1
      BY <1>2, <3>1
    <3>3. new \in StreamRecord /\ new.next = Len(sent) - StreamCapacity + 1
      BY <1>2, <3>2 DEF StreamRecord
    <3>4. stream' = [stream EXCEPT ![s] = new] /\ UNCHANGED lastId
      BY <2>4 DEF Lag, TypeInv
    <3> HIDE DEF new
    <3> QED BY <3>2, <3>3, <3>4 DEF TypeInv
  <2>5. CASE Receive(s)
    <3> DEFINE x == sent[stream[s].next]
               new == [[stream[s] EXCEPT !.next = @ + 1] EXCEPT !.got = @ \cup {x}]
    <3>1. Len(sent) - stream[s].next + 1 >= 1
      BY <2>5, <1>2 DEF Receive, Unread
    <3>2. stream[s].next \in 1 .. Len(sent) /\ x \in Requests
      BY <1>2, <3>1
    <3> DEFINE mid == [stream[s] EXCEPT !.next = @ + 1]
    <3>3. new \in StreamRecord /\ new.next = stream[s].next + 1
      <4>0. stream[s].next + 1 \in Nat \ {0}
        BY <1>2
      <4>1. mid \in StreamRecord
        BY <1>2, <4>0, StreamFields
      <4>2. mid.next = stream[s].next + 1 /\ mid.got \in SUBSET Requests
        BY <1>2 DEF StreamRecord
      <4> HIDE DEF mid
      <4>3. mid.got \cup {x} \in SUBSET Requests
        BY <3>2, <4>2
      <4>4. \A g \in SUBSET Requests : [mid EXCEPT !.got = g] \in StreamRecord
        BY <4>1 DEF StreamRecord
      <4>5. \A g : [mid EXCEPT !.got = g].next = mid.next
        BY <4>1 DEF StreamRecord
      <4>6. new = [mid EXCEPT !.got = mid.got \cup {x}]
        BY DEF mid
      <4> HIDE DEF new
      <4> QED BY <4>2, <4>3, <4>4, <4>5, <4>6
    <3>4. stream' = [stream EXCEPT ![s] = new] /\ lastId' = [lastId EXCEPT ![s] = stamp[x]]
      BY <2>5 DEF Receive, Deliver
    <3>5. lastId' \in [Streams -> Nat]
      BY <3>2, <3>4 DEF TypeInv
    <3>6. stream[s].next + 1 <= Len(sent) + 1
      BY <1>2, <3>2
    <3> HIDE DEF new, x
    <3> QED BY <3>3, <3>4, <3>5, <3>6
  <2>6. CASE Close(s)
    <3>1. stream' = [stream EXCEPT ![s] = Closed] /\ lastId' \in [Streams -> Nat]
      BY <2>6 DEF Close, TypeInv
    <3>2. Closed.next <= Len(sent) + 1
      BY <1>2, <1>3
    <3> QED BY <1>3, <3>1, <3>2
  <2> QED BY <2>1, <2>2, <2>3, <2>4, <2>5, <2>6 DEF StreamStep
<1>5. /\ stream' \in [Streams -> StreamRecord] /\ lastId' \in [Streams -> Nat]
      /\ \A x \in Streams : stream'[x].next <= Len(sent) + 1
  BY <1>4 DEF TypeInv
<1> QED BY <1>1, <1>5 DEF TypeInv, ringVars, fileVars

\* What a start makes of the files is a file record.
LEMMA ReopenedIsTyped ==
    ASSUME TypeInv, NEW live \in Seq(Requests)
    PROVE  Reopened(live) \in FileRecord
<1>1. file.old \in Seq(Requests) /\ << >> \in Seq(Requests) /\ Len(live) \in Nat
  BY DEF TypeInv, FileRecord
<1>2. FreshFile \in FileRecord
  BY <1>1 DEF FreshFile, FileRecord
<1> HIDE DEF FreshFile
<1> QED BY <1>1, <1>2, FileFields DEF Reopened

\* A restart keeps the types.
LEMMA RestartStaysTyped ==
    ASSUME TypeInv, Restart PROVE TypeInv'
<1>1. pc' \in [Requests -> PCs]
  BY DEF Restart, TypeInv, PCs, Left
<1>2. /\ ring' = <<>> /\ sent' = <<>> /\ recorded' = 0 /\ appended' = 0 /\ dropped' = 0
      /\ UNCHANGED <<clock, stamp, lastId>> /\ stream' = [s \in Streams |-> Closed]
  BY DEF Restart
<1>3. /\ file.live \in Seq(Requests) /\ file.buffer \in Seq(Requests) /\ stored \in Seq(Requests)
      /\ << >> \in Seq(Requests) /\ Len(<<>>) = 0
  BY DEF TypeInv, FileRecord
<1>4. file' \in FileRecord /\ stored' \in Seq(Requests)
  <2>1. CASE \E flushed \in {<<>>, file.buffer} :
                file' = Reopened(file.live \o flushed) /\ stored' = stored \o flushed
    <3>1. PICK flushed \in Seq(Requests) :
                file' = Reopened(file.live \o flushed) /\ stored' = stored \o flushed
      BY <1>3, <2>1
    <3>2. file.live \o flushed \in Seq(Requests) /\ stored \o flushed \in Seq(Requests)
      BY <1>3, ConcatProperties
    <3> QED BY <3>1, <3>2, ReopenedIsTyped
  <2>2. CASE file' = Reopened(file.live) /\ UNCHANGED stored
    BY <1>3, <2>2, ReopenedIsTyped
  <2> QED BY <2>1, <2>2 DEF Restart
<1>5. Closed \in StreamRecord /\ Closed.next = 1
  BY <1>3 DEF Closed, StreamRecord
<1>6. stream' \in [Streams -> StreamRecord] /\ \A s \in Streams : stream'[s].next <= Len(sent') + 1
  BY <1>2, <1>3, <1>5
<1> QED BY <1>1, <1>2, <1>3, <1>4, <1>6 DEF TypeInv

\* Every step keeps the types.
LEMMA TypeInvStep == TypeInv /\ [Next]_vars => TypeInv'
<1> SUFFICES ASSUME TypeInv, [Next]_vars PROVE TypeInv'
  OBVIOUS
<1>1. CASE UNCHANGED vars
  BY <1>1 DEF vars, requestVars, ringVars, fileVars, streamVars, TypeInv
<1> QED BY <1>1, RequestStaysTyped, StreamStaysTyped, RestartStaysTyped DEF Next

\* The types at boot.
LEMMA TypeInvInit == Init => TypeInv
<1> SUFFICES ASSUME Init PROVE TypeInv
  OBVIOUS
<1>1. << >> \in Seq(Requests) /\ Len(<<>>) = 0
  OBVIOUS
<1>2. FreshFile \in FileRecord
  BY <1>1 DEF FreshFile, FileRecord
<1>3. Closed \in StreamRecord /\ Closed.next = 1
  BY <1>1 DEF Closed, StreamRecord
<1> HIDE DEF FreshFile, Closed
<1> QED BY <1>1, <1>2, <1>3 DEF Init, TypeInv, PCs

\* TypeOK for any number of requests and streams; that the gauge is never
\* negative rests on the counting of those inside.
THEOREM TypeCorrect == Spec => []TypeOK
<1>1. CountInv => inFlight \in Nat
  <2> SUFFICES ASSUME CountInv PROVE inFlight \in Nat
    OBVIOUS
  <2>1. IsFiniteSet({ r \in Requests : pc[r] \in InServer })
    BY FS_Subset, AuditConstants
  <2> QED BY <2>1, FS_CardinalityType DEF CountInv, Numbers, At
<1>2. TypeInv /\ inFlight \in Nat /\ slots \subseteq Requests => TypeOK
  BY DEF TypeInv, TypeOK, FileRecord, StreamRecord, PCs
<1>3. CountInv => slots \subseteq Requests
  BY DEF CountInv, Permits
<1>4. Spec => []CountInv
  BY CountInvInit, CountInvStep, PTL DEF Spec
<1>5. Spec => []TypeInv
  BY TypeInvInit, TypeInvStep, PTL DEF Spec
<1> QED BY <1>1, <1>2, <1>3, <1>4, <1>5, PTL

\* A resumed entry of the ring: it was sent, waits to be sent, will be read from
\* the channel, or its request is still on its way to the channel.
Covered(s, r) ==
    \/ r \in stream[s].got \cup ToSet(stream[s].queue)
    \/ \E k \in stream[s].next .. Len(sent) : sent[k] = r
    \/ pc[r] # "done"

Resumed(s) == stream[s].phase = "open" /\ stream[s].from # 0 /\ ~stream[s].lagged

\* ResumeLeavesNoGap, request by request.
GapInv ==
    \A s \in Streams : Resumed(s) =>
        \A r \in ToSet(ring) : stamp[r] > stream[s].from => Covered(s, r)

\* The two are the same.
LEMMA GapInvIs == TypeInv => (GapInv <=> ResumeLeavesNoGap)
BY DEF GapInv, ResumeLeavesNoGap, Resumed, Covered, ToSet

\* A request on its way to the channel covers itself, and arrives where every
\* open stream still reads.
LEMMA RequestLeavesNoGap ==
    ASSUME TypeInv, GapInv, NEW r \in Requests, RequestStep(r)
    PROVE  GapInv'
<1>1. PICK where \in PCs : /\ pc' = [pc EXCEPT ![r] = where]
                           /\ where = "done" => Broadcast(r)
                           /\ pc[r] # "done"
  BY Goes
<1>2. UNCHANGED stream
  BY DEF RequestStep, Persist, Rotate, Enter, Acquire, Answer, TimeOut, Disconnect, Record, Push,
     Flush, FlushFails, NoWriter, DropOld, RenameLive, OpenFresh, RotationFails, Count, Broadcast,
     streamVars
<1>3. \A x \in Requests : x # r => stamp'[x] = stamp[x] /\ pc'[x] = pc[x]
  BY <1>1 DEF TypeInv, RequestStep, Persist, Rotate, Enter, Acquire, Answer, TimeOut, Disconnect, Record, Push,
     Flush, FlushFails, NoWriter, DropOld, RenameLive, OpenFresh, RotationFails, Count, Broadcast
<1>4. \A x \in ToSet(ring') : x \in Requests /\ (x # r => x \in ToSet(ring))
  <2>1. ring' = ring \/ Push(r)
    BY DEF RequestStep, Persist, Rotate, Enter, Acquire, Answer, TimeOut, Disconnect, Record,
       Flush, FlushFails, NoWriter, DropOld, RenameLive, OpenFresh, RotationFails, Count, Broadcast, ringVars
  <2>2. ring \in Seq(Requests)
    BY DEF TypeInv
  <2>3. CASE ring' = ring
    BY <2>2, <2>3 DEF ToSet
  <2>4. CASE Push(r)
    <3>1. CASE Capacity = 0
      BY <2>2, <2>4, <3>1 DEF Push, ToSet
    <3>2. CASE Capacity # 0 /\ Len(ring) = Capacity
      <4>1. ring # <<>>
        BY <3>2, AuditConstants
      <4>2. Tail(ring) \in Seq(Requests) /\ ring' = Append(Tail(ring), r)
        BY <2>2, <2>4, <3>2, <4>1 DEF Push
      <4>3. \A x \in ToSet(ring') : x = r \/ x \in ToSet(Tail(ring))
        BY <4>2 DEF ToSet
      <4>4. \A x \in ToSet(Tail(ring)) : x \in ToSet(ring)
        BY <2>2, <4>1 DEF ToSet
      <4>5. \A x \in ToSet(ring) : x \in Requests
        BY <2>2 DEF ToSet
      <4> QED BY <4>3, <4>4, <4>5
    <3>3. CASE Capacity # 0 /\ Len(ring) # Capacity
      <4>1. ring' = Append(ring, r)
        BY <2>4, <3>3 DEF Push
      <4> QED BY <2>2, <4>1 DEF ToSet
    <3> QED BY <3>1, <3>2, <3>3
  <2> QED BY <2>1, <2>3, <2>4
<1>5. /\ sent \in Seq(Requests) /\ Len(sent) \in Nat
      /\ Broadcast(r) => sent' = Append(sent, r)
      /\ ~Broadcast(r) => sent' = sent
  BY DEF TypeInv, RequestStep, Persist, Rotate, Enter, Acquire, Answer, TimeOut, Disconnect, Record, Push,
     Flush, FlushFails, NoWriter, DropOld, RenameLive, OpenFresh, RotationFails, Count, Broadcast, streamVars
<1>6. /\ Len(sent') \in Nat /\ Len(sent) <= Len(sent')
      /\ \A k \in 1 .. Len(sent) : sent'[k] = sent[k]
      /\ Broadcast(r) => Len(sent') = Len(sent) + 1 /\ sent'[Len(sent) + 1] = r
  <2>1. CASE Broadcast(r)
    <3>1. sent' = Append(sent, r)
      BY <1>5, <2>1
    <3> QED BY <1>5, <3>1
  <2>2. CASE ~Broadcast(r)
    BY <1>5, <2>2
  <2> QED BY <2>1, <2>2
<1>7. SUFFICES ASSUME NEW s \in Streams, Resumed(s)', NEW x, x \in ToSet(ring)', (stamp[x])' > (stream[s].from)'
               PROVE  Covered(s, x)'
  BY DEF GapInv
<1>8. Resumed(s) /\ x \in Requests /\ (x # r => x \in ToSet(ring)) /\ stream[s].next \in Nat \ {0}
      /\ stream[s].next <= Len(sent) + 1
  BY <1>2, <1>4, <1>7 DEF Resumed, TypeInv, StreamRecord
<1>9. CASE x = r
  <2>1. CASE where = "done"
    <3>1. Len(sent) + 1 \in stream[s].next .. Len(sent') /\ sent'[Len(sent) + 1] = r
      BY <1>1, <1>5, <1>6, <1>8, <2>1
    <3> QED BY <1>2, <1>9, <3>1 DEF Covered
  <2>2. CASE where # "done"
    <3>1. pc'[x] # "done"
      BY <1>1, <1>9, <2>2 DEF TypeInv
    <3> QED BY <3>1 DEF Covered
  <2> QED BY <2>1, <2>2
<1>10. CASE x # r
  <2>1. stamp[x] > stream[s].from /\ x \in ToSet(ring)
    BY <1>2, <1>3, <1>7, <1>8, <1>10
  <2>2. Covered(s, x)
    BY <1>8, <2>1 DEF GapInv
  <2>3. ASSUME NEW k \in stream[s].next .. Len(sent), sent[k] = x
        PROVE  k \in stream[s].next .. Len(sent') /\ sent'[k] = x
    BY <1>5, <1>6, <1>8, <2>3
  <2> QED BY <1>2, <1>3, <1>8, <1>10, <2>2, <2>3 DEF Covered
<1> QED BY <1>9, <1>10

\* An open stream after a step of its own: what the snapshot must show is in its
\* queue, and what leaves queue or channel has been sent.
LEMMA OwnStepLeavesNoGap ==
    ASSUME TypeInv, GapInv, NEW s \in Streams, StreamStep(s), Resumed(s)',
           NEW x \in ToSet(ring), stamp[x] > stream'[s].from
    PROVE  Covered(s, x)'
<1>1. UNCHANGED <<pc, stamp, ring, sent>>
  BY DEF StreamStep, Subscribe, TakeSnapshot, Replay, Lag, Receive, Close, requestVars, ringVars
<1>2. /\ stream[s] \in StreamRecord /\ stream \in [Streams -> StreamRecord]
      /\ stream[s].next \in Nat \ {0} /\ stream[s].queue \in Seq(Requests) /\ stream[s].from \in Nat
      /\ ring \in Seq(Requests) /\ Len(sent) \in Nat
  BY DEF TypeInv, StreamRecord
<1>3. stream'[s].phase = "open" /\ stream'[s].from # 0 /\ ~stream'[s].lagged
  BY DEF Resumed
<1>4. CASE Subscribe(s)
  <2>1. stream'[s].phase = "subscribed"
    BY <1>2, <1>4 DEF Subscribe, Closed
  <2> QED BY <1>3, <2>1
<1>5. CASE TakeSnapshot(s)
  <2>1. stream' = [stream EXCEPT ![s] = [stream[s] EXCEPT !.phase = "open", !.queue = Newer(stream[s].from)]]
    BY <1>5 DEF TakeSnapshot
  <2>2. stream'[s].queue = Newer(stream[s].from) /\ stream'[s].from = stream[s].from
    BY <1>2, <2>1 DEF StreamRecord
  <2>3. PICK i \in DOMAIN ring : x = ring[i]
    BY DEF ToSet
  <2>4. x \in ToSet(Newer(stream[s].from))
    BY <1>2, <1>3, <2>2, <2>3, NewerIs
  <2>5. x \in ToSet(stream'[s].queue)
    BY <2>2, <2>4
  <2>6. ToSet(stream[s].queue)' = ToSet(stream'[s].queue)
    BY DEF ToSet
  <2> QED BY <2>5, <2>6 DEF Covered
<1>6. CASE Replay(s)
  <2> DEFINE q == stream[s].queue
             new == [[stream[s] EXCEPT !.queue = Tail(q)] EXCEPT !.got = @ \cup {Head(q)}]
  <2>1. stream' = [stream EXCEPT ![s] = new] /\ stream[s].phase = "open" /\ q # <<>>
    BY <1>6 DEF Replay, Deliver
  <2>2. /\ new.queue = Tail(q) /\ new.got = stream[s].got \cup {Head(q)} /\ new.from = stream[s].from
        /\ new.next = stream[s].next /\ new.lagged = stream[s].lagged
    BY <1>2 DEF StreamRecord
  <2> HIDE DEF new
  <2>3. stream'[s] = new
    BY <1>2, <2>1
  <2>4. Covered(s, x)
    BY <1>3, <2>1, <2>2, <2>3 DEF GapInv, Resumed
  <2>5. \A y \in ToSet(q) : y = Head(q) \/ y \in ToSet(Tail(q))
    <3>1. q \in Seq(Requests) /\ q # <<>>
      BY <1>2, <2>1
    <3> HIDE DEF q
    <3>2. ASSUME NEW i \in 1 .. Len(q) PROVE q[i] = Head(q) \/ q[i] \in ToSet(Tail(q))
      <4>1. CASE i = 1
        BY <3>1, <4>1
      <4>2. CASE i # 1
        <5>1. i - 1 \in DOMAIN Tail(q) /\ Tail(q)[i - 1] = q[i]
          BY <3>1, <3>2, <4>2
        <5> QED BY <5>1 DEF ToSet
      <4> QED BY <4>1, <4>2
    <3> QED BY <3>1, <3>2 DEF ToSet
  <2>6. ToSet(stream[s].queue)' = ToSet(stream'[s].queue)
    BY DEF ToSet
  <2> QED BY <1>1, <2>2, <2>3, <2>4, <2>5, <2>6 DEF Covered
<1>7. CASE Lag(s)
  <2>1. stream'[s].lagged
    BY <1>2, <1>7 DEF Lag, StreamRecord
  <2> QED BY <1>3, <2>1
<1>8. CASE Receive(s)
  <2> DEFINE y == sent[stream[s].next]
             new == [[stream[s] EXCEPT !.next = stream[s].next + 1] EXCEPT !.got = @ \cup {y}]
  <2>1. stream' = [stream EXCEPT ![s] = new] /\ stream[s].phase = "open"
    BY <1>8 DEF Receive, Deliver
  <2>2. /\ new.queue = stream[s].queue /\ new.got = stream[s].got \cup {y} /\ new.from = stream[s].from
        /\ new.next = stream[s].next + 1 /\ new.lagged = stream[s].lagged
    BY <1>2 DEF StreamRecord
  <2> HIDE DEF new
  <2>3. stream'[s] = new
    BY <1>2, <2>1
  <2>4. Covered(s, x)
    BY <1>3, <2>1, <2>2, <2>3 DEF GapInv, Resumed
  <2>5. ToSet(stream[s].queue)' = ToSet(stream'[s].queue)
    BY DEF ToSet
  <2>6. ASSUME NEW k \in stream[s].next .. Len(sent), sent[k] = x
        PROVE  x = y \/ k \in stream[s].next + 1 .. Len(sent)
    BY <1>2, <2>6
  <2> QED BY <1>1, <2>2, <2>3, <2>4, <2>5, <2>6 DEF Covered
<1>9. CASE Close(s)
  <2>1. stream'[s].phase = "closed"
    BY <1>2, <1>9 DEF Close, Closed
  <2> QED BY <1>3, <2>1
<1> QED BY <1>4, <1>5, <1>6, <1>7, <1>8, <1>9 DEF StreamStep

\* A stream's step leaves the other streams as they are.
LEMMA StreamLeavesNoGap ==
    ASSUME TypeInv, GapInv, NEW s \in Streams, StreamStep(s)
    PROVE  GapInv'
<1>1. UNCHANGED <<pc, stamp, ring, sent>>
  BY DEF StreamStep, Subscribe, TakeSnapshot, Replay, Lag, Receive, Close, requestVars, ringVars
<1>2. \A t \in Streams : t # s => stream'[t] = stream[t]
  BY DEF StreamStep, Subscribe, TakeSnapshot, Replay, Lag, Receive, Close, Deliver, TypeInv
<1>3. SUFFICES ASSUME NEW t \in Streams, Resumed(t)', NEW x, x \in ToSet(ring)', (stamp[x])' > (stream[t].from)'
               PROVE  Covered(t, x)'
  BY DEF GapInv
<1>4. x \in ToSet(ring) /\ stamp[x] > stream'[t].from
  BY <1>1, <1>3 DEF ToSet
<1>5. CASE t = s
  BY <1>3, <1>4, <1>5, OwnStepLeavesNoGap
<1>6. CASE t # s
  <2>1. stream'[t] = stream[t]
    BY <1>2, <1>6
  <2>2. Covered(t, x)
    BY <1>3, <1>4, <2>1 DEF GapInv, Resumed
  <2> QED BY <1>1, <2>1, <2>2 DEF Covered, ToSet
<1> QED BY <1>5, <1>6

\* Across requests, streams and restarts.
LEMMA GapInvStep == TypeInv /\ GapInv /\ [Next]_vars => GapInv'
<1> SUFFICES ASSUME TypeInv, GapInv, [Next]_vars PROVE GapInv'
  OBVIOUS
<1>1. CASE UNCHANGED vars
  BY <1>1 DEF vars, requestVars, ringVars, fileVars, streamVars, GapInv, Resumed, Covered, ToSet
<1>2. CASE Restart
  BY <1>2 DEF Restart, Closed, GapInv, Resumed
<1> QED BY <1>1, <1>2, RequestLeavesNoGap, StreamLeavesNoGap DEF Next

\* ResumeLeavesNoGap, whatever the number of threads that append between the
\* subscription of a stream and its snapshot.
THEOREM ResumedSeeAll == Spec => []ResumeLeavesNoGap
<1>1. Init => GapInv
  BY DEF Init, Closed, GapInv, Resumed
<1>2. Spec => []TypeInv
  BY TypeInvInit, TypeInvStep, PTL DEF Spec
<1>3. Spec => []GapInv
  BY <1>1, <1>2, GapInvStep, PTL DEF Spec
<1> QED BY <1>2, <1>3, GapInvIs, PTL
=============================================================================
