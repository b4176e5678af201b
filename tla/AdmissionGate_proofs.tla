------------------------ MODULE AdmissionGate_proofs -------------------------
(***************************************************************************)
(* Proofs about the admission gate, for any finite set of requests and any *)
(* positive capacity.  Counting is the crux: the semaphore keeps a number, *)
(* the properties speak of the set of requests that hold a permit.         *)
(***************************************************************************)
EXTENDS AdmissionGateProperties, FiniteSetTheorems, TLAPS

Counted == {"running", "streaming"}

(* Who waits is queued, once. *)
QueueSound ==
  /\ \A k \in DOMAIN queue : stage[queue[k]] = "queued"
  /\ \A j, k \in DOMAIN queue : queue[j] = queue[k] => j = k

GaugeExact == gauge = Cardinality(In(Counted))

(* Only the limited requests ever meet the semaphore. *)
Sides ==
  \A r \in Requests : /\ stage[r] \in Holding \cup {"queued"} => r \in Limited
                      /\ stage[r] = "ungated" => r \notin Limited

GateInv ==
  /\ TypeOK /\ QueueSound /\ Sides
  /\ PermitsConserved /\ WorkConserving /\ GaugeExact

-----------------------------------------------------------------------------
(* A request that moves enters or leaves the sets of its stages. *)
LEMMA MoveIn ==
  ASSUME NEW r \in Requests, NEW to, NEW S, TypeOK, MoveTo(r, to)
  PROVE  In(S)' = IF to \in S THEN In(S) \cup {r} ELSE In(S) \ {r}
  BY DEF TypeOK, MoveTo, In

(* The sets of requests by stage are finite. *)
LEMMA InFinite ==
  ASSUME NEW S
  PROVE  IsFiniteSet(In(S)) /\ Cardinality(In(S)) \in Nat
<1>1. In(S) \in SUBSET Requests
  BY DEF In
<1>2. IsFiniteSet(In(S))
  BY <1>1, FS_Subset, GateAssumption DEF GateAssumption
<1>3. QED
  BY <1>2, FS_CardinalityType

(* What a move does to the number of requests in a set of stages. *)
LEMMA MoveCount ==
  ASSUME NEW r \in Requests, NEW to, NEW S, TypeOK, MoveTo(r, to)
  PROVE  Cardinality(In(S)') =
           IF to \in S THEN IF stage[r] \in S THEN Cardinality(In(S))
                            ELSE Cardinality(In(S)) + 1
           ELSE IF stage[r] \in S THEN Cardinality(In(S)) - 1
           ELSE Cardinality(In(S))
<1>1. In(S)' = IF to \in S THEN In(S) \cup {r} ELSE In(S) \ {r}
  BY MoveIn
<1>2. r \in In(S) <=> stage[r] \in S
  BY DEF In
<1>3. IsFiniteSet(In(S))
  BY InFinite
<1>4. Cardinality(In(S) \cup {r}) =
        IF r \in In(S) THEN Cardinality(In(S)) ELSE Cardinality(In(S)) + 1
  BY <1>3, FS_AddElement
<1>5. Cardinality(In(S) \ {r}) =
        IF r \in In(S) THEN Cardinality(In(S)) - 1 ELSE Cardinality(In(S))
  BY <1>3, FS_RemoveElement
<1>6. QED
  BY <1>1, <1>2, <1>4, <1>5

(* A permit handed to the first waiter stays out: one holder for another.   *)
LEMMA HandOver ==
  ASSUME NEW r \in Requests, NEW to, to \notin Holding, to \in Stages \ {"queued"},
         stage[r] \in Holding, GateInv, queue # <<>>, GiveBack(r, to)
  PROVE  /\ Head(queue) \in Requests /\ stage[Head(queue)] = "queued"
         /\ In(Holding)' = (In(Holding) \ {r}) \cup {Head(queue)}
         /\ Cardinality(In(Holding)') = Cardinality(In(Holding))
         /\ queue' = Tail(queue) /\ permits' = permits
         /\ stage' = [stage EXCEPT ![r] = to, ![Head(queue)] = "granted"]
<1> DEFINE h == Head(queue)
<1>1. /\ h \in Requests /\ stage[h] = "queued"
  BY DEF GateInv, TypeOK, QueueSound
<1>2. /\ queue' = Tail(queue) /\ permits' = permits
      /\ stage' = [stage EXCEPT ![r] = to, ![h] = "granted"]
  BY DEF GiveBack
<1>3. r # h
  BY <1>1 DEF Holding
<1>4. In(Holding)' = (In(Holding) \ {r}) \cup {h}
  BY <1>1, <1>2, <1>3 DEF GateInv, TypeOK, In, Holding
<1>5. IsFiniteSet(In(Holding)) /\ Cardinality(In(Holding)) \in Nat
  BY InFinite
<1>6. r \in In(Holding) /\ h \notin In(Holding)
  BY <1>1 DEF In, Holding
<1>7. /\ IsFiniteSet(In(Holding) \ {r})
      /\ Cardinality(In(Holding) \ {r}) = Cardinality(In(Holding)) - 1
  BY <1>5, <1>6, FS_RemoveElement
<1>8. Cardinality((In(Holding) \ {r}) \cup {h}) = Cardinality(In(Holding) \ {r}) + 1
  BY <1>6, <1>7, FS_AddElement
<1>9. QED
  BY <1>1, <1>2, <1>4, <1>5, <1>7, <1>8

-----------------------------------------------------------------------------
(* RemoveAt drops one entry and keeps the others in their order. *)
LEMMA RemoveAtEntries ==
  ASSUME NEW S, NEW q \in Seq(S), NEW k \in DOMAIN q
  PROVE  /\ RemoveAt(q, k) \in Seq(S)
         /\ DOMAIN RemoveAt(q, k) = 1..(Len(q) - 1)
         /\ \A j \in 1..(Len(q) - 1) :
              RemoveAt(q, k)[j] = q[IF j < k THEN j ELSE j + 1]
<1> DEFINE a == SubSeq(q, 1, k - 1)
           b == SubSeq(q, k + 1, Len(q))
<1>1. k \in 1..Len(q) /\ Len(q) \in Nat
  OBVIOUS
<1>2. a \in Seq(S) /\ Len(a) = k - 1 /\ \A j \in 1..(k - 1) : a[j] = q[j]
  BY <1>1
<1>3. /\ b \in Seq(S) /\ Len(b) = Len(q) - k
      /\ \A j \in 1..(Len(q) - k) : b[j] = q[k + j]
  BY <1>1
<1> HIDE DEF a, b
<1>4. a \o b \in Seq(S) /\ Len(a \o b) = Len(q) - 1
  BY <1>1, <1>2, <1>3
<1>5. ASSUME NEW j \in 1..(Len(q) - 1)
      PROVE  (a \o b)[j] = q[IF j < k THEN j ELSE j + 1]
  <2>1. CASE j < k
    BY <1>1, <1>2, <1>3, <2>1
  <2>2. CASE j >= k
    <3>1. (a \o b)[j] = b[j - (k - 1)]
      BY <1>1, <1>2, <1>3, <2>2
    <3>2. /\ j - (k - 1) \in 1..(Len(q) - k)
          /\ k + (j - (k - 1)) = j + 1
      BY <1>1, <2>2
    <3>3. b[j - (k - 1)] = q[k + (j - (k - 1))]
      BY <1>3, <3>2
    <3>4. q[k + (j - (k - 1))] = q[j + 1]
      BY <3>2
    <3>5. (IF j < k THEN j ELSE j + 1) = j + 1
      BY <1>1, <2>2
    <3>6. QED
      BY <3>1, <3>3, <3>4, <3>5, Zenon
  <2>3. j < k \/ j >= k
    BY <1>1
  <2>4. QED
    BY <2>1, <2>2, <2>3, Zenon
<1>6. RemoveAt(q, k) = a \o b
  BY DEF RemoveAt, a, b
<1>7. QED
  BY <1>4, <1>5, <1>6

(* The queue and the stages keep their types and agree, whoever steps. *)
LEMMA QueueStep ==
  ASSUME TypeOK, QueueSound, NEW r \in Requests, Step(r)
  PROVE  TypeOK' /\ QueueSound'
<1> USE GateAssumption DEF GateAssumption
<1>1. ASSUME NEW from, NEW to \in Stages, stage[r] = from, from # "queued",
             to # "queued", MoveTo(r, to), queue' = queue
      PROVE  /\ stage' \in [Requests -> Stages] /\ queue' \in Seq(Requests)
             /\ QueueSound'
  BY <1>1 DEF TypeOK, QueueSound, MoveTo
<1>2. ASSUME NEW to \in Stages, to # "queued", stage[r] \in Holding, GiveBack(r, to)
      PROVE  /\ stage' \in [Requests -> Stages] /\ queue' \in Seq(Requests)
             /\ permits' \in Nat /\ QueueSound'
  <2>1. CASE queue = <<>>
    BY <1>2, <2>1 DEF TypeOK, QueueSound, GiveBack, MoveTo
  <2>2. CASE queue # <<>>
    <3>1. /\ queue' = Tail(queue) /\ permits' = permits
          /\ stage' = [stage EXCEPT ![r] = to, ![Head(queue)] = "granted"]
      BY <1>2, <2>2 DEF GiveBack
    <3>2. Head(queue) \in Requests /\ Head(queue) = queue[1] /\ Tail(queue) \in Seq(Requests)
      BY <2>2 DEF TypeOK
    <3>3. \A k \in DOMAIN Tail(queue) :
            k + 1 \in DOMAIN queue /\ Tail(queue)[k] = queue[k + 1] /\ queue[k + 1] \in Requests
      BY <2>2 DEF TypeOK
    <3>4. \A k \in DOMAIN Tail(queue) : /\ Tail(queue)[k] # Head(queue)
                                        /\ stage[Tail(queue)[k]] = "queued"
      BY <2>2, <3>2, <3>3 DEF TypeOK, QueueSound
    <3>5. \A j, k \in DOMAIN Tail(queue) : Tail(queue)[j] = Tail(queue)[k] => j = k
      BY <2>2, <3>3 DEF TypeOK, QueueSound
    <3>6. r # Head(queue) /\ \A k \in DOMAIN Tail(queue) : Tail(queue)[k] # r
      BY <1>2, <2>2, <3>2, <3>4 DEF QueueSound, Holding, TypeOK
    <3>7. \A k \in DOMAIN queue' : stage'[queue'[k]] = "queued"
      BY <3>1, <3>2, <3>3, <3>4, <3>6 DEF TypeOK
    <3>8. stage' \in [Requests -> Stages]
      BY <3>1, <3>2 DEF TypeOK, Stages
    <3>9. QED
      BY <3>1, <3>2, <3>5, <3>7, <3>8 DEF QueueSound, TypeOK
  <2>3. QED
    BY <2>1, <2>2
<1>3. ASSUME NEW to \in Stages, stage[r] = "queued", LeaveQueue(r), MoveTo(r, to),
             to # "queued"
      PROVE  /\ stage' \in [Requests -> Stages] /\ queue' \in Seq(Requests)
             /\ QueueSound'
  <2>1. PICK k \in DOMAIN queue : queue[k] = r /\ queue' = RemoveAt(queue, k)
    BY <1>3 DEF LeaveQueue
  <2>3. /\ queue' \in Seq(Requests) /\ DOMAIN queue' = 1..(Len(queue) - 1)
        /\ \A j \in DOMAIN queue' : queue'[j] = queue[IF j < k THEN j ELSE j + 1]
    BY <2>1, RemoveAtEntries DEF TypeOK
  <2>4. \A j \in DOMAIN queue' : /\ (IF j < k THEN j ELSE j + 1) \in DOMAIN queue
                                 /\ (IF j < k THEN j ELSE j + 1) # k
    BY <2>1, <2>3 DEF TypeOK
  <2>5. \A i, j \in DOMAIN queue' : queue'[i] = queue'[j] => i = j
    BY <2>1, <2>3, <2>4 DEF TypeOK, QueueSound
  <2>6. \A j \in DOMAIN queue' : queue'[j] # r /\ stage[queue'[j]] = "queued"
    BY <2>1, <2>3, <2>4 DEF TypeOK, QueueSound
  <2>7. QED
    BY <1>3, <2>3, <2>5, <2>6 DEF TypeOK, QueueSound, MoveTo
<1>4. CASE Arrive(r)
  BY <1>1, <1>4 DEF Arrive, TypeOK, Stages
<1>5. CASE RejectBody(r)
  BY <1>1, <1>5 DEF RejectBody, TypeOK, Stages
<1>6. CASE EnterUngated(r)
  BY <1>1, <1>6 DEF EnterUngated, TypeOK, Stages
<1>7. CASE Acquire(r)
  BY <1>1, <1>7 DEF Acquire, TypeOK, Stages
<1>8. CASE Wait(r)
  <2>1. \A k \in DOMAIN queue : queue[k] # r
    BY <1>8 DEF Wait, QueueSound
  <2>2. QED
    BY <1>8, <2>1 DEF Wait, TypeOK, QueueSound, MoveTo, Stages
<1>9. CASE Admit(r)
  BY <1>1, <1>9 DEF Admit, TypeOK, Stages
<1>10. CASE Shed(r)
  BY <1>3, <1>10 DEF Shed, TypeOK, Stages
<1>11. CASE Respond(r)
  BY <1>1, <1>11 DEF Respond, TypeOK, Stages
<1>12. CASE RespondUngated(r)
  BY <1>1, <1>12 DEF RespondUngated, TypeOK, Stages
<1>3a. CASE CloseBody(r)
  BY <1>1, <1>3a DEF CloseBody, TypeOK, Stages
<1>14. CASE Release(r)
  BY <1>2, <1>14 DEF Release, TypeOK, Stages, Holding
<1>15. CASE Record(r)
  BY <1>1, <1>15 DEF Record, TypeOK, Stages
<1>16. CASE CancelOutside(r)
  BY <1>1, <1>16 DEF CancelOutside, TypeOK, Stages
<1>17. CASE CancelQueued(r)
  BY <1>3, <1>17 DEF CancelQueued, TypeOK, Stages
<1>18. CASE CancelGranted(r)
  BY <1>2, <1>18 DEF CancelGranted, TypeOK, Stages, Holding
<1>19. CASE CancelRunning(r)
  BY <1>1, <1>19 DEF CancelRunning, TypeOK, Stages
<1>20. QED
  BY <1>4, <1>5, <1>6, <1>7, <1>8, <1>9, <1>10, <1>11, <1>12, <1>3a, <1>14,
     <1>15, <1>16, <1>17, <1>18, <1>19 DEF Step, Cancel

-----------------------------------------------------------------------------
(* What giving a permit back does to the counts: the permits out and the    *)
(* permits free still make Capacity, and none is free while someone waits.  *)
LEMMA GiveBackCounts ==
  ASSUME GateInv, NEW r \in Requests, NEW to \in Stages \ {"queued"},
         to \notin Holding, stage[r] \in Holding \ Counted, GiveBack(r, to)
  PROVE  /\ PermitsConserved' /\ WorkConserving'
         /\ In(Counted)' = In(Counted)
<1> USE GateAssumption DEF GateAssumption
<1>1. Cardinality(In(Holding)) \in Nat /\ permits \in Nat
  BY InFinite DEF GateInv, TypeOK
<1>2. CASE queue = <<>>
  <2>1. MoveTo(r, to) /\ permits' = permits + 1 /\ queue' = <<>>
    BY <1>2 DEF GiveBack
  <2>2. Cardinality(In(Holding)') = Cardinality(In(Holding)) - 1
    BY <2>1, MoveCount DEF GateInv
  <2>3. In(Counted)' = In(Counted)
    BY <2>1 DEF MoveTo, In, GateInv, TypeOK, Counted, Holding
  <2>4. QED
    BY <1>1, <2>1, <2>2, <2>3 DEF GateInv, PermitsConserved, WorkConserving
<1>3. CASE queue # <<>>
  <2>1. /\ Head(queue) \in Requests /\ stage[Head(queue)] = "queued"
        /\ Cardinality(In(Holding)') = Cardinality(In(Holding))
        /\ permits' = permits
        /\ stage' = [stage EXCEPT ![r] = to, ![Head(queue)] = "granted"]
    BY <1>3, HandOver
  <2>2. permits = 0
    BY <1>1, <1>3 DEF GateInv, WorkConserving
  <2>3. In(Counted)' = In(Counted)
    BY <2>1 DEF In, GateInv, TypeOK, Counted, Holding
  <2>4. QED
    BY <1>1, <2>1, <2>2, <2>3 DEF GateInv, PermitsConserved, WorkConserving
<1>4. QED
  BY <1>2, <1>3

(* Requests keep to their side of the limit, whoever steps. *)
LEMMA SidesStep ==
  ASSUME GateInv, NEW r \in Requests, Step(r)
  PROVE  Sides'
<1>1. TypeOK /\ Sides /\ QueueSound
  BY DEF GateInv
<1>2. ASSUME NEW to \in {"closing", "gone"}, GiveBack(r, to)
      PROVE  Sides'
  <2>1. CASE queue = <<>>
    BY <1>1, <1>2, <2>1 DEF GiveBack, MoveTo, Sides, TypeOK, Holding
  <2>2. CASE queue # <<>>
    <3>1. Head(queue) \in Requests /\ stage[Head(queue)] = "queued"
      BY <1>1, <2>2 DEF TypeOK, QueueSound
    <3>2. stage' = [stage EXCEPT ![r] = to, ![Head(queue)] = "granted"]
      BY <1>2, <2>2 DEF GiveBack
    <3>3. QED
      BY <1>1, <1>2, <3>1, <3>2 DEF Sides, TypeOK, Holding
  <2>3. QED
    BY <2>1, <2>2
<1>3. ASSUME NEW to, MoveTo(r, to),
             \/ to \in Holding \cup {"queued"} /\ r \in Limited
             \/ to = "ungated" /\ r \notin Limited
             \/ to \notin Holding \cup {"queued", "ungated"}
      PROVE  Sides'
  BY <1>1, <1>3 DEF Sides, TypeOK, MoveTo, Holding
<1>4. CASE Release(r) \/ CancelGranted(r)
  BY <1>2, <1>4 DEF Release, CancelGranted
<1>5. CASE Acquire(r) \/ Wait(r) \/ EnterUngated(r)
  BY <1>3, <1>5 DEF Acquire, Wait, EnterUngated, Holding
<1>6. CASE Admit(r) \/ Respond(r) \/ CloseBody(r) \/ CancelRunning(r)
  BY <1>1, <1>3, <1>6 DEF Admit, Respond, CloseBody, CancelRunning, Holding, Sides
<1>7. CASE Arrive(r) \/ RejectBody(r) \/ Shed(r) \/ RespondUngated(r) \/ Record(r)
           \/ CancelOutside(r) \/ CancelQueued(r)
  BY <1>3, <1>7 DEF Arrive, RejectBody, Shed, RespondUngated, Record, CancelOutside,
                    CancelQueued, Holding
<1>8. QED
  BY <1>4, <1>5, <1>6, <1>7 DEF Step, Cancel

(* The counters agree with the stages, whoever steps. *)
LEMMA CountStep ==
  ASSUME GateInv, NEW r \in Requests, Step(r)
  PROVE  PermitsConserved' /\ WorkConserving' /\ GaugeExact'
<1> USE GateAssumption DEF GateAssumption
<1>1. /\ Cardinality(In(Holding)) \in Nat /\ Cardinality(In(Counted)) \in Nat
      /\ permits \in Nat /\ queue \in Seq(Requests) /\ TypeOK
      /\ permits + Cardinality(In(Holding)) = Capacity
      /\ gauge = Cardinality(In(Counted))
  BY InFinite DEF GateInv, TypeOK, PermitsConserved, GaugeExact
<1>2. ASSUME NEW to \in Stages, MoveTo(r, to), permits' = permits, gauge' = gauge,
             stage[r] \notin Holding, to \notin Holding, queue' = queue \/ permits = 0
      PROVE  PermitsConserved' /\ WorkConserving' /\ GaugeExact'
  <2>1. stage[r] \notin Counted /\ to \notin Counted
    BY <1>2 DEF Counted, Holding
  <2>2. /\ Cardinality(In(Holding)') = Cardinality(In(Holding))
        /\ Cardinality(In(Counted)') = Cardinality(In(Counted))
    BY <1>1, <1>2, <2>1, MoveCount
  <2>3. QED
    BY <1>1, <1>2, <2>2 DEF GateInv, PermitsConserved, WorkConserving, GaugeExact
<1>3. ASSUME NEW to \in Holding, MoveTo(r, to), permits' = permits, queue' = queue,
             stage[r] \in Holding,
             gauge' = gauge + (IF to \in Counted THEN 1 ELSE 0)
                            - (IF stage[r] \in Counted THEN 1 ELSE 0)
      PROVE  PermitsConserved' /\ WorkConserving' /\ GaugeExact'
  <2>1. /\ Cardinality(In(Holding)') = Cardinality(In(Holding))
        /\ Cardinality(In(Counted)') = Cardinality(In(Counted))
             + (IF to \in Counted THEN 1 ELSE 0)
             - (IF stage[r] \in Counted THEN 1 ELSE 0)
    BY <1>1, <1>3, MoveCount
  <2>2. QED
    BY <1>1, <1>3, <2>1 DEF GateInv, PermitsConserved, WorkConserving, GaugeExact
<1>4. ASSUME GiveBack(r, "closing") \/ GiveBack(r, "gone"), gauge' = gauge,
             stage[r] \in Holding \ Counted
      PROVE  PermitsConserved' /\ WorkConserving' /\ GaugeExact'
  BY <1>1, <1>4, GiveBackCounts DEF Stages, Holding, GaugeExact
<1>5. ASSUME LeaveQueue(r) PROVE queue # <<>> /\ permits = 0
  BY <1>1, <1>5 DEF LeaveQueue, GateInv, WorkConserving
<1>6. CASE Arrive(r) \/ RejectBody(r) \/ EnterUngated(r) \/ RespondUngated(r)
           \/ Record(r) \/ CancelOutside(r)
  BY <1>2, <1>6 DEF Arrive, RejectBody, EnterUngated, RespondUngated, Record,
                    CancelOutside, Stages, Holding
<1>7. CASE Acquire(r)
  <2>0. /\ MoveTo(r, "running")
        /\ stage[r] \notin Holding /\ stage[r] \notin Counted
        /\ "running" \in Holding /\ "running" \in Counted
    BY <1>7 DEF Acquire, Holding, Counted
  <2>1. /\ Cardinality(In(Holding)') = Cardinality(In(Holding)) + 1
        /\ Cardinality(In(Counted)') = Cardinality(In(Counted)) + 1
    BY <1>1, <2>0, MoveCount
  <2>2. queue' = <<>>
    BY <1>7 DEF Acquire, GateInv, WorkConserving
  <2>3. QED
    BY <1>1, <1>7, <2>1, <2>2 DEF Acquire, PermitsConserved, WorkConserving, GaugeExact
<1>8. CASE Wait(r)
  BY <1>2, <1>8 DEF Wait, Stages, Holding
<1>9. CASE Admit(r) \/ Respond(r) \/ CloseBody(r) \/ CancelRunning(r)
  BY <1>1, <1>3, <1>9 DEF Admit, Respond, CloseBody, CancelRunning, Holding, Counted
<1>10. CASE Shed(r) \/ CancelQueued(r)
  BY <1>2, <1>5, <1>10 DEF Shed, CancelQueued, Stages, Holding
<1>11. CASE Release(r) \/ CancelGranted(r)
  BY <1>4, <1>11 DEF Release, CancelGranted, Holding, Counted
<1>12. QED
  BY <1>6, <1>7, <1>8, <1>9, <1>10, <1>11 DEF Step, Cancel

(* The inductive invariant of the gate. *)
LEMMA GateInvariant == Spec => []GateInv
<1>1. Init => GateInv
  <2> SUFFICES ASSUME Init PROVE GateInv
    OBVIOUS
  <2>1. \A S \in {Holding, Counted} : In(S) = {}
    BY DEF Init, In, Holding, Counted
  <2>2. Cardinality(In(Holding)) = 0 /\ Cardinality(In(Counted)) = 0
    BY <2>1, FS_EmptySet
  <2>3. TypeOK
    BY GateAssumption DEF Init, TypeOK, Stages, GateAssumption
  <2>4. QED
    BY <2>2, <2>3, GateAssumption
       DEF Init, GateInv, QueueSound, Sides, Holding, PermitsConserved, WorkConserving, GaugeExact,
           GateAssumption
<1>2. GateInv /\ [Next]_vars => GateInv'
  <2> SUFFICES ASSUME GateInv, [Next]_vars PROVE GateInv'
    OBVIOUS
  <2>1. CASE UNCHANGED vars
    BY <2>1 DEF vars, GateInv, TypeOK, QueueSound, Sides, PermitsConserved,
                WorkConserving, GaugeExact, In
  <2>2. ASSUME NEW r \in Requests, Step(r) PROVE GateInv'
    BY <2>2, QueueStep, SidesStep, CountStep DEF GateInv
  <2>3. QED
    BY <2>1, <2>2 DEF Next
<1>3. QED
  BY <1>1, <1>2, PTL DEF Spec

(* No permit is lost or duplicated, for every number of requests and every  *)
(* capacity (concurrency_limit, ConcurrencyGuard).                          *)
THEOREM PermitsAreConserved == Spec => []PermitsConserved
<1>1. GateInv => PermitsConserved
  BY DEF GateInv
<1>2. QED
  BY <1>1, GateInvariant, PTL

(* No permit is idle while a request waits for one (concurrency_limit).     *)
THEOREM GateIsWorkConserving == Spec => []WorkConserving
<1>1. GateInv => WorkConserving
  BY DEF GateInv
<1>2. QED
  BY <1>1, GateInvariant, PTL

(* The usage gauge stays within the permits that are out (the order of      *)
(* ConcurrencyGuard::drop).                                                 *)
THEOREM GaugeStaysWithinPermits == Spec => []GaugeWithinPermits
<1>1. GateInv => GaugeWithinPermits
  <2> SUFFICES ASSUME GateInv PROVE GaugeWithinPermits
    OBVIOUS
  <2>1. In(Counted) \in SUBSET In(Holding)
    BY DEF In, Counted, Holding
  <2>2. Cardinality(In(Counted)) <= Cardinality(In(Holding))
    BY <2>1, InFinite, FS_Subset
  <2>3. Cardinality(In(Counted)) \in Nat /\ Cardinality(In(Holding)) \in Nat
    BY InFinite
  <2>4. QED
    BY <2>2, <2>3, GateAssumption
       DEF GateInv, TypeOK, PermitsConserved, GaugeExact, GaugeWithinPermits,
           GateAssumption
<1>2. QED
  BY <1>1, GateInvariant, PTL

(* What lies inside does not depend on who holds a permit: a permit given   *)
(* back takes a request out only where its request is cancelled.            *)
LEMMA GiveBackInside ==
  ASSUME GateInv, NEW r \in Requests, stage[r] \in Holding,
         GiveBack(r, "closing") \/ GiveBack(r, "gone")
  PROVE  Cardinality(Inside') <= Cardinality(Inside)
<1>1. PICK to \in {"closing", "gone"} : GiveBack(r, to)
  OBVIOUS
<1>2. Inside' \in SUBSET Inside
  <2>1. CASE queue = <<>>
    BY <1>1, <2>1 DEF GiveBack, MoveTo, Inside, In, GateInv, TypeOK, Holding, Stages
  <2>2. CASE queue # <<>>
    <3>1. /\ Head(queue) \in Requests /\ stage[Head(queue)] = "queued"
          /\ stage' = [stage EXCEPT ![r] = to, ![Head(queue)] = "granted"]
      BY <1>1, <2>2, HandOver DEF Stages, Holding
    <3>2. QED
      BY <1>1, <3>1 DEF Inside, In, GateInv, TypeOK, Holding, Stages
  <2>3. QED
    BY <2>1, <2>2
<1>3. IsFiniteSet(Inside)
  BY InFinite DEF Inside
<1>4. QED
  BY <1>2, <1>3, FS_Subset

(* The in-flight gauge goes up where a request comes in, and down only      *)
(* where one goes out.                                                      *)
LEMMA InFlightStep ==
  ASSUME GateInv, InFlightCovers, NEW r \in Requests, Step(r)
  PROVE  InFlightCovers'
<1> DEFINE Within == Stages \ {"idle", "done", "gone"}
<1>1. /\ TypeOK /\ inFlight \in Int /\ Cardinality(In(Within)) \in Nat
      /\ inFlight >= Cardinality(In(Within))
  BY InFinite DEF GateInv, TypeOK, InFlightCovers, Inside
<1>2. ASSUME NEW to, MoveTo(r, to)
      PROVE  Cardinality(Inside') = Cardinality(Inside)
                                    + (IF to \in Within THEN 1 ELSE 0)
                                    - (IF stage[r] \in Within THEN 1 ELSE 0)
  <2> HIDE DEF Within
  <2>1. Cardinality(In(Within)') = Cardinality(In(Within))
                                   + (IF to \in Within THEN 1 ELSE 0)
                                   - (IF stage[r] \in Within THEN 1 ELSE 0)
    BY <1>1, <1>2, MoveCount
  <2>2. QED
    BY <2>1 DEF Inside, Within
<1>3. CASE Arrive(r)
  <2>1. MoveTo(r, "reading") /\ stage[r] = "idle" /\ inFlight' = inFlight + 1
    BY <1>3 DEF Arrive
  <2>2. "reading" \in Within /\ stage[r] \notin Within
    BY <2>1 DEF Stages
  <2>3. Cardinality(Inside') = Cardinality(Inside) + 1
    BY <1>1, <1>2, <2>1, <2>2 DEF Inside
  <2>4. QED
    BY <1>1, <2>1, <2>3 DEF InFlightCovers, Inside
<1>4. CASE Record(r)
  <2>1. MoveTo(r, "done") /\ stage[r] \in {"closing", "answering"}
        /\ inFlight' = inFlight - 1
    BY <1>4 DEF Record
  <2>2. "done" \notin Within /\ stage[r] \in Within
    BY <2>1 DEF Stages
  <2>3. Cardinality(Inside') = Cardinality(Inside) - 1
    BY <1>1, <1>2, <2>1, <2>2 DEF Inside
  <2>4. QED
    BY <1>1, <2>1, <2>3 DEF InFlightCovers, Inside
<1>5. ASSUME NEW to, MoveTo(r, to), inFlight' = inFlight, stage[r] \in Within
      PROVE  InFlightCovers'
  <2>1. Cardinality(Inside') <= Cardinality(Inside)
    BY <1>1, <1>2, <1>5 DEF Inside
  <2>2. Inside' \in SUBSET Requests
    BY DEF Inside, In
  <2>3. Cardinality(Inside') \in Nat
    BY <2>2, FS_Subset, FS_CardinalityType, GateAssumption DEF GateAssumption
  <2>4. QED
    BY <1>1, <1>5, <2>1, <2>3 DEF InFlightCovers, Inside
<1>6. CASE RejectBody(r) \/ EnterUngated(r) \/ Acquire(r) \/ Wait(r) \/ Admit(r)
  BY <1>5, <1>6 DEF RejectBody, EnterUngated, Acquire, Wait, Admit, Stages
<1>7. CASE Shed(r) \/ Respond(r) \/ RespondUngated(r) \/ CloseBody(r)
  BY <1>5, <1>7 DEF Shed, Respond, RespondUngated, CloseBody, Stages
<1>8. CASE CancelOutside(r) \/ CancelQueued(r) \/ CancelRunning(r)
  BY <1>5, <1>8 DEF CancelOutside, CancelQueued, CancelRunning, Stages
<1>9. CASE Release(r) \/ CancelGranted(r)
  <2>1. Cardinality(Inside') <= Cardinality(Inside) /\ inFlight' = inFlight
    BY <1>9, GiveBackInside DEF Release, CancelGranted, Holding
  <2>2. Inside' \in SUBSET Requests
    BY DEF Inside, In
  <2>3. Cardinality(Inside') \in Nat
    BY <2>2, FS_Subset, FS_CardinalityType, GateAssumption DEF GateAssumption
  <2>4. QED
    BY <1>1, <2>1, <2>3 DEF InFlightCovers, Inside
<1>10. QED
  BY <1>3, <1>4, <1>6, <1>7, <1>8, <1>9 DEF Step, Cancel

(* The in-flight gauge never shows fewer requests than there are, however   *)
(* they end (request_log, the guard on the body).                           *)
THEOREM InFlightIsCovered == Spec => []InFlightCovers
<1>1. Init => InFlightCovers
  <2> SUFFICES ASSUME Init PROVE InFlightCovers
    OBVIOUS
  <2>1. Inside = {} /\ inFlight = 0
    BY DEF Init, Inside, In
  <2>2. QED
    BY <2>1, FS_EmptySet DEF InFlightCovers
<1>2. GateInv /\ InFlightCovers /\ [Next]_vars => InFlightCovers'
  <2> SUFFICES ASSUME GateInv, InFlightCovers, [Next]_vars PROVE InFlightCovers'
    OBVIOUS
  <2>1. CASE UNCHANGED vars
    BY <2>1 DEF vars, InFlightCovers, Inside, In
  <2>2. ASSUME NEW r \in Requests, Step(r) PROVE InFlightCovers'
    BY <2>2, InFlightStep
  <2>3. QED
    BY <2>1, <2>2 DEF Next
<1>3. QED
  BY <1>1, <1>2, GateInvariant, PTL DEF Spec
-----------------------------------------------------------------------------
(* The set of requests that are over, as the promise sees it. *)
Over == {r \in Limited : stage[r] \in {"closing", "answering", "done", "gone"}}

(* The promise counts as the gate does. *)
LEMMA SameCardinality == \A S : Promise!Cardinality(S) = Cardinality(S)
  BY DEF Promise!Cardinality, Cardinality

(* Every step of the gate is a step of the promise, or none. *)
LEMMA PromiseStep ==
  ASSUME GateInv, GateInv', NEW r \in Requests, Step(r)
  PROVE  Promise!LimitNext \/ UNCHANGED <<In({"queued"}), In(Holding), Over>>
<1> USE GateAssumption DEF GateAssumption
<1> DEFINE waiting == In({"queued"})
           served == In(Holding)
<1>1. /\ Cardinality(served) \in Nat /\ permits \in Nat
      /\ permits + Cardinality(served) = Capacity /\ TypeOK
      /\ Cardinality(served') <= Capacity
  <2>1. served' \in SUBSET Requests
    BY DEF In
  <2>2. Cardinality(served') \in Nat
    BY <2>1, FS_Subset, FS_CardinalityType
  <2>3. permits' \in Nat /\ permits' + Cardinality(served') = Capacity
    BY DEF GateInv, TypeOK, PermitsConserved
  <2>4. QED
    BY <2>2, <2>3, InFinite DEF GateInv, TypeOK, PermitsConserved
<1>2. ASSUME NEW to \in {"closing", "answering", "gone"}, MoveTo(r, to),
             r \in Limited, stage[r] \notin {"closing", "answering", "done", "gone"}
      PROVE  Promise!Leave(r, {})
  <2>1. /\ waiting' = waiting \ ({} \cup {r}) /\ served' = (served \ {r}) \cup {}
        /\ Over' = Over \cup {r} /\ r \notin Over
    BY <1>1, <1>2 DEF TypeOK, MoveTo, In, Over, Holding
  <2>2. Cardinality((served \ {r}) \cup {}) <= Capacity
    BY <1>1, <2>1
  <2>3. QED
    BY <2>1, <2>2, SameCardinality DEF Promise!Leave, Over
<1>3. ASSUME NEW to, NEW S, MoveTo(r, to), stage[r] \in S <=> to \in S
      PROVE  In(S)' = In(S)
  BY <1>1, <1>3 DEF TypeOK, MoveTo, In
<1>3a. ASSUME NEW to, MoveTo(r, to),
              stage[r] = "queued" <=> to = "queued",
              stage[r] \in Holding <=> to \in Holding,
              r \in Limited => (stage[r] \in {"closing", "answering", "done", "gone"}
                                <=> to \in {"closing", "answering", "done", "gone"})
       PROVE  UNCHANGED <<In({"queued"}), In(Holding), Over>>
  <2>1. In({"queued"})' = In({"queued"}) /\ In(Holding)' = In(Holding)
    BY <1>3, <1>3a
  <2>2. Over' = Over
    BY <1>1, <1>3a DEF TypeOK, MoveTo, Over
  <2>3. QED
    BY <2>1, <2>2
<1>4. ASSUME NEW to \in {"closing", "gone"}, GiveBack(r, to), stage[r] \in Holding,
             r \in Limited
      PROVE  Promise!LimitNext
  <2>1. CASE queue = <<>>
    <3>1. MoveTo(r, to)
      BY <1>4, <2>1 DEF GiveBack
    <3>2. Promise!Leave(r, {})
      BY <1>2, <1>4, <3>1 DEF Holding
    <3>3. QED
      BY <3>2 DEF Promise!LimitNext
  <2>2. CASE queue # <<>>
    <3>0. PICK h \in Requests : h = Head(queue)
      BY <1>4, <2>2, HandOver DEF Stages, Holding
    <3>1. /\ h \in Requests /\ stage[h] = "queued"
          /\ served' = (served \ {r}) \cup {h}
          /\ stage' = [stage EXCEPT ![r] = to, ![h] = "granted"]
      BY <1>4, <2>2, <3>0, HandOver DEF Stages, Holding
    <3>2. /\ waiting' = waiting \ ({h} \cup {r}) /\ Over' = Over \cup {r}
          /\ r \notin Over /\ h \in waiting /\ h # r
      BY <1>1, <1>4, <3>1 DEF TypeOK, In, Over, Holding
    <3>3. Promise!Leave(r, {h})
      BY <1>1, <3>1, <3>2, SameCardinality DEF Promise!Leave, Over
    <3>4. {h} \in SUBSET In({"queued"})
      BY <3>2
    <3>5. QED
      BY <3>3, <3>4 DEF Promise!LimitNext
  <2>3. QED
    BY <2>1, <2>2
<1>5. CASE Acquire(r)
  <2>1. /\ waiting' = waiting \ {r} /\ served' = served \cup {r}
        /\ Over' = Over /\ r \notin served /\ r \notin Over
    BY <1>1, <1>5 DEF Acquire, TypeOK, MoveTo, In, Over, Holding
  <2>2. Cardinality(served) < Capacity
    BY <1>1, <1>5 DEF Acquire
  <2>3. Promise!Serve(r)
    BY <2>1, <2>2, SameCardinality DEF Promise!Serve, Over
  <2>4. QED
    BY <2>3 DEF Promise!LimitNext
<1>6. CASE Wait(r)
  <2>1. /\ waiting' = waiting \cup {r} /\ served' = served
        /\ Over' = Over /\ r \notin waiting \cup served \cup Over
    BY <1>1, <1>6 DEF Wait, TypeOK, MoveTo, In, Over, Holding
  <2>2. Promise!Ask(r)
    BY <2>1 DEF Promise!Ask, Over
  <2>3. QED
    BY <2>2 DEF Promise!LimitNext
<1>7. CASE Admit(r) \/ Respond(r) \/ CloseBody(r) \/ CancelRunning(r)
  <2>1. PICK to \in Holding : MoveTo(r, to) /\ stage[r] \in Holding
    BY <1>7 DEF Admit, Respond, CloseBody, CancelRunning, Holding
  <2>2. QED
    BY <1>3a, <2>1 DEF Holding
<1>8. CASE Arrive(r) \/ EnterUngated(r) \/ Record(r)
  BY <1>3a, <1>8 DEF Arrive, EnterUngated, Record, Holding
<1>9. CASE Release(r) \/ CancelGranted(r)
  BY <1>4, <1>9 DEF Release, CancelGranted, Holding, GateInv, Sides
<1>10. CASE Shed(r) \/ CancelQueued(r)
  <2>1. r \in Limited
    BY <1>10 DEF Shed, CancelQueued, GateInv, Sides
  <2>2. Promise!Leave(r, {})
    BY <1>2, <1>10, <2>1 DEF Shed, CancelQueued
  <2>3. QED
    BY <2>2 DEF Promise!LimitNext
<1>11. CASE RejectBody(r) \/ RespondUngated(r) \/ CancelOutside(r)
  <2>1. CASE r \in Limited
    <3>1. Promise!Leave(r, {})
      BY <1>2, <1>11, <2>1
         DEF RejectBody, RespondUngated, CancelOutside, GateInv, Sides
    <3>2. QED
      BY <3>1 DEF Promise!LimitNext
  <2>2. CASE r \notin Limited
    BY <1>3a, <1>11, <2>2 DEF RejectBody, RespondUngated, CancelOutside, Holding
  <2>3. QED
    BY <2>1, <2>2
<1>12. QED
  BY <1>5, <1>6, <1>7, <1>8, <1>9, <1>10, <1>11 DEF Step, Cancel

(* The gate implements the promise of CapacityLimit: never more than        *)
(* Capacity requests served, whatever the interleaving of arrivals, time-   *)
(* outs, disconnects and finished bodies (concurrency_limit).               *)
THEOREM GateKeepsPromise == Spec => KeepsPromise
<1>1. Init => Promise!LimitInit
  <2> SUFFICES ASSUME Init PROVE Promise!LimitInit
    OBVIOUS
  <2>1. \A r \in Requests : stage[r] = "idle"
    BY DEF Init
  <2>2. In({"queued"}) = {} /\ In(Holding) = {}
    BY <2>1 DEF In, Holding
  <2>3. {r \in Limited : stage[r] \in {"closing", "answering", "done", "gone"}} = {}
    BY <2>1, GateAssumption DEF GateAssumption
  <2>4. QED
    BY <2>2, <2>3 DEF Promise!LimitInit
<1>2. GateInv /\ GateInv' /\ [Next]_vars => [Promise!LimitNext]_(Promise!limitVars)
  <2> SUFFICES ASSUME GateInv, GateInv', [Next]_vars
               PROVE  [Promise!LimitNext]_(Promise!limitVars)
    OBVIOUS
  <2>1. CASE UNCHANGED vars
    BY <2>1 DEF vars, Promise!limitVars, In
  <2>2. ASSUME NEW r \in Requests, Step(r)
        PROVE  [Promise!LimitNext]_(Promise!limitVars)
    BY <2>2, PromiseStep DEF Promise!limitVars, Over
  <2>3. QED
    BY <2>1, <2>2 DEF Next
<1>3. QED
  BY <1>1, <1>2, GateInvariant, PTL DEF Spec, KeepsPromise, Promise!Limit
=============================================================================
