------------------------ MODULE TurnSessions_proofs --------------------------
(***************************************************************************)
(* Proofs about the session store and the turns that use it, for any set   *)
(* of ids, any TTL and any cap.                                            *)
(***************************************************************************)
EXTENDS TurnSessionsProperties, FiniteSetTheorems, TLAPS

(* A turn that has not ended has not been saved. *)
Unsaved ==
  \A t \in Ids : turn[t].phase \in {"idle", "calling", "answered"} => lastUse[t] = Never

(* An entry's time of last access is the last use of its id. *)
StampsAgree ==
  \A i \in DOMAIN sessions : lastUse[i] = sessions[i].at /\ lastUse[i] # Never

UsesPast == \A i \in Ids : lastUse[i] <= now

StoreInv ==
  /\ TypeOK /\ Unsaved /\ StampsAgree /\ UsesPast
  /\ CapRespected /\ WorkingSetKept /\ DeliveredIsContinuable

-----------------------------------------------------------------------------
(* Sets of ids are finite and the clock only moves within its bound. *)
LEMMA IdsFinite ==
  ASSUME NEW S \in SUBSET Ids
  PROVE  IsFiniteSet(S) /\ Cardinality(S) \in Nat
  BY StoreAssumption, FS_Subset, FS_CardinalityType DEF StoreAssumption

(* What save leaves behind: the new entry and the old ones, but for those   *)
(* that are stale and at most one that was accessed least recently while    *)
(* the cap was full.                                                        *)
LEMMA SaveEffect ==
  ASSUME TypeOK, CapRespected, NEW i \in Ids, NEW record, Save(i, record)
  PROVE  LET all == DOMAIN sessions \cup {i}
             entry(j) == IF j = i THEN [record |-> record, at |-> now] ELSE sessions[j]
         IN  /\ DOMAIN sessions' \subseteq all
             /\ \A j \in DOMAIN sessions' : sessions'[j] = entry(j)
             /\ Cardinality(DOMAIN sessions') <= MaxSessions
             /\ \A j \in all \ DOMAIN sessions' :
                  \/ now - entry(j).at > Ttl
                  \/ /\ Cardinality(all \ {j}) >= MaxSessions
                     /\ \A k \in all : entry(j).at <= entry(k).at
<1> DEFINE all == DOMAIN sessions \cup {i}
           entry(j) == IF j = i THEN [record |-> record, at |-> now] ELSE sessions[j]
           m == Insert(sessions, i, record)
<1>1. DOMAIN m = all /\ \A j \in all : m[j] = entry(j)
  BY DEF Insert
<1>2. PICK n \in EnforceCap(m) : sessions' = Cleanup(n)
  BY DEF Save
<1>3. /\ IsFiniteSet(all) /\ Cardinality(all) \in Nat
      /\ Cardinality(all) <= MaxSessions + 1
  <2>1. all \in SUBSET Ids /\ DOMAIN sessions \in SUBSET Ids
    BY DEF TypeOK
  <2>2. Cardinality(all) <= Cardinality(DOMAIN sessions) + 1
    BY <2>1, IdsFinite, FS_AddElement
  <2>3. QED
    BY <2>1, <2>2, IdsFinite, StoreAssumption DEF CapRespected, StoreAssumption
<1>4. /\ DOMAIN n \subseteq all /\ \A j \in DOMAIN n : n[j] = entry(j)
      /\ Cardinality(DOMAIN n) <= MaxSessions /\ IsFiniteSet(DOMAIN n)
      /\ \A j \in all \ DOMAIN n : /\ Cardinality(all \ {j}) >= MaxSessions
                                   /\ \A k \in all : entry(j).at <= entry(k).at
  <2>1. CASE Cardinality(all) <= MaxSessions
    <3>1. n = m
      BY <1>1, <1>2, <1>3, <2>1, StoreAssumption DEF EnforceCap, StoreAssumption
    <3>2. QED
      BY <1>1, <1>3, <2>1, <3>1
  <2>2. CASE Cardinality(all) > MaxSessions
    <3>1. PICK v \in LeastRecent(m) : n = Without(m, {v})
      BY <1>1, <1>2, <2>2 DEF EnforceCap
    <3>2. v \in all /\ \A k \in all : entry(v).at <= entry(k).at
      BY <1>1 DEF LeastRecent
    <3>3. DOMAIN n = all \ {v} /\ \A j \in DOMAIN n : n[j] = entry(j)
      BY <1>1, <3>1 DEF Without
    <3>4. /\ Cardinality(all \ {v}) = Cardinality(all) - 1
          /\ IsFiniteSet(all \ {v})
      BY <1>3, <3>2, FS_RemoveElement
    <3>5. Cardinality(all \ {v}) = MaxSessions
      BY <1>3, <2>2, <3>4, StoreAssumption DEF StoreAssumption
    <3>6. \A j \in all \ DOMAIN n : j = v
      BY <3>3
    <3> HIDE DEF entry, all
    <3>7. \A j \in all \ DOMAIN n : /\ Cardinality(all \ {j}) >= MaxSessions
                                     /\ \A k \in all : entry(j).at <= entry(k).at
      BY <3>2, <3>5, <3>6, StoreAssumption DEF StoreAssumption
    <3>8. DOMAIN n \subseteq all /\ \A j \in DOMAIN n : n[j] = entry(j)
      BY <3>3
    <3>9. Cardinality(DOMAIN n) <= MaxSessions /\ IsFiniteSet(DOMAIN n)
      BY <3>3, <3>4, <3>5, StoreAssumption DEF StoreAssumption
    <3>10. QED
      BY <3>7, <3>8, <3>9
  <2>3. Cardinality(all) <= MaxSessions \/ Cardinality(all) > MaxSessions
    BY <1>3, StoreAssumption DEF StoreAssumption
  <2> HIDE DEF entry, all
  <2>4. QED
    BY <2>1, <2>2, <2>3, Zenon
<1>5. /\ DOMAIN sessions' = DOMAIN n \ {j \in DOMAIN n : Stale(n, j)}
      /\ \A j \in DOMAIN sessions' : sessions'[j] = n[j]
  BY <1>2 DEF Cleanup, Without
<1>6. \A j \in DOMAIN n \ DOMAIN sessions' : now - entry(j).at > Ttl
  BY <1>4, <1>5 DEF Stale
<1>7. Cardinality(DOMAIN sessions') <= MaxSessions
  <2>1. DOMAIN sessions' \in SUBSET DOMAIN n
    BY <1>5
  <2>2. /\ Cardinality(DOMAIN sessions') <= Cardinality(DOMAIN n)
        /\ Cardinality(DOMAIN sessions') \in Nat /\ Cardinality(DOMAIN n) \in Nat
    BY <1>4, <2>1, FS_Subset, FS_CardinalityType
  <2>3. QED
    BY <1>4, <2>2, StoreAssumption DEF StoreAssumption
<1> HIDE DEF entry, all
<1>8. QED
  BY <1>4, <1>5, <1>6, <1>7 DEF entry, all

-----------------------------------------------------------------------------
(* Types and stamps survive the save of a turn that was not saved before. *)
LEMMA SaveKeepsTypes ==
  ASSUME StoreInv, NEW t \in Ids, SaveSession(t), now' = now,
         turn[t].phase \in {"calling", "answered"}
  PROVE  /\ DOMAIN sessions' \subseteq Ids
         /\ \A i \in DOMAIN sessions' : sessions'[i] \in Entries
         /\ lastUse' \in [Ids -> 0..MaxTime \cup {Never}]
         /\ StampsAgree' /\ UsesPast' /\ CapRespected'
<1> USE StoreAssumption DEF StoreAssumption
<1> DEFINE entry(j) == IF j = t THEN [record |-> Snapshot(t), at |-> now] ELSE sessions[j]
<1>1. /\ TypeOK /\ StampsAgree /\ UsesPast /\ CapRespected
      /\ now \in 0..MaxTime /\ Save(t, Snapshot(t))
      /\ lastUse' = [lastUse EXCEPT ![t] = now]
  BY DEF StoreInv, TypeOK, SaveSession
<1>2. /\ DOMAIN sessions' \subseteq DOMAIN sessions \cup {t}
      /\ \A j \in DOMAIN sessions' : sessions'[j] = entry(j)
      /\ Cardinality(DOMAIN sessions') <= MaxSessions
  BY <1>1, SaveEffect
<1>3. Snapshot(t) \in [messages : Seq(Ids), model : Ids \cup {None}]
  BY <1>1 DEF Snapshot, TypeOK
<1>4. \A i \in DOMAIN sessions' : sessions'[i] \in Entries
  BY <1>1, <1>2, <1>3 DEF TypeOK, Entries
<1>5. lastUse' \in [Ids -> 0..MaxTime \cup {Never}]
  BY <1>1 DEF TypeOK
<1>6. StampsAgree'
  BY <1>1, <1>2 DEF StampsAgree, TypeOK, Never
<1>7. UsesPast'
  BY <1>1 DEF UsesPast, TypeOK
<1>8. QED
  BY <1>1, <1>2, <1>4, <1>5, <1>6, <1>7 DEF TypeOK, CapRespected

(* A save takes nothing that is still owed: what it evicts has the cap's    *)
(* number of ids used at least as recently, or is past its TTL.             *)
LEMMA SaveKeepsWorkingSet ==
  ASSUME StoreInv, NEW t \in Ids, SaveSession(t), now' = now, lost' = lost,
         turn[t].phase \in {"calling", "answered"}
  PROVE  WorkingSetKept'
<1> USE StoreAssumption DEF StoreAssumption
<1> DEFINE all == DOMAIN sessions \cup {t}
           entry(j) == IF j = t THEN [record |-> Snapshot(t), at |-> now] ELSE sessions[j]
<1>1. /\ TypeOK /\ StampsAgree /\ UsesPast /\ CapRespected /\ WorkingSetKept
      /\ now \in 0..MaxTime /\ Save(t, Snapshot(t)) /\ lastUse[t] = Never
      /\ lastUse' = [lastUse EXCEPT ![t] = now]
      /\ \A i \in Ids : lastUse[i] \in Int /\ lastUse'[i] \in Int
  BY DEF StoreInv, TypeOK, SaveSession, Unsaved, Never
<1>2. /\ \A j \in all \ DOMAIN sessions' :
           \/ now - entry(j).at > Ttl
           \/ /\ Cardinality(all \ {j}) >= MaxSessions
              /\ \A k \in all : entry(j).at <= entry(k).at
  BY <1>1, SaveEffect
<1>3. \A j \in all : j \in Ids /\ lastUse'[j] = entry(j).at /\ lastUse'[j] # Never
  BY <1>1 DEF StampsAgree, TypeOK, Never
<1>4. SUFFICES ASSUME NEW i \in Ids, Kept(i)' PROVE i \in DOMAIN sessions'
  BY DEF WorkingSetKept, Present
<1>5. /\ lastUse'[i] # Never /\ i \notin lost /\ now - lastUse'[i] <= Ttl
      /\ Cardinality(AsRecent(i)') < MaxSessions
  BY <1>4 DEF Kept
<1>6. ASSUME i # t, NEW j \in AsRecent(i) PROVE j \in AsRecent(i)'
  <2>1. /\ j \in Ids \ {i} /\ lastUse[j] # Never /\ lastUse[j] >= lastUse[i]
        /\ lastUse'[i] = lastUse[i]
    BY <1>1, <1>6 DEF AsRecent, TypeOK
  <2>2. lastUse'[j] # Never /\ lastUse'[j] >= lastUse[j]
    BY <1>1, <2>1 DEF UsesPast, TypeOK, Never
  <2>3. QED
    BY <1>1, <2>1, <2>2 DEF AsRecent
<1>7. IsFiniteSet(AsRecent(i)') /\ Cardinality(AsRecent(i)') \in Nat
  <2>1. AsRecent(i)' \in SUBSET Ids
    BY DEF AsRecent
  <2>2. QED
    BY <2>1, IdsFinite
<1>8. i \in all
  <2>1. CASE i = t
    BY <2>1
  <2>2. CASE i # t
    <3>1. lastUse[i] = lastUse'[i]
      BY <1>1, <2>2 DEF TypeOK
    <3>2. AsRecent(i) \in SUBSET AsRecent(i)'
      BY <1>6, <2>2
    <3>3. Cardinality(AsRecent(i)) <= Cardinality(AsRecent(i)')
      BY <1>7, <3>2, FS_Subset
    <3>4. Cardinality(AsRecent(i)) \in Nat
      BY IdsFinite DEF AsRecent
    <3>5. Kept(i)
      BY <1>5, <1>7, <3>1, <3>3, <3>4 DEF Kept
    <3>6. QED
      BY <1>1, <3>5 DEF WorkingSetKept, Present
  <2>3. QED
    BY <2>1, <2>2
<1>9. SUFFICES ASSUME i \notin DOMAIN sessions' PROVE FALSE
  OBVIOUS
<1>10. ~(now - entry(i).at > Ttl)
  BY <1>1, <1>3, <1>5, <1>8
<1>11. /\ Cardinality(all \ {i}) >= MaxSessions
       /\ \A k \in all : entry(i).at <= entry(k).at
  BY <1>2, <1>8, <1>9, <1>10
<1>12. all \ {i} \in SUBSET AsRecent(i)'
  <2>1. ASSUME NEW k \in all \ {i} PROVE k \in AsRecent(i)'
    <3>1. entry(i).at <= entry(k).at
      BY <1>11, <2>1
    <3>2. lastUse'[i] <= lastUse'[k] /\ lastUse'[k] # Never /\ k \in Ids
      BY <1>3, <1>8, <2>1, <3>1
    <3>3. QED
      BY <1>1, <2>1, <3>2 DEF AsRecent
  <2>2. QED
    BY <2>1
<1>13. Cardinality(all \ {i}) <= Cardinality(AsRecent(i)')
  BY <1>7, <1>12, FS_Subset
<1>14. Cardinality(all \ {i}) \in Nat
  BY <1>3, IdsFinite
<1>15. QED
  BY <1>5, <1>7, <1>11, <1>13, <1>14

-----------------------------------------------------------------------------
(* An id that more uses of others have followed was kept before, too. *)
LEMMA KeptEarlier ==
  ASSUME StoreInv, NEW i \in Ids, Kept(i)', now' >= now, now' \in Int,
         lastUse'[i] = lastUse[i], lost \subseteq lost',
         \A j \in Ids : lastUse[j] # Never =>
           lastUse'[j] \in Int /\ lastUse'[j] # Never /\ lastUse'[j] >= lastUse[j]
  PROVE  Kept(i)
<1> USE StoreAssumption DEF StoreAssumption
<1>1. TypeOK
  BY DEF StoreInv
<1>2. AsRecent(i)' \in SUBSET Ids /\ AsRecent(i) \in SUBSET Ids
  BY DEF AsRecent
<1>3. ASSUME NEW j \in AsRecent(i) PROVE j \in AsRecent(i)'
  <2>1. j \in Ids \ {i} /\ lastUse[j] # Never /\ lastUse[j] >= lastUse[i]
    BY <1>3 DEF AsRecent
  <2>2. lastUse'[j] \in Int /\ lastUse'[j] # Never /\ lastUse'[j] >= lastUse[j]
    BY <2>1
  <2>3. lastUse[j] \in Int /\ lastUse[i] \in Int
    BY <1>1, <2>1 DEF TypeOK, Never
  <2>4. lastUse'[j] >= lastUse'[i]
    BY <2>1, <2>2, <2>3
  <2>5. QED
    BY <2>1, <2>2, <2>4 DEF AsRecent
<1>4. Cardinality(AsRecent(i)) <= Cardinality(AsRecent(i)')
  BY <1>2, <1>3, IdsFinite, FS_Subset
<1>5. Cardinality(AsRecent(i)) \in Nat /\ Cardinality(AsRecent(i)') \in Nat
  BY <1>2, IdsFinite
<1>6. lastUse[i] \in Int /\ now \in Int
  BY <1>1 DEF TypeOK, Never
<1>7. QED
  BY <1>4, <1>5, <1>6 DEF Kept

(* Steps that leave the store alone and end no turn as delivered. *)
LEMMA StoreUntouched ==
  ASSUME StoreInv, TypeOK', UNCHANGED <<sessions, now, lastUse, lost>>,
         \A t \in Ids : /\ turn'[t].phase \in {"idle", "calling", "answered"}
                           => turn[t].phase \in {"idle", "calling", "answered"}
                        /\ turn'[t].phase = "delivered" /\ turn'[t].keep
                           => lastUse[t] # Never
  PROVE  StoreInv'
<1>1. Unsaved' /\ DeliveredIsContinuable'
  BY DEF StoreInv, Unsaved, DeliveredIsContinuable
<1>2. StampsAgree' /\ UsesPast' /\ CapRespected'
  BY DEF StoreInv, StampsAgree, UsesPast, CapRespected
<1>3. WorkingSetKept'
  BY DEF StoreInv, WorkingSetKept, Kept, AsRecent, Present
<1>4. QED
  BY <1>1, <1>2, <1>3 DEF StoreInv

(* Begin gives the turn a phase it may have, of the right types. *)
LEMMA BeginKeepsTypes ==
  ASSUME TypeOK, NEW t \in Ids, NEW mode \in {"whole", "stream"},
         NEW parent \in Ids \cup {None}, NEW named \in BOOLEAN,
         NEW record \in [messages : Seq(Ids), model : Ids \cup {None}],
         Begin(t, mode, parent, named, record)
  PROVE  /\ turn' \in [Ids -> [phase : Phases, mode : {"whole", "stream"},
                               parent : Ids \cup {None}, named : BOOLEAN,
                               model : Ids \cup {None}, history : Seq(Ids), keep : BOOLEAN]]
         /\ turn'[t].phase \in {"rejected", "calling"}
         /\ \A u \in Ids \ {t} : turn'[u] = turn[u]
<1> DEFINE model == ResolvedModel(t, named, record)
<1>1. model \in Ids \cup {None}
  BY DEF ResolvedModel
<1>2. turn' = [turn EXCEPT ![t] =
        Request(IF model = None THEN "rejected" ELSE "calling",
                mode, parent, named, model, record.messages)]
  BY DEF Begin
<1> HIDE DEF model
<1>3. QED
  BY <1>1, <1>2 DEF TypeOK, Request, Phases

(* A new conversation touches only its turn. *)
LEMMA StartFreshStep ==
  ASSUME StoreInv, NEW t \in Ids, NEW mode \in {"whole", "stream"}, NEW named \in BOOLEAN,
         StartFresh(t, mode, named)
  PROVE  StoreInv'
<1>1. turn[t].phase = "idle" /\ Begin(t, mode, None, named, NoSession)
      /\ UNCHANGED <<sessions, now, lastUse, lost>> /\ TypeOK
  BY DEF StartFresh, StoreInv
<1>2. NoSession \in [messages : Seq(Ids), model : Ids \cup {None}]
  BY DEF NoSession
<1>3. TypeOK' /\ turn'[t].phase \in {"rejected", "calling"}
      /\ \A u \in Ids \ {t} : turn'[u] = turn[u]
  <2>1. PICK nobody \in Ids \cup {None},
              fresh \in [messages : Seq(Ids), model : Ids \cup {None}] :
          Begin(t, mode, nobody, named, fresh)
    BY <1>1, <1>2, Zenon
  <2>2. /\ turn' \in [Ids -> [phase : Phases, mode : {"whole", "stream"},
                              parent : Ids \cup {None}, named : BOOLEAN,
                              model : Ids \cup {None}, history : Seq(Ids), keep : BOOLEAN]]
        /\ turn'[t].phase \in {"rejected", "calling"}
        /\ \A u \in Ids \ {t} : turn'[u] = turn[u]
    BY <1>1, <2>1, BeginKeepsTypes
  <2>3. QED
    BY <1>1, <2>2 DEF TypeOK
<1>4. ASSUME NEW u \in Ids
      PROVE  /\ turn'[u].phase \in {"idle", "calling", "answered"}
                => turn[u].phase \in {"idle", "calling", "answered"}
             /\ turn'[u].phase = "delivered" /\ turn'[u].keep => lastUse[u] # Never
  <2>1. CASE u = t
    BY <1>1, <1>3, <2>1
  <2>2. CASE u # t
    <3>1. turn'[u] = turn[u]
      BY <1>3, <2>2
    <3>2. turn[u].phase = "delivered" /\ turn[u].keep => lastUse[u] # Never
      BY DEF StoreInv, DeliveredIsContinuable
    <3>3. QED
      BY <3>1, <3>2, Zenon
  <2>3. QED
    BY <2>1, <2>2
<1>5. QED
  BY <1>1, <1>3, <1>4, StoreUntouched

(* A continuation renews the entry it reads. *)
LEMMA ContinueStep ==
  ASSUME StoreInv, NEW t \in Ids, NEW mode \in {"whole", "stream"}, NEW named \in BOOLEAN,
         NEW parent \in Ids, Continue(t, mode, parent, named)
  PROVE  StoreInv'
<1> USE StoreAssumption DEF StoreAssumption
<1>1. /\ turn[t].phase = "idle" /\ turn[parent].phase # "idle"
      /\ Live(parent) /\ sessions' = [sessions EXCEPT ![parent].at = now]
      /\ lastUse' = [lastUse EXCEPT ![parent] = now]
      /\ Begin(t, mode, parent, named, sessions[parent].record)
      /\ UNCHANGED <<now, lost>> /\ now \in 0..MaxTime
      /\ TypeOK /\ Unsaved /\ StampsAgree /\ UsesPast /\ CapRespected /\ WorkingSetKept
      /\ DeliveredIsContinuable
  BY DEF Continue, GetHit, StoreInv, TypeOK
<1>2. parent \in DOMAIN sessions /\ sessions[parent] \in Entries
      /\ lastUse[parent] # Never /\ lastUse[parent] = sessions[parent].at
  BY <1>1 DEF Live, TypeOK, StampsAgree
<1>3. sessions[parent].record \in [messages : Seq(Ids), model : Ids \cup {None}]
  BY <1>2 DEF Entries
<1>4. /\ turn' \in [Ids -> [phase : Phases, mode : {"whole", "stream"},
                            parent : Ids \cup {None}, named : BOOLEAN,
                            model : Ids \cup {None}, history : Seq(Ids), keep : BOOLEAN]]
      /\ turn'[t].phase \in {"rejected", "calling"}
      /\ \A u \in Ids \ {t} : turn'[u] = turn[u]
  BY <1>1, <1>3, BeginKeepsTypes
<1>5. /\ DOMAIN sessions' = DOMAIN sessions
      /\ sessions'[parent] = [sessions[parent] EXCEPT !.at = now]
      /\ \A j \in DOMAIN sessions \ {parent} : sessions'[j] = sessions[j]
  BY <1>1, <1>2
<1>6. sessions'[parent] \in Entries /\ sessions'[parent].at = now
  BY <1>1, <1>2, <1>5 DEF Entries
<1>7. lastUse' \in [Ids -> 0..MaxTime \cup {Never}]
  BY <1>1 DEF TypeOK
<1>8. TypeOK'
  BY <1>1, <1>4, <1>5, <1>6, <1>7 DEF TypeOK
<1>9. Unsaved'
  BY <1>1, <1>2, <1>4 DEF Unsaved, TypeOK
<1>10. StampsAgree'
  BY <1>1, <1>5, <1>6 DEF StampsAgree, TypeOK, Never
<1>11. UsesPast'
  BY <1>1 DEF UsesPast, TypeOK
<1>12. CapRespected'
  BY <1>1, <1>5 DEF CapRespected
<1>13. DeliveredIsContinuable'
  <2>1. ASSUME NEW u \in Ids, turn'[u].phase = "delivered", turn'[u].keep
        PROVE  lastUse'[u] # Never
    <3>1. turn'[u] = turn[u]
      BY <1>4, <2>1
    <3>2. lastUse[u] # Never
      BY <1>1, <2>1, <3>1, Zenon DEF DeliveredIsContinuable
    <3>3. QED
      BY <1>1, <3>2 DEF TypeOK, Never
  <2>2. QED
    BY <2>1 DEF DeliveredIsContinuable
<1>14. WorkingSetKept'
  <2>1. SUFFICES ASSUME NEW i \in Ids, Kept(i)' PROVE i \in DOMAIN sessions
    BY <1>5 DEF WorkingSetKept, Present
  <2>2. CASE i = parent
    BY <1>2, <2>2
  <2>3. CASE i # parent
    <3>1. lastUse'[i] = lastUse[i]
      BY <1>1, <2>3 DEF TypeOK
    <3>2. \A j \in Ids : lastUse[j] # Never =>
            lastUse'[j] \in Int /\ lastUse'[j] # Never /\ lastUse'[j] >= lastUse[j]
      BY <1>1 DEF TypeOK, UsesPast, Never
    <3>3. Kept(i)
      BY <1>1, <2>1, <3>1, <3>2, KeptEarlier
    <3>4. QED
      BY <1>1, <3>3 DEF WorkingSetKept, Present
  <2>4. QED
    BY <2>2, <2>3
<1>15. QED
  BY <1>8, <1>9, <1>10, <1>11, <1>12, <1>13, <1>14 DEF StoreInv

(* A continuation that finds nothing removes at most a stale entry. *)
LEMMA NotFoundStep ==
  ASSUME StoreInv, NEW t \in Ids, NEW mode \in {"whole", "stream"}, NEW named \in BOOLEAN,
         NEW parent \in Ids, NotFound(t, mode, parent, named)
  PROVE  StoreInv'
<1> USE StoreAssumption DEF StoreAssumption
<1>1. /\ turn[t].phase = "idle" /\ ~Live(parent)
      /\ sessions' = Without(sessions, {parent})
      /\ turn' = [turn EXCEPT ![t] = Request("rejected", mode, parent, named, None, <<>>)]
      /\ UNCHANGED <<now, lastUse, lost>>
      /\ TypeOK /\ Unsaved /\ StampsAgree /\ UsesPast /\ CapRespected /\ WorkingSetKept
      /\ DeliveredIsContinuable
  BY DEF NotFound, GetMiss, StoreInv
<1>2. /\ DOMAIN sessions' = DOMAIN sessions \ {parent}
      /\ \A j \in DOMAIN sessions' : sessions'[j] = sessions[j]
  BY <1>1 DEF Without
<1>3. /\ turn' \in [Ids -> [phase : Phases, mode : {"whole", "stream"},
                            parent : Ids \cup {None}, named : BOOLEAN,
                            model : Ids \cup {None}, history : Seq(Ids), keep : BOOLEAN]]
      /\ turn'[t].phase = "rejected"
      /\ \A u \in Ids \ {t} : turn'[u] = turn[u]
  BY <1>1 DEF TypeOK, Request, Phases
<1>4. TypeOK'
  BY <1>1, <1>2, <1>3 DEF TypeOK
<1>5. Unsaved' /\ DeliveredIsContinuable'
  BY <1>1, <1>3 DEF Unsaved, DeliveredIsContinuable
<1>6. StampsAgree' /\ UsesPast'
  BY <1>1, <1>2 DEF StampsAgree, UsesPast
<1>7. CapRespected'
  <2>1. DOMAIN sessions \in SUBSET Ids /\ DOMAIN sessions' \in SUBSET DOMAIN sessions
    BY <1>1, <1>2 DEF TypeOK
  <2>2. Cardinality(DOMAIN sessions') <= Cardinality(DOMAIN sessions)
    BY <2>1, IdsFinite, FS_Subset
  <2>3. Cardinality(DOMAIN sessions') \in Nat /\ Cardinality(DOMAIN sessions) \in Nat
    <3>1. DOMAIN sessions' \in SUBSET Ids
      BY <2>1
    <3>2. QED
      BY <2>1, <3>1, IdsFinite
  <2>4. QED
    BY <1>1, <2>2, <2>3 DEF CapRespected
<1>8. WorkingSetKept'
  <2>1. SUFFICES ASSUME NEW i \in Ids, Kept(i)' PROVE i \in DOMAIN sessions'
    BY DEF WorkingSetKept, Present
  <2>2. Kept(i)
    BY <1>1, <2>1 DEF Kept, AsRecent
  <2>3. i \in DOMAIN sessions /\ lastUse[i] = sessions[i].at
    BY <1>1, <2>2 DEF WorkingSetKept, Present, StampsAgree
  <2>4. Live(i)
    BY <1>1, <2>2, <2>3 DEF Kept, Live, Stale, TypeOK, Entries
  <2>5. QED
    BY <1>1, <1>2, <2>3, <2>4
<1>9. QED
  BY <1>4, <1>5, <1>6, <1>7, <1>8 DEF StoreInv

(* The phase a turn moves to, and nothing else, changes in Advance. *)
LEMMA AdvanceEffect ==
  ASSUME TypeOK, NEW t \in Ids, NEW phase \in Phases, NEW keep \in BOOLEAN,
         Advance(t, phase, keep)
  PROVE  /\ turn' \in [Ids -> [phase : Phases, mode : {"whole", "stream"},
                               parent : Ids \cup {None}, named : BOOLEAN,
                               model : Ids \cup {None}, history : Seq(Ids), keep : BOOLEAN]]
         /\ turn'[t].phase = phase /\ turn'[t].keep = keep
         /\ turn'[t].parent = turn[t].parent /\ turn'[t].named = turn[t].named
         /\ turn'[t].model = turn[t].model /\ turn'[t].history = turn[t].history
         /\ \A u \in Ids \ {t} : turn'[u] = turn[u]
<1>1. turn' = [turn EXCEPT ![t].phase = phase, ![t].keep = keep]
  BY DEF Advance
<1>2. PICK half \in [Ids -> [phase : Phases, mode : {"whole", "stream"},
                            parent : Ids \cup {None}, named : BOOLEAN,
                            model : Ids \cup {None}, history : Seq(Ids), keep : BOOLEAN]] :
        half = [turn EXCEPT ![t].phase = phase]
  BY DEF TypeOK
<1>3. turn' = [half EXCEPT ![t].keep = keep]
  BY <1>1, <1>2 DEF TypeOK
<1>4. /\ half[t].phase = phase
      /\ half[t].parent = turn[t].parent /\ half[t].named = turn[t].named
      /\ half[t].model = turn[t].model /\ half[t].history = turn[t].history
      /\ \A u \in Ids \ {t} : half[u] = turn[u]
  BY <1>2 DEF TypeOK
<1>5. QED
  BY <1>3, <1>4

(* A turn ends as delivered, saved exactly when it is worth keeping. *)
LEMMA EndStep ==
  ASSUME StoreInv, NEW t \in Ids, turn[t].phase \in {"calling", "answered"},
         NEW keep \in BOOLEAN, Advance(t, "delivered", keep),
         IF keep THEN SaveSession(t) ELSE UNCHANGED <<sessions, lastUse>>,
         UNCHANGED <<now, lost>>
  PROVE  StoreInv'
<1>1. TypeOK /\ Unsaved /\ DeliveredIsContinuable /\ "delivered" \in Phases
  BY DEF StoreInv, Phases
<1>2. /\ turn' \in [Ids -> [phase : Phases, mode : {"whole", "stream"},
                            parent : Ids \cup {None}, named : BOOLEAN,
                            model : Ids \cup {None}, history : Seq(Ids), keep : BOOLEAN]]
      /\ turn'[t].phase = "delivered" /\ turn'[t].keep = keep
      /\ \A u \in Ids \ {t} : turn'[u] = turn[u]
  BY <1>1, AdvanceEffect
<1>3. CASE keep
  <2>1. SaveSession(t) /\ lastUse' = [lastUse EXCEPT ![t] = now]
    BY <1>3 DEF SaveSession
  <2>2. /\ DOMAIN sessions' \subseteq Ids
        /\ \A i \in DOMAIN sessions' : sessions'[i] \in Entries
        /\ lastUse' \in [Ids -> 0..MaxTime \cup {Never}]
        /\ StampsAgree' /\ UsesPast' /\ CapRespected'
    BY <2>1, SaveKeepsTypes
  <2>3. WorkingSetKept'
    BY <2>1, SaveKeepsWorkingSet
  <2>4. TypeOK'
    BY <1>1, <1>2, <2>2 DEF TypeOK
  <2>5. Unsaved'
    BY <1>1, <1>2, <2>1 DEF Unsaved, TypeOK
  <2>6. DeliveredIsContinuable'
    <3>1. ASSUME NEW u \in Ids, turn'[u].phase = "delivered", turn'[u].keep
          PROVE  lastUse'[u] # Never
      <4>1. CASE u = t
        BY <1>1, <2>1, <4>1 DEF TypeOK, Never
      <4>2. CASE u # t
        <5>1. turn'[u] = turn[u] /\ lastUse'[u] = lastUse[u]
          BY <1>1, <1>2, <2>1, <4>2 DEF TypeOK
        <5>2. lastUse[u] # Never
          BY <1>1, <3>1, <5>1, Zenon DEF DeliveredIsContinuable
        <5>3. QED
          BY <5>1, <5>2
      <4>3. QED
        BY <4>1, <4>2
    <3>2. QED
      BY <3>1 DEF DeliveredIsContinuable
  <2>7. QED
    BY <2>2, <2>3, <2>4, <2>5, <2>6 DEF StoreInv
<1>4. CASE ~keep
  <2>1. UNCHANGED <<sessions, now, lastUse, lost>>
    BY <1>4
  <2>2. TypeOK'
    BY <1>1, <1>2, <2>1 DEF TypeOK
  <2>3. ASSUME NEW u \in Ids
        PROVE  /\ turn'[u].phase \in {"idle", "calling", "answered"}
                  => turn[u].phase \in {"idle", "calling", "answered"}
               /\ turn'[u].phase = "delivered" /\ turn'[u].keep => lastUse[u] # Never
    <3>1. CASE u = t
      <4>1. turn'[u].phase = "delivered" /\ ~turn'[u].keep
        BY <1>2, <1>4, <3>1, Zenon
      <4>2. QED
        BY <4>1
    <3>2. CASE u # t
      <4>1. turn'[u] = turn[u]
        BY <1>2, <3>2
      <4>2. turn[u].phase = "delivered" /\ turn[u].keep => lastUse[u] # Never
        BY <1>1 DEF DeliveredIsContinuable
      <4>3. QED
        BY <4>1, <4>2, Zenon
    <3>3. QED
      BY <3>1, <3>2
  <2>4. QED
    BY <2>1, <2>2, <2>3, StoreUntouched
<1>5. QED
  BY <1>3, <1>4

(* A turn moves on without the store: the terminal event, a dropped request. *)
LEMMA AdvanceStep ==
  ASSUME StoreInv, NEW t \in Ids, turn[t].phase \in {"calling", "answered"},
         NEW phase \in {"answered", "dropped"}, NEW keep \in BOOLEAN,
         Advance(t, phase, keep), UNCHANGED <<sessions, now, lastUse, lost>>
  PROVE  StoreInv'
<1>1. TypeOK /\ DeliveredIsContinuable /\ phase \in Phases
  BY DEF StoreInv, Phases
<1>2. /\ turn' \in [Ids -> [phase : Phases, mode : {"whole", "stream"},
                            parent : Ids \cup {None}, named : BOOLEAN,
                            model : Ids \cup {None}, history : Seq(Ids), keep : BOOLEAN]]
      /\ turn'[t].phase = phase
      /\ \A u \in Ids \ {t} : turn'[u] = turn[u]
  BY <1>1, AdvanceEffect
<1>3. TypeOK'
  BY <1>1, <1>2 DEF TypeOK
<1>4. ASSUME NEW u \in Ids
      PROVE  /\ turn'[u].phase \in {"idle", "calling", "answered"}
                => turn[u].phase \in {"idle", "calling", "answered"}
             /\ turn'[u].phase = "delivered" /\ turn'[u].keep => lastUse[u] # Never
  <2>1. CASE u = t
    BY <1>2, <2>1
  <2>2. CASE u # t
    <3>1. turn'[u] = turn[u]
      BY <1>2, <2>2
    <3>2. turn[u].phase = "delivered" /\ turn[u].keep => lastUse[u] # Never
      BY <1>1 DEF DeliveredIsContinuable
    <3>3. QED
      BY <3>1, <3>2, Zenon
  <2>3. QED
    BY <2>1, <2>2
<1>5. QED
  BY <1>3, <1>4, StoreUntouched

(* Time passes: what is still owed was owed before. *)
LEMMA TickStep ==
  ASSUME StoreInv, Tick
  PROVE  StoreInv'
<1> USE StoreAssumption DEF StoreAssumption
<1>1. /\ now' = now + 1 /\ now' \in 0..MaxTime /\ now \in 0..MaxTime
      /\ UNCHANGED <<sessions, turn, lastUse, lost>>
      /\ TypeOK /\ Unsaved /\ StampsAgree /\ UsesPast /\ CapRespected /\ WorkingSetKept
      /\ DeliveredIsContinuable
  BY DEF Tick, StoreInv, TypeOK
<1>2. TypeOK'
  BY <1>1 DEF TypeOK
<1>3. Unsaved' /\ StampsAgree' /\ CapRespected' /\ DeliveredIsContinuable'
  BY <1>1 DEF Unsaved, StampsAgree, CapRespected, DeliveredIsContinuable
<1>4. UsesPast'
  BY <1>1 DEF UsesPast, TypeOK, Never
<1>5. WorkingSetKept'
  <2>1. SUFFICES ASSUME NEW i \in Ids, Kept(i)' PROVE i \in DOMAIN sessions'
    BY DEF WorkingSetKept, Present
  <2>2. \A j \in Ids : lastUse[j] # Never =>
          lastUse'[j] \in Int /\ lastUse'[j] # Never /\ lastUse'[j] >= lastUse[j]
    BY <1>1 DEF TypeOK, Never
  <2>3. Kept(i)
    BY <1>1, <2>1, <2>2, KeptEarlier
  <2>4. QED
    BY <1>1, <2>3 DEF WorkingSetKept, Present
<1>6. QED
  BY <1>2, <1>3, <1>4, <1>5 DEF StoreInv

(* A restart empties the store, and owes nothing of what it held. *)
LEMMA RestartStep ==
  ASSUME StoreInv, Restart
  PROVE  StoreInv'
<1> USE StoreAssumption DEF StoreAssumption
<1>1. /\ DOMAIN sessions' = {}
      /\ turn' = [t \in Ids |-> IF turn[t].phase \in {"calling", "answered"}
                                THEN [turn[t] EXCEPT !.phase = "killed"] ELSE turn[t]]
      /\ lost' = lost \cup {t \in Ids : lastUse[t] # Never}
      /\ UNCHANGED <<now, lastUse>>
      /\ TypeOK /\ Unsaved /\ UsesPast /\ DeliveredIsContinuable
  BY DEF Restart, StoreInv
<1>2. ASSUME NEW t \in Ids
      PROVE  /\ turn'[t] \in [phase : Phases, mode : {"whole", "stream"},
                              parent : Ids \cup {None}, named : BOOLEAN,
                              model : Ids \cup {None}, history : Seq(Ids), keep : BOOLEAN]
             /\ turn'[t].phase \in {"idle", "calling", "answered", "delivered"}
                => turn'[t] = turn[t]
  BY <1>1 DEF TypeOK, Phases
<1>3. TypeOK'
  BY <1>1, <1>2 DEF TypeOK
<1>4. Unsaved'
  BY <1>1, <1>2 DEF Unsaved
<1>5. DeliveredIsContinuable'
  <2>1. ASSUME NEW u \in Ids, turn'[u].phase = "delivered", turn'[u].keep
        PROVE  lastUse'[u] # Never
    <3>1. turn'[u] = turn[u]
      BY <1>2, <2>1
    <3>2. QED
      BY <1>1, <2>1, <3>1, Zenon DEF DeliveredIsContinuable
  <2>2. QED
    BY <2>1 DEF DeliveredIsContinuable
<1>6. StampsAgree' /\ UsesPast'
  BY <1>1 DEF StampsAgree, UsesPast
<1>7. CapRespected'
  BY <1>1, FS_EmptySet DEF CapRespected
<1>8. WorkingSetKept'
  BY <1>1 DEF WorkingSetKept, Kept
<1>9. QED
  BY <1>3, <1>4, <1>5, <1>6, <1>7, <1>8 DEF StoreInv

LEMMA StoreInvInit == Init => StoreInv
<1> SUFFICES ASSUME Init PROVE StoreInv
  OBVIOUS
<1> USE StoreAssumption DEF StoreAssumption
<1>1. DOMAIN sessions = {}
  BY DEF Init
<1>2. TypeOK
  BY <1>1 DEF Init, TypeOK, Idle, Request, Phases, Never
<1>3. Unsaved /\ StampsAgree /\ UsesPast /\ WorkingSetKept /\ DeliveredIsContinuable
  BY <1>1 DEF Init, Unsaved, StampsAgree, UsesPast, WorkingSetKept, Kept,
              DeliveredIsContinuable, Idle, Request, Never
<1>4. CapRespected
  BY <1>1, FS_EmptySet DEF CapRespected
<1>5. QED
  BY <1>2, <1>3, <1>4 DEF StoreInv

LEMMA StoreInvTurnStep ==
  ASSUME StoreInv, NEW t \in Ids, TurnStep(t)
  PROVE  StoreInv'
<1>1. ASSUME NEW mode \in {"whole", "stream"}, NEW named \in BOOLEAN,
             StartFresh(t, mode, named)
      PROVE  StoreInv'
  BY <1>1, StartFreshStep
<1>2. ASSUME NEW mode \in {"whole", "stream"}, NEW named \in BOOLEAN,
             NEW parent \in Ids, Continue(t, mode, parent, named)
      PROVE  StoreInv'
  BY <1>2, ContinueStep
<1>3. ASSUME NEW mode \in {"whole", "stream"}, NEW named \in BOOLEAN,
             NEW parent \in Ids, NotFound(t, mode, parent, named)
      PROVE  StoreInv'
  BY <1>3, NotFoundStep
<1>4. ASSUME NEW keep \in BOOLEAN, AnswerWhole(t, keep)
      PROVE  StoreInv'
  BY <1>4, EndStep DEF AnswerWhole
<1>5. ASSUME NEW keep \in BOOLEAN, YieldTerminal(t, keep)
      PROVE  StoreInv'
  BY <1>5, AdvanceStep DEF YieldTerminal
<1>6. turn[t].keep \in BOOLEAN
  BY DEF StoreInv, TypeOK
<1>7. CASE PersistStream(t)
  BY <1>6, <1>7, EndStep DEF PersistStream
<1>8. CASE Disconnect(t)
  BY <1>6, <1>8, AdvanceStep DEF Disconnect
<1>9. QED
  BY <1>1, <1>2, <1>3, <1>4, <1>5, <1>7, <1>8 DEF TurnStep

LEMMA StoreInvNext == StoreInv /\ [Next]_vars => StoreInv'
<1> SUFFICES ASSUME StoreInv, [Next]_vars PROVE StoreInv'
  OBVIOUS
<1>1. CASE \E t \in Ids : TurnStep(t)
  BY <1>1, StoreInvTurnStep
<1>2. CASE Tick
  BY <1>2, TickStep
<1>3. CASE Restart
  BY <1>3, RestartStep
<1>4. CASE UNCHANGED vars
  <2>1. TypeOK'
    BY <1>4 DEF vars, StoreInv, TypeOK
  <2>2. QED
    BY <1>4, <2>1, StoreUntouched DEF vars, StoreInv, DeliveredIsContinuable
<1>5. QED
  BY <1>1, <1>2, <1>3, <1>4 DEF Next

LEMMA StoreInvariant == Spec => []StoreInv
  BY StoreInvInit, StoreInvNext, PTL DEF Spec

-----------------------------------------------------------------------------
(* The store and the turns keep to their values. *)
THEOREM StoreTypes == Spec => []TypeOK
<1>1. StoreInv => TypeOK
  BY DEF StoreInv
<1>2. QED
  BY <1>1, StoreInvariant, PTL

(* However many turns are saved at once, the store never exceeds its cap. *)
THEOREM StoreKeepsItsCap == Spec => []CapRespected
<1>1. StoreInv => CapRespected
  BY DEF StoreInv
<1>2. QED
  BY <1>1, StoreInvariant, PTL

(* The store evicts nothing that was used within the TTL and since which    *)
(* fewer than the cap's number of other ids were used.                      *)
THEOREM StoreKeepsTheWorkingSet == Spec => []WorkingSetKept
<1>1. StoreInv => WorkingSetKept
  BY DEF StoreInv
<1>2. QED
  BY <1>1, StoreInvariant, PTL

(* A turn whose answer reached its end and was worth saving was saved. *)
THEOREM DeliveredTurnsAreSaved == Spec => []DeliveredIsContinuable
<1>1. StoreInv => DeliveredIsContinuable
  BY DEF StoreInv
<1>2. QED
  BY <1>1, StoreInvariant, PTL

-----------------------------------------------------------------------------
(* What a save may do to an id saved before: remove its entry, no more. *)
LEMMA GoneStaysAcrossSave ==
  ASSUME StoreInv, NEW t \in Ids, turn[t].phase \in {"calling", "answered"},
         SaveSession(t), now' = now, NEW i \in Ids, Gone(i)
  PROVE  Gone(i)'
<1>1. /\ TypeOK /\ CapRespected /\ lastUse[t] = Never /\ Save(t, Snapshot(t))
      /\ lastUse' = [lastUse EXCEPT ![t] = now]
      /\ lastUse[i] # Never /\ (~Present(i) \/ Stale(sessions, i))
  BY DEF StoreInv, Unsaved, SaveSession, Gone
<1>2. i # t /\ lastUse'[i] # Never
  BY <1>1 DEF TypeOK
<1>3. i \in DOMAIN sessions' => i \in DOMAIN sessions /\ sessions'[i] = sessions[i]
  <2> DEFINE entry(j) == IF j = t THEN [record |-> Snapshot(t), at |-> now] ELSE sessions[j]
  <2>1. /\ DOMAIN sessions' \subseteq DOMAIN sessions \cup {t}
        /\ \A j \in DOMAIN sessions' : sessions'[j] = entry(j)
    BY <1>1, SaveEffect
  <2>2. QED
    BY <1>2, <2>1
<1>4. QED
  BY <1>1, <1>2, <1>3 DEF Gone, Present, Stale

LEMMA GoneStays ==
  ASSUME StoreInv, Next, NEW i \in Ids, Gone(i)
  PROVE  Gone(i)'
<1>1. /\ TypeOK /\ StampsAgree
      /\ lastUse[i] # Never /\ (~Present(i) \/ Stale(sessions, i))
  BY DEF StoreInv, Gone
<1>2. CASE UNCHANGED <<sessions, now, lastUse>>
  BY <1>1, <1>2 DEF Gone, Present, Stale
<1>3. ASSUME NEW t \in Ids, NEW mode \in {"whole", "stream"}, NEW named \in BOOLEAN,
             NEW parent \in Ids, Continue(t, mode, parent, named)
      PROVE  Gone(i)'
  <2>1. /\ Live(parent) /\ sessions' = [sessions EXCEPT ![parent].at = now]
        /\ lastUse' = [lastUse EXCEPT ![parent] = now] /\ now' = now
    BY <1>3 DEF Continue, GetHit
  <2>2. i # parent
    BY <1>1, <2>1 DEF Live, Present
  <2>3. /\ lastUse'[i] = lastUse[i] /\ DOMAIN sessions' = DOMAIN sessions
        /\ i \in DOMAIN sessions => sessions'[i] = sessions[i]
    BY <1>1, <2>1, <2>2 DEF TypeOK
  <2>4. QED
    BY <1>1, <2>1, <2>3 DEF Gone, Present, Stale
<1>4. ASSUME NEW t \in Ids, NEW mode \in {"whole", "stream"}, NEW named \in BOOLEAN,
             NEW parent \in Ids, NotFound(t, mode, parent, named)
      PROVE  Gone(i)'
  BY <1>1, <1>4 DEF NotFound, GetMiss, Without, Gone, Present, Stale
<1>5. ASSUME NEW t \in Ids, NEW keep \in BOOLEAN, AnswerWhole(t, keep)
      PROVE  Gone(i)'
  <2>1. CASE keep
    BY <1>5, <2>1, GoneStaysAcrossSave DEF AnswerWhole
  <2>2. CASE ~keep
    BY <1>2, <1>5, <2>2 DEF AnswerWhole
  <2>3. QED
    BY <2>1, <2>2
<1>6. ASSUME NEW t \in Ids, PersistStream(t)
      PROVE  Gone(i)'
  <2>1. turn[t].keep \in BOOLEAN
    BY <1>1 DEF TypeOK
  <2>2. CASE turn[t].keep
    BY <1>6, <2>2, GoneStaysAcrossSave DEF PersistStream
  <2>3. CASE ~turn[t].keep
    BY <1>2, <1>6, <2>3 DEF PersistStream
  <2>4. QED
    BY <2>1, <2>2, <2>3
<1>7. CASE Tick
  <2>1. now' = now + 1 /\ UNCHANGED <<sessions, lastUse>>
    BY <1>7 DEF Tick
  <2>2. CASE ~Present(i)
    BY <1>1, <2>1, <2>2 DEF Gone, Present
  <2>3. CASE Present(i) /\ Stale(sessions, i)
    <3>1. now \in Int /\ sessions[i].at \in Int /\ Ttl \in Int
      BY <1>1, <2>3, StoreAssumption DEF TypeOK, Entries, Present, StoreAssumption
    <3>2. now' - sessions'[i].at > Ttl
      BY <2>1, <2>3, <3>1 DEF Stale
    <3>3. QED
      BY <1>1, <2>1, <3>2 DEF Gone, Stale
  <2>4. QED
    BY <1>1, <2>2, <2>3
<1>8. CASE Restart
  BY <1>1, <1>8 DEF Restart, Gone, Present
<1>9. ASSUME NEW t \in Ids, NEW mode \in {"whole", "stream"}, NEW named \in BOOLEAN,
             StartFresh(t, mode, named)
      PROVE  Gone(i)'
  BY <1>2, <1>9 DEF StartFresh
<1>10. ASSUME NEW t \in Ids, NEW keep \in BOOLEAN, YieldTerminal(t, keep)
       PROVE  Gone(i)'
  BY <1>2, <1>10 DEF YieldTerminal
<1>11. ASSUME NEW t \in Ids, Disconnect(t)
       PROVE  Gone(i)'
  BY <1>2, <1>11 DEF Disconnect
<1>12. QED
  BY <1>3, <1>4, <1>5, <1>6, <1>7, <1>8, <1>9, <1>10, <1>11 DEF Next, TurnStep

(* Once a saved turn is expired, evicted or lost it never resolves again. *)
THEOREM GoneTurnsStayGone == Spec => GoneIsGone
<1>1. StoreInv /\ [Next]_vars => [\A i \in Ids : Gone(i) => Gone(i)']_vars
  BY GoneStays
<1>2. QED
  BY <1>1, StoreInvariant, PTL DEF Spec, GoneIsGone

-----------------------------------------------------------------------------
(* m runs from a fresh turn through each turn's parent; all have begun. *)
Line(m) ==
  \A k \in 1..Len(m) : /\ m[k] \in Ids /\ turn[m[k]].phase # "idle"
                       /\ turn[m[k]].parent = IF k = 1 THEN None ELSE m[k - 1]

(* The history a turn resolved is the line of its parent. *)
HistoryIsLine(t) ==
  /\ Line(turn[t].history)
  /\ turn[t].parent = IF turn[t].history = <<>> THEN None
                      ELSE turn[t].history[Len(turn[t].history)]

UnderWay(t) == turn[t].phase \in {"calling", "answered"}

RecordIsLine(i) ==
  LET m == sessions[i].record.messages
  IN  m # <<>> /\ Line(m) /\ m[Len(m)] = i

LineageInv ==
  /\ \A i \in DOMAIN sessions : RecordIsLine(i)
  /\ \A t \in Ids : UnderWay(t) => HistoryIsLine(t)

(* What a turn under way would save is the line that ends in it. *)
LEMMA SnapshotIsLine ==
  ASSUME LineageInv, TypeOK, NEW t \in Ids, UnderWay(t)
  PROVE  \E m \in Seq(Ids) : m = Snapshot(t).messages /\ m # <<>> /\ m[Len(m)] = t /\ Line(m)
<1>1. HistoryIsLine(t) /\ turn[t].history \in Seq(Ids) /\ turn[t].phase # "idle"
  BY DEF LineageInv, TypeOK, UnderWay
<1>2. PICK h \in Seq(Ids) : h = turn[t].history
  BY <1>1
<1>3. PICK m \in Seq(Ids) : m = Append(h, t)
  <2>1. Append(h, t) \in Seq(Ids)
    OBVIOUS
  <2>2. QED
    BY <2>1, Zenon
<1>4. Snapshot(t).messages = m
  BY <1>2, <1>3 DEF Snapshot
<1>5. Line(h) /\ turn[t].parent = IF h = <<>> THEN None ELSE h[Len(h)]
  BY <1>1, <1>2 DEF HistoryIsLine
<1>6. /\ Len(m) = Len(h) + 1 /\ m # <<>> /\ m[Len(m)] = t
      /\ \A k \in 1..Len(h) : m[k] = h[k]
      /\ h = <<>> => Len(h) = 0
      /\ Len(h) \in Nat
  BY <1>2, <1>3
<1>7. ASSUME NEW k \in 1..Len(m)
      PROVE  /\ m[k] \in Ids /\ turn[m[k]].phase # "idle"
             /\ turn[m[k]].parent = IF k = 1 THEN None ELSE m[k - 1]
  <2>1. CASE k = Len(m)
    <3>1. m[k] = t /\ k - 1 = Len(h)
      BY <1>6, <2>1
    <3>2. h # <<>> => Len(h) # 0 /\ m[Len(h)] = h[Len(h)]
      BY <1>2, <1>6
    <3>3. turn[t].parent = IF k = 1 THEN None ELSE m[k - 1]
      <4>1. CASE h = <<>>
        BY <1>5, <1>6, <3>1, <4>1
      <4>2. CASE h # <<>>
        BY <1>5, <1>6, <3>1, <3>2, <4>2
      <4>3. QED
        BY <4>1, <4>2
    <3>4. QED
      BY <1>1, <3>1, <3>3
  <2>2. CASE k # Len(m)
    <3>1. k \in 1..Len(h) /\ (k # 1 => k - 1 \in 1..Len(h))
      BY <1>6, <2>2
    <3>2. m[k] = h[k] /\ (k # 1 => m[k - 1] = h[k - 1])
      BY <1>6, <3>1
    <3>3. /\ h[k] \in Ids /\ turn[h[k]].phase # "idle"
          /\ turn[h[k]].parent = IF k = 1 THEN None ELSE h[k - 1]
      BY <1>5, <3>1 DEF Line
    <3>4. QED
      BY <3>2, <3>3
  <2>3. QED
    BY <2>1, <2>2
<1>8. Line(m)
  BY <1>7 DEF Line
<1>9. QED
  BY <1>4, <1>6, <1>8

(* A step keeps the lineage if it stores only snapshots of turns under way, *)
(* lets a turn begin only from nothing or from a stored record, and leaves  *)
(* the parents of the turns that have begun alone.                          *)
LEMMA LineageStep ==
  ASSUME LineageInv, TypeOK, TypeOK',
         \A i \in DOMAIN sessions' :
           \/ i \in DOMAIN sessions /\ sessions'[i].record = sessions[i].record
           \/ i \in Ids /\ UnderWay(i) /\ sessions'[i].record = Snapshot(i),
         \A t \in Ids : UnderWay(t)' =>
           \/ /\ UnderWay(t)
              /\ turn'[t].parent = turn[t].parent /\ turn'[t].history = turn[t].history
           \/ turn'[t].parent = None /\ turn'[t].history = <<>>
           \/ /\ turn'[t].parent \in DOMAIN sessions
              /\ turn'[t].history = sessions[turn'[t].parent].record.messages,
         \A t \in Ids : turn[t].phase # "idle" =>
           turn'[t].phase # "idle" /\ turn'[t].parent = turn[t].parent
  PROVE  LineageInv'
<1>1. ASSUME NEW m \in Seq(Ids), Line(m) PROVE Line(m)'
  BY <1>1 DEF Line
<1>2. ASSUME NEW i \in DOMAIN sessions
      PROVE  sessions[i].record.messages \in Seq(Ids) /\ RecordIsLine(i)
  BY DEF LineageInv, TypeOK, Entries
<1>3. ASSUME NEW i \in DOMAIN sessions' PROVE RecordIsLine(i)'
  <2>1. CASE i \in DOMAIN sessions /\ sessions'[i].record = sessions[i].record
    BY <1>1, <1>2, <2>1 DEF RecordIsLine
  <2>2. CASE i \in Ids /\ UnderWay(i) /\ sessions'[i].record = Snapshot(i)
    <3>1. PICK m \in Seq(Ids) : m = Snapshot(i).messages /\ m # <<>> /\ m[Len(m)] = i /\ Line(m)
      BY <2>2, SnapshotIsLine
    <3>2. QED
      BY <1>1, <2>2, <3>1 DEF RecordIsLine
  <2>3. QED
    BY <2>1, <2>2
<1>4. ASSUME NEW t \in Ids, UnderWay(t)' PROVE HistoryIsLine(t)'
  <2>1. CASE /\ UnderWay(t)
             /\ turn'[t].parent = turn[t].parent /\ turn'[t].history = turn[t].history
    BY <1>1, <2>1 DEF LineageInv, HistoryIsLine, TypeOK
  <2>2. CASE turn'[t].parent = None /\ turn'[t].history = <<>>
    BY <2>2 DEF HistoryIsLine, Line
  <2>3. CASE /\ turn'[t].parent \in DOMAIN sessions
             /\ turn'[t].history = sessions[turn'[t].parent].record.messages
    <3>1. PICK p \in DOMAIN sessions : p = turn'[t].parent
      BY <2>3
    <3>2. PICK m \in Seq(Ids) : m = sessions[p].record.messages
      BY <1>2, <3>1
    <3>3. m # <<>> /\ Line(m) /\ m[Len(m)] = p
      BY <1>2, <3>1, <3>2 DEF RecordIsLine
    <3>4. turn'[t].history = m /\ turn'[t].parent = p
      BY <2>3, <3>1, <3>2
    <3>5. Line(m)'
      BY <1>1, <3>3
    <3>6. QED
      BY <3>3, <3>4, <3>5 DEF HistoryIsLine
  <2>4. QED
    BY <1>4, <2>1, <2>2, <2>3
<1>5. QED
  BY <1>3, <1>4 DEF LineageInv

(* Begin sets one turn's parent and history and leaves the others alone. *)
LEMMA BeginLineage ==
  ASSUME TypeOK, NEW t \in Ids, turn[t].phase = "idle", NEW mode, NEW parent, NEW named,
         NEW record, Begin(t, mode, parent, named, record)
  PROVE  /\ turn'[t].parent = parent /\ turn'[t].history = record.messages
         /\ \A u \in Ids \ {t} : turn'[u] = turn[u]
         /\ \A u \in Ids : turn[u].phase # "idle" =>
              turn'[u].phase # "idle" /\ turn'[u].parent = turn[u].parent
<1>1. /\ turn'[t].parent = parent /\ turn'[t].history = record.messages
      /\ \A u \in Ids \ {t} : turn'[u] = turn[u]
  BY DEF Begin, Request, TypeOK
<1>2. QED
  BY <1>1

(* Advance keeps every parent and history. *)
LEMMA AdvanceLineage ==
  ASSUME TypeOK, NEW t \in Ids, UnderWay(t),
         NEW phase \in {"answered", "delivered", "dropped"}, NEW keep \in BOOLEAN,
         Advance(t, phase, keep)
  PROVE  /\ \A u \in Ids : UnderWay(u)' =>
              UnderWay(u) /\ turn'[u].parent = turn[u].parent
                          /\ turn'[u].history = turn[u].history
         /\ \A u \in Ids : turn[u].phase # "idle" =>
              turn'[u].phase # "idle" /\ turn'[u].parent = turn[u].parent
<1>1. phase \in Phases
  BY DEF Phases
<1>2. /\ turn'[t].phase = phase /\ turn'[t].parent = turn[t].parent
      /\ turn'[t].history = turn[t].history
      /\ \A u \in Ids \ {t} : turn'[u] = turn[u]
  BY <1>1, AdvanceEffect
<1>3. QED
  BY <1>2 DEF UnderWay

(* A save stores the snapshot of its turn and touches no other record. *)
LEMMA SaveRecords ==
  ASSUME TypeOK, CapRespected, NEW t \in Ids, UnderWay(t), SaveSession(t)
  PROVE  \A i \in DOMAIN sessions' :
           \/ i \in DOMAIN sessions /\ sessions'[i].record = sessions[i].record
           \/ i \in Ids /\ UnderWay(i) /\ sessions'[i].record = Snapshot(i)
<1> DEFINE entry(j) == IF j = t THEN [record |-> Snapshot(t), at |-> now] ELSE sessions[j]
<1>1. /\ DOMAIN sessions' \subseteq DOMAIN sessions \cup {t}
      /\ \A j \in DOMAIN sessions' : sessions'[j] = entry(j)
  BY SaveEffect DEF SaveSession
<1>2. ASSUME NEW i \in DOMAIN sessions'
      PROVE  \/ i \in DOMAIN sessions /\ sessions'[i].record = sessions[i].record
             \/ i \in Ids /\ UnderWay(i) /\ sessions'[i].record = Snapshot(i)
  <2>1. CASE i = t
    <3>1. sessions'[i].record = Snapshot(i)
      BY <1>1, <2>1
    <3>2. QED
      BY <2>1, <3>1
  <2>2. CASE i # t
    BY <1>1, <2>2
  <2>3. QED
    BY <2>1, <2>2
<1>3. QED
  BY <1>2

LEMMA LineageTurnStep ==
  ASSUME StoreInv, StoreInv', LineageInv, NEW t \in Ids, TurnStep(t)
  PROVE  LineageInv'
<1>1. TypeOK /\ TypeOK' /\ CapRespected /\ turn[t].keep \in BOOLEAN
  BY DEF StoreInv, TypeOK
<1>2. sessions' = sessions =>
        \A i \in DOMAIN sessions' : i \in DOMAIN sessions
                                    /\ sessions'[i].record = sessions[i].record
  OBVIOUS
<1>3. ASSUME NEW mode \in {"whole", "stream"}, NEW named \in BOOLEAN,
             StartFresh(t, mode, named)
      PROVE  LineageInv'
  <2>1. turn[t].phase = "idle" /\ Begin(t, mode, None, named, NoSession)
        /\ sessions' = sessions
    BY <1>3 DEF StartFresh
  <2>2. /\ turn'[t].parent = None /\ turn'[t].history = <<>>
        /\ \A u \in Ids \ {t} : turn'[u] = turn[u]
        /\ \A u \in Ids : turn[u].phase # "idle" =>
             turn'[u].phase # "idle" /\ turn'[u].parent = turn[u].parent
    BY <1>1, <2>1, BeginLineage DEF NoSession
  <2>3. QED
    BY <1>1, <1>2, <2>1, <2>2, LineageStep DEF UnderWay
<1>4. ASSUME NEW mode \in {"whole", "stream"}, NEW named \in BOOLEAN,
             NEW parent \in Ids, Continue(t, mode, parent, named)
      PROVE  LineageInv'
  <2>1. /\ turn[t].phase = "idle" /\ parent \in DOMAIN sessions
        /\ sessions' = [sessions EXCEPT ![parent].at = now]
        /\ Begin(t, mode, parent, named, sessions[parent].record)
    BY <1>4 DEF Continue, GetHit, Live
  <2>2. /\ turn'[t].parent = parent
        /\ turn'[t].history = sessions[parent].record.messages
        /\ \A u \in Ids \ {t} : turn'[u] = turn[u]
        /\ \A u \in Ids : turn[u].phase # "idle" =>
             turn'[u].phase # "idle" /\ turn'[u].parent = turn[u].parent
    BY <1>1, <2>1, BeginLineage
  <2>3. \A i \in DOMAIN sessions' : i \in DOMAIN sessions
                                    /\ sessions'[i].record = sessions[i].record
    BY <1>1, <2>1 DEF TypeOK, Entries
  <2>4. QED
    BY <1>1, <2>1, <2>2, <2>3, LineageStep DEF UnderWay
<1>5. ASSUME NEW mode \in {"whole", "stream"}, NEW named \in BOOLEAN,
             NEW parent \in Ids, NotFound(t, mode, parent, named)
      PROVE  LineageInv'
  <2>1. /\ turn[t].phase = "idle" /\ sessions' = Without(sessions, {parent})
        /\ turn' = [turn EXCEPT ![t] = Request("rejected", mode, parent, named, None, <<>>)]
    BY <1>5 DEF NotFound, GetMiss
  <2>2. /\ turn'[t].phase = "rejected" /\ \A u \in Ids \ {t} : turn'[u] = turn[u]
    BY <1>1, <2>1 DEF TypeOK, Request
  <2>3. \A i \in DOMAIN sessions' : i \in DOMAIN sessions
                                    /\ sessions'[i].record = sessions[i].record
    BY <2>1 DEF Without
  <2>4. QED
    BY <1>1, <2>1, <2>2, <2>3, LineageStep DEF UnderWay
<1>6. ASSUME NEW keep \in BOOLEAN, UnderWay(t), Advance(t, "delivered", keep),
             IF keep THEN SaveSession(t) ELSE UNCHANGED <<sessions, lastUse>>
      PROVE  LineageInv'
  <2>1. /\ \A u \in Ids : UnderWay(u)' =>
             UnderWay(u) /\ turn'[u].parent = turn[u].parent
                         /\ turn'[u].history = turn[u].history
        /\ \A u \in Ids : turn[u].phase # "idle" =>
             turn'[u].phase # "idle" /\ turn'[u].parent = turn[u].parent
    BY <1>1, <1>6, AdvanceLineage
  <2>2. CASE keep
    <3>1. \A i \in DOMAIN sessions' :
            \/ i \in DOMAIN sessions /\ sessions'[i].record = sessions[i].record
            \/ i \in Ids /\ UnderWay(i) /\ sessions'[i].record = Snapshot(i)
      BY <1>1, <1>6, <2>2, SaveRecords
    <3>2. QED
      BY <1>1, <2>1, <3>1, LineageStep
  <2>3. CASE ~keep
    <3>1. sessions' = sessions
      BY <1>6, <2>3
    <3>2. QED
      BY <1>1, <1>2, <2>1, <3>1, LineageStep
  <2>4. QED
    BY <2>2, <2>3
<1>7. ASSUME NEW keep \in BOOLEAN, NEW phase \in {"answered", "dropped"}, UnderWay(t),
             Advance(t, phase, keep), sessions' = sessions
      PROVE  LineageInv'
  <2>1. /\ \A u \in Ids : UnderWay(u)' =>
             UnderWay(u) /\ turn'[u].parent = turn[u].parent
                         /\ turn'[u].history = turn[u].history
        /\ \A u \in Ids : turn[u].phase # "idle" =>
             turn'[u].phase # "idle" /\ turn'[u].parent = turn[u].parent
    BY <1>1, <1>7, AdvanceLineage
  <2>2. QED
    BY <1>1, <1>2, <1>7, <2>1, LineageStep
<1>8. ASSUME NEW keep \in BOOLEAN, AnswerWhole(t, keep) PROVE LineageInv'
  BY <1>6, <1>8 DEF AnswerWhole, UnderWay
<1>9. ASSUME NEW keep \in BOOLEAN, YieldTerminal(t, keep) PROVE LineageInv'
  BY <1>7, <1>9 DEF YieldTerminal, UnderWay
<1>10. CASE PersistStream(t)
  BY <1>1, <1>6, <1>10 DEF PersistStream, UnderWay
<1>11. CASE Disconnect(t)
  BY <1>1, <1>7, <1>11 DEF Disconnect, UnderWay
<1>12. QED
  BY <1>3, <1>4, <1>5, <1>8, <1>9, <1>10, <1>11 DEF TurnStep

LEMMA LineageNext == StoreInv /\ StoreInv' /\ LineageInv /\ [Next]_vars => LineageInv'
<1> SUFFICES ASSUME StoreInv, StoreInv', LineageInv, [Next]_vars PROVE LineageInv'
  OBVIOUS
<1>1. TypeOK /\ TypeOK'
  BY DEF StoreInv
<1>2. CASE \E t \in Ids : TurnStep(t)
  BY <1>2, LineageTurnStep
<1>3. CASE UNCHANGED <<sessions, turn>>
  BY <1>3 DEF LineageInv, RecordIsLine, HistoryIsLine, Line, UnderWay
<1>4. CASE Tick
  BY <1>3, <1>4 DEF Tick
<1>5. CASE Restart
  <2>1. /\ DOMAIN sessions' = {}
        /\ turn' = [t \in Ids |-> IF turn[t].phase \in {"calling", "answered"}
                                  THEN [turn[t] EXCEPT !.phase = "killed"] ELSE turn[t]]
    BY <1>5 DEF Restart
  <2>2. ASSUME NEW t \in Ids
        PROVE  /\ ~UnderWay(t)'
               /\ turn[t].phase # "idle" =>
                    turn'[t].phase # "idle" /\ turn'[t].parent = turn[t].parent
    BY <1>1, <2>1 DEF TypeOK, UnderWay
  <2>3. QED
    BY <1>1, <2>1, <2>2, LineageStep
<1>6. CASE UNCHANGED vars
  BY <1>3, <1>6 DEF vars
<1>7. QED
  BY <1>2, <1>4, <1>5, <1>6 DEF Next

LEMMA LineageInvariant == Spec => []LineageInv
<1>1. Init => LineageInv
  BY DEF Init, LineageInv, UnderWay, Idle, Request
<1>2. QED
  BY <1>1, StoreInvariant, LineageNext, PTL DEF Spec

(* Every stored conversation is the exact line of ancestors of its turn. *)
THEOREM StoredLineageIsIntact == Spec => []LineageIntact
<1>1. TypeOK /\ LineageInv => LineageIntact
  <2> SUFFICES ASSUME TypeOK, LineageInv, NEW i \in DOMAIN sessions
               PROVE  LET m == sessions[i].record.messages
                      IN  /\ m # <<>> /\ m[Len(m)] = i
                          /\ turn[m[1]].parent = None
                          /\ \A k \in 2..Len(m) : turn[m[k]].parent = m[k - 1]
    BY DEF LineageIntact
  <2>1. PICK m \in Seq(Ids) : m = sessions[i].record.messages
    BY DEF TypeOK, Entries
  <2>2. m # <<>> /\ Line(m) /\ m[Len(m)] = i
    BY <2>1 DEF LineageInv, RecordIsLine
  <2>3. 1 \in 1..Len(m) /\ \A k \in 2..Len(m) : k \in 1..Len(m) /\ k # 1
    BY <2>2
  <2>4. QED
    BY <2>1, <2>2, <2>3 DEF Line
<1>2. StoreInv => TypeOK
  BY DEF StoreInv
<1>3. QED
  BY <1>1, <1>2, LineageInvariant, StoreInvariant, PTL
-----------------------------------------------------------------------------
(* Of the turns in m that named a model, the last named this one. *)
Chosen(m, model) ==
  \E k \in 1..Len(m) : /\ turn[m[k]].named /\ model = m[k]
                       /\ \A j \in 1..Len(m) : turn[m[j]].named => j <= k

(* The model a turn runs on: its own, or that of the history it resolved. *)
ModelFits(t) ==
  IF turn[t].named THEN turn[t].model = t ELSE Chosen(turn[t].history, turn[t].model)

ModelInv ==
  /\ \A i \in DOMAIN sessions :
       Chosen(sessions[i].record.messages, sessions[i].record.model)
  /\ \A t \in Ids : UnderWay(t) => ModelFits(t)

(* A turn adds itself to its history: the model it runs on is the choice of *)
(* the longer conversation too.                                             *)
LEMMA SnapshotChosen ==
  ASSUME TypeOK, NEW t \in Ids, ModelFits(t)
  PROVE  Chosen(Snapshot(t).messages, Snapshot(t).model)
<1>1. PICK h \in Seq(Ids) : h = turn[t].history
  BY DEF TypeOK
<1>2. PICK m \in Seq(Ids) : m = Append(h, t)
  <2>1. Append(h, t) \in Seq(Ids)
    OBVIOUS
  <2>2. QED
    BY <2>1, Zenon
<1>3. /\ Len(m) = Len(h) + 1 /\ m[Len(m)] = t /\ Len(h) \in Nat
      /\ \A k \in 1..Len(h) : m[k] = h[k]
  BY <1>2
<1>4. Snapshot(t).messages = m /\ Snapshot(t).model = turn[t].model
  BY <1>1, <1>2 DEF Snapshot
<1>5. CASE turn[t].named
  <2>1. Len(m) \in 1..Len(m) /\ \A j \in 1..Len(m) : j <= Len(m)
    BY <1>3
  <2>2. turn[t].model = m[Len(m)] /\ turn[m[Len(m)]].named
    BY <1>3, <1>5 DEF ModelFits
  <2>3. QED
    BY <1>4, <2>1, <2>2 DEF Chosen
<1>6. CASE ~turn[t].named
  <2>1. PICK k \in 1..Len(h) :
          /\ turn[h[k]].named /\ turn[t].model = h[k]
          /\ \A j \in 1..Len(h) : turn[h[j]].named => j <= k
    BY <1>1, <1>6 DEF ModelFits, Chosen
  <2>2. k \in 1..Len(m) /\ m[k] = h[k]
    BY <1>3
  <2>3. ASSUME NEW j \in 1..Len(m), turn[m[j]].named PROVE j <= k
    <3>1. j # Len(m)
      BY <1>3, <1>6, <2>3
    <3>2. j \in 1..Len(h) /\ m[j] = h[j]
      BY <1>3, <3>1
    <3>3. QED
      BY <2>1, <2>3, <3>2
  <2>4. QED
    BY <1>4, <2>1, <2>2, <2>3 DEF Chosen
<1>7. QED
  BY <1>5, <1>6

(* A step keeps the models if it stores only snapshots of turns under way,  *)
(* lets a turn begin only with a model of its own or with the one of the    *)
(* record it continues, and leaves alone whether a begun turn named one.    *)
LEMMA ModelStep ==
  ASSUME LineageInv, ModelInv, TypeOK,
         \A i \in DOMAIN sessions' :
           \/ i \in DOMAIN sessions /\ sessions'[i].record = sessions[i].record
           \/ i \in Ids /\ UnderWay(i) /\ sessions'[i].record = Snapshot(i),
         \A t \in Ids : UnderWay(t)' =>
           \/ /\ UnderWay(t)
              /\ turn'[t].model = turn[t].model /\ turn'[t].history = turn[t].history
           \/ turn'[t].named /\ turn'[t].model = t
           \/ \E p \in DOMAIN sessions :
                /\ ~turn'[t].named /\ turn'[t].model = sessions[p].record.model
                /\ turn'[t].history = sessions[p].record.messages,
         \A t \in Ids : turn[t].phase # "idle" => turn'[t].named = turn[t].named
  PROVE  ModelInv'
<1>1. ASSUME NEW m, NEW model, Line(m), Chosen(m, model) PROVE Chosen(m, model)'
  <2>1. \A k \in 1..Len(m) : turn'[m[k]].named = turn[m[k]].named
    BY <1>1 DEF Line
  <2>2. QED
    BY <1>1, <2>1 DEF Chosen
<1>2. ASSUME NEW i \in DOMAIN sessions
      PROVE  /\ Line(sessions[i].record.messages)
             /\ Chosen(sessions[i].record.messages, sessions[i].record.model)
  BY DEF LineageInv, RecordIsLine, ModelInv
<1>3. ASSUME NEW i \in Ids, UnderWay(i)
      PROVE  Line(Snapshot(i).messages) /\ Chosen(Snapshot(i).messages, Snapshot(i).model)
  <2>1. Line(Snapshot(i).messages)
    BY <1>3, SnapshotIsLine
  <2>2. QED
    BY <1>3, <2>1, SnapshotChosen DEF ModelInv
<1>4. ASSUME NEW i \in DOMAIN sessions'
      PROVE  Chosen(sessions[i].record.messages, sessions[i].record.model)'
  <2>1. PICK r : r = sessions'[i].record
    OBVIOUS
  <2>2. Line(r.messages) /\ Chosen(r.messages, r.model)
    BY <1>2, <1>3, <1>4, <2>1
  <2>3. Chosen(r.messages, r.model)'
    BY <1>1, <2>2
  <2>4. QED
    BY <2>1, <2>3 DEF Chosen
<1>5. ASSUME NEW t \in Ids, UnderWay(t)' PROVE ModelFits(t)'
  <2>1. CASE /\ UnderWay(t)
             /\ turn'[t].model = turn[t].model /\ turn'[t].history = turn[t].history
    <3>1. ModelFits(t) /\ Line(turn[t].history) /\ turn'[t].named = turn[t].named
      BY <2>1 DEF ModelInv, LineageInv, HistoryIsLine, UnderWay
    <3>2. CASE turn[t].named
      BY <2>1, <3>1, <3>2 DEF ModelFits
    <3>3. CASE ~turn[t].named
      <4>1. Chosen(turn[t].history, turn[t].model)
        BY <3>1, <3>3 DEF ModelFits
      <4>2. PICK r : r = turn[t]
        OBVIOUS
      <4>3. Chosen(r.history, r.model)'
        BY <1>1, <3>1, <4>1, <4>2
      <4>4. r.history = turn'[t].history /\ r.model = turn'[t].model /\ ~turn'[t].named
        BY <2>1, <3>1, <3>3, <4>2
      <4>5. QED
        BY <4>3, <4>4 DEF ModelFits, Chosen
    <3>4. QED
      BY <3>2, <3>3
  <2>2. CASE turn'[t].named /\ turn'[t].model = t
    BY <2>2 DEF ModelFits
  <2>3. ASSUME NEW p \in DOMAIN sessions, ~turn'[t].named,
               turn'[t].model = sessions[p].record.model,
               turn'[t].history = sessions[p].record.messages
        PROVE  ModelFits(t)'
    <3>1. PICK r : r = sessions[p].record
      OBVIOUS
    <3>2. Chosen(r.messages, r.model)'
      BY <1>1, <1>2, <3>1
    <3>3. r.messages = turn'[t].history /\ r.model = turn'[t].model
      BY <2>3, <3>1
    <3>4. QED
      BY <2>3, <3>2, <3>3 DEF ModelFits, Chosen
  <2>4. QED
    BY <1>5, <2>1, <2>2, <2>3
<1>6. QED
  BY <1>4, <1>5 DEF ModelInv

(* Begin sets one turn's model, and no other turn's. *)
LEMMA BeginModel ==
  ASSUME TypeOK, NEW t \in Ids, turn[t].phase = "idle", NEW mode, NEW parent,
         NEW named, NEW record, Begin(t, mode, parent, named, record)
  PROVE  /\ turn'[t].named = named /\ turn'[t].history = record.messages
         /\ turn'[t].model = ResolvedModel(t, named, record)
         /\ turn'[t].phase = IF ResolvedModel(t, named, record) = None
                             THEN "rejected" ELSE "calling"
         /\ \A u \in Ids \ {t} : turn'[u] = turn[u]
         /\ \A u \in Ids : turn[u].phase # "idle" => turn'[u].named = turn[u].named
<1>1. /\ turn'[t].named = named /\ turn'[t].history = record.messages
      /\ turn'[t].model = ResolvedModel(t, named, record)
      /\ turn'[t].phase = IF ResolvedModel(t, named, record) = None
                          THEN "rejected" ELSE "calling"
      /\ \A u \in Ids \ {t} : turn'[u] = turn[u]
  BY DEF Begin, Request, TypeOK
<1>2. QED
  BY <1>1

(* Advance keeps every turn's model, history and whether it named one. *)
LEMMA AdvanceModel ==
  ASSUME TypeOK, NEW t \in Ids, UnderWay(t),
         NEW phase \in {"answered", "delivered", "dropped"}, NEW keep \in BOOLEAN,
         Advance(t, phase, keep)
  PROVE  /\ \A u \in Ids : UnderWay(u)' =>
              UnderWay(u) /\ turn'[u].model = turn[u].model
                          /\ turn'[u].history = turn[u].history
         /\ \A u \in Ids : turn'[u].named = turn[u].named
<1>1. phase \in Phases
  BY DEF Phases
<1>2. /\ turn'[t].model = turn[t].model /\ turn'[t].named = turn[t].named
      /\ turn'[t].history = turn[t].history
      /\ \A u \in Ids \ {t} : turn'[u] = turn[u]
  BY <1>1, AdvanceEffect
<1>3. QED
  BY <1>2 DEF UnderWay

LEMMA ModelTurnStep ==
  ASSUME StoreInv, LineageInv, ModelInv, NEW t \in Ids, TurnStep(t)
  PROVE  ModelInv'
<1>1. TypeOK /\ CapRespected /\ turn[t].keep \in BOOLEAN
  BY DEF StoreInv, TypeOK
<1>2. sessions' = sessions =>
        \A i \in DOMAIN sessions' : i \in DOMAIN sessions
                                    /\ sessions'[i].record = sessions[i].record
  OBVIOUS
<1>3. ASSUME NEW mode \in {"whole", "stream"}, NEW named \in BOOLEAN,
             StartFresh(t, mode, named)
      PROVE  ModelInv'
  <2>1. turn[t].phase = "idle" /\ Begin(t, mode, None, named, NoSession)
        /\ sessions' = sessions
    BY <1>3 DEF StartFresh
  <2>2. /\ turn'[t].named = named /\ turn'[t].model = ResolvedModel(t, named, NoSession)
        /\ turn'[t].phase = IF ResolvedModel(t, named, NoSession) = None
                            THEN "rejected" ELSE "calling"
        /\ \A u \in Ids \ {t} : turn'[u] = turn[u]
        /\ \A u \in Ids : turn[u].phase # "idle" => turn'[u].named = turn[u].named
    BY <1>1, <2>1, BeginModel
  <2>3. UnderWay(t)' => turn'[t].named /\ turn'[t].model = t
    BY <2>2 DEF ResolvedModel, NoSession, UnderWay
  <2>4. QED
    BY <1>1, <1>2, <2>1, <2>2, <2>3, ModelStep DEF UnderWay
<1>4. ASSUME NEW mode \in {"whole", "stream"}, NEW named \in BOOLEAN,
             NEW parent \in Ids, Continue(t, mode, parent, named)
      PROVE  ModelInv'
  <2>1. /\ turn[t].phase = "idle" /\ parent \in DOMAIN sessions
        /\ sessions' = [sessions EXCEPT ![parent].at = now]
        /\ Begin(t, mode, parent, named, sessions[parent].record)
    BY <1>4 DEF Continue, GetHit, Live
  <2>2. /\ turn'[t].named = named
        /\ turn'[t].model = ResolvedModel(t, named, sessions[parent].record)
        /\ turn'[t].history = sessions[parent].record.messages
        /\ \A u \in Ids \ {t} : turn'[u] = turn[u]
        /\ \A u \in Ids : turn[u].phase # "idle" => turn'[u].named = turn[u].named
    BY <1>1, <2>1, BeginModel
  <2>3. \A i \in DOMAIN sessions' : i \in DOMAIN sessions
                                    /\ sessions'[i].record = sessions[i].record
    BY <1>1, <2>1 DEF TypeOK, Entries
  <2>4. \/ turn'[t].named /\ turn'[t].model = t
        \/ /\ ~turn'[t].named /\ turn'[t].model = sessions[parent].record.model
           /\ turn'[t].history = sessions[parent].record.messages
    BY <2>2 DEF ResolvedModel
  <2>5. QED
    BY <1>1, <2>1, <2>2, <2>3, <2>4, ModelStep DEF UnderWay
<1>5. ASSUME NEW mode \in {"whole", "stream"}, NEW named \in BOOLEAN,
             NEW parent \in Ids, NotFound(t, mode, parent, named)
      PROVE  ModelInv'
  <2>1. /\ turn[t].phase = "idle" /\ sessions' = Without(sessions, {parent})
        /\ turn' = [turn EXCEPT ![t] = Request("rejected", mode, parent, named, None, <<>>)]
    BY <1>5 DEF NotFound, GetMiss
  <2>2. /\ turn'[t].phase = "rejected" /\ \A u \in Ids \ {t} : turn'[u] = turn[u]
    BY <1>1, <2>1 DEF TypeOK, Request
  <2>3. \A i \in DOMAIN sessions' : i \in DOMAIN sessions
                                    /\ sessions'[i].record = sessions[i].record
    BY <2>1 DEF Without
  <2>4. QED
    BY <1>1, <2>1, <2>2, <2>3, ModelStep DEF UnderWay
<1>6. ASSUME NEW keep \in BOOLEAN, NEW phase \in {"answered", "delivered", "dropped"},
             UnderWay(t), Advance(t, phase, keep),
             SaveSession(t) \/ sessions' = sessions
      PROVE  ModelInv'
  <2>1. /\ \A u \in Ids : UnderWay(u)' =>
             UnderWay(u) /\ turn'[u].model = turn[u].model
                         /\ turn'[u].history = turn[u].history
        /\ \A u \in Ids : turn'[u].named = turn[u].named
    BY <1>1, <1>6, AdvanceModel
  <2>2. \A i \in DOMAIN sessions' :
          \/ i \in DOMAIN sessions /\ sessions'[i].record = sessions[i].record
          \/ i \in Ids /\ UnderWay(i) /\ sessions'[i].record = Snapshot(i)
    <3>1. CASE SaveSession(t)
      BY <1>1, <1>6, <3>1, SaveRecords
    <3>2. CASE sessions' = sessions
      BY <3>2
    <3>3. QED
      BY <1>6, <3>1, <3>2
  <2>3. QED
    BY <1>1, <2>1, <2>2, ModelStep
<1>7. ASSUME NEW keep \in BOOLEAN, AnswerWhole(t, keep) PROVE ModelInv'
  BY <1>6, <1>7 DEF AnswerWhole, UnderWay
<1>8. ASSUME NEW keep \in BOOLEAN, YieldTerminal(t, keep) PROVE ModelInv'
  BY <1>6, <1>8 DEF YieldTerminal, UnderWay
<1>9. CASE PersistStream(t)
  BY <1>1, <1>6, <1>9 DEF PersistStream, UnderWay
<1>10. CASE Disconnect(t)
  BY <1>1, <1>6, <1>10 DEF Disconnect, UnderWay
<1>11. QED
  BY <1>3, <1>4, <1>5, <1>7, <1>8, <1>9, <1>10 DEF TurnStep

LEMMA ModelNext == StoreInv /\ LineageInv /\ ModelInv /\ [Next]_vars => ModelInv'
<1> SUFFICES ASSUME StoreInv, LineageInv, ModelInv, [Next]_vars PROVE ModelInv'
  OBVIOUS
<1>1. TypeOK
  BY DEF StoreInv
<1>2. CASE \E t \in Ids : TurnStep(t)
  BY <1>2, ModelTurnStep
<1>3. CASE UNCHANGED <<sessions, turn>>
  BY <1>3 DEF ModelInv, ModelFits, Chosen, UnderWay
<1>4. CASE Tick
  BY <1>3, <1>4 DEF Tick
<1>5. CASE Restart
  <2>1. /\ DOMAIN sessions' = {}
        /\ turn' = [t \in Ids |-> IF turn[t].phase \in {"calling", "answered"}
                                  THEN [turn[t] EXCEPT !.phase = "killed"] ELSE turn[t]]
    BY <1>5 DEF Restart
  <2>2. \A t \in Ids : ~UnderWay(t)' /\ turn'[t].named = turn[t].named
    BY <1>1, <2>1 DEF TypeOK, UnderWay
  <2>3. QED
    BY <1>1, <2>1, <2>2, ModelStep
<1>6. CASE UNCHANGED vars
  BY <1>3, <1>6 DEF vars
<1>7. QED
  BY <1>2, <1>4, <1>5, <1>6 DEF Next

(* A stored turn runs on the model of the nearest turn of its conversation  *)
(* that named one, through every branch, eviction and restart (the model    *)
(* fallback of create_response).                                            *)
THEOREM StoredModelIsInherited == Spec => []ModelInherited
<1>1. Init => ModelInv
  BY DEF Init, ModelInv, UnderWay, Idle, Request
<1>2. TypeOK /\ ModelInv => ModelInherited
  <2> SUFFICES ASSUME TypeOK, ModelInv, NEW i \in DOMAIN sessions
               PROVE  LET m == sessions[i].record.messages
                          naming == {k \in DOMAIN m : turn[m[k]].named}
                      IN  \E k \in naming : /\ \A j \in naming : j <= k
                                            /\ sessions[i].record.model = m[k]
    BY DEF ModelInherited
  <2>1. PICK m \in Seq(Ids) : m = sessions[i].record.messages
    BY DEF TypeOK, Entries
  <2>2. DOMAIN m = 1..Len(m) /\ Chosen(m, sessions[i].record.model)
    BY <2>1 DEF ModelInv
  <2>3. QED
    BY <2>1, <2>2 DEF Chosen
<1>3. StoreInv => TypeOK
  BY DEF StoreInv
<1>4. Spec => []ModelInv
  BY <1>1, StoreInvariant, LineageInvariant, ModelNext, PTL DEF Spec
<1>5. QED
  BY <1>2, <1>3, <1>4, StoreInvariant, PTL
=============================================================================
