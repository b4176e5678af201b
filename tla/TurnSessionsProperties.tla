----------------------- MODULE TurnSessionsProperties ------------------------
(***************************************************************************)
(* What the session store and the turns that use it promise a client that  *)
(* continues a conversation.                                               *)
(***************************************************************************)
EXTENDS TurnSessions

Entries == [record : [messages : Seq(Ids), model : Ids \cup {None}], at : 0..MaxTime]

(* Ids saved or continued from at least as recently as i. *)
AsRecent(i) == {j \in Ids \ {i} : lastUse[j] # Never /\ lastUse[j] >= lastUse[i]}

(* i has been saved and nothing took it away: the process lived on, the TTL *)
(* since its last use has not passed, and the cap had room for it.          *)
Kept(i) ==
  /\ lastUse[i] # Never /\ i \notin lost
  /\ now - lastUse[i] <= Ttl
  /\ Cardinality(AsRecent(i)) < MaxSessions

(* i was saved and can no longer be resolved. *)
Gone(i) == lastUse[i] # Never /\ (~Present(i) \/ Stale(sessions, i))

-----------------------------------------------------------------------------
(* The store and the turns keep to their values (StoredEntry in             *)
(* session_store.rs and the phases of a request).                           *)
TypeOK ==
  /\ now \in 0..MaxTime
  /\ DOMAIN sessions \subseteq Ids
  /\ \A i \in DOMAIN sessions : sessions[i] \in Entries
  /\ turn \in [Ids -> [phase : Phases, mode : {"whole", "stream"},
                       parent : Ids \cup {None}, named : BOOLEAN,
                       model : Ids \cup {None}, history : Seq(Ids), keep : BOOLEAN]]
  /\ lastUse \in [Ids -> 0..MaxTime \cup {Never}]
  /\ lost \subseteq Ids

(* However many turns are saved at once, the store never holds more than    *)
(* the cap (SessionStore::enforce_cap runs inside every save).              *)
CapRespected == Cardinality(DOMAIN sessions) <= MaxSessions

(* The store evicts nothing early: an id used within the TTL is there as    *)
(* long as fewer than the cap's number of other ids were used since         *)
(* (renewal in get, eviction by last access in enforce_cap, cleanup).       *)
WorkingSetKept == \A i \in Ids : Kept(i) => Present(i)

(* A turn whose answer reached its end and was worth saving can be          *)
(* continued until the TTL, the cap or a restart takes it: the save comes   *)
(* before the end of the body (lib.rs and create_responses_sse_stream).     *)
DeliveredIsContinuable ==
  \A t \in Ids : turn[t].phase = "delivered" /\ turn[t].keep => lastUse[t] # Never

(* Every stored conversation is the exact line of ancestors of its turn,    *)
(* oldest first, whatever branched off, was evicted or was saved meanwhile  *)
(* (records are cloned out of the store and snapshots taken at the start).  *)
LineageIntact ==
  \A i \in DOMAIN sessions :
    LET m == sessions[i].record.messages
    IN  /\ m # <<>> /\ m[Len(m)] = i
        /\ turn[m[1]].parent = None
        /\ \A k \in 2..Len(m) : turn[m[k]].parent = m[k - 1]

(* A stored turn runs on the model of the nearest turn of its conversation  *)
(* that named one (the model fallback of create_response).                  *)
ModelInherited ==
  \A i \in DOMAIN sessions :
    LET m == sessions[i].record.messages
        naming == {k \in DOMAIN m : turn[m[k]].named}
    IN  \E k \in naming : /\ \A j \in naming : j <= k
                          /\ sessions[i].record.model = m[k]

(* Once a saved turn is expired, evicted or lost it never resolves again:   *)
(* no later get renews an expired entry, no save brings it back.            *)
GoneIsGone == [][\A i \in Ids : Gone(i) => Gone(i)']_vars
=============================================================================
