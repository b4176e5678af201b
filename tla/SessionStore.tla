---------------------------- MODULE SessionStore ----------------------------
(***************************************************************************)
(* The in-memory session store (session_store.rs): snapshots of finished   *)
(* turns by response id, with a sliding TTL and a least-recently-used cap. *)
(* get and save each run under one mutex, so each is a single step; time   *)
(* is read under the lock and never runs backwards.                        *)
(***************************************************************************)
EXTENDS Integers, FiniteSets

CONSTANTS
  Ids,          \* response ids
  Ttl,          \* how long an entry lives without being accessed
  MaxSessions,  \* the cap
  MaxTime       \* bound on the clock

ASSUME StoreAssumption ==
  /\ IsFiniteSet(Ids)
  /\ Ttl \in Nat
  /\ MaxSessions \in Nat \ {0}
  /\ MaxTime \in Nat

VARIABLES
  sessions,  \* the map: id -> [record, at], at the time of the last access
  now

Without(m, gone) == [i \in DOMAIN m \ gone |-> m[i]]

Stale(m, i) == now - m[i].at > Ttl

Present(i) == i \in DOMAIN sessions

Live(i) == i \in DOMAIN sessions /\ ~Stale(sessions, i)

UnrenewedGet(i) == Live(i) /\ UNCHANGED sessions

(* get: an access renews the entry, an expired entry is removed. *)
GetHit(i) == Live(i) /\ sessions' = [sessions EXCEPT ![i].at = now]

GetMiss(i) == ~Live(i) /\ sessions' = Without(sessions, {i})

Insert(m, i, record) ==
  [j \in DOMAIN m \cup {i} |->
     IF j = i THEN [record |-> record, at |-> now] ELSE m[j]]

LeastRecent(m) == {i \in DOMAIN m : \A j \in DOMAIN m : m[i].at <= m[j].at}

CapOffByOne(m) ==
  IF Cardinality(DOMAIN m) > MaxSessions + 1
  THEN {Without(m, {i}) : i \in LeastRecent(m)}
  ELSE {m}

(* The maps enforce_cap may leave.  A save adds at most one entry, so the   *)
(* loop evicts at most once.  A tie goes to the smallest id, and ids are    *)
(* random: any of the least recent.                                         *)
EnforceCap(m) ==
  IF Cardinality(DOMAIN m) > MaxSessions
  THEN {Without(m, {i}) : i \in LeastRecent(m)}
  ELSE {m}

Cleanup(m) == Without(m, {i \in DOMAIN m : Stale(m, i)})

Save(i, record) ==
  \E m \in EnforceCap(Insert(sessions, i, record)) : sessions' = Cleanup(m)
=============================================================================
