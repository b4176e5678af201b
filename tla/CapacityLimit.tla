--------------------------- MODULE CapacityLimit ----------------------------
(***************************************************************************)
(* What the concurrency limit promises, whatever queue and counters serve  *)
(* it: a request waits at most once, at most Capacity requests are served  *)
(* at a time, and every request leaves for good.                           *)
(***************************************************************************)
EXTENDS Naturals, FiniteSets

CONSTANTS Requests, Capacity

VARIABLES
  waiting,  \* requests asking for a place
  served,   \* requests that hold one
  left      \* requests that are over

limitVars == <<waiting, served, left>>

LimitInit == waiting = {} /\ served = {} /\ left = {}

Ask(r) ==
  /\ r \notin waiting \cup served \cup left
  /\ waiting' = waiting \cup {r}
  /\ UNCHANGED <<served, left>>

Serve(r) ==
  /\ r \notin served \cup left
  /\ Cardinality(served) < Capacity
  /\ waiting' = waiting \ {r}
  /\ served' = served \cup {r}
  /\ UNCHANGED left

(* A request leaves; its place goes to some of those that wait. *)
Leave(r, next) ==
  /\ r \notin left
  /\ next \subseteq waiting \ {r}
  /\ Cardinality((served \ {r}) \cup next) <= Capacity
  /\ waiting' = waiting \ (next \cup {r})
  /\ served' = (served \ {r}) \cup next
  /\ left' = left \cup {r}

LimitNext ==
  \E r \in Requests : Ask(r) \/ Serve(r) \/ \E next \in SUBSET waiting : Leave(r, next)

Limit == LimitInit /\ [][LimitNext]_limitVars
=============================================================================
