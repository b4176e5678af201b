---------------------------- MODULE AdmissionGate ----------------------------
(***************************************************************************)
(* The middleware around every request (middleware.rs, layered in          *)
(* build_app of lib.rs): request_log with its in-flight gauge, the body    *)
(* boundary, and concurrency_limit with its semaphore, its bounded wait    *)
(* and its usage gauge.  The guards of the outer and of the inner layer    *)
(* ride on the response body and are dropped when it ends or is dropped.   *)
(*                                                                         *)
(* The semaphore is tokio's: fair, a permit given back goes straight to    *)
(* the first waiter, and timeout asks for the permit before it looks at    *)
(* the clock.  A request comes and goes once.                              *)
(***************************************************************************)
EXTENDS Integers, FiniteSets, SequencesExt

CONSTANTS
  Requests,
  Limited,   \* the requests to CONCURRENCY_LIMITED_PATHS
  Capacity   \* max_concurrent_requests

ASSUME GateAssumption ==
  /\ IsFiniteSet(Requests)
  /\ Limited \subseteq Requests
  /\ Capacity \in Nat \ {0}

VARIABLES
  stage,     \* how far each request has come
  queue,     \* the semaphore's waiters, first come first
  permits,   \* permits nobody holds
  gauge,     \* bridge_concurrency_usage
  inFlight   \* bridge_requests_in_flight

vars == <<stage, queue, permits, gauge, inFlight>>

(* granted: the permit is assigned, the waiter not yet polled.  releasing   *)
(* and unwinding: ConcurrencyGuard::drop has moved the gauge, its permit    *)
(* is not yet given back.  answering: a body without a permit.              *)
Stages == {"idle", "reading", "queued", "granted", "running", "streaming",
           "releasing", "unwinding", "closing", "ungated", "answering",
           "done", "gone"}

Holding == {"granted", "running", "streaming", "releasing", "unwinding"}

In(stages) == {r \in Requests : stage[r] \in stages}

MoveTo(r, to) == stage' = [stage EXCEPT ![r] = to]

(* r moves on and gives its permit back: to the first waiter, if any. *)
GiveBack(r, to) ==
  \/ /\ queue = <<>>
     /\ permits' = permits + 1 /\ queue' = queue
     /\ MoveTo(r, to)
  \/ /\ queue # <<>>
     /\ permits' = permits /\ queue' = Tail(queue)
     /\ stage' = [stage EXCEPT ![r] = to, ![Head(queue)] = "granted"]

LeaveQueue(r) == \E k \in DOMAIN queue : queue[k] = r /\ queue' = RemoveAt(queue, k)

-----------------------------------------------------------------------------
Init ==
  /\ stage = [r \in Requests |-> "idle"]
  /\ queue = <<>>
  /\ permits = Capacity
  /\ gauge = 0 /\ inFlight = 0

CountedLate(r) ==
  /\ stage[r] = "idle"
  /\ MoveTo(r, "reading")
  /\ UNCHANGED <<queue, permits, gauge, inFlight>>

Arrive(r) ==
  /\ stage[r] = "idle"
  /\ MoveTo(r, "reading")
  /\ inFlight' = inFlight + 1
  /\ UNCHANGED <<queue, permits, gauge>>

(* body_limit: 413 before, or while, the body is read. *)
RejectBody(r) ==
  /\ stage[r] = "reading"
  /\ MoveTo(r, "answering")
  /\ UNCHANGED <<queue, permits, gauge, inFlight>>

(* The body is buffered and concurrency_limit entered. *)
EnterUngated(r) ==
  /\ stage[r] = "reading" /\ r \notin Limited
  /\ MoveTo(r, "ungated")
  /\ UNCHANGED <<queue, permits, gauge, inFlight>>

Acquire(r) ==
  /\ stage[r] = "reading" /\ r \in Limited
  /\ permits > 0
  /\ permits' = permits - 1
  /\ gauge' = gauge + 1
  /\ MoveTo(r, "running")
  /\ UNCHANGED <<queue, inFlight>>

Wait(r) ==
  /\ stage[r] = "reading" /\ r \in Limited
  /\ permits = 0
  /\ queue' = Append(queue, r)
  /\ MoveTo(r, "queued")
  /\ UNCHANGED <<permits, gauge, inFlight>>

Admit(r) ==
  /\ stage[r] = "granted"
  /\ gauge' = gauge + 1
  /\ MoveTo(r, "running")
  /\ UNCHANGED <<queue, permits, inFlight>>

WaitAgain(r) ==
  /\ stage[r] = "queued"
  /\ \E k \in DOMAIN queue :
       queue[k] = r /\ queue' = Append(RemoveAt(queue, k), r)
  /\ UNCHANGED <<stage, permits, gauge, inFlight>>

(* The wait timed out: 503. *)
Shed(r) ==
  /\ stage[r] = "queued"
  /\ LeaveQueue(r)
  /\ MoveTo(r, "answering")
  /\ UNCHANGED <<permits, gauge, inFlight>>

UnguardedBody(r) ==
  /\ stage[r] = "running"
  /\ GiveBack(r, "streaming")
  /\ UNCHANGED <<gauge, inFlight>>

(* The handler returns; the guards are attached to the body. *)
Respond(r) ==
  /\ stage[r] = "running"
  /\ MoveTo(r, "streaming")
  /\ UNCHANGED <<queue, permits, gauge, inFlight>>

RespondUngated(r) ==
  /\ stage[r] = "ungated"
  /\ MoveTo(r, "answering")
  /\ UNCHANGED <<queue, permits, gauge, inFlight>>

PermitBeforeGauge(r) ==
  /\ stage[r] = "streaming"
  /\ GiveBack(r, "releasing")
  /\ UNCHANGED <<gauge, inFlight>>

(* The body ends or is dropped: first the inner guard, whose drop moves the *)
(* gauge before its permit field is dropped, then the outer one.            *)
CloseBody(r) ==
  /\ stage[r] = "streaming"
  /\ gauge' = gauge - 1
  /\ MoveTo(r, "releasing")
  /\ UNCHANGED <<queue, permits, inFlight>>

PermitForgotten(r) ==
  /\ \/ stage[r] = "releasing" /\ MoveTo(r, "closing")
     \/ stage[r] = "unwinding" /\ MoveTo(r, "gone")
  /\ UNCHANGED <<queue, permits, gauge, inFlight>>

NobodyWoken(r) ==
  /\ \/ stage[r] = "releasing" /\ MoveTo(r, "closing")
     \/ stage[r] = "unwinding" /\ MoveTo(r, "gone")
  /\ permits' = permits + 1
  /\ UNCHANGED <<queue, gauge, inFlight>>

Release(r) ==
  /\ \/ stage[r] = "releasing" /\ GiveBack(r, "closing")
     \/ stage[r] = "unwinding" /\ GiveBack(r, "gone")
  /\ UNCHANGED <<gauge, inFlight>>

Record(r) ==
  /\ stage[r] \in {"closing", "answering"}
  /\ inFlight' = inFlight - 1
  /\ MoveTo(r, "done")
  /\ UNCHANGED <<queue, permits, gauge>>

(* The client goes away before there is a response (or the handler panics): *)
(* the request's future is dropped, and with it what it holds.  The outer   *)
(* guard does not exist yet.                                                *)
CancelOutside(r) ==
  /\ stage[r] \in {"reading", "ungated"}
  /\ MoveTo(r, "gone")
  /\ UNCHANGED <<queue, permits, gauge, inFlight>>

CancelQueued(r) ==
  /\ stage[r] = "queued"
  /\ LeaveQueue(r)
  /\ MoveTo(r, "gone")
  /\ UNCHANGED <<permits, gauge, inFlight>>

CancelGranted(r) ==
  /\ stage[r] = "granted"
  /\ GiveBack(r, "gone")
  /\ UNCHANGED <<gauge, inFlight>>

CancelRunning(r) ==
  /\ stage[r] = "running"
  /\ gauge' = gauge - 1
  /\ MoveTo(r, "unwinding")
  /\ UNCHANGED <<queue, permits, inFlight>>

Cancel(r) == CancelOutside(r) \/ CancelQueued(r) \/ CancelGranted(r) \/ CancelRunning(r)

Step(r) ==
  \/ Arrive(r) \/ RejectBody(r) \/ EnterUngated(r) \/ Acquire(r) \/ Wait(r)
  \/ Admit(r) \/ Shed(r) \/ Respond(r) \/ RespondUngated(r)
  \/ CloseBody(r) \/ Release(r) \/ Record(r) \/ Cancel(r)

Next == \E r \in Requests : Step(r)

(* The runtime polls a task that was woken and runs a drop to its end.  No  *)
(* fairness for handlers, bodies and clients: they may hang for ever.       *)
Fairness ==
  \A r \in Requests : WF_vars(Shed(r)) /\ WF_vars(Admit(r)) /\ WF_vars(Release(r))

Spec == Init /\ [][Next]_vars /\ Fairness
-----------------------------------------------------------------------------
(* The promise this gate implements: it alone decides who is served. *)
Promise == INSTANCE CapacityLimit
  WITH waiting <- In({"queued"}),
       served  <- In(Holding),
       left    <- {r \in Limited : stage[r] \in {"closing", "answering", "done", "gone"}}
=============================================================================
