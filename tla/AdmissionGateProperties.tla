----------------------- MODULE AdmissionGateProperties -----------------------
(***************************************************************************)
(* What the admission gate promises the requests and its operators.        *)
(***************************************************************************)
EXTENDS AdmissionGate

(* Requests the process is working on. *)
Inside == In(Stages \ {"idle", "done", "gone"})

(* Requests, queue and counters keep to their values (middleware.rs).       *)
TypeOK ==
  /\ stage \in [Requests -> Stages]
  /\ queue \in Seq(Requests)
  /\ permits \in Nat
  /\ gauge \in Int
  /\ inFlight \in Int

(* No permit is lost or duplicated whichever way a request ends: served,    *)
(* shed, or cancelled while it waits, has just been granted a permit, runs  *)
(* or streams (ConcurrencyGuard and the acquire future of                   *)
(* concurrency_limit).                                                      *)
PermitsConserved == permits + Cardinality(In(Holding)) = Capacity

(* No permit lies idle while a request waits for one and may be shed.       *)
WorkConserving == permits > 0 => queue = <<>>

(* The usage gauge never shows more requests than permits are out, at any   *)
(* moment of a drop (dec_concurrency comes before the permit's release).    *)
GaugeWithinPermits == gauge >= 0 /\ gauge + permits <= Capacity

(* The in-flight gauge never shows fewer requests than there are, so the    *)
(* process is never taken for idle while it works (request_log).            *)
InFlightCovers == inFlight >= Cardinality(Inside)

(* The in-flight gauge is decremented however a request ends: middleware.rs *)
(* says the guard's Drop runs when the body finishes or the client          *)
(* disconnects.                                                             *)
InFlightIsExact == inFlight = Cardinality(Inside)

(* The gate with its queue, permits and counters is a CapacityLimit: never  *)
(* more than Capacity served, and no one served after it left.              *)
KeepsPromise == Promise!Limit

(* Every request that waits is decided, even when every handler that holds  *)
(* a permit hangs: the wait of concurrency_limit is bounded.                *)
WaitIsBounded ==
  \A r \in Requests : stage[r] \in {"queued", "granted"}
                        ~> stage[r] \notin {"queued", "granted"}
=============================================================================
