----------------------- MODULE UpstreamCallProperties ------------------------
(***************************************************************************)
(* What one upstream call promises its caller and the upstream.            *)
(***************************************************************************)
EXTENDS UpstreamCall

Ended == phase \in {"succeeded", "failed"}

(* However errors and rewrites alternate, the upstream sees no more sends   *)
(* than transport attempts and rewrites, and no rewrite is made twice in a  *)
(* call: the labels outlive a transport retry though the hops do not        *)
(* (send_with_retry around send_with_compat, ReasoningState.applied).       *)
SendsBounded == sends <= attempt + 1 + Cardinality(state.applied)

(* What is reported as the end of a call is beyond help: a retryable answer *)
(* only on the last attempt, a rejection only when no rewrite is left that  *)
(* answers it, and every rewrite that was made has also been sent (the hop  *)
(* cap of send_with_compat cuts none of them off).                          *)
GivesUpOnlyWhenNothingHelps ==
  /\ Ended /\ Retryable(answer.status) => attempt = MaxRetries
  /\ Ended /\ facade = "bridge" => ~Helps(state, answer)
  /\ Ended \/ phase = "backoff" => sends > attempt + Cardinality(state.applied)

(* An upstream that keeps rejecting the same things by name, and could take *)
(* the request without them, gets it in the end, whatever order it complains*)
(* in and however faults come between, unless the faults use up the         *)
(* attempts (the precedence of next_retry).                                 *)
HonestUpstreamIsServed ==
  honest /\ facade = "bridge" /\ phase = "failed" =>
    attempt = MaxRetries /\ Retryable(answer.status)

(* Such an upstream gets everything it would have taken: the body loses     *)
(* only what was rejected, include_usage before the whole of stream_options *)
(* (the order of GENERIC_RULES).                                            *)
NothingLostInVain ==
  LET changed(field) == state.body[field] # asked[field]
  IN  honest =>
        /\ changed("top_p") => "top_p" \in taste
        /\ changed("stream_options") =>
             CASE state.body.stream_options = "noUsage" -> "include_usage" \in taste
               [] OTHER                                 -> "stream_options" \in taste
        /\ changed("parallel_tool_calls") => "parallel_tool_calls" \in taste
        /\ changed("reasoning_effort") =>
             CASE state.body.reasoning_effort = "none" -> "thinking_mode" \in taste
               [] OTHER                                -> "reasoning_effort" \in taste
=============================================================================
