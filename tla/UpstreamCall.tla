---------------------------- MODULE UpstreamCall -----------------------------
(***************************************************************************)
(* One request on its way to the upstream (upstream.rs with the compat     *)
(* policy of compat.rs).  A "bridge" call runs the transport retries       *)
(* around the compat rewrites of one mutable body; a "relay" call retries  *)
(* the same bytes and hands on whatever answer is left.                    *)
(*                                                                         *)
(* Of an error's text the model keeps the needles the policy looks for.    *)
(* The conversion never sends `thinking`, so the rule that strips it finds *)
(* nothing and is left out.                                                *)
(***************************************************************************)
EXTENDS Integers, Sequences, FiniteSets

CONSTANTS
  ChatBodies,   \* chat bodies the conversion may hand over
  Statuses,     \* HTTP statuses the upstream may answer with
  Complaints,   \* sets of needles an error's text may contain
  MaxRetries    \* upstream_max_retries

(* What of a chat body the policy looks at. *)
Bodies ==
  [top_p : {"absent", "given", "clamped"},
   stream_options : {"absent", "usage", "noUsage"},
   parallel_tool_calls : BOOLEAN,
   tool_choice : BOOLEAN,  \* an object: one tool is forced
   reasoning_effort : {"absent", "none", "high", "xhigh"},
   stream : BOOLEAN]

ASSUME CallAssumption ==
  /\ ChatBodies \subseteq Bodies
  /\ Statuses \subseteq 200..599
  /\ MaxRetries \in Nat

VARIABLES
  facade,    \* "bridge" or "relay"
  asked,     \* the body as the caller made it
  state,     \* ReasoningState: body, canonical effort, wire mode, labels
  attempt,   \* transport attempts made before this one
  hops,      \* compat rewrites within this attempt
  phase,     \* "sending", "backoff", "succeeded", "failed", "dropped"
  answer,    \* the answer that ended the last attempt
  sends,     \* history: the answers, or network faults, met so far
  taste,     \* what a consistent upstream rejects
  honest     \* history: the upstream has been consistent so far

vars == <<facade, asked, state, attempt, hops, phase, answer, sends, taste, honest>>

Network == 0  \* the status of a send that met no answer
NoAnswer == [status |-> Network, says |-> {}]

IsSuccess(status) == status \in 200..299
CompatStatuses    == {400, 500, 503}
RetryableStatuses == {429, 500, 502, 503, 504}

GenericRules == <<"top_p", "include_usage", "stream_options", "parallel_tool_calls">>

HopPerGenericRule == Len(GenericRules)

MaxCompatHops == Len(GenericRules) + 3

(* initial_state: the effort the conversion encoded decides the wire mode. *)
InitialState(body) ==
  [body |-> body, canonical |-> body.reasoning_effort, applied |-> {},
   wire |-> IF body.reasoning_effort = "absent" THEN "provider_default"
                                                ELSE "effort_only"]

(* What a generic rule looks for in the body, beside its needle in the text. *)
Carries(body, field) ==
  CASE field = "top_p"               -> body.top_p # "absent"
    [] field = "include_usage"       -> body.stream_options = "usage"
    [] field = "stream_options"      -> body.stream_options # "absent"
    [] field = "parallel_tool_calls" -> body.parallel_tool_calls
    [] OTHER                         -> body.reasoning_effort # "absent"

Rewritten(body, field) ==
  CASE field = "top_p"          -> [body EXCEPT !.top_p = "clamped"]
    [] field = "include_usage"  -> [body EXCEPT !.stream_options = "noUsage"]
    [] field = "stream_options" -> [body EXCEPT !.stream_options = "absent"]
    [] OTHER                    -> [body EXCEPT !.parallel_tool_calls = FALSE]

GenericApplies(s, says, k) ==
  /\ GenericRules[k] \notin s.applied
  /\ GenericRules[k] \in says
  /\ Carries(s.body, GenericRules[k])

ToolChoiceApplies(s, a) ==
  /\ s.canonical = "absent"
  /\ "tool_choice" \notin s.applied
  /\ s.body.tool_choice
  /\ \/ a.status = 400 /\ {"tool_choice", "thinking_mode"} \subseteq a.says
     \/ a.status \in {500, 503} /\ s.body.stream /\ "empty_stream" \in a.says

FallbackApplies(s, says) ==
  /\ "reasoning_effort" \in says
  /\ s.wire # "provider_default"
  /\ "reasoning_effort" \notin s.applied

ApplyGeneric(s, field) ==
  [s EXCEPT !.body = Rewritten(@, field), !.applied = @ \cup {field}]

DisableReasoning(s) ==
  [s EXCEPT !.body.reasoning_effort = "none", !.canonical = "none",
            !.wire = "effort_only", !.applied = @ \cup {"tool_choice"}]

FallBackKeepingField(s) ==
  [s EXCEPT !.wire = "provider_default", !.applied = @ \cup {"reasoning_effort"}]

FallBack(s) ==
  [s EXCEPT !.body.reasoning_effort = "absent", !.wire = "provider_default",
            !.applied = @ \cup {"reasoning_effort"}]

LastRuleFirst(rules) == CHOOSE k \in rules : \A j \in rules : j <= k

FirstRule(rules) == CHOOSE k \in rules : \A j \in rules : k <= j

(* next_retry: the first rule that applies, s itself when none does. *)
NextRetry(s, a) ==
  LET generic == {k \in DOMAIN GenericRules : GenericApplies(s, a.says, k)}
  IN  IF a.status = 400 /\ generic # {}
      THEN ApplyGeneric(s, GenericRules[FirstRule(generic)])
      ELSE IF ToolChoiceApplies(s, a) THEN DisableReasoning(s)
      ELSE IF a.status = 400 /\ FallbackApplies(s, a.says) THEN FallBack(s)
      ELSE s

Helps(s, a) == a.status \in CompatStatuses /\ NextRetry(s, a) # s

Retryable(status) == status = Network \/ status \in RetryableStatuses

(* Back off after this answer rather than report it. *)
TriesAgain(status) == Retryable(status) /\ attempt < MaxRetries

-----------------------------------------------------------------------------
(* The environment: an upstream whose taste does not change.  It rejects   *)
(* fields by name, and it cannot force a tool call while it thinks.        *)
Tastes ==
  SUBSET {"top_p", "include_usage", "stream_options", "parallel_tool_calls",
          "reasoning_effort", "thinking_mode"}

(* Some bodies cannot be made acceptable: a forced call where the effort is *)
(* asked for, or where the field that would switch it off is rejected.      *)
Satisfiable(body, dislikes) ==
  "thinking_mode" \in dislikes /\ body.tool_choice =>
    body.reasoning_effort = "absent" /\ "reasoning_effort" \notin dislikes

Offends(body, field) == Carries(body, field) /\ (field = "top_p" => body.top_p # "clamped")

ForcedWhileThinking(body, dislikes) ==
  "thinking_mode" \in dislikes /\ body.tool_choice /\ body.reasoning_effort # "none"

Consistent(body, dislikes, a) ==
  \/ IsSuccess(a.status)
  \/ Retryable(a.status) /\ a.says = {}
  \/ /\ a.status = 400
     /\ \/ \E f \in dislikes \ {"thinking_mode"} : Offends(body, f) /\ a.says = {f}
        \/ /\ "include_usage" \in dislikes /\ Carries(body, "include_usage")
           /\ a.says = {"include_usage", "stream_options"}
        \/ /\ ForcedWhileThinking(body, dislikes)
           /\ a.says = {"tool_choice", "thinking_mode"}
  \/ /\ a.status \in {500, 503} /\ body.stream
     /\ ForcedWhileThinking(body, dislikes)
     /\ a.says = {"empty_stream"}

Answers ==
  {NoAnswer} \cup {[status |-> s, says |-> c] : s \in Statuses, c \in Complaints}

Meet(a) ==
  /\ sends' = sends + 1
  /\ honest' = (honest /\ Consistent(state.body, taste, a))
  /\ taste' = IF honest' THEN taste ELSE {}

-----------------------------------------------------------------------------
Init ==
  /\ facade \in {"bridge", "relay"}
  /\ asked \in ChatBodies
  /\ state = InitialState(asked)
  /\ attempt = 0 /\ hops = 0 /\ sends = 0
  /\ phase = "sending"
  /\ answer = NoAnswer
  /\ taste \in {d \in Tastes : Satisfiable(asked, d)}
  /\ honest = TRUE

(* A rewrite applies and is sent at once, unless the hop cap is passed. *)
Rewrite(a) ==
  /\ phase = "sending" /\ facade = "bridge"
  /\ Helps(state, a)
  /\ hops + 1 <= MaxCompatHops
  /\ state' = NextRetry(state, a)
  /\ hops' = hops + 1
  /\ Meet(a)
  /\ UNCHANGED <<facade, asked, attempt, phase, answer>>

(* No rewrite, or one too many: the answer is the attempt's. *)
EndsAttempt(a) ==
  /\ phase = "sending"
  /\ facade = "bridge" => ~Helps(state, a) \/ hops + 1 > MaxCompatHops
  /\ state' = IF facade = "bridge" /\ Helps(state, a) THEN NextRetry(state, a) ELSE state
  /\ answer' = a
  /\ Meet(a)
  /\ UNCHANGED <<facade, asked, attempt, hops>>

BackOff(a) ==
  /\ EndsAttempt(a) /\ TriesAgain(a.status)
  /\ phase' = "backoff"

(* An HTTP answer reaches the caller: a success, or any if it is relayed. *)
HandOn(a) ==
  /\ EndsAttempt(a) /\ ~TriesAgain(a.status)
  /\ a.status # Network
  /\ facade = "relay" \/ IsSuccess(a.status)
  /\ phase' = "succeeded"

Fail(a) ==
  /\ EndsAttempt(a) /\ ~TriesAgain(a.status)
  /\ a.status = Network \/ (facade = "bridge" /\ ~IsSuccess(a.status))
  /\ phase' = "failed"

RetryReseeded ==
  /\ phase = "backoff"
  /\ phase' = "sending"
  /\ attempt' = attempt + 1 /\ hops' = 0
  /\ state' = InitialState(asked)
  /\ answer' = NoAnswer
  /\ UNCHANGED <<facade, asked, sends, taste, honest>>

(* The timer fires: the rewrites stay, the hops are counted anew. *)
Retry ==
  /\ phase = "backoff"
  /\ phase' = "sending"
  /\ attempt' = attempt + 1 /\ hops' = 0
  /\ answer' = NoAnswer
  /\ UNCHANGED <<facade, asked, state, sends, taste, honest>>

(* The client goes away while the call is under way. *)
Drop ==
  /\ phase \in {"sending", "backoff"}
  /\ phase' = "dropped"
  /\ UNCHANGED <<facade, asked, state, attempt, hops, answer, sends, taste, honest>>

Next ==
  \/ \E a \in Answers : Rewrite(a) \/ BackOff(a) \/ HandOn(a) \/ Fail(a)
  \/ Retry
  \/ Drop

Spec == Init /\ [][Next]_vars
=============================================================================
