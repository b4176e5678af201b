------------------------- MODULE UpstreamCall_proofs -------------------------
(***************************************************************************)
(* For every set of bodies, statuses and complaints and every number of    *)
(* retries: the sends of a call are bounded, and it gives up only when     *)
(* nothing helps.  Each rewrite spends a label, there are fewer labels     *)
(* than the hop cap, and a send either spends a label or an attempt.  An   *)
(* upstream that keeps to its taste is served, and loses nothing in vain.  *)
(***************************************************************************)
EXTENDS UpstreamCallProperties, FiniteSetTheorems, TLAPS

Labels ==
  {"top_p", "include_usage", "stream_options", "parallel_tool_calls",
   "tool_choice", "reasoning_effort"}

States ==
  [body : Bodies, canonical : {"absent", "none", "high", "xhigh"},
   applied : SUBSET Labels, wire : {"provider_default", "effort_only"}]

Spent == Cardinality(state.applied)

TypeInv ==
  /\ state \in States
  /\ attempt \in 0..MaxRetries
  /\ hops \in Nat
  /\ sends \in Nat
  /\ phase \in {"sending", "backoff", "succeeded", "failed", "dropped"}
  /\ asked \in ChatBodies

(* Hops are labels spent; sends are labels spent and attempts ended. *)
Accounts ==
  /\ hops <= Spent
  /\ phase = "sending" => sends = attempt + Spent
  /\ phase \in {"backoff", "succeeded", "failed"} => sends = attempt + 1 + Spent
  /\ phase = "dropped" => sends <= attempt + 1 + Spent

Verdict ==
  /\ phase = "backoff" => attempt < MaxRetries
  /\ Ended /\ Retryable(answer.status) => attempt = MaxRetries
  /\ Ended /\ facade = "bridge" => ~Helps(state, answer)

CallInv == TypeInv /\ Accounts /\ Verdict

-----------------------------------------------------------------------------
(* There are at most six labels, and a set of them is finite. *)
LEMMA LabelsCount ==
  ASSUME NEW S \in SUBSET Labels
  PROVE  IsFiniteSet(S) /\ Cardinality(S) \in Nat /\ Cardinality(S) <= 6
<1>0. PICK n \in Int : n = 6
  OBVIOUS
<1> DEFINE f == [i \in 1..n |->
                   IF i = 1 THEN "top_p"
                   ELSE IF i = 2 THEN "include_usage"
                   ELSE IF i = 3 THEN "stream_options"
                   ELSE IF i = 4 THEN "parallel_tool_calls"
                   ELSE IF i = 5 THEN "tool_choice" ELSE "reasoning_effort"]
<1>1. f \in Surjection(1..n, Labels)
  <2>1. f \in [1..n -> Labels]
    BY <1>0 DEF Labels
  <2>2. /\ f[1] = "top_p" /\ f[2] = "include_usage" /\ f[3] = "stream_options"
        /\ f[4] = "parallel_tool_calls" /\ f[5] = "tool_choice"
        /\ f[6] = "reasoning_effort"
    BY <1>0
  <2>3. \A l \in Labels : \E i \in 1..n : f[i] = l
    BY <1>0, <2>2 DEF Labels
  <2> QED BY <2>1, <2>3 DEF Surjection
<1>2. IsFiniteSet(1..n) /\ Cardinality(1..n) = 6
  <2>1. 1 \in Int
    OBVIOUS
  <2>2. /\ IsFiniteSet(1..n)
        /\ Cardinality(1..n) = IF 1 > n THEN 0 ELSE n - 1 + 1
    BY <1>0, <2>1, FS_Interval, Zenon
  <2> QED BY <1>0, <2>2
<1>3. IsFiniteSet(Labels) /\ Cardinality(Labels) <= 6
  BY <1>1, <1>2, FS_Surjection
<1>4. IsFiniteSet(S) /\ Cardinality(S) <= Cardinality(Labels)
  BY <1>3, FS_Subset
<1>5. Cardinality(S) \in Nat /\ Cardinality(Labels) \in Nat
  BY <1>3, <1>4, FS_CardinalityType
<1> QED BY <1>3, <1>4, <1>5

(* A label more counts one more. *)
LEMMA LabelSpent ==
  ASSUME NEW S \in SUBSET Labels, NEW l \in Labels, l \notin S
  PROVE  Cardinality(S \cup {l}) = Cardinality(S) + 1
BY LabelsCount, FS_AddElement

(* A nonempty set of rules has a first one. *)
LEMMA FirstRuleIsOne ==
  ASSUME NEW R \in SUBSET (DOMAIN GenericRules), R # {}
  PROVE  FirstRule(R) \in R /\ \A j \in R : FirstRule(R) <= j
<1>1. R \subseteq {1, 2, 3, 4}
  BY DEF GenericRules
<1>2. \E k \in R : \A j \in R : k <= j
  <2>1. CASE 1 \in R
    BY <1>1, <2>1
  <2>2. CASE 1 \notin R /\ 2 \in R
    BY <1>1, <2>2
  <2>3. CASE 1 \notin R /\ 2 \notin R /\ 3 \in R
    BY <1>1, <2>3
  <2>4. CASE 1 \notin R /\ 2 \notin R /\ 3 \notin R
    BY <1>1, <2>4
  <2> QED BY <2>1, <2>2, <2>3, <2>4
<1> QED BY <1>2 DEF FirstRule

(* next_retry either changes nothing or spends a label not yet spent. *)
LEMMA NextRetryEffect ==
  ASSUME NEW s \in States, NEW a
  PROVE  \/ NextRetry(s, a) = s
         \/ /\ NextRetry(s, a) \in States
            /\ \E l \in Labels \ s.applied :
                 NextRetry(s, a).applied = s.applied \cup {l}
<1> DEFINE generic == {k \in DOMAIN GenericRules : GenericApplies(s, a.says, k)}
           k == FirstRule(generic)
<1>1. CASE a.status = 400 /\ generic # {}
  <2>1. k \in DOMAIN GenericRules /\ GenericApplies(s, a.says, k)
    BY <1>1, FirstRuleIsOne
  <2> DEFINE f == GenericRules[k]
  <2>2. f \in Labels \ s.applied
    BY <2>1 DEF GenericApplies, GenericRules, Labels
  <2>3. NextRetry(s, a) = ApplyGeneric(s, f)
    BY <1>1 DEF NextRetry
  <2> HIDE DEF f
  <2>4. Rewritten(s.body, f) \in Bodies
    BY DEF Rewritten, States, Bodies
  <2> HIDE DEF k, generic
  <2>5. s.applied \cup {f} \in SUBSET Labels
    BY <2>2 DEF States
  <2>6. ApplyGeneric(s, f) \in States
    BY <2>4, <2>5 DEF ApplyGeneric, States
  <2>7. ApplyGeneric(s, f).applied = s.applied \cup {f}
    BY DEF ApplyGeneric, States
  <2> QED BY <2>2, <2>3, <2>6, <2>7
<1>2. CASE ~(a.status = 400 /\ generic # {}) /\ ToolChoiceApplies(s, a)
  <2>1. NextRetry(s, a) = DisableReasoning(s)
    BY <1>2 DEF NextRetry
  <2>2. "tool_choice" \in Labels \ s.applied
    BY <1>2 DEF ToolChoiceApplies, Labels
  <2>3. [s.body EXCEPT !.reasoning_effort = "none"] \in Bodies
    BY DEF States, Bodies
  <2> QED BY <2>1, <2>2, <2>3 DEF DisableReasoning, States
<1>3. CASE /\ ~(a.status = 400 /\ generic # {}) /\ ~ToolChoiceApplies(s, a)
           /\ a.status = 400 /\ FallbackApplies(s, a.says)
  <2>1. NextRetry(s, a) = FallBack(s)
    BY <1>3 DEF NextRetry
  <2>2. "reasoning_effort" \in Labels \ s.applied
    BY <1>3 DEF FallbackApplies, Labels
  <2>3. [s.body EXCEPT !.reasoning_effort = "absent"] \in Bodies
    BY DEF States, Bodies
  <2> QED BY <2>1, <2>2, <2>3 DEF FallBack, States
<1>4. CASE /\ ~(a.status = 400 /\ generic # {}) /\ ~ToolChoiceApplies(s, a)
           /\ ~(a.status = 400 /\ FallbackApplies(s, a.says))
  BY <1>4 DEF NextRetry
<1> QED BY <1>1, <1>2, <1>3, <1>4

(* A rewrite that helps spends a label, so the hop cap is out of reach. *)
LEMMA RewriteSpends ==
  ASSUME CallInv, NEW a, Helps(state, a)
  PROVE  /\ NextRetry(state, a) \in States
         /\ Cardinality(NextRetry(state, a).applied) = Spent + 1
         /\ hops + 1 <= 6
<1>1. state \in States /\ hops \in Nat /\ hops <= Spent
  BY DEF CallInv, TypeInv, Accounts
<1>2. PICK l \in Labels \ state.applied :
        /\ NextRetry(state, a) \in States
        /\ NextRetry(state, a).applied = state.applied \cup {l}
  BY <1>1, NextRetryEffect DEF Helps
<1>3. state.applied \in SUBSET Labels /\ state.applied \cup {l} \in SUBSET Labels
  BY <1>1 DEF States
<1>4. Cardinality(NextRetry(state, a).applied) = Spent + 1
  BY <1>2, <1>3, LabelSpent DEF Spent
<1>5. Spent \in Nat /\ Spent + 1 <= 6
  BY <1>2, <1>3, <1>4, LabelsCount DEF Spent
<1> QED BY <1>1, <1>2, <1>4, <1>5

LEMMA HopCapValue == MaxCompatHops = 7
BY DEF MaxCompatHops, GenericRules

-----------------------------------------------------------------------------
(* A call begins with no label spent. *)
LEMMA CallInvInit == Init => CallInv
<1> SUFFICES ASSUME Init PROVE CallInv
  OBVIOUS
<1>1. asked \in Bodies /\ state = InitialState(asked)
  BY CallAssumption DEF Init, CallAssumption
<1>2. state \in States /\ state.applied = {}
  BY <1>1 DEF InitialState, States, Bodies
<1>3. Spent = 0
  BY <1>2, FS_EmptySet DEF Spent
<1>4. TypeInv
  BY <1>2, CallAssumption DEF Init, TypeInv, CallAssumption
<1> QED BY <1>3, <1>4 DEF Init, CallInv, Accounts, Verdict, Ended

(* A rewrite spends one label, one hop and one send. *)
LEMMA RewriteStep ==
  ASSUME CallInv, NEW a, Rewrite(a)
  PROVE  CallInv'
<1>1. /\ state' = NextRetry(state, a) /\ hops' = hops + 1 /\ sends' = sends + 1
      /\ phase = "sending" /\ phase' = phase /\ attempt' = attempt
      /\ asked' = asked /\ facade' = facade /\ Helps(state, a)
  BY DEF Rewrite, Meet
<1>2. state' \in States /\ Spent' = Spent + 1
  BY <1>1, RewriteSpends DEF Spent
<1>3. Spent \in Nat
  BY LabelsCount DEF CallInv, TypeInv, States, Spent
<1>4. TypeInv'
  BY <1>1, <1>2 DEF CallInv, TypeInv
<1>5. Accounts'
  BY <1>1, <1>2, <1>3 DEF CallInv, TypeInv, Accounts
<1>6. Verdict'
  BY <1>1 DEF Verdict, Ended
<1> QED BY <1>4, <1>5, <1>6 DEF CallInv

(* The end of an attempt leaves the labels alone: the cap is never passed. *)
LEMMA AttemptEnds ==
  ASSUME CallInv, NEW a, EndsAttempt(a),
         phase' \in {"backoff", "succeeded", "failed"}
  PROVE  /\ TypeInv' /\ Accounts'
         /\ state' = state /\ attempt' = attempt
         /\ facade' = facade /\ answer' = a
         /\ facade = "bridge" => ~Helps(state, a)
<1>1. /\ phase = "sending" /\ sends' = sends + 1 /\ hops' = hops
      /\ attempt' = attempt /\ asked' = asked /\ facade' = facade /\ answer' = a
      /\ facade = "bridge" => ~Helps(state, a) \/ hops + 1 > MaxCompatHops
      /\ state' = IF facade = "bridge" /\ Helps(state, a)
                  THEN NextRetry(state, a) ELSE state
  BY DEF EndsAttempt, Meet
<1>2. facade = "bridge" => ~Helps(state, a)
  <2> SUFFICES ASSUME facade = "bridge", Helps(state, a) PROVE FALSE
    OBVIOUS
  <2>1. hops + 1 <= 6 /\ hops \in Nat
    BY RewriteSpends DEF CallInv, TypeInv
  <2> QED BY <1>1, <2>1, HopCapValue
<1>3. state' = state
  BY <1>1, <1>2
<1>4. Spent \in Nat /\ Spent' = Spent
  BY <1>3, LabelsCount DEF CallInv, TypeInv, States, Spent
<1>5. TypeInv'
  BY <1>1, <1>3 DEF CallInv, TypeInv
<1>6. Accounts'
  BY <1>1, <1>4 DEF CallInv, TypeInv, Accounts
<1> QED BY <1>1, <1>2, <1>3, <1>5, <1>6

(* An attempt that is tried again is not the last one. *)
LEMMA BackOffStep ==
  ASSUME CallInv, NEW a, BackOff(a)
  PROVE  CallInv'
<1>1. EndsAttempt(a) /\ phase' = "backoff" /\ attempt < MaxRetries
  BY DEF BackOff, TriesAgain
<1>2. TypeInv' /\ Accounts' /\ attempt' = attempt
  BY <1>1, AttemptEnds
<1>3. Verdict'
  BY <1>1, <1>2 DEF Verdict, Ended
<1> QED BY <1>2, <1>3 DEF CallInv

(* An answer that ends the call is beyond help. *)
LEMMA EndStep ==
  ASSUME CallInv, NEW a, HandOn(a) \/ Fail(a)
  PROVE  CallInv'
<1>1. EndsAttempt(a) /\ phase' \in {"succeeded", "failed"} /\ ~TriesAgain(a.status)
  BY DEF HandOn, Fail
<1>2. /\ TypeInv' /\ Accounts' /\ state' = state /\ attempt' = attempt
      /\ facade' = facade /\ answer' = a
      /\ facade = "bridge" => ~Helps(state, a)
  BY <1>1, AttemptEnds
<1>3. Retryable(a.status) => attempt = MaxRetries
  BY <1>1, CallAssumption DEF TriesAgain, CallInv, TypeInv, CallAssumption
<1>4. Helps(state, answer)' <=> Helps(state, a)
  BY <1>2
<1>5. Verdict'
  <2>1. Retryable(answer.status)' <=> Retryable(a.status)
    BY <1>2 DEF Retryable, RetryableStatuses, Network
  <2>2. phase' # "backoff"
    BY <1>1
  <2> QED BY <1>2, <1>3, <1>4, <2>1, <2>2 DEF Verdict
<1> QED BY <1>2, <1>5 DEF CallInv

(* A retry keeps the labels and begins its hops anew. *)
LEMMA RetryStep ==
  ASSUME CallInv, Retry
  PROVE  CallInv'
<1>1. /\ phase = "backoff" /\ phase' = "sending" /\ attempt' = attempt + 1
      /\ hops' = 0 /\ state' = state /\ sends' = sends /\ asked' = asked
  BY DEF Retry
<1>2. attempt < MaxRetries /\ sends = attempt + 1 + Spent
  BY <1>1 DEF CallInv, Verdict, Accounts
<1>3. Spent \in Nat /\ Spent' = Spent
  BY <1>1, LabelsCount DEF CallInv, TypeInv, States, Spent
<1>4. TypeInv'
  BY <1>1, <1>2, CallAssumption DEF CallInv, TypeInv, CallAssumption
<1>5. Accounts'
  BY <1>1, <1>2, <1>3 DEF CallInv, TypeInv, Accounts
<1>6. Verdict'
  BY <1>1 DEF Verdict, Ended
<1> QED BY <1>4, <1>5, <1>6 DEF CallInv

(* A dropped call sends nothing more. *)
LEMMA DropStep ==
  ASSUME CallInv, Drop
  PROVE  CallInv'
<1>1. /\ phase \in {"sending", "backoff"} /\ phase' = "dropped"
      /\ attempt' = attempt /\ hops' = hops /\ state' = state
      /\ sends' = sends /\ asked' = asked
  BY DEF Drop
<1>2. Spent \in Nat /\ Spent' = Spent
  BY <1>1, LabelsCount DEF CallInv, TypeInv, States, Spent
<1>3. TypeInv'
  BY <1>1 DEF CallInv, TypeInv
<1>4. Accounts'
  BY <1>1, <1>2 DEF CallInv, TypeInv, Accounts
<1>5. Verdict'
  BY <1>1 DEF Verdict, Ended
<1> QED BY <1>3, <1>4, <1>5 DEF CallInv

(* The invariant holds throughout. *)
LEMMA CallInvariant == Spec => []CallInv
<1>1. CallInv /\ [Next]_vars => CallInv'
  <2> SUFFICES ASSUME CallInv, [Next]_vars PROVE CallInv'
    OBVIOUS
  <2>1. CASE \E a \in Answers : Rewrite(a) \/ BackOff(a) \/ HandOn(a) \/ Fail(a)
    BY <2>1, RewriteStep, BackOffStep, EndStep
  <2>2. CASE Retry
    BY <2>2, RetryStep
  <2>3. CASE Drop
    BY <2>3, DropStep
  <2>4. CASE UNCHANGED vars
    BY <2>4 DEF vars, CallInv, TypeInv, Accounts, Verdict, Spent, Ended
  <2> QED BY <2>1, <2>2, <2>3, <2>4 DEF Next
<1> QED BY CallInvInit, <1>1, PTL DEF Spec

(* The upstream sees no more sends than attempts and rewrites.              *)
THEOREM SendsAreBounded == Spec => []SendsBounded
<1>1. CallInv => SendsBounded
  <2> SUFFICES ASSUME CallInv PROVE SendsBounded
    OBVIOUS
  <2>1. Spent \in Nat
    BY LabelsCount DEF CallInv, TypeInv, States, Spent
  <2> QED BY <2>1 DEF CallInv, TypeInv, Accounts, SendsBounded, Spent
<1> QED BY <1>1, CallInvariant, PTL

(* In numbers: one send per attempt and one per compat rule, in the worst   *)
(* of cases, of send_with_retry and send_with_compat together.              *)
THEOREM SendsInNumbers == Spec => [](sends <= MaxRetries + 7)
<1>1. CallInv => sends <= MaxRetries + 7
  <2> SUFFICES ASSUME CallInv PROVE sends <= MaxRetries + 7
    OBVIOUS
  <2>1. Spent \in Nat /\ Spent <= 6
    BY LabelsCount DEF CallInv, TypeInv, States, Spent
  <2> QED BY <2>1, CallAssumption DEF CallInv, TypeInv, Accounts, CallAssumption
<1> QED BY <1>1, CallInvariant, PTL

(* A call ends badly only when no retry and no rewrite is left, and every   *)
(* rewrite made has been sent: the hop cap never bites.                     *)
THEOREM NothingHelpsAfterGivingUp == Spec => []GivesUpOnlyWhenNothingHelps
<1>1. CallInv => GivesUpOnlyWhenNothingHelps
  <2> SUFFICES ASSUME CallInv PROVE GivesUpOnlyWhenNothingHelps
    OBVIOUS
  <2>1. Spent \in Nat
    BY LabelsCount DEF CallInv, TypeInv, States, Spent
  <2>2. Ended \/ phase = "backoff" => sends > attempt + Cardinality(state.applied)
    BY <2>1 DEF CallInv, TypeInv, Accounts, Ended, Spent
  <2> QED BY <2>2 DEF CallInv, Verdict, GivesUpOnlyWhenNothingHelps
<1> QED BY <1>1, CallInvariant, PTL
-----------------------------------------------------------------------------
(* What a state of the policy owes an upstream of this taste: every label   *)
(* spent was asked for, has done its work, and no other can undo it.        *)
Earned(s, body, dislikes) ==
  /\ Satisfiable(body, dislikes)
  /\ s.body.tool_choice <=> body.tool_choice
  /\ "top_p" \in s.applied => s.body.top_p = "clamped"
  /\ s.body.top_p # body.top_p => "top_p" \in dislikes
  /\ "include_usage" \in s.applied => s.body.stream_options # "usage"
  /\ "stream_options" \in s.applied => s.body.stream_options = "absent"
  /\ s.body.stream_options # body.stream_options =>
       IF s.body.stream_options = "noUsage" THEN "include_usage" \in dislikes
                                            ELSE "stream_options" \in dislikes
  /\ "parallel_tool_calls" \in s.applied => ~s.body.parallel_tool_calls
  /\ ~(s.body.parallel_tool_calls <=> body.parallel_tool_calls) =>
       "parallel_tool_calls" \in dislikes

EarnedEffort(s, body, dislikes) ==
  /\ "reasoning_effort" \in s.applied =>
       "reasoning_effort" \in dislikes /\ s.body.reasoning_effort = "absent"
  /\ "tool_choice" \in s.applied =>
       "thinking_mode" \in dislikes /\ body.tool_choice /\ s.body.reasoning_effort = "none"
  /\ "tool_choice" \notin s.applied => s.canonical = body.reasoning_effort
  /\ s.applied \cap {"tool_choice", "reasoning_effort"} = {} =>
       s.body.reasoning_effort = body.reasoning_effort
  /\ s.body.reasoning_effort # "absent" => s.wire # "provider_default"

Fair(s, body, dislikes) == Earned(s, body, dislikes) /\ EarnedEffort(s, body, dislikes)

(* It holds as long as the upstream is consistent. *)
HonestInv == honest => taste \in Tastes /\ Fair(state, asked, taste)

(* next_retry tries the generic rules first and in order, then the forced   *)
(* tool, then the effort.                                                   *)
LEMMA NextRetryCases ==
  ASSUME NEW s, NEW a
  PROVE  \/ \E k \in DOMAIN GenericRules :
              /\ a.status = 400 /\ GenericApplies(s, a.says, k)
              /\ \A j \in DOMAIN GenericRules : GenericApplies(s, a.says, j) => k <= j
              /\ NextRetry(s, a) = ApplyGeneric(s, GenericRules[k])
         \/ ToolChoiceApplies(s, a) /\ NextRetry(s, a) = DisableReasoning(s)
         \/ a.status = 400 /\ FallbackApplies(s, a.says) /\ NextRetry(s, a) = FallBack(s)
         \/ /\ NextRetry(s, a) = s /\ ~ToolChoiceApplies(s, a)
            /\ a.status = 400 => /\ ~FallbackApplies(s, a.says)
                                 /\ \A k \in DOMAIN GenericRules : ~GenericApplies(s, a.says, k)
<1> DEFINE generic == {k \in DOMAIN GenericRules : GenericApplies(s, a.says, k)}
<1>1. CASE a.status = 400 /\ generic # {}
  <2>1. FirstRule(generic) \in generic /\ \A j \in generic : FirstRule(generic) <= j
    BY <1>1, FirstRuleIsOne
  <2>2. NextRetry(s, a) = ApplyGeneric(s, GenericRules[FirstRule(generic)])
    BY <1>1 DEF NextRetry
  <2> QED BY <1>1, <2>1, <2>2
<1>2. CASE ~(a.status = 400 /\ generic # {})
  BY <1>2 DEF NextRetry
<1> QED BY <1>1, <1>2

(* An upstream of this taste that rejects a body does so for a field it     *)
(* carries, or because it must call a tool while it thinks.                 *)
LEMMA Complains ==
  ASSUME NEW body, NEW dislikes, NEW a, Consistent(body, dislikes, a),
         ~IsSuccess(a.status), a.says # {}
  PROVE  \/ /\ a.status = 400
            /\ \E f \in dislikes \ {"thinking_mode"} : Offends(body, f) /\ a.says = {f}
         \/ /\ a.status = 400 /\ a.says = {"include_usage", "stream_options"}
            /\ "include_usage" \in dislikes /\ Carries(body, "include_usage")
         \/ /\ ForcedWhileThinking(body, dislikes)
            /\ a.says \in {{"tool_choice", "thinking_mode"}, {"empty_stream"}}
            /\ \/ a.status = 400 /\ a.says = {"tool_choice", "thinking_mode"}
               \/ a.status \in {500, 503} /\ body.stream /\ a.says = {"empty_stream"}
  BY DEF Consistent

(* The statuses that ask for a rewrite are no successes. *)
LEMMA RejectionsAreNoSuccess ==
  ASSUME NEW status \in {400, 500, 503} PROVE ~IsSuccess(status)
  BY DEF IsSuccess

(* What a consistent upstream rejects is what a rewrite takes away. *)
LEMMA RewriteIsEarned ==
  ASSUME NEW s \in States, NEW body \in Bodies, NEW dislikes, NEW a,
         Fair(s, body, dislikes), Consistent(s.body, dislikes, a)
  PROVE  Fair(NextRetry(s, a), body, dislikes)
<1>1. CASE \E k \in DOMAIN GenericRules :
             /\ a.status = 400 /\ GenericApplies(s, a.says, k)
             /\ \A j \in DOMAIN GenericRules : GenericApplies(s, a.says, j) => k <= j
             /\ NextRetry(s, a) = ApplyGeneric(s, GenericRules[k])
  <2>1. PICK k \in DOMAIN GenericRules :
             /\ a.status = 400 /\ GenericApplies(s, a.says, k)
             /\ \A j \in DOMAIN GenericRules : GenericApplies(s, a.says, j) => k <= j
             /\ NextRetry(s, a) = ApplyGeneric(s, GenericRules[k])
    BY <1>1
  <2>2. PICK f : f = GenericRules[k]
    OBVIOUS
  <2>3. /\ f \in {"top_p", "include_usage", "stream_options", "parallel_tool_calls"}
        /\ f \in a.says /\ Carries(s.body, f)
    BY <2>1, <2>2 DEF GenericApplies, GenericRules
  <2>4. f \in dislikes
    <3>1. ~IsSuccess(a.status) /\ a.says # {}
      BY <2>1, <2>3, RejectionsAreNoSuccess
    <3>2. CASE a.says = {"include_usage", "stream_options"} /\ "include_usage" \in dislikes
               /\ Carries(s.body, "include_usage")
      <4>1. "include_usage" \notin s.applied
        BY <3>2 DEF Fair, Earned, Carries
      <4>2. GenericApplies(s, a.says, 2)
        BY <3>2, <4>1 DEF GenericApplies, GenericRules
      <4>3. k <= 2 /\ k \in {1, 2, 3, 4}
        BY <2>1, <4>2 DEF GenericRules
      <4>4. f # "stream_options"
        BY <2>2, <4>3 DEF GenericRules
      <4>5. QED
        BY <2>3, <3>2, <4>4
    <3>3. CASE \E g \in dislikes \ {"thinking_mode"} : a.says = {g}
      BY <2>3, <3>3
    <3>4. CASE a.says \in {{"tool_choice", "thinking_mode"}, {"empty_stream"}}
      BY <2>3, <3>4
    <3>5. QED
      BY <3>1, <3>2, <3>3, <3>4, Complains
  <2>5. NextRetry(s, a) = [s EXCEPT !.body = Rewritten(s.body, f), !.applied = s.applied \cup {f}]
    BY <2>1, <2>2 DEF ApplyGeneric
  <2>6. PICK n : n = NextRetry(s, a)
    OBVIOUS
  <2>7. /\ n.body = Rewritten(s.body, f) /\ n.applied = s.applied \cup {f}
        /\ n.canonical = s.canonical /\ n.wire = s.wire
    BY <2>5, <2>6 DEF States
  <2>8. s.body \in Bodies /\ s.applied \in SUBSET Labels
    BY DEF States
  <2>9. /\ n.body.tool_choice = s.body.tool_choice
        /\ n.body.reasoning_effort = s.body.reasoning_effort
        /\ n.body.top_p = IF f = "top_p" THEN "clamped" ELSE s.body.top_p
        /\ n.body.stream_options = IF f = "include_usage" THEN "noUsage"
                                   ELSE IF f = "stream_options" THEN "absent"
                                   ELSE s.body.stream_options
        /\ n.body.parallel_tool_calls = IF f = "parallel_tool_calls" THEN FALSE
                                        ELSE s.body.parallel_tool_calls
    BY <2>3, <2>7, <2>8 DEF Rewritten, Bodies
  <2>10. Earned(n, body, dislikes)
    BY <2>3, <2>4, <2>7, <2>9 DEF Fair, Earned, Carries
  <2>11. EarnedEffort(n, body, dislikes)
    BY <2>3, <2>7, <2>9 DEF Fair, EarnedEffort
  <2>12. QED
    BY <2>6, <2>10, <2>11 DEF Fair
<1>2. CASE ToolChoiceApplies(s, a) /\ NextRetry(s, a) = DisableReasoning(s)
  <2>1. a.says # {} /\ ~IsSuccess(a.status)
    BY <1>2, RejectionsAreNoSuccess DEF ToolChoiceApplies
  <2>2. ForcedWhileThinking(s.body, dislikes)
    <3>1. \A g : a.says # {g} \/ g = "empty_stream" \/ a.status # 400
      BY <1>2 DEF ToolChoiceApplies
    <3>2. a.status = 400 => "tool_choice" \in a.says
      BY <1>2 DEF ToolChoiceApplies
    <3>3. QED
      BY <2>1, <3>2, <1>2, Complains DEF ToolChoiceApplies
  <2>3. "thinking_mode" \in dislikes /\ body.tool_choice
    BY <2>2 DEF ForcedWhileThinking, Fair, Earned
  <2>4. "reasoning_effort" \notin s.applied
    BY <2>3 DEF Fair, Earned, EarnedEffort, Satisfiable
  <2>5. PICK n : n = NextRetry(s, a)
    OBVIOUS
  <2>6. /\ n.body = [s.body EXCEPT !.reasoning_effort = "none"] /\ n.wire = "effort_only"
        /\ n.applied = s.applied \cup {"tool_choice"}
    BY <1>2, <2>5 DEF DisableReasoning, States
  <2>7. /\ n.body.reasoning_effort = "none" /\ n.body.tool_choice = s.body.tool_choice
        /\ n.body.top_p = s.body.top_p /\ n.body.stream_options = s.body.stream_options
        /\ n.body.parallel_tool_calls = s.body.parallel_tool_calls
    BY <2>6 DEF States, Bodies
  <2>8. Earned(n, body, dislikes)
    BY <2>6, <2>7 DEF Fair, Earned
  <2>9. EarnedEffort(n, body, dislikes)
    BY <2>3, <2>4, <2>6, <2>7 DEF EarnedEffort
  <2>10. QED
    BY <2>5, <2>8, <2>9 DEF Fair
<1>3. CASE a.status = 400 /\ FallbackApplies(s, a.says) /\ NextRetry(s, a) = FallBack(s)
  <2>1. a.says # {} /\ ~IsSuccess(a.status) /\ "reasoning_effort" \in a.says
    BY <1>3, RejectionsAreNoSuccess DEF FallbackApplies
  <2>2. "reasoning_effort" \in dislikes
    BY <2>1, Complains
  <2>3. "tool_choice" \notin s.applied
    BY <2>2 DEF Fair, Earned, EarnedEffort, Satisfiable
  <2>4. PICK n : n = NextRetry(s, a)
    OBVIOUS
  <2>5. /\ n.body = [s.body EXCEPT !.reasoning_effort = "absent"]
        /\ n.canonical = s.canonical
        /\ n.applied = s.applied \cup {"reasoning_effort"}
    BY <1>3, <2>4 DEF FallBack, States
  <2>6. /\ n.body.reasoning_effort = "absent" /\ n.body.tool_choice = s.body.tool_choice
        /\ n.body.top_p = s.body.top_p /\ n.body.stream_options = s.body.stream_options
        /\ n.body.parallel_tool_calls = s.body.parallel_tool_calls
    BY <2>5 DEF States, Bodies
  <2>7. Earned(n, body, dislikes)
    BY <2>5, <2>6 DEF Fair, Earned
  <2>8. EarnedEffort(n, body, dislikes)
    BY <2>2, <2>3, <2>5, <2>6 DEF Fair, EarnedEffort
  <2>9. QED
    BY <2>4, <2>7, <2>8 DEF Fair
<1>4. CASE NextRetry(s, a) = s
  BY <1>4
<1>5. QED
  BY <1>1, <1>2, <1>3, <1>4, NextRetryCases

(* Whatever such an upstream rejects, a rewrite answers. *)
LEMMA RejectionIsAnswered ==
  ASSUME NEW s \in States, NEW body \in Bodies, NEW dislikes \in Tastes, NEW a,
         Fair(s, body, dislikes), Consistent(s.body, dislikes, a),
         ~IsSuccess(a.status), ~Retryable(a.status)
  PROVE  Helps(s, a)
<1>1. a.status \in CompatStatuses
  BY DEF Consistent, CompatStatuses
<1>2. a.status = 400
  BY <1>1 DEF CompatStatuses, Retryable, RetryableStatuses
<1>3. a.says # {}
  BY <1>2 DEF Consistent
<1>4. ASSUME NextRetry(s, a) = s
      PROVE  /\ ~ToolChoiceApplies(s, a) /\ ~FallbackApplies(s, a.says)
             /\ \A k \in DOMAIN GenericRules : ~GenericApplies(s, a.says, k)
  <2>1. ASSUME NEW k \in DOMAIN GenericRules, GenericApplies(s, a.says, k),
               NextRetry(s, a) = ApplyGeneric(s, GenericRules[k])
        PROVE  FALSE
    BY <1>4, <2>1 DEF GenericApplies, ApplyGeneric, States
  <2>2. ~(ToolChoiceApplies(s, a) /\ NextRetry(s, a) = DisableReasoning(s))
    <3>1. DisableReasoning(s).canonical = "none"
      BY DEF DisableReasoning, States
    <3>2. ToolChoiceApplies(s, a) => s.canonical = "absent"
      BY DEF ToolChoiceApplies
    <3>3. QED
      BY <1>4, <3>1, <3>2
  <2>3. ~(FallbackApplies(s, a.says) /\ NextRetry(s, a) = FallBack(s))
    BY <1>4 DEF FallbackApplies, FallBack, States
  <2>4. QED
    BY <1>2, <2>1, <2>2, <2>3, NextRetryCases
<1>5. CASE \E f \in dislikes \ {"thinking_mode"} : Offends(s.body, f) /\ a.says = {f}
  <2>1. PICK f \in dislikes \ {"thinking_mode"} : Offends(s.body, f) /\ a.says = {f}
    BY <1>5
  <2>2. f \in {"top_p", "include_usage", "stream_options", "parallel_tool_calls",
               "reasoning_effort"}
    BY <2>1 DEF Tastes
  <2>3. CASE f = "reasoning_effort"
    <3>1. s.body.reasoning_effort # "absent"
      BY <2>1, <2>3 DEF Offends, Carries
    <3>2. FallbackApplies(s, a.says)
      BY <2>1, <2>3, <3>1 DEF FallbackApplies, Fair, EarnedEffort
    <3>3. QED
      BY <1>1, <1>4, <3>2 DEF Helps
  <2>4. CASE f # "reasoning_effort"
    <3>1. f \notin s.applied /\ Carries(s.body, f)
      BY <2>1, <2>2, <2>4 DEF Offends, Carries, Fair, Earned
    <3>2. \E k \in DOMAIN GenericRules : GenericRules[k] = f
      <4>1. /\ GenericRules[1] = "top_p" /\ GenericRules[2] = "include_usage"
            /\ GenericRules[3] = "stream_options" /\ GenericRules[4] = "parallel_tool_calls"
            /\ {1, 2, 3, 4} = DOMAIN GenericRules
        BY DEF GenericRules
      <4>2. QED
        BY <2>2, <2>4, <4>1
    <3>3. QED
      BY <1>1, <1>4, <2>1, <3>1, <3>2 DEF GenericApplies, Helps
  <2>5. QED
    BY <2>3, <2>4
<1>6. CASE /\ a.says = {"include_usage", "stream_options"}
           /\ "include_usage" \in dislikes /\ Carries(s.body, "include_usage")
  <2>1. "include_usage" \notin s.applied
    BY <1>6 DEF Carries, Fair, Earned
  <2>2. GenericApplies(s, a.says, 2) /\ 2 \in DOMAIN GenericRules
    BY <1>6, <2>1 DEF GenericApplies, GenericRules
  <2>3. QED
    BY <1>1, <1>4, <2>2 DEF Helps
<1>7. CASE ForcedWhileThinking(s.body, dislikes) /\ a.says = {"tool_choice", "thinking_mode"}
  <2>1. /\ "thinking_mode" \in dislikes /\ s.body.tool_choice /\ body.tool_choice
        /\ s.body.reasoning_effort # "none"
    BY <1>7 DEF ForcedWhileThinking, Fair, Earned
  <2>2. body.reasoning_effort = "absent"
    BY <2>1 DEF Fair, Earned, Satisfiable
  <2>3. "tool_choice" \notin s.applied /\ s.canonical = "absent"
    BY <2>1, <2>2 DEF Fair, EarnedEffort
  <2>4. ToolChoiceApplies(s, a)
    BY <1>2, <1>7, <2>1, <2>3 DEF ToolChoiceApplies
  <2>5. QED
    BY <1>1, <1>4, <2>4 DEF Helps
<1>8. QED
  BY <1>2, <1>3, <1>5, <1>6, <1>7, Complains

-----------------------------------------------------------------------------
(* A call begins owing nothing, and a consistent upstream keeps its taste. *)
LEMMA HonestInvInit == Init => HonestInv
<1> SUFFICES ASSUME Init PROVE Fair(state, asked, taste)
  BY DEF HonestInv, Init
<1>1. asked \in Bodies /\ state = InitialState(asked) /\ Satisfiable(asked, taste)
  BY CallAssumption DEF Init, CallAssumption
<1>2. /\ state.body = asked /\ state.applied = {} /\ state.canonical = asked.reasoning_effort
      /\ asked.reasoning_effort # "absent" => state.wire = "effort_only"
  BY <1>1 DEF InitialState
<1>3. QED
  BY <1>1, <1>2 DEF Fair, Earned, EarnedEffort

LEMMA StillHonest ==
  ASSUME NEW a, Meet(a), honest'
  PROVE  honest /\ Consistent(state.body, taste, a) /\ taste' = taste
<1>1. honest /\ Consistent(state.body, taste, a)
  BY DEF Meet
<1>2. taste' = taste
  BY DEF Meet
<1>3. QED
  BY <1>1, <1>2

LEMMA HonestInvNext == CallInv /\ HonestInv /\ [Next]_vars => HonestInv'
<1> SUFFICES ASSUME CallInv, HonestInv, [Next]_vars, honest'
             PROVE  (taste \in Tastes /\ Fair(state, asked, taste))'
  BY DEF HonestInv
<1>1. state \in States /\ asked \in Bodies
  BY CallAssumption DEF CallInv, TypeInv, CallAssumption
<1>2. ASSUME NEW a, Rewrite(a)
      PROVE  (taste \in Tastes /\ Fair(state, asked, taste))'
  <2>1. state' = NextRetry(state, a) /\ asked' = asked /\ Meet(a)
    BY <1>2 DEF Rewrite
  <2>2. honest /\ Consistent(state.body, taste, a) /\ taste' = taste
    BY <2>1, StillHonest
  <2>3. Fair(NextRetry(state, a), asked, taste)
    BY <1>1, <2>2, RewriteIsEarned DEF HonestInv
  <2>4. QED
    BY <2>1, <2>2, <2>3 DEF HonestInv
<1>3. ASSUME NEW a, BackOff(a) \/ HandOn(a) \/ Fail(a)
      PROVE  (taste \in Tastes /\ Fair(state, asked, taste))'
  <2>1. EndsAttempt(a) /\ phase' \in {"backoff", "succeeded", "failed"} /\ Meet(a)
        /\ asked' = asked
    BY <1>3 DEF BackOff, HandOn, Fail, EndsAttempt
  <2>2. state' = state
    BY <2>1, AttemptEnds
  <2>3. honest /\ taste' = taste
    BY <2>1, StillHonest
  <2>4. QED
    BY <2>1, <2>2, <2>3 DEF HonestInv
<1>4. CASE Retry \/ Drop \/ UNCHANGED vars
  BY <1>4 DEF Retry, Drop, vars, HonestInv
<1>5. QED
  BY <1>2, <1>3, <1>4 DEF Next

(* A consistent upstream loses no field of the request that it would have   *)
(* taken, whatever else went wrong (the order of GENERIC_RULES).            *)
THEOREM NothingIsLostInVain == Spec => []NothingLostInVain
<1>1. CallInv /\ HonestInv => NothingLostInVain
  <2> SUFFICES ASSUME CallInv, HonestInv, honest PROVE NothingLostInVain
    BY DEF NothingLostInVain
  <2>1. /\ Earned(state, asked, taste) /\ EarnedEffort(state, asked, taste)
        /\ state.body \in Bodies /\ asked \in Bodies
    BY CallAssumption DEF HonestInv, Fair, CallInv, TypeInv, States, CallAssumption
  <2>2. state.body.reasoning_effort # asked.reasoning_effort =>
          IF state.body.reasoning_effort = "none" THEN "thinking_mode" \in taste
                                                  ELSE "reasoning_effort" \in taste
    BY <2>1 DEF EarnedEffort, Earned, Satisfiable
  <2>3. state.body.parallel_tool_calls # asked.parallel_tool_calls =>
          "parallel_tool_calls" \in taste
    BY <2>1 DEF Earned, Bodies
  <2>4. QED
    BY <2>1, <2>2, <2>3 DEF Earned, NothingLostInVain
<1>2. QED
  BY <1>1, CallInvariant, HonestInvInit, HonestInvNext, PTL DEF Spec

(* A consistent upstream that names what it rejects is served in the end,   *)
(* unless faults have used up the attempts (next_retry).                    *)
THEOREM HonestUpstreamIsServedInTheEnd == Spec => []HonestUpstreamIsServed
<1>1. Init => HonestUpstreamIsServed
  BY DEF Init, HonestUpstreamIsServed
<1>2. CallInv /\ HonestInv /\ HonestUpstreamIsServed /\ [Next]_vars => HonestUpstreamIsServed'
  <2> SUFFICES ASSUME CallInv, HonestInv, HonestUpstreamIsServed, [Next]_vars
               PROVE  HonestUpstreamIsServed'
    OBVIOUS
  <2>1. ASSUME NEW a, Fail(a), honest', facade' = "bridge"
        PROVE  attempt' = MaxRetries /\ Retryable(answer.status)'
    <3>1. /\ EndsAttempt(a) /\ ~TriesAgain(a.status) /\ phase' = "failed" /\ Meet(a)
          /\ a.status = Network \/ ~IsSuccess(a.status)
      BY <2>1 DEF Fail, EndsAttempt
    <3>2. /\ facade = "bridge" /\ attempt' = attempt /\ answer' = a
          /\ state' = state /\ ~Helps(state, a)
      BY <2>1, <3>1, AttemptEnds
    <3>3. honest /\ Consistent(state.body, taste, a)
      BY <2>1, <3>1, StillHonest
    <3>4. Retryable(a.status)
      <4>1. state \in States /\ asked \in Bodies
        BY CallAssumption DEF CallInv, TypeInv, CallAssumption
      <4>2. taste \in Tastes /\ Fair(state, asked, taste)
        BY <3>3 DEF HonestInv
      <4>3. ~IsSuccess(a.status) /\ ~Retryable(a.status) => Helps(state, a)
        BY <3>3, <4>1, <4>2, RejectionIsAnswered
      <4>4. QED
        BY <3>1, <3>2, <4>3 DEF Retryable
    <3>5. attempt = MaxRetries
      BY <3>1, <3>4, CallAssumption DEF TriesAgain, CallInv, TypeInv, CallAssumption
    <3>6. QED
      BY <3>2, <3>4, <3>5
  <2>2. CASE \E a \in Answers : Fail(a)
    BY <2>1, <2>2 DEF HonestUpstreamIsServed
  <2>3. CASE (\E a \in Answers : Rewrite(a) \/ BackOff(a) \/ HandOn(a)) \/ Retry \/ Drop
    <3>1. phase' # "failed"
      BY <2>3 DEF Rewrite, BackOff, HandOn, Retry, Drop
    <3>2. QED
      BY <3>1 DEF HonestUpstreamIsServed
  <2>4. CASE UNCHANGED vars
    BY <2>4 DEF vars, HonestUpstreamIsServed
  <2>5. QED
    BY <2>2, <2>3, <2>4 DEF Next
<1>3. QED
  BY <1>1, <1>2, CallInvariant, HonestInvInit, HonestInvNext, PTL DEF Spec
=============================================================================
