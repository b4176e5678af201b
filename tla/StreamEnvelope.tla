--------------------------- MODULE StreamEnvelope ---------------------------
(***************************************************************************)
(* The envelope of one streamed Responses turn (stream_envelope.rs): its   *)
(* lifecycle flags, the output-index allocator and the completed items.    *)
(*                                                                         *)
(* Every stream module is a set of operators from a turn state s to a turn *)
(* state.  s is a record with the fields env, reasoning, message, think,   *)
(* tools (the sub-states of ResponsesStreamState) and out, the sequence of *)
(* all server-sent events emitted so far: the code returns each call's     *)
(* events as a Vec and the caller concatenates them in call order.         *)
(* response_id, created_at and the echoed request are left out.            *)
(***************************************************************************)
EXTENDS Integers, Sequences, FiniteSets, SequencesExt

Statuses == {"none", "in_progress", "completed", "incomplete", "failed"}

NewEnvelope ==
  [started |-> FALSE, completed |-> FALSE, status |-> "none", model |-> "",
   usage |-> 0, finish |-> "", next |-> 0, items |-> <<>>]

Emit(s, events) == [s EXCEPT !.out = @ \o events]

(* The caller reads s.env.next, the index being claimed, beforehand. *)
AllocateOutputIndex(s) == [s EXCEPT !.env.next = @ + 1]

AdvanceOutputIndexTo(s, atLeast) ==
  [s EXCEPT !.env.next = IF @ < atLeast THEN atLeast ELSE @]

AppendCompletedItem(s, index, item) ==
  [s EXCEPT !.env.items = Append(@, [index |-> index, item |-> item])]

UnsortedOutput(env) == [k \in DOMAIN env.items |-> env.items[k].item]

(* Vec::sort_by_key is stable: equal indices keep their completion order.   *)
(* An item stands behind all that are sorted before it.                     *)
Precedes(items, i, j) ==
  \/ items[i].index < items[j].index
  \/ items[i].index = items[j].index /\ i < j

Rank(items, i) == Cardinality({j \in DOMAIN items : Precedes(items, j, i)})

CompletedOutputItems(env) ==
  [k \in DOMAIN env.items |->
     env.items[CHOOSE i \in DOMAIN env.items : Rank(env.items, i) = k - 1].item]

(* base_response + response_event: rendering a status also records it. *)
ResponseEvent(s, name, status, output) ==
  Emit([s EXCEPT !.env.status = status],
       <<[ev |-> name, item |-> <<>>, status |-> status, output |-> output,
          model |-> s.env.model, usage |-> s.env.usage]>>)

EnsureStarted(s) ==
  IF s.env.started THEN s
  ELSE ResponseEvent(
         ResponseEvent([s EXCEPT !.env.started = TRUE],
                       "created", "in_progress", <<>>),
         "in_progress", "in_progress", <<>>)

(* First non-empty model wins, last non-empty usage wins. *)
ApplyMetadata(s, model, usage) ==
  [s EXCEPT !.env.model = IF @ = "" THEN model ELSE @,
            !.env.usage = IF usage = 0 THEN @ ELSE usage]

(* semantics.rs: the Responses status a Chat finish_reason maps to. *)
StatusFromFinishReason(finish) ==
  CASE finish = "tool_calls"                   -> "in_progress"
    [] finish \in {"length", "content_filter"} -> "incomplete"
    [] OTHER                                   -> "completed"

PersistsCutOff(status) == status \in {"completed", "in_progress", "incomplete"}

IsPersistable(status) == status \in {"completed", "in_progress"}

CompletedEvent(s, output) ==
  ResponseEvent(s, "completed", StatusFromFinishReason(s.env.finish), output)

TruncatedEvent(s, output) == ResponseEvent(s, "completed", "incomplete", output)

FailedEvent(s) ==
  ResponseEvent(s, "failed", "failed", CompletedOutputItems(s.env))
=============================================================================
