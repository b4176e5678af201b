---------------------------- MODULE ChatMessages -----------------------------
(***************************************************************************)
(* Chat Completions messages and what is done to a whole list of them      *)
(* (message_normalization.rs, reasoning_cache.rs).                         *)
(*                                                                         *)
(* A text is the sequence of the pieces it was joined from; null and empty *)
(* content are the same.  An id is a sequence, so that those made up on    *)
(* the way differ from all others; the empty one stands for none.          *)
(***************************************************************************)
EXTENDS Integers, Sequences, SequencesExt, FiniteSetsExt

NoId == <<>>

Message(role, text, calls, callId, reasoning) ==
  [role |-> role, text |-> text, calls |-> calls, callId |-> callId,
   reasoning |-> reasoning]

User(text) == Message("user", text, <<>>, NoId, <<>>)

System(text) == Message("system", text, <<>>, NoId, <<>>)

CallIds(m) == {m.calls[c].id : c \in DOMAIN m.calls}

HasSubstance(m) == m.text # <<>> \/ m.calls # <<>> \/ m.callId # NoId

SubstanceOnly(m) == m.role \in {"user", "system"} \/ HasSubstance(m)

(* An assistant message that says nothing stays, as a separator. *)
Kept(m) == m.role \in {"user", "system", "assistant"} \/ HasSubstance(m)

(* What stands at the given positions.  The loops are not SelectSeq and     *)
(* FlattenSeq, which cannot be reasoned about.                              *)
PickNext(x, t, k) == IF k \in x.at THEN Append(t, x.of[k]) ELSE t

EachPosition == INSTANCE Iteration WITH Step <- PickNext

Pick(ms, at) == EachPosition!Iterate([of |-> ms, at |-> at], <<>>, Len(ms))

(* sanitize_messages.  The merging of neighbouring system messages shows    *)
(* only in the text that collapse_system_messages_to_head joins anyway.     *)
Sanitize(ms) == Pick(ms, {k \in DOMAIN ms : Kept(ms[k])})

JoinNext(ms, t, k) == IF ms[k].role = "system" THEN t \o ms[k].text ELSE t

EachText == INSTANCE Iteration WITH Step <- JoinNext

SystemText(ms) == EachText!Iterate(ms, <<>>, Len(ms))

Dialogue(ms) == Pick(ms, {k \in DOMAIN ms : ms[k].role # "system"})

CollapseSystemToHead(ms) ==
  (IF SystemText(ms) = <<>> THEN <<>> ELSE <<System(SystemText(ms))>>) \o Dialogue(ms)

CanBackfill(ms) == ms # <<>> /\ Last(ms).role = "assistant"

(* append_reasoning_to_last_assistant *)
Backfill(ms, piece) == [ms EXCEPT ![Len(ms)].reasoning = Append(@, piece)]

(* extract_reasoning_cache: the messages whose reasoning explains a call. *)
Explaining(ms, id) ==
  {k \in DOMAIN ms :
     /\ ms[k].role = "assistant" /\ ms[k].reasoning # <<>>
     /\ id # NoId /\ id \in CallIds(ms[k])}

(* apply_reasoning_cache: the first call that was ever explained, by the    *)
(* last message that explained it.                                          *)
RestoreReasoning(ms) ==
  LET hits(m) == {c \in DOMAIN m.calls : Explaining(ms, m.calls[c].id) # {}}
  IN  [k \in DOMAIN ms |->
         IF ms[k].role = "assistant" /\ ms[k].reasoning = <<>> /\ hits(ms[k]) # {}
         THEN [ms[k] EXCEPT !.reasoning =
                 ms[Max(Explaining(ms, ms[k].calls[Min(hits(ms[k]))].id))].reasoning]
         ELSE ms[k]]
=============================================================================
