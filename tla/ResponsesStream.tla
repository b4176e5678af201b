-------------------------- MODULE ResponsesStream ---------------------------
(***************************************************************************)
(* One streamed Responses turn: the consumer of the upstream's Chat        *)
(* Completions stream (stream_chat_to_responses.rs) driving the composed   *)
(* turn state (stream_responses_state.rs), up to the session save.         *)
(*                                                                         *)
(* A step is one upstream message.  The code computes every event of a     *)
(* message before it yields the first, so a message is atomic; the         *)
(* generator can only be dropped by the client between two messages, or    *)
(* between the terminal event and the save.                                *)
(***************************************************************************)
EXTENDS StreamTools

CONSTANTS
  Upstreams,   \* for each kind of upstream, the chunks it may send
  MaxMessages  \* bound on the messages of one stream

(* A chunk without content: delta and finish_reason of the first choice.    *)
(* content.form tells a string from an array of parts.                      *)
EmptyChunk ==
  [error |-> FALSE, model |-> "", usage |-> 0, reasoning |-> <<>>, anns |-> <<>>,
   content |-> [form |-> "none", text |-> <<>>, parts |-> <<>>],
   calls |-> <<>>, refusal |-> <<>>, finish |-> ""]

PartSet == [kind : {"text", "refusal"}, text : Seq(STRING), anns : Seq(STRING)]

(* The Chat protocol numbers the calls of a turn from 0. *)
CallSet == [index : Nat, id : Seq(STRING), name : STRING, args : Seq(STRING)]

ContentSet == [form : {"none", "text", "parts"}, text : Seq(STRING), parts : Seq(PartSet)]

ChunkSet(calls) ==
  [error : BOOLEAN, model : STRING, usage : Nat, reasoning : Seq(STRING),
   anns : Seq(STRING), content : ContentSet, calls : calls, refusal : Seq(STRING),
   finish : STRING]

(* The message [DONE], which is no chunk. *)
Done == [EmptyChunk EXCEPT !.finish = "[DONE]"]

ASSUME ChunksAssumption ==
  \A chunks \in Upstreams : chunks \subseteq ChunkSet(Seq(CallSet)) \ {Done}

VARIABLES
  st,     \* the ResponsesStreamState, with the events emitted so far
  phase,  \* "reading", "ended" (terminal events yielded), "closed", "dropped",
          \* or "answered" (CreateResponse: the turn was not streamed)
  fed,    \* history: the upstream's messages
  saved   \* history: the assistant message handed to the session store

vars == <<st, phase, fed, saved>>

NotSaved == [none |-> TRUE]

NewTurn ==
  [env |-> NewEnvelope, reasoning |-> NewReasoning, message |-> NewMessage,
   think |-> NewThink, tools |-> NewTools, out |-> <<>>]

FlushMessageFirst(s) ==
  ToolsFinalize(ThinkFlushOnFinalize(ReasoningFinalize(
    MessageFinalize(EnsureStarted(s)))))

FlushOpenItems(s) ==
  ToolsFinalize(MessageFinalize(ReasoningFinalize(
    ThinkFlushOnFinalize(EnsureStarted(s)))))

TerminalEvent(s, cleanly) ==
  LET output == CompletedOutputItems(s.env)
  IN  IF s.env.finish # "" \/ (output # <<>> /\ cleanly)
      THEN CompletedEvent(s, output)
      ELSE IF output # <<>> THEN TruncatedEvent(s, output)
      ELSE FailedEvent(s)

FinalizeAgain(s, cleanly) ==
  TerminalEvent(FlushOpenItems([s EXCEPT !.env.completed = TRUE]), cleanly)

Finalize(s, cleanly) ==
  IF s.env.completed THEN s
  ELSE TerminalEvent(FlushOpenItems([s EXCEPT !.env.completed = TRUE]), cleanly)

FailAgain(s) == FailedEvent(FlushOpenItems([s EXCEPT !.env.completed = TRUE]))

Fail(s) ==
  IF s.env.completed THEN s
  ELSE FailedEvent(FlushOpenItems([s EXCEPT !.env.completed = TRUE]))

PushToolCallDelta(s, d, why) == ToolsPushDelta(ForceInlineThinkToText(s), d, why)

PushCall(x, s, k) == PushToolCallDelta(s, x.calls[k], x.why)

EachCall == INSTANCE Iteration WITH Step <- PushCall

(* tool_call_events: every call of the chunk gets the same reasoning. *)
ToolCallEvents(s, calls, hint) ==
  LET active == ActiveReasoningText(s)
      why    == IF active = <<>> THEN hint ELSE active
      s1     == IF active = <<>> THEN s ELSE ReasoningFinalize(s)
  IN  EachCall!Iterate([calls |-> calls, why |-> why],
                       ForceInlineThinkToText(s1), Len(calls))

ContentDropped(s, text, reasoning) ==
  IF text = <<>> THEN s
  ELSE IF reasoning # <<>> THEN ReasoningFinalize(s)
  ELSE PushContentDelta(s, text)

StringContentEvents(s, text, reasoning) ==
  IF text = <<>> THEN s
  ELSE IF reasoning # <<>> THEN PushTextDelta(ReasoningFinalize(s), text)
  ELSE PushContentDelta(s, text)

PartEvents(s, part) ==
  IF part.text = <<>> THEN s
  ELSE IF part.kind = "refusal" THEN PushRefusalPart(s, part.text)
  ELSE PushTextDelta(AddAnnotations(s, part.anns), part.text)

PushPart(parts, s, k) ==
  PartEvents(IF k > 1 THEN FlushOpenTextPart(s) ELSE s, parts[k])

EachPart == INSTANCE Iteration WITH Step <- PushPart

StructuredContentEvents(s, parts) ==
  EachPart!Iterate(parts, ForceInlineThinkToText(ReasoningFinalize(s)), Len(parts))

ContentEvents(s, content, reasoning) ==
  CASE content.form = "text"  -> StringContentEvents(s, content.text, reasoning)
    [] content.form = "parts" -> StructuredContentEvents(s, content.parts)
    [] OTHER                  -> s

RefusalEvents(s, refusal) ==
  IF refusal = <<>> THEN s
  ELSE PushRefusalPart(FlushOpenTextPart(ReasoningFinalize(s)), refusal)

(* extract_reasoning_field: a blank field counts as absent. *)
ReasoningField(c) == IF Blank(c.reasoning) THEN <<>> ELSE c.reasoning

(* process_chat_chunk; it does not ask whether the turn is completed. *)
ProcessChatChunk(s, c) ==
  LET reasoning == ReasoningField(c)
      s1 == EnsureStarted(ApplyMetadata(s, c.model, c.usage))
      s2 == IF reasoning = <<>> THEN s1 ELSE ReasoningPushDelta(s1, reasoning)
      s3 == ContentEvents(AddAnnotations(s2, c.anns), c.content, reasoning)
      s4 == IF c.calls = <<>> THEN s3 ELSE ToolCallEvents(s3, c.calls, reasoning)
      s5 == RefusalEvents(s4, c.refusal)
  IN  IF c.error THEN Fail(s)
      ELSE IF c.finish = "" THEN s5 ELSE [s5 EXCEPT !.env.finish = c.finish]

ShouldPersist(s) == s.env.completed /\ IsPersistable(s.env.status)

NewLine == "\n"
RefusalLabel == "[refusal]: "

(* What a part reads like in the content of a chat message. *)
SaidOf(part) == IF part.kind = "refusal" THEN <<RefusalLabel>> \o part.text ELSE part.text

JoinParts(parts) ==
  LET said == SelectSeq([k \in DOMAIN parts |-> SaidOf(parts[k])], LAMBDA t : t # <<>>)
  IN  FlattenSeq([k \in DOMAIN said |-> IF k = 1 THEN said[k] ELSE <<NewLine>> \o said[k]])

TextPartsOnly(parts) == JoinParts(SelectSeq(parts, LAMBDA p : p.kind = "text"))

(* chat_message_content_from_response_content of the message's parts: one   *)
(* text, a part a line, without the annotations.                            *)
ChatMessageContent(parts) == JoinParts(parts)

(* build_assistant_message; null content is the empty text. *)
BuildAssistantMessage(s) ==
  [content |-> ChatMessageContent(ContentParts(s.message)),
   calls |-> PersistedToolCalls(s), reasoning |-> Trim(s.reasoning.text)]
-----------------------------------------------------------------------------
Init ==
  /\ st = NewTurn
  /\ phase = "reading"
  /\ fed = <<>>
  /\ saved = NotSaved

(* An upstream keeps to its kind. *)
Speaks(chunks) == \A k \in DOMAIN fed : fed[k] \in chunks \cup {Done}

ReceiveChunk ==
  /\ phase = "reading" /\ Len(fed) < MaxMessages
  /\ \E chunks \in {u \in Upstreams : Speaks(u)} :
       \E c \in chunks : /\ st' = ProcessChatChunk(st, c)
                         /\ fed' = Append(fed, c)
  /\ UNCHANGED <<phase, saved>>

ReceiveDone ==
  /\ phase = "reading" /\ Len(fed) < MaxMessages
  /\ st' = Finalize(st, TRUE)
  /\ fed' = Append(fed, Done)
  /\ UNCHANGED <<phase, saved>>

(* The upstream's bytes end, with or without [DONE] before. *)
EndOfStream ==
  /\ phase = "reading"
  /\ st' = Finalize(st, FALSE)
  /\ phase' = "ended"
  /\ UNCHANGED <<fed, saved>>

Persist ==
  /\ phase = "ended"
  /\ phase' = "closed"
  /\ saved' = IF ShouldPersist(st) THEN BuildAssistantMessage(st) ELSE saved
  /\ UNCHANGED <<st, fed>>

(* The client goes away: axum drops the body and with it the generator. *)
Disconnect ==
  /\ phase \in {"reading", "ended"}
  /\ phase' = "dropped"
  /\ UNCHANGED <<st, fed, saved>>

Next == ReceiveChunk \/ ReceiveDone \/ EndOfStream \/ Persist \/ Disconnect

Spec == Init /\ [][Next]_vars
=============================================================================
