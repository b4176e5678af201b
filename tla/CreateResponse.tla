--------------------------- MODULE CreateResponse ---------------------------
(***************************************************************************)
(* The two ways create_response answers a turn (lib.rs): converting the    *)
(* upstream's stream as it arrives (ResponsesStream), or asking upstream   *)
(* for the whole body and rendering that, as one JSON object               *)
(* (chat_to_responses.rs) or as a burst of the same events a stream would  *)
(* have had (sse_events_from_buffered_chat).  The session is saved from    *)
(* the body then (session_bridge.rs).  Nothing is awaited between the body *)
(* and the answer, so that is one step.                                    *)
(***************************************************************************)
EXTENDS ResponsesStream

CONSTANT Bodies  \* the Chat bodies an upstream may answer with

(* A choice of a body is a message in the shape of a chunk's delta, but its *)
(* tool calls have no index, and it has no error of its own.                *)
BodyCallSet == [id : Seq(STRING), name : STRING, args : Seq(STRING)]

ASSUME BodiesAssumption ==
  \A b \in Bodies :
    /\ b \in [model : STRING, usage : Nat, choices : Seq(ChunkSet(Seq(BodyCallSet)))]
    /\ \A k \in DOMAIN b.choices : ~b.choices[k].error

VARIABLES
  body,   \* history: the body the upstream answered with
  answer  \* the Responses object, when the client asked for one

NoBody == [none |-> TRUE]
turnVars == <<vars, body, answer>>

NoMessage == EmptyChunk
Choice(b) == IF b.choices = <<>> THEN NoMessage ELSE b.choices[1]

-----------------------------------------------------------------------------
(* split_inline_think: the first think block, wherever it stands.           *)
ThinkOpens(text) == {k \in 1..(Len(text) - 1) : text[k] = "o" /\ text[k + 1] = "p"}

WithoutOpenTags(text) ==
  FlattenSeq([k \in DOMAIN text |->
                IF k \in ThinkOpens(text) \/ k - 1 \in ThinkOpens(text)
                THEN <<>> ELSE <<text[k]>>])

SplitInlineThink(text) ==
  LET open   == CHOOSE k \in ThinkOpens(text) : \A j \in ThinkOpens(text) : k <= j
      after  == SubSeq(text, open + 2, Len(text))
      close  == FindThinkClose(after)
  IN  IF ThinkOpens(text) = {} THEN [reasoning |-> <<>>, answer |-> text]
      ELSE IF close = 0
      THEN [reasoning |-> Trim(WithoutOpenTags(after)), answer |-> <<>>]
      ELSE [reasoning |-> Trim(SubSeq(after, 1, close - 1)),
            answer |-> Trim(SubSeq(text, 1, open - 1) \o
                            SubSeq(after, close + 2, Len(after)))]

(* extract_reasoning_text: the reasoning field, else the content's block.   *)
ExtractReasoningText(m) ==
  IF ReasoningField(m) # <<>> THEN Trim(ReasoningField(m))
  ELSE IF m.content.form = "text" THEN SplitInlineThink(m.content.text).reasoning
  ELSE <<>>

TextPart(text, anns) == [kind |-> "text", text |-> text, anns |-> anns]
RefusalPart(text) == [kind |-> "refusal", text |-> text, anns |-> <<>>]

(* message_content_parts: the message's annotations go to every text part.  *)
MessageContentParts(m) ==
  LET split    == SplitInlineThink(m.content.text)
      stripped == IF split.reasoning # <<>> THEN split.answer ELSE m.content.text
      merged(anns) == m.anns \o SelectSeq(anns, LAMBDA a : a \notin {m.anns[k] : k \in DOMAIN m.anns})
      part(p)  == IF p.text = <<>> THEN <<>>
                  ELSE IF p.kind = "refusal" THEN <<RefusalPart(p.text)>>
                  ELSE <<TextPart(p.text, merged(p.anns))>>
      content  == CASE m.content.form = "text" /\ stripped # <<>> -> <<TextPart(stripped, m.anns)>>
                    [] m.content.form = "parts" ->
                         FlattenSeq([k \in DOMAIN m.content.parts |-> part(m.content.parts[k])])
                    [] OTHER -> <<>>
  IN  content \o (IF m.refusal = <<>> THEN <<>> ELSE <<RefusalPart(m.refusal)>>)

(* tool_call_to_response_item, for the k-th call. *)
CallItem(c, k, reasoning) ==
  LET id   == IF c.id = <<>> THEN <<"synthetic", k>> ELSE c.id
      name == IF c.name = "" THEN "unknown_tool" ELSE c.name
      kind == ResolveToolKind(name)
      args == Canonical(c.args)
      item == [type |-> kind, id |-> <<IF kind = "custom" THEN "ctc" ELSE "fc">> \o id,
               call |-> id, name |-> Spec_(name).name, ns |-> Spec_(name).ns,
               args |-> args, reasoning |-> reasoning]
  IN  CASE kind = "search" ->
             [item EXCEPT !.name = "", !.args = IF IsObject(args) \/ BlankArgs(c.args)
                                               THEN @ ELSE <<"query">> \o @]
        [] kind = "custom" -> [item EXCEPT !.args = CustomInput(@)]
        [] IsNested(name) ->
             [item EXCEPT !.name = IF ActionOf(args) = "" THEN @ ELSE ActionOf(args),
                          !.args = NestedArguments(@)]
        [] OTHER -> item

OutputItems(m) ==
  LET reasoning == ExtractReasoningText(m)
      parts     == MessageContentParts(m)
  IN  (IF reasoning = <<>> THEN <<>>
       ELSE <<[type |-> "reasoning", id |-> ReasoningId, text |-> reasoning]>>) \o
      (IF parts = <<>> THEN <<>>
       ELSE <<[type |-> "message", id |-> MessageId, parts |-> parts]>>) \o
      [k \in DOMAIN m.calls |-> CallItem(m.calls[k], k, reasoning)]

ChatToResponses(b) ==
  [status |-> StatusFromFinishReason(Choice(b).finish), model |-> b.model,
   usage |-> b.usage, output |-> OutputItems(Choice(b))]

-----------------------------------------------------------------------------
Unindexed(m) ==
  [m EXCEPT !.reasoning = ReasoningField(m),
            !.calls = [k \in DOMAIN @ |->
               [index |-> 0, id |-> @[k].id, name |-> @[k].name, args |-> @[k].args]]]

(* chat_message_to_fake_delta *)
ChatMessageToFakeDelta(m) ==
  [m EXCEPT !.reasoning = ReasoningField(m),
            !.calls = [k \in DOMAIN @ |->
               [index |-> k - 1, id |-> @[k].id, name |-> @[k].name, args |-> @[k].args]]]

FakeChunks(b) == [k \in DOMAIN b.choices |-> ChatMessageToFakeDelta(b.choices[k])]

PushChoice(chunks, s, k) == ProcessChatChunk(s, chunks[k])

EachChoice == INSTANCE Iteration WITH Step <- PushChoice

SseEventsFromBufferedChat(b) ==
  Finalize(EachChoice!Iterate(FakeChunks(b), ApplyMetadata(NewTurn, b.model, b.usage),
                              Len(b.choices)), TRUE)

HasContent(m) ==
  m.content.form = "parts" \/ (m.content.form = "text" /\ m.content.text # <<>>)

(* assistant_message_from_chat_body: the content as it came, think tags and *)
(* all; a refusal becomes the content only where there is none.             *)
AssistantMessageFromChatBody(m) ==
  [content |-> IF HasContent(m) \/ m.refusal = <<>> THEN m.content
               ELSE [form |-> "text", text |-> <<RefusalLabel>> \o m.refusal, parts |-> <<>>],
   calls |-> m.calls, reasoning |-> ReasoningField(m)]

NothingToSay(m) ==
  ~HasContent(m) /\ m.calls = <<>> /\ m.refusal = <<>> /\ ReasoningField(m) = <<>>

SaveBuffered(b) ==
  IF NothingToSay(Choice(b)) \/ ~IsPersistable(StatusFromFinishReason(Choice(b).finish))
  THEN NotSaved ELSE AssistantMessageFromChatBody(Choice(b))

-----------------------------------------------------------------------------
TurnInit == Init /\ body = NoBody /\ answer = NoBody

Streamed == Next /\ UNCHANGED <<body, answer>>

(* The client does not stream. *)
AnswerInFull ==
  /\ phase = "reading" /\ fed = <<>>
  /\ \E b \in Bodies : /\ body' = b /\ answer' = ChatToResponses(b)
                       /\ saved' = SaveBuffered(b)
  /\ phase' = "answered"
  /\ UNCHANGED <<st, fed>>

(* The client streams and the upstream is configured not to. *)
AnswerInABurst ==
  /\ phase = "reading" /\ fed = <<>>
  /\ \E b \in Bodies : /\ body' = b /\ saved' = SaveBuffered(b)
                       /\ st' = SseEventsFromBufferedChat(b)
                       /\ fed' = Append(FakeChunks(b), Done)
  /\ phase' = "answered"
  /\ UNCHANGED answer

TurnNext == Streamed \/ AnswerInFull \/ AnswerInABurst

TurnSpec == TurnInit /\ [][TurnNext]_turnVars
=============================================================================
