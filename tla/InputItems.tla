----------------------------- MODULE InputItems ------------------------------
(***************************************************************************)
(* The conversion of a request's input items into chat messages, over the  *)
(* turns of a conversation (convert/responses_to_chat.rs, from the history *)
(* that resolve_session returns to the one that save_session keeps).       *)
(*                                                                         *)
(* A piece of text or reasoning, or a call, is named by the place of the   *)
(* item that brought it: <<turn, position>>, with position 0 for the       *)
(* instructions.  The tool names of calls and media are left out: a media  *)
(* item converts or does not, as its field `text` says.  A message may     *)
(* have media among its content parts as well.                             *)
(***************************************************************************)
EXTENDS ChatMessages

CONSTANTS
  Items,     \* input items a client may send
  Answers,   \* the upstream's answers: assistant messages, as message items,
             \* or an item of type "unknown" when there is no message
  MaxTold,   \* bound on what a conversation holds when an item is taken
  MaxTurns   \* bound on turns

(* An unrecognized item with a role or content is a message, one without is *)
(* "unknown", as is whatever is no object.                                  *)
(*                                                                          *)
(* What an item carries: its call_id (of a message, its tool_call_id), and  *)
(* whether it has text, or reasoning_content of its own.  The calls of a    *)
(* message are their ids.  Of a message's content parts, text says whether  *)
(* there are texts or refusals and media whether there are images, audio or *)
(* others.                                                                  *)
Item(type, role, id, text, reasoning, calls) ==
  [type |-> type, role |-> role, id |-> id, text |-> text, media |-> FALSE,
   reasoning |-> reasoning, calls |-> calls]

Ids == Seq(STRING)

ItemSet ==
  [type : {"text", "media", "reasoning", "call", "output", "message", "unknown"},
   role : {"system", "user", "assistant", "tool", "invalid"},
   id : Ids, text : BOOLEAN, media : BOOLEAN, reasoning : BOOLEAN, calls : Seq(Ids)]

ASSUME ItemsAssumption ==
  /\ Items \cup Answers \subseteq ItemSet
  /\ \A a \in Answers : a.type = "unknown" \/ (a.type = "message" /\ a.role = "assistant")
  /\ {MaxTold, MaxTurns} \subseteq Nat

VARIABLES
  stored,    \* the messages the session keeps
  messages,  \* the messages under construction, then as sent
  pending,   \* pending_tool_calls and pending_reasoning
  skip,      \* skip_call_ids
  losses,    \* the transform losses of the conversation: kind and place
  phase,     \* "idle", "converting", "sent"
  turn,      \* turns begun
  count,     \* items taken this turn
  told       \* history: every item of the conversation, with its place

vars == <<stored, messages, pending, skip, losses, phase, turn, count, told>>

Nothing == [calls |-> <<>>, reasoning |-> <<>>]

Here == <<turn, count + 1>>

(* A flag of an item as the text it brings. *)
Piece(flag) == IF flag THEN <<Here>> ELSE <<>>

AnsweredCallIds(ms) == {ms[k].callId : k \in DOMAIN ms} \ {NoId}

(* existing_call_ids *)
ExistingCallIds(ms) ==
  (UNION {CallIds(ms[k]) \cup {ms[k].callId} : k \in DOMAIN ms}) \ {NoId}

(* should_skip *)
ShouldSkip(item) == item.id # NoId /\ item.id \in skip

(* resolve_tool_call_id: an item without an id gets one of its own. *)
CallId(item) == IF item.id = NoId THEN Here ELSE item.id

(* has_matching_call *)
HasMatchingCall(id, ms) ==
  \E k \in DOMAIN ms : ms[k].role = "assistant" /\ id \in CallIds(ms[k])

FlushForgettingReasoning(ms, p) ==
  IF p.calls = <<>> THEN ms
  ELSE Append(ms, Message("assistant", <<>>, p.calls, NoId, p.reasoning))

(* flush_pending: the calls with their reasoning, or the reasoning alone. *)
FlushPending(ms, p) ==
  IF p = Nothing THEN ms
  ELSE Append(ms, Message("assistant", <<>>, p.calls, NoId, p.reasoning))

(* chat_message_content_from_response_content: texts and refusals make the  *)
(* content; parts of other kinds are passed over and no loss is recorded.   *)
ChatMessageContent(item) == Piece(item.text)

(* build_generic_message *)
BuildMessage(item) ==
  LET role == IF item.role = "invalid" THEN "user" ELSE item.role
  IN  Message(role, ChatMessageContent(item),
              IF role = "assistant"
              THEN [c \in DOMAIN item.calls |-> [id |-> item.calls[c], by |-> Here]]
              ELSE <<>>,
              item.id, Piece(item.reasoning))

-----------------------------------------------------------------------------
Take(item, type) ==
  /\ phase = "converting" /\ item.type = type
  /\ Cardinality(told) < MaxTold
  /\ count' = count + 1
  /\ told' = told \cup {[at |-> Here, item |-> item]}
  /\ UNCHANGED <<stored, skip, phase, turn>>

Lose(kind) == losses' = losses \cup {[kind |-> kind, at |-> Here]}

(* Put what is pending, and then this, behind the messages. *)
FlushThen(ms) ==
  /\ messages' = FlushPending(messages, pending) \o ms
  /\ pending' = Nothing

TakeReasoning(item) ==
  /\ Take(item, "reasoning")
  /\ \/ /\ ~item.text
        /\ Lose("DroppedEmptyReasoning")
        /\ UNCHANGED <<messages, pending>>
     \/ /\ item.text /\ pending.calls = <<>> /\ CanBackfill(messages)
        /\ messages' = Backfill(messages, Here)
        /\ UNCHANGED <<pending, losses>>
     \/ /\ item.text /\ ~(pending.calls = <<>> /\ CanBackfill(messages))
        /\ pending' = [pending EXCEPT !.reasoning = Append(@, Here)]
        /\ UNCHANGED <<messages, losses>>

TextUnflushed(item) ==
  /\ Take(item, "text")
  /\ messages' = Append(messages, User(Piece(item.text)))
  /\ UNCHANGED <<pending, losses>>

TakeText(item) ==
  /\ Take(item, "text")
  /\ FlushThen(<<User(Piece(item.text))>>)
  /\ UNCHANGED losses

TakeMedia(item) ==
  /\ Take(item, "media")
  /\ IF item.text
     THEN FlushThen(<<User(<<Here>>)>>) /\ UNCHANGED losses
     ELSE FlushThen(<<>>) /\ Lose("SkippedUnsupportedMedia")

TakeCall(item) ==
  /\ Take(item, "call")
  /\ \/ /\ ShouldSkip(item)
        /\ Lose("SkippedDuplicateToolCall")
        /\ UNCHANGED <<messages, pending>>
     \/ /\ ~ShouldSkip(item)
        /\ pending' = [calls |-> Append(pending.calls, [id |-> CallId(item), by |-> Here]),
                       reasoning |-> pending.reasoning \o Piece(item.reasoning)]
        /\ UNCHANGED <<messages, losses>>

(* The result of a call that no message makes goes to the user's side. *)
TakeOutput(item) ==
  /\ Take(item, "output")
  /\ \/ /\ ShouldSkip(item)
        /\ Lose("SkippedDuplicateToolCall")
        /\ UNCHANGED <<messages, pending>>
     \/ /\ ~ShouldSkip(item)
        /\ HasMatchingCall(CallId(item), FlushPending(messages, pending))
        /\ FlushThen(<<Message("tool", Piece(item.text), <<>>, CallId(item), <<>>)>>)
        /\ UNCHANGED losses
     \/ /\ ~ShouldSkip(item)
        /\ ~HasMatchingCall(CallId(item), FlushPending(messages, pending))
        /\ FlushThen(<<User(<<Here>>)>>)
        /\ Lose("DowngradedOrphanToolOutput")

TakeMessage(item) ==
  /\ Take(item, "message")
  /\ FlushThen(<<BuildMessage(item)>>)
  /\ IF item.role = "invalid" THEN Lose("DowngradedInvalidRole") ELSE UNCHANGED losses

TakeUnknown(item) ==
  /\ Take(item, "unknown")
  /\ FlushThen(<<>>)
  /\ Lose("SkippedUnknownItemType")

-----------------------------------------------------------------------------
Init ==
  /\ stored = <<>> /\ messages = <<>>
  /\ pending = Nothing
  /\ skip = {} /\ losses = {} /\ told = {}
  /\ phase = "idle"
  /\ turn = 0 /\ count = 0

(* A request arrives, with instructions of its own or without. *)
Begin(instructed) ==
  /\ phase = "idle" /\ turn < MaxTurns
  /\ phase' = "converting"
  /\ turn' = turn + 1 /\ count' = 0
  /\ LET at == <<turn + 1, 0>>
     IN  /\ messages' = RestoreReasoning(stored) \o
                          (IF instructed THEN <<System(<<at>>)>> ELSE <<>>)
         /\ told' = told \cup
              (IF instructed
               THEN {[at |-> at, item |-> Item("message", "system", NoId, TRUE, FALSE, <<>>)]}
               ELSE {})
  /\ skip' = ExistingCallIds(messages')
  /\ UNCHANGED <<stored, pending, losses>>

(* The last item is converted and the list put in order for the upstream. *)
Send ==
  /\ phase = "converting"
  /\ phase' = "sent"
  /\ messages' = CollapseSystemToHead(Sanitize(FlushPending(messages, pending)))
  /\ pending' = Nothing
  /\ UNCHANGED <<stored, skip, losses, turn, count, told>>

(* save_session: what was sent, and the assistant's answer if there is one. *)
Answer(answer) ==
  /\ phase = "sent"
  /\ phase' = "idle"
  /\ stored' = messages \o
       (IF answer.type = "message" THEN <<BuildMessage(answer)>> ELSE <<>>)
  /\ told' = told \cup {[at |-> Here, item |-> answer]}
  /\ UNCHANGED <<messages, pending, skip, losses, turn, count>>

Next ==
  \/ \E instructed \in BOOLEAN : Begin(instructed)
  \/ \E item \in Items :
       \/ TakeReasoning(item) \/ TakeText(item) \/ TakeMedia(item) \/ TakeCall(item)
       \/ TakeOutput(item) \/ TakeMessage(item) \/ TakeUnknown(item)
  \/ Send
  \/ \E answer \in Answers : Answer(answer)

Spec == Init /\ [][Next]_vars
=============================================================================
