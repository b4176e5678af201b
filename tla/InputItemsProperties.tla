------------------------ MODULE InputItemsProperties -------------------------
(***************************************************************************)
(* What the conversion of a conversation's items promises: the upstream    *)
(* reads what the client said, once, in order, turn after turn.            *)
(***************************************************************************)
EXTENDS InputItems

Sent == phase = "sent"

Drops == {"DroppedEmptyReasoning", "SkippedUnsupportedMedia",
          "SkippedDuplicateToolCall", "SkippedUnknownItemType"}

Dropped(at) == \E l \in losses : l.at = at /\ l.kind \in Drops

Texts(ms) == FlattenSeq([k \in DOMAIN ms |-> ms[k].text])

Reasonings(ms) == FlattenSeq([k \in DOMAIN ms |-> ms[k].reasoning])

Calls(ms) == FlattenSeq([k \in DOMAIN ms |-> ms[k].calls])

(* The same as a set. *)
CallsIn(ms) == UNION {ToSet(ms[k].calls) : k \in DOMAIN ms}

Makers(ms) == [c \in DOMAIN Calls(ms) |-> Calls(ms)[c].by]

Times(at, pieces) == Cardinality({k \in DOMAIN pieces : pieces[k] = at})

(* No two calls of the list share an id. *)
IdsUsedOnce(ms) ==
  \A c, d \in DOMAIN Calls(ms) : Calls(ms)[c].id = Calls(ms)[d].id => c = d

HasText(item) == item.text /\ item.type \in {"text", "media", "output", "message"}

(* A message whose reasoning_content does not last: a system message is     *)
(* hoisted as text alone, and a tool message that answers nothing and says  *)
(* nothing is no message.                                                   *)
ReasonsInVain(item) ==
  \/ item.role = "system"
  \/ item.role = "tool" /\ item.id = NoId /\ ~item.text

HasReasoning(item) ==
  \/ item.type = "reasoning" /\ item.text
  \/ item.type = "call" /\ item.reasoning
  \/ item.type = "message" /\ item.reasoning /\ ~ReasonsInVain(item)

CallCount(item) ==
  CASE item.type = "call"                                -> 1
    [] item.type = "message" /\ item.role = "assistant" -> Len(item.calls)
    [] OTHER                                            -> 0

(* The text, the reasoning and the calls of every item of the conversation, *)
(* from whichever turn, are in the request exactly once, or the item's drop *)
(* was recorded: nothing of them is said twice, lost or forgotten at a      *)
(* flush.  Media in the content of a message are no part of this, they are  *)
(* lost without a record; nor is reasoning where ReasonsInVain has it.      *)
(* A call id used twice is excepted: there the reasoning cache repeats      *)
(* itself.                                                                  *)
NothingGoesUnsaid ==
  Sent /\ IdsUsedOnce(messages) =>
    \A t \in told :
      LET once(n) == IF Dropped(t.at) THEN 0 ELSE n
      IN  /\ Times(t.at, Texts(messages)) = once(IF HasText(t.item) THEN 1 ELSE 0)
          /\ Times(t.at, Reasonings(messages)) = once(IF HasReasoning(t.item) THEN 1 ELSE 0)
          /\ Times(t.at, Makers(messages)) = once(CallCount(t.item))

Pieces(m) == ToSet(m.text) \cup ToSet(m.reasoning) \cup {m.calls[c].by : c \in DOMAIN m.calls}

Before(a, b) == a[1] < b[1] \/ (a[1] = b[1] /\ a[2] < b[2])

(* The dialogue reads in the order it was held, however reasoning is put    *)
(* off to the next calls or back to the last assistant message.             *)
OrderKept ==
  Sent /\ IdsUsedOnce(messages) =>
    LET said == Dialogue(messages)
    IN  \A i, j \in DOMAIN said : i < j =>
          \A a \in Pieces(said[i]), b \in Pieces(said[j]) : Before(a, b)

(* A client that sends again the calls and outputs the history has does not *)
(* double them; a tool message stands behind the call it answers            *)
(* (existing_call_ids, has_matching_call). An item without an id gets one   *)
(* that is its own, so there is nothing to double.                          *)
CallsAndOutputsPair ==
  Sent =>
    \A t \in told : t.item.id # NoId =>
      /\ t.item.type = "call" =>
           \A d, c \in CallsIn(messages) :
             d.by = t.at /\ c.id = t.item.id => c.by[1] >= t.at[1]
      /\ t.item.type = "output" =>
           \A k \in DOMAIN messages :
             messages[k].role = "tool" /\ messages[k].text = <<t.at>> =>
               /\ HasMatchingCall(messages[k].callId, SubSeq(messages, 1, k - 1))
               /\ \A j \in 1..k-1 : messages[j].callId = messages[k].callId =>
                    \A p \in ToSet(messages[j].text) : p[1] = t.at[1]

(* What an earlier turn left stands in the next request as it was, but for  *)
(* reasoning that is put behind the last message's own; the system text     *)
(* only grows (sanitize_messages, collapse_system_messages_to_head).        *)
HistoryStands ==
  Sent =>
    LET before == Dialogue(RestoreReasoning(stored))
        now    == Dialogue(messages)
        n      == Len(before)
    IN  /\ n <= Len(now)
        /\ \A k \in 1..n :
             /\ [now[k] EXCEPT !.reasoning = before[k].reasoning] = before[k]
             /\ IsPrefix(before[k].reasoning, now[k].reasoning)
             /\ k < n => now[k] = before[k]
        /\ IsPrefix(SystemText(stored), SystemText(messages))

(* An output is skipped only if the history carries it already: "a          *)
(* continuation turn skips tool calls/outputs it already carries"           *)
(* (responses_to_chat.rs).                                                  *)
SkippedOutputsAreCarried ==
  \A t \in told :
    t.item.type = "output" /\ Dropped(t.at) =>
      \E k \in DOMAIN messages : messages[k].callId = t.item.id
=============================================================================
