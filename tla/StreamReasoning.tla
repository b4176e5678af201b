-------------------------- MODULE StreamReasoning ---------------------------
(***************************************************************************)
(* The reasoning item of a streamed turn (stream_reasoning.rs).  Text is a *)
(* sequence of tokens; "w" is a whitespace token.  The summary-part events *)
(* are always emitted with the item's own and are folded into them.        *)
(***************************************************************************)
EXTENDS StreamEnvelope

Lifecycle == {"not_started", "open", "done"}

ReasoningSentinel == [text |-> <<>>, life |-> "not_started", index |-> -1]

NewReasoning == [text |-> <<>>, life |-> "not_started", index |-> 0]

ReasoningId == <<"rs">>

Blank(text) == \A k \in DOMAIN text : text[k] = "w"

TrimStart(text) ==
  IF Blank(text) THEN <<>>
  ELSE LET first == CHOOSE k \in DOMAIN text :
                      text[k] # "w" /\ \A j \in 1..(k - 1) : text[j] = "w"
       IN  SubSeq(text, first, Len(text))

Trim(text) == Reverse(TrimStart(Reverse(TrimStart(text))))

ReasoningEnsureStarted(s) ==
  IF s.reasoning.life # "not_started" THEN s
  ELSE Emit(AllocateOutputIndex([s EXCEPT !.reasoning.life = "open",
                                          !.reasoning.index = s.env.next]),
            <<[ev |-> "added", item |-> ReasoningId, index |-> s.env.next]>>)

ReasoningPushDelta(s, delta) ==
  IF s.reasoning.life = "done" THEN s
  ELSE LET s1 == ReasoningEnsureStarted(s)
       IN  Emit([s1 EXCEPT !.reasoning.text = @ \o delta],
                <<[ev |-> "delta", item |-> ReasoningId, part |-> 1,
                   text |-> delta]>>)

ReasoningFinalize(s) ==
  IF s.reasoning.life # "open" THEN s
  ELSE LET r    == s.reasoning
           item == [type |-> "reasoning", id |-> ReasoningId, text |-> r.text]
       IN  Emit(AppendCompletedItem([s EXCEPT !.reasoning.life = "done"],
                                    r.index, item),
                <<[ev |-> "text_done", item |-> ReasoningId, part |-> 1,
                   text |-> r.text],
                  [ev |-> "done", item |-> ReasoningId, index |-> r.index,
                   body |-> item]>>)

(* What a tool call may carry as reasoning_content: nothing once closed. *)
ActiveReasoningText(s) ==
  IF s.reasoning.life = "done" THEN <<>> ELSE Trim(s.reasoning.text)
=============================================================================
