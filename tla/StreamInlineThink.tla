------------------------- MODULE StreamInlineThink --------------------------
(***************************************************************************)
(* The inline-<think> detector (stream_inline_think.rs with the tag        *)
(* helpers of reasoning.rs).  Content is a sequence of tokens in which     *)
(* "o","p" are the two halves of the open tag, "c","d" those of the close  *)
(* tag, "w" is whitespace and any other token is plain text: the smallest  *)
(* alphabet in which a tag can be split across chunks or fail to complete. *)
(***************************************************************************)
EXTENDS StreamMessage

Phases == {"detecting", "reasoning", "text"}

NewThink == [phase |-> "detecting", buffer |-> <<>>, tail |-> <<>>]

MatchThinkOpenAtStart(t) == Len(t) >= 2 /\ t[1] = "o" /\ t[2] = "p"

CouldBePartialThinkOpen(t) == t = <<"o">>

(* Position of the first close tag in t, 0 when there is none. *)
FindThinkClose(t) ==
  LET at == {k \in 1..(Len(t) - 1) : t[k] = "c" /\ t[k + 1] = "d"}
  IN  IF at = {} THEN 0 ELSE CHOOSE k \in at : \A j \in at : k <= j

NothingHeldBack(t) == 0

TrailingPartialCloseLen(t) ==
  IF t # <<>> /\ t[Len(t)] = "c" THEN 1 ELSE 0

RouteReasoningDelta(s, delta) ==
  LET combined == s.think.tail \o delta
      close    == FindThinkClose(combined)
      kept     == Len(combined) - TrailingPartialCloseLen(combined)
      pre      == SubSeq(combined, 1, close - 1)
      post     == SubSeq(combined, close + 2, Len(combined))
      whole    == SubSeq(combined, 1, kept)
      s1       == [s EXCEPT !.think.tail = <<>>]
      push(t, text) == IF text = <<>> THEN t ELSE ReasoningPushDelta(t, text)
  IN  IF close > 0
      THEN PushTextDelta([ReasoningFinalize(push(s1, pre))
                            EXCEPT !.think.phase = "text"], post)
      ELSE push([s1 EXCEPT !.think.tail =
                   SubSeq(combined, kept + 1, Len(combined))], whole)

RouteDetectingDelta(s, delta) ==
  LET buffer  == s.think.buffer \o delta
      trimmed == TrimStart(buffer)
      after   == SubSeq(trimmed, 3, Len(trimmed))
      detected == [s EXCEPT !.think.phase = "reasoning", !.think.buffer = <<>>]
  IN  IF MatchThinkOpenAtStart(trimmed)
      THEN IF after = <<>> THEN detected ELSE RouteReasoningDelta(detected, after)
      ELSE IF CouldBePartialThinkOpen(trimmed)
      THEN [s EXCEPT !.think.buffer = buffer]
      ELSE PushTextDelta([s EXCEPT !.think.phase = "text",
                                   !.think.buffer = <<>>], buffer)

PushContentDelta(s, delta) ==
  CASE s.think.phase = "text"      -> PushTextDelta(s, delta)
    [] s.think.phase = "reasoning" -> RouteReasoningDelta(s, delta)
    [] OTHER                       -> RouteDetectingDelta(s, delta)

DrainReasonTail(s) ==
  IF s.think.tail = <<>> THEN s
  ELSE ReasoningPushDelta([s EXCEPT !.think.tail = <<>>], s.think.tail)

(* Both flushes hand a held-back buffer to the message as plain text. *)
FlushBuffer(s) == PushTextDelta([s EXCEPT !.think.buffer = <<>>], s.think.buffer)

ThinkFlushOnFinalize(s) ==
  LET s1 == CASE s.think.phase = "reasoning" ->
                   ReasoningFinalize(DrainReasonTail(s))
              [] s.think.phase = "detecting" -> FlushBuffer(s)
              [] OTHER                       -> s
  IN  [s1 EXCEPT !.think.phase = "text"]

ForceInlineThinkToText(s) ==
  IF s.think.phase = "text" THEN s
  ELSE [FlushBuffer(ReasoningFinalize(DrainReasonTail(s)))
          EXCEPT !.think.phase = "text"]
=============================================================================
