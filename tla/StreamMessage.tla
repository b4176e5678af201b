--------------------------- MODULE StreamMessage ----------------------------
(***************************************************************************)
(* The assistant message item of a streamed turn (stream_message.rs): a    *)
(* sequence of text and refusal segments, each one content part.  Content  *)
(* part n of the code's content_index n - 1 is segments[n]; a segment's    *)
(* closed flag stands for membership of its index in text_part_done.       *)
(***************************************************************************)
EXTENDS StreamReasoning

NewMessage ==
  [segments |-> <<>>, life |-> "not_started", index |-> 0, pending |-> <<>>]

MessageId == <<"msg">>

(* Position of the last segment when it is open text, 0 otherwise. *)
CurrentTextSegment(m) ==
  IF /\ m.segments # <<>>
     /\ m.segments[Len(m.segments)].kind = "text"
     /\ ~m.segments[Len(m.segments)].closed
  THEN Len(m.segments) ELSE 0

AddAnnotations(s, anns) ==
  LET k == CurrentTextSegment(s.message)
  IN  IF anns = <<>> THEN s
      ELSE IF k > 0 THEN [s EXCEPT !.message.segments[k].anns = @ \o anns]
      ELSE [s EXCEPT !.message.pending = @ \o anns]

MessageEnsureStarted(s) ==
  IF s.message.life # "not_started" THEN s
  ELSE Emit(AllocateOutputIndex([s EXCEPT !.message.life = "open",
                                          !.message.index = s.env.next]),
            <<[ev |-> "added", item |-> MessageId, index |-> s.env.next]>>)

PartEvent(name, part, seg) ==
  [ev |-> name, item |-> MessageId, part |-> part, kind |-> seg.kind,
   text |-> seg.text, anns |-> seg.anns]

StartKeepingPending(s) ==
  LET s1  == MessageEnsureStarted(s)
      seg == [kind |-> "text", text |-> <<>>, anns |-> s1.message.pending,
              closed |-> FALSE]
  IN  Emit([s1 EXCEPT !.message.segments = Append(@, seg)],
           <<PartEvent("part_added", Len(s1.message.segments) + 1, seg)>>)

StartTextSegment(s) ==
  LET s1  == MessageEnsureStarted(s)
      seg == [kind |-> "text", text |-> <<>>, anns |-> s1.message.pending,
              closed |-> FALSE]
  IN  Emit([s1 EXCEPT !.message.segments = Append(@, seg),
                      !.message.pending = <<>>],
           <<PartEvent("part_added", Len(s1.message.segments) + 1, seg)>>)

PushTextDelta(s, delta) ==
  IF s.message.life = "done" \/ delta = <<>> THEN s
  ELSE LET k0 == CurrentTextSegment(s.message)
           s1 == IF k0 = 0 THEN StartTextSegment(s)
                 ELSE [s EXCEPT
                         !.message.segments[k0].anns = @ \o s.message.pending,
                         !.message.pending = <<>>]
           k  == Len(s1.message.segments)
       IN  Emit([s1 EXCEPT !.message.segments[k].text = @ \o delta],
                <<[ev |-> "delta", item |-> MessageId, part |-> k,
                   text |-> delta]>>)

(* A refusal is a part that opens and closes at once; it closes no other. *)
PushRefusalPart(s, refusal) ==
  IF refusal = <<>> \/ s.message.life = "done" THEN s
  ELSE LET s1  == MessageEnsureStarted(s)
           seg == [kind |-> "refusal", text |-> refusal, anns |-> <<>>,
                   closed |-> TRUE]
           k   == Len(s1.message.segments) + 1
       IN  Emit([s1 EXCEPT !.message.segments = Append(@, seg)],
                <<PartEvent("part_added", k, seg),
                  PartEvent("part_done", k, seg)>>)

(* finalize_text_segment: nothing for a refusal or an already closed part. *)
ClosePartEvents(segments, k) ==
  IF segments[k].closed THEN <<>>
  ELSE <<[ev |-> "text_done", item |-> MessageId, part |-> k,
          text |-> segments[k].text],
         PartEvent("part_done", k, segments[k])>>

FlushUnrecorded(s) ==
  LET k == CurrentTextSegment(s.message)
  IN  IF k = 0 THEN s ELSE Emit(s, ClosePartEvents(s.message.segments, k))

CloseSegment(s, k) ==
  Emit([s EXCEPT !.message.segments[k].closed = TRUE],
       ClosePartEvents(s.message.segments, k))

FlushOpenTextPart(s) ==
  LET k == CurrentTextSegment(s.message)
  IN  IF s.message.life = "done" \/ k = 0 THEN s ELSE CloseSegment(s, k)

ContentParts(m) ==
  [k \in DOMAIN m.segments |->
     [kind |-> m.segments[k].kind, text |-> m.segments[k].text,
      anns |-> m.segments[k].anns]]

CloseNext(none, s, k) == CloseSegment(s, k)

EachSegment == INSTANCE Iteration WITH Step <- CloseNext

MessageFinalize(s) ==
  IF s.message.life # "open" THEN s
  ELSE LET m    == s.message
           s1   == EachSegment!Iterate(0, [s EXCEPT !.message.life = "done"],
                                       Len(m.segments))
           item == [type |-> "message", id |-> MessageId,
                    parts |-> ContentParts(m)]
       IN  Emit(AppendCompletedItem(s1, m.index, item),
                <<[ev |-> "done", item |-> MessageId, index |-> m.index,
                   body |-> item]>>)
=============================================================================
