--------------------------- MODULE UpstreamBytes ---------------------------
(***************************************************************************)
(* From the bytes of a streaming upstream to the messages that drive a     *)
(* turn: Utf8StreamDecoder, drain_sse_blocks and the loop of               *)
(* create_responses_sse_stream, with the error frame that                  *)
(* create_chat_completion_stream puts in place of a transport fault.       *)
(*                                                                         *)
(* A body is a sequence of symbols. "lead" and "cont" are bytes of a       *)
(* character of three bytes (lead, cont, cont); every other symbol is a    *)
(* piece of ASCII nothing looks inside of: the field names, the colon, the *)
(* space, the line ends, [DONE], and of JSON the braces, an error key, a   *)
(* finish_reason and whatever else.  Text has "char" for a whole character *)
(* and "fffd" for U+FFFD.                                                  *)
(***************************************************************************)
EXTENDS Naturals, Sequences, SequencesExt

CONSTANTS Bodies,       \* what upstreams may send
          MaxChunk      \* bound: a chunk has so many bytes, or all that come

VARIABLES coming,       \* the bytes of the body still to arrive
          leftover,     \* Utf8StreamDecoder.leftover
          buffer,       \* decoded text without a complete frame
          fed,          \* what the turn's state has been fed
          phase,        \* "open", "faulted" (the body has failed), "ended"
          arrived       \* history: every byte given to the decoder

vars == <<coming, leftover, buffer, fed, phase, arrived>>

CR == "\r"
LF == "\n"
Space == {"sp", CR, LF}

(* str::trim *)
Trimmed(t) ==
  LET solid == {k \in DOMAIN t : t[k] \notin Space}
  IN  IF solid = {} THEN <<>> ELSE SubSeq(t, Min(solid), Max(solid))
-----------------------------------------------------------------------------
(* UTF-8. Conts: how many of its two continuation bytes follow a lead. *)
Conts(bytes, i) ==
  Cardinality({n \in 1..2 : /\ i + n <= Len(bytes)
                            /\ \A m \in 1..n : bytes[i + m] = "cont"})

(* std::str::from_utf8, as decode uses it: an invalid sequence is its       *)
(* longest prefix that begins a character (error_len), one that the end of  *)
(* the bytes cuts short is kept (no error_len).                             *)
Decode(bytes) ==
  LET from[i \in 1..(Len(bytes) + 1)] ==
        LET more == IF i > Len(bytes) THEN 0 ELSE Conts(bytes, i)
            then(c, n) == [from[i + n] EXCEPT !.text = <<c>> \o @]
        IN  CASE i > Len(bytes)          -> [text |-> <<>>, leftover |-> <<>>]
              [] bytes[i] = "cont"       -> then("fffd", 1)
              [] bytes[i] = "lead"       ->
                   CASE more = 2              -> then("char", 3)
                     [] i + more = Len(bytes) ->
                          [text |-> <<>>, leftover |-> SubSeq(bytes, i, Len(bytes))]
                     [] OTHER                 -> then("fffd", 1 + more)
              [] OTHER                   -> then(bytes[i], 1)
  IN  from[1]

(* finalize: whatever is held becomes one replacement. *)
DecoderFinalize(held) == IF held = <<>> THEN <<>> ELSE <<"fffd">>
-----------------------------------------------------------------------------
(* The places of t that satisfy Test, in order. *)
Places(t, Test(_)) == SelectSeq([k \in DOMAIN t |-> k], Test)

(* Framing. Normalized: every CR LF becomes LF. *)
Normalized(t) ==
  LET at == Places(t, LAMBDA k : ~(t[k] = CR /\ k < Len(t) /\ t[k + 1] = LF))
  IN  [k \in DOMAIN at |-> t[at[k]]]

BlankLines(t) == {k \in 1..(Len(t) - 1) : t[k] = LF /\ t[k + 1] = LF}

(* A line without its end; str::lines takes a CR before the LF with it. *)
Lines(t) ==
  LET lineFrom(s) == LET ends == {k \in s..Len(t) : t[k] = LF}
                     IN  IF ends = {} THEN SubSeq(t, s, Len(t))
                         ELSE Normalized(SubSeq(t, s, Min(ends)))
      bare(l) == IF l # <<>> /\ Last(l) = LF THEN Front(l) ELSE l
      at == Places(t, LAMBDA k : k = 1 \/ t[k - 1] = LF)
  IN  [k \in DOMAIN at |-> bare(lineFrom(at[k]))]

HasField(line, name) == Len(line) >= 2 /\ line[1] = name /\ line[2] = ":"
FieldValue(line) == SubSeq(line, 3, Len(line))
DataValue(line) ==
  LET v == FieldValue(line) IN IF v # <<>> /\ Head(v) = "sp" THEN Tail(v) ELSE v

JoinLines(parts) == FoldLeft(LAMBDA t, p : t \o <<LF>> \o p, Head(parts), Tail(parts))

(* parse_sse_block; a missing name and missing data are empty. *)
ParseSseBlock(block) ==
  LET names == SelectSeq(Lines(block), LAMBDA l : HasField(l, "event"))
      datas == SelectSeq(Lines(block), LAMBDA l : HasField(l, "data"))
  IN  [event |-> IF names = <<>> THEN <<>> ELSE Trimmed(FieldValue(Last(names))),
       data |-> IF datas = <<>> THEN <<>>
                ELSE JoinLines([k \in DOMAIN datas |-> DataValue(datas[k])])]

(* drain_sse_blocks with extract_block: a text without a blank line is left *)
(* as it is, what follows a frame is normalized already.                    *)
RECURSIVE Drain(_)
Drain(t) ==
  LET n == Normalized(t)
      cut == Min(BlankLines(n))
      block == SubSeq(n, 1, cut - 1)
      after == Drain(SubSeq(n, cut + 2, Len(n)))
      message == ParseSseBlock(block)
  IN  IF BlankLines(n) = {} THEN [messages |-> <<>>, rest |-> t]
      ELSE IF Trimmed(block) = <<>> \/ message.data = <<>> THEN after
      ELSE [after EXCEPT !.messages = <<message>> \o @]
-----------------------------------------------------------------------------
(* process_sse_message: what a message says to the turn. JSON is an object   *)
(* when it is one pair of braces around anything; error_events asks for the  *)
(* event name or the error key.                                              *)
IsObject(data) ==
  LET t == Trimmed(data)
  IN  /\ Len(t) >= 2 /\ t[1] = "{" /\ Last(t) = "}"
      /\ \A k \in 2..(Len(t) - 1) : t[k] \notin {"{", "}", "event", "data", ":"}

ProcessSseMessage(m) ==
  CASE Trimmed(m.data) = <<"[DONE]">>                    -> <<[kind |-> "done"]>>
    [] ~IsObject(m.data)                                 -> <<>>
    [] m.event = <<"error">> \/ Contains(m.data, "error") -> <<[kind |-> "error"]>>
    [] OTHER                              -> <<[kind |-> "chunk", data |-> m.data]>>

Process(messages) == FlattenSeq([k \in DOMAIN messages |-> ProcessSseMessage(messages[k])])

(* as ErrorFrame below, without the name of the event. *)
UnnamedFrame == <<"data", ":", "sp", "{", "error", "}", LF, LF>>

(* serialize_event over the error a fault becomes *)
ErrorFrame ==
  <<"event", ":", "sp", "error", LF, "data", ":", "sp", "{", "error", "}", LF, LF>>

(* as Consume below, were each chunk decoded by itself. *)
ConsumeApart(chunk) ==
  LET text == Decode(chunk).text \o DecoderFinalize(Decode(chunk).leftover)
      drained == Drain(buffer \o text)
  IN  /\ leftover' = <<>>
      /\ buffer' = drained.rest
      /\ fed' = fed \o Process(drained.messages)
      /\ arrived' = arrived \o chunk

(* What the loop does with one chunk of the body. *)
Consume(chunk) ==
  LET decoded == Decode(leftover \o chunk)
      drained == Drain(buffer \o decoded.text)
  IN  /\ leftover' = decoded.leftover
      /\ buffer' = drained.rest
      /\ fed' = fed \o Process(drained.messages)
      /\ arrived' = arrived \o chunk
-----------------------------------------------------------------------------
(* A body may end anywhere: the peer closed. *)
Init ==
  /\ \E b \in Bodies : \E n \in 0..Len(b) : coming = SubSeq(b, 1, n)
  /\ leftover = <<>> /\ buffer = <<>> /\ fed = <<>> /\ arrived = <<>>
  /\ phase = "open"

ReceiveBytes ==
  /\ phase = "open"
  /\ \E n \in {k \in DOMAIN coming : k <= MaxChunk \/ k = Len(coming)} :
       /\ Consume(SubSeq(coming, 1, n))
       /\ coming' = SubSeq(coming, n + 1, Len(coming))
  /\ UNCHANGED phase

(* The transport fails after the first byte. *)
Fault ==
  /\ phase = "open"
  /\ Consume(ErrorFrame)
  /\ coming' = <<>>
  /\ phase' = "faulted"

(* The last frame may lack its blank line. *)
EndOfBytes ==
  LET residual == buffer \o DecoderFinalize(leftover)
      message == ParseSseBlock(residual)
  IN  /\ phase \in {"open", "faulted"} /\ coming = <<>>
      /\ fed' = IF Trimmed(residual) = <<>> \/ message.data = <<>> THEN fed
                ELSE fed \o ProcessSseMessage(message)
      /\ leftover' = <<>> /\ buffer' = <<>>
      /\ phase' = "ended"
      /\ UNCHANGED <<coming, arrived>>

Next == ReceiveBytes \/ Fault \/ EndOfBytes

Spec == Init /\ [][Next]_vars
=============================================================================
