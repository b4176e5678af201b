----------------------- MODULE UpstreamBytesProperties -----------------------
(* What the reading of an upstream's bytes promises. *)
EXTENDS UpstreamBytes

(***************************************************************************)
(* A reader of event streams in the words of their standard: line by line, *)
(* over the whole text at once.  A blank line dispatches what the lines    *)
(* since the last one have said; here, as in the code, the end of the text *)
(* does too.                                                               *)
(***************************************************************************)
Nothing == [event |-> <<>>, data |-> <<>>, said |-> FALSE, read |-> <<>>]

Dispatch(r) ==
  [Nothing EXCEPT !.read = IF r.data = <<>> THEN r.read
                           ELSE Append(r.read, [event |-> r.event, data |-> r.data])]

ReadLine(r, line) ==
  CASE line = <<>>             -> Dispatch(r)
    [] HasField(line, "event") -> [r EXCEPT !.event = Trimmed(FieldValue(line))]
    [] HasField(line, "data")  ->
         [r EXCEPT !.data = IF r.said THEN @ \o <<LF>> \o DataValue(line)
                            ELSE DataValue(line),
                   !.said = TRUE]
    [] OTHER                   -> r

Read(text) == Dispatch(FoldLeft(ReadLine, Nothing, Lines(text))).read

(* All bytes decoded at once. *)
WholeText(bytes) == LET d == Decode(bytes) IN d.text \o DecoderFinalize(d.leftover)

(***************************************************************************)
(* Where the network cuts the bytes makes no difference: within a          *)
(* character, between CR and LF, within a line or a frame. When the body   *)
(* has ended, the turn has been fed exactly what a reader of the whole     *)
(* text would tell it, in this order, the frame without its blank line and *)
(* the error frame of a fault included; until then, a beginning of that.   *)
(* (Utf8StreamDecoder, drain_sse_blocks, create_responses_sse_stream.)     *)
(***************************************************************************)
ChunkingInvisible ==
  LET whole == Process(Read(WholeText(arrived)))
  IN  IF phase = "ended" THEN fed = whole ELSE IsPrefix(fed, whole)

(***************************************************************************)
(* A transport fault ends the turn as an error, whatever part of a         *)
(* character, a line or a frame came before it, and for whatever name that *)
(* frame was given, with the one exception that data of the unfinished     *)
(* frame have come: they swallow the error (create_chat_completion_stream, *)
(* process_sse_message).                                                   *)
(***************************************************************************)
FaultIsTold ==
  phase = "ended" /\ IsSuffix(ErrorFrame, arrived) =>
    LET before == SubSeq(arrived, 1, Len(arrived) - Len(ErrorFrame))
        unfinished == FoldLeft(ReadLine, Nothing, Lines(WholeText(before)))
    IN  unfinished.said \/ (fed # <<>> /\ Last(fed).kind = "error")
=============================================================================
