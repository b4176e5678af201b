------------------------- MODULE MCResponsesStream --------------------------
(***************************************************************************)
(* Instances of ResponsesStream for TLC: one set of chunks per question.   *)
(***************************************************************************)
EXTENDS ResponsesStreamProperties

Text(t) == [EmptyChunk EXCEPT !.content = [form |-> "text", text |-> t, parts |-> <<>>]]

Parts(ps) == [EmptyChunk EXCEPT !.content = [form |-> "parts", text |-> <<>>, parts |-> ps]]

Part(kind, t, anns) == [kind |-> kind, text |-> t, anns |-> anns]

Call(i, id, name, args) == [index |-> i, id |-> id, name |-> name, args |-> args]

Tools(ds) == [EmptyChunk EXCEPT !.calls = ds]

MCToolContext ==
  [edit   |-> [kind |-> "custom", ns |-> "",   name |-> "edit"],
   find   |-> [kind |-> "search", ns |-> "",   name |-> "find"],
   db__db |-> [kind |-> "nested", ns |-> "db", name |-> "db"],
   fs__ls |-> [kind |-> "flat",   ns |-> "fs", name |-> "ls"]]

MCUndeclared == [fs__rm |-> [ns |-> "fs", name |-> "rm"]]

(* Strings that split, complete, abandon and imitate the think tags, beside *)
(* the structured ways to say the same.                                     *)
TextChunks ==
  {Text(<<"x">>), Text(<<"o">>), Text(<<"p", "x", "c">>), Text(<<"c">>),
   Text(<<"d", "y">>), Text(<<"w">>), Text(<<"w", "o">>),
   [EmptyChunk EXCEPT !.reasoning = <<"r">>],
   [Text(<<"y">>) EXCEPT !.reasoning = <<"r">>],
   [Text(<<"z">>) EXCEPT !.anns = <<"a1">>],
   [EmptyChunk EXCEPT !.refusal = <<"no">>],
   Parts(<<Part("text", <<"u">>, <<"a2">>), Part("refusal", <<"no">>, <<>>)>>),
   Parts(<<Part("refusal", <<"no">>, <<>>), Part("text", <<"v">>, <<>>)>>)}

(* Two parallel function calls whose fragments, ids and names interleave;   *)
(* a namespace call whose action is found, unknown or never found; a custom *)
(* call whose input arrives in pieces; a name nobody declared that has a    *)
(* registered namespace before it; text, reasoning and [DONE] beside.       *)
ToolChunks ==
  {Text(<<"x">>),
   Text(<<"o">>),
   [EmptyChunk EXCEPT !.reasoning = <<"r">>],
   Tools(<<Call(0, <<"c0">>, "run", <<"l">>), Call(1, <<"c1">>, "db__db", <<>>)>>),
   Tools(<<Call(0, <<>>, "", <<"r">>), Call(1, <<>>, "", <<"act", "r">>)>>),
   Tools(<<Call(1, <<"c1">>, "edit", <<"i", "h">>)>>),
   Tools(<<Call(1, <<"c1">>, "fs__rm", <<"l">>)>>),
   Tools(<<Call(1, <<>>, "", <<"r", "_">>)>>),
   Tools(<<Call(1, <<>>, "", <<"h", "q">>)>>),
   Tools(<<Call(0, <<>>, "", <<"bad", "r">>)>>),
   Tools(<<Call(0, <<"c0">>, "db__db", <<"_">>)>>),
   [Tools(<<Call(2, <<"c2">>, "find", <<"l", "r">>)>>) EXCEPT !.reasoning = <<"w", "r">>,
                                                              !.finish = "tool_calls"]}

(* Ways to end a turn, each reason and its absence, with metadata. *)
EndChunks ==
  {Text(<<"x">>),
   [Text(<<"y">>) EXCEPT !.finish = "length"],
   [EmptyChunk EXCEPT !.finish = "stop", !.model = "m1"],
   [EmptyChunk EXCEPT !.finish = "tool_calls", !.model = "m2"],
   [EmptyChunk EXCEPT !.error = TRUE],
   [EmptyChunk EXCEPT !.usage = 7],
   [EmptyChunk EXCEPT !.refusal = <<"no">>, !.finish = "content_filter"],
   [EmptyChunk EXCEPT !.reasoning = <<"r">>],
   Tools(<<Call(0, <<"c0">>, "run", <<"l", "_", "r">>)>>),
   Tools(<<Call(0, <<>>, "", <<>>)>>)}

(* Text and its endings together. *)
TextAndEndChunks == TextChunks \cup EndChunks

AllUpstreams == {TextAndEndChunks, ToolChunks}

(* Bodies of every combination: content, with its think block at the start, *)
(* in the middle or unclosed; a reasoning field; calls; refusal; the end.   *)
BodyContents ==
  {EmptyChunk, Text(<<"x">>), Text(<<"w">>), Text(<<"w", "o", "p", "r", "c", "d", "w", "y">>),
   Text(<<"x", "o", "p", "r">>), Text(<<"o", "p", "w", "c", "d", "y">>),
   Parts(<<Part("text", <<"u">>, <<"a1", "a2">>), Part("refusal", <<"no">>, <<>>)>>),
   Parts(<<Part("text", <<"u">>, <<"a2">>), Part("text", <<"v">>, <<>>)>>)}

BodyCalls ==
  {<<>>,
   <<[id |-> <<"c0">>, name |-> "run", args |-> <<"l", "_", "r">>],
     [id |-> <<"c1">>, name |-> "db__db", args |-> <<"act", "r">>]>>,
   <<[id |-> <<"c0">>, name |-> "edit", args |-> <<"i", "h", "q">>],
     [id |-> <<"c1">>, name |-> "find", args |-> <<"h">>]>>,
   <<[id |-> <<"c0">>, name |-> "fs__ls", args |-> <<>>],
     [id |-> <<"c1">>, name |-> "db__db", args |-> <<"bad", "r">>]>>,
   <<[id |-> <<"c0">>, name |-> "fs__rm", args |-> <<"l", "r">>],
     [id |-> <<"c1">>, name |-> "run", args |-> <<"l">>]>>,
   <<[id |-> <<>>, name |-> "run", args |-> <<"l", "r">>]>>}

MCBodies ==
  {[model |-> "m1", usage |-> 7,
    choices |-> <<[c EXCEPT !.reasoning = r, !.calls = ds, !.refusal = no,
                            !.anns = a, !.finish = f]>>] :
     c \in BodyContents, r \in {<<>>, <<"w", "r", "w">>}, ds \in BodyCalls,
     no \in {<<>>, <<"no">>}, a \in {<<>>, <<"a1">>},
     f \in {"", "stop", "tool_calls", "length"}}
  \cup {[model |-> "m1", usage |-> 0, choices |-> <<>>]}

NoBodies == {}

InterleavedChunks ==
  {Tools(<<Call(0, <<"c0">>, "run", <<"l", "r">>)>>), Text(<<"x">>),
   Tools(<<Call(1, <<"c1">>, "run", <<"l", "r">>)>>)}

SplitArgumentsChunks ==
  {Tools(<<Call(0, <<"c0">>, "run", <<"l">>)>>),
   Tools(<<Call(0, <<>>, "", <<"r">>)>>)}

InterleavedUpstream == {InterleavedChunks}

SplitArgumentsUpstream == {SplitArgumentsChunks}
=============================================================================
