--------------------------- MODULE MCUpstreamCall ----------------------------
(***************************************************************************)
(* An instance of UpstreamCall for TLC.                                    *)
(***************************************************************************)
EXTENDS UpstreamCallProperties

(* Everything a rule can rewrite at once, streaming; the same with an       *)
(* effort; a stream that does not ask for usage; a plain buffered request   *)
(* and one that forces a tool.                                              *)
Full == [top_p |-> "given", stream_options |-> "usage", parallel_tool_calls |-> TRUE,
         tool_choice |-> TRUE, reasoning_effort |-> "absent", stream |-> TRUE]

Buffered == [Full EXCEPT !.stream = FALSE, !.stream_options = "absent"]

MCChatBodies ==
  {Full,
   [Full EXCEPT !.reasoning_effort = "high"],
   [Full EXCEPT !.stream_options = "noUsage", !.tool_choice = FALSE],
   Buffered,
   [Buffered EXCEPT !.reasoning_effort = "none", !.top_p = "absent"]}

(* Each needle alone, pairs that come together in one sentence, and an      *)
(* error that echoes the whole request.                                     *)
MCComplaints ==
  {{}, {"top_p"}, {"include_usage"}, {"stream_options"}, {"parallel_tool_calls"},
   {"reasoning_effort"}, {"tool_choice"}, {"empty_stream"},
   {"include_usage", "stream_options"}, {"tool_choice", "thinking_mode"},
   {"top_p", "include_usage", "stream_options", "parallel_tool_calls",
    "reasoning_effort", "tool_choice", "thinking_mode"}}
=============================================================================
