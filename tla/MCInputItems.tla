---------------------------- MODULE MCInputItems -----------------------------
(***************************************************************************)
(* Instances of InputItems for TLC.                                        *)
(***************************************************************************)
EXTENDS InputItemsProperties

C1 == <<"c1">>

C2 == <<"c2">>

Bare(type, text) == Item(type, "user", NoId, text, FALSE, <<>>)

Say(role, text, reasoning, calls) == Item("message", role, NoId, text, reasoning, calls)

CallItem(id, reasoning) == Item("call", "user", id, FALSE, reasoning, <<>>)

Output(id) == Item("output", "user", id, TRUE, FALSE, <<>>)

WithMedia(item) == [item EXCEPT !.media = TRUE]

(* Everything that is pending, flushed, put back, skipped or downgraded. *)
MCItems ==
  {Bare("text", TRUE), Bare("reasoning", TRUE), Bare("reasoning", FALSE),
   Bare("media", TRUE), Bare("media", FALSE), Bare("unknown", FALSE),
   CallItem(C1, FALSE), CallItem(C2, TRUE), CallItem(NoId, FALSE),
   Output(C1),
   Say("system", TRUE, TRUE, <<>>), WithMedia(Say("assistant", TRUE, FALSE, <<>>)),
   WithMedia(Say("invalid", FALSE, TRUE, <<>>)),
   Item("message", "tool", C1, TRUE, FALSE, <<>>)}

(* An answer, calls of fresh and of used ids, nothing but reasoning, nothing. *)
MCAnswers ==
  {Bare("unknown", FALSE),
   Say("assistant", TRUE, TRUE, <<>>), Say("assistant", FALSE, TRUE, <<C1>>),
   Say("assistant", FALSE, FALSE, <<C2, C1>>), Say("assistant", FALSE, TRUE, <<>>)}

ToolTurnItems == {Bare("text", TRUE), Output(C1)}
=============================================================================
