--------------------------- MODULE MCTurnSessions ---------------------------
(***************************************************************************)
(* Instances of TurnSessions for TLC.  Ids are interchangeable.            *)
(***************************************************************************)
EXTENDS TurnSessionsProperties, TLC

Interchangeable == Permutations(Ids)
=============================================================================
