---------------------------- MODULE TurnSessions ----------------------------
(***************************************************************************)
(* Turns that continue one another through the session store               *)
(* (create_response in lib.rs, resolve_session and save_session in         *)
(* session_bridge.rs, the end of create_responses_sse_stream).             *)
(*                                                                         *)
(* A turn is named by the response id it is given.  The messages a turn    *)
(* adds to the conversation, its input and the assistant's answer, stand   *)
(* as the single entry t: their conversion is another matter.  A turn is   *)
(* served "whole" (JSON, or SSE rendered from a buffered body: saved       *)
(* before the answer leaves) or as a "stream" (saved after its last event  *)
(* and the end of the upstream's bytes).                                   *)
(***************************************************************************)
EXTENDS SessionStore, Sequences

CONSTANT None  \* no previous_response_id

VARIABLES
  turn,    \* per id: the request and how far the handler has come
  lastUse, \* history: when the id was last saved or continued from
  lost     \* history: the ids saved before the process last died

vars == <<sessions, now, turn, lastUse, lost>>

Never == -1

Request(phase, mode, parent, named, model, history) ==
  [phase |-> phase, mode |-> mode, parent |-> parent, named |-> named,
   model |-> model, history |-> history, keep |-> FALSE]

Idle == Request("idle", "whole", None, FALSE, None, <<>>)

Phases == {"idle", "calling", "rejected", "answered", "delivered", "dropped",
           "killed"}

StoredModelWins(t, named, record) ==
  IF named /\ record.model = None THEN t ELSE record.model

(* The request's own model, or else the session's. *)
ResolvedModel(t, named, record) == IF named THEN t ELSE record.model

NoSession == [messages |-> <<>>, model |-> None]

(* Set turn t on its way with what resolve_session returned; a turn that    *)
(* ends up without a model is refused.                                      *)
Begin(t, mode, parent, named, record) ==
  LET model == ResolvedModel(t, named, record)
  IN  turn' = [turn EXCEPT ![t] =
        Request(IF model = None THEN "rejected" ELSE "calling",
                mode, parent, named, model, record.messages)]

RereadAtSave(t) ==
  [messages |-> Append(IF turn[t].parent = None \/ ~Live(turn[t].parent) THEN <<>>
                       ELSE sessions[turn[t].parent].record.messages, t),
   model |-> turn[t].model]

(* save_session: the messages as resolved at the start, and this turn's. *)
Snapshot(t) ==
  [messages |-> Append(turn[t].history, t), model |-> turn[t].model]

SaveSession(t) ==
  /\ Save(t, Snapshot(t))
  /\ lastUse' = [lastUse EXCEPT ![t] = now]

Advance(t, phase, keep) ==
  turn' = [turn EXCEPT ![t].phase = phase, ![t].keep = keep]
-----------------------------------------------------------------------------
Init ==
  /\ sessions = [i \in {} |-> NoSession]
  /\ now = 0
  /\ turn = [t \in Ids |-> Idle]
  /\ lastUse = [t \in Ids |-> Never]
  /\ lost = {}

StartFresh(t, mode, named) ==
  /\ turn[t].phase = "idle"
  /\ Begin(t, mode, None, named, NoSession)
  /\ UNCHANGED <<sessions, now, lastUse, lost>>

(* The client continues a turn whose id it may have seen, finished or not. *)
Continue(t, mode, parent, named) ==
  /\ turn[t].phase = "idle" /\ turn[parent].phase # "idle"
  /\ GetHit(parent)
  /\ lastUse' = [lastUse EXCEPT ![parent] = now]
  /\ Begin(t, mode, parent, named, sessions[parent].record)
  /\ UNCHANGED <<now, lost>>

NotFound(t, mode, parent, named) ==
  /\ turn[t].phase = "idle" /\ turn[parent].phase # "idle"
  /\ GetMiss(parent)
  /\ turn' = [turn EXCEPT ![t] = Request("rejected", mode, parent, named, None, <<>>)]
  /\ UNCHANGED <<now, lastUse, lost>>

(* The upstream's whole body is there.  keep: it has an assistant message  *)
(* and a finish_reason that persists; an upstream error is keep = FALSE.    *)
AnswerWhole(t, keep) ==
  /\ turn[t].phase = "calling" /\ turn[t].mode = "whole"
  /\ Advance(t, "delivered", keep)
  /\ IF keep THEN SaveSession(t) ELSE UNCHANGED <<sessions, lastUse>>
  /\ UNCHANGED <<now, lost>>

(* The terminal event is yielded; the generator has not ended. *)
YieldTerminal(t, keep) ==
  /\ turn[t].phase = "calling" /\ turn[t].mode = "stream"
  /\ Advance(t, "answered", keep)
  /\ UNCHANGED <<sessions, now, lastUse, lost>>

(* The body ends once the generator has saved the turn. *)
PersistStream(t) ==
  /\ turn[t].phase = "answered"
  /\ Advance(t, "delivered", turn[t].keep)
  /\ IF turn[t].keep THEN SaveSession(t) ELSE UNCHANGED <<sessions, lastUse>>
  /\ UNCHANGED <<now, lost>>

(* The client goes away: the handler, or the generator, is dropped. *)
Disconnect(t) ==
  /\ turn[t].phase \in {"calling", "answered"}
  /\ Advance(t, "dropped", turn[t].keep)
  /\ UNCHANGED <<sessions, now, lastUse, lost>>

Tick ==
  /\ now < MaxTime
  /\ now' = now + 1
  /\ UNCHANGED <<sessions, turn, lastUse, lost>>

(* The process dies and comes back with an empty store. *)
Restart ==
  /\ sessions' = [i \in {} |-> NoSession]
  /\ turn' = [t \in Ids |-> IF turn[t].phase \in {"calling", "answered"}
                            THEN [turn[t] EXCEPT !.phase = "killed"] ELSE turn[t]]
  /\ lost' = lost \cup {t \in Ids : lastUse[t] # Never}
  /\ UNCHANGED <<now, lastUse>>

TurnStep(t) ==
  \/ \E mode \in {"whole", "stream"}, named \in BOOLEAN :
       \/ StartFresh(t, mode, named)
       \/ \E parent \in Ids : \/ Continue(t, mode, parent, named)
                              \/ NotFound(t, mode, parent, named)
  \/ \E keep \in BOOLEAN : AnswerWhole(t, keep) \/ YieldTerminal(t, keep)
  \/ PersistStream(t)
  \/ Disconnect(t)

Next == (\E t \in Ids : TurnStep(t)) \/ Tick \/ Restart

Spec == Init /\ [][Next]_vars
=============================================================================
