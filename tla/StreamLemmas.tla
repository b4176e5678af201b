--------------------------- MODULE StreamLemmas ----------------------------
(***************************************************************************)
(* What each handler of a turn does to it, for every state and every       *)
(* input: it keeps the state well formed, adds to the event log only       *)
(* events that fit it, keeps the log and the items' life cycles in         *)
(* agreement (Steps, and Paces for all but the end of the tool calls), and *)
(* says of the texts of the items what they hold (Told). Moves, Writes and *)
(* Advances are these relations together. All of them compose, so a        *)
(* handler is proved from those that it calls, and a loop from its body    *)
(* (Iteration_proofs).                                                     *)
(***************************************************************************)
EXTENDS ResponsesStreamProperties, SequenceTheorems, FiniteSetTheorems, TLAPS

(* A sequence, of whatever elements. *)
IsSeq(q) == \E S : q \in Seq(S)

(* Some event is about the item; one of them closes it. *)
Opened(out, id) == \E k \in DOMAIN out : out[k].item = id

Closed(out, id) == \E k \in DOMAIN out : out[k].item = id /\ out[k].ev = "done"

(* ItemProtocol of any log. *)
Orderly(out) ==
  \A k \in DOMAIN out : out[k].item # <<>> =>
    /\ out[k].ev = "added" <=> \A j \in 1..(k - 1) : out[j].item # out[k].item
    /\ \A j \in 1..(k - 1) : out[j].item = out[k].item => out[j].ev # "done"

(* An event that keeps an orderly log so: an item's first is added, none  *)
(* comes after done.                                                      *)
Fits(out, e) ==
  e.item # <<>> => /\ e.ev = "added" <=> ~Opened(out, e.item)
                   /\ ~Closed(out, e.item)

(* A sequence has a length and the positions 1 to its length. *)
LEMMA SeqFacts ==
  ASSUME NEW q, IsSeq(q)
  PROVE  /\ Len(q) \in Nat
         /\ DOMAIN q = 1..Len(q)
<1> QED BY LenProperties DEF IsSeq

(* The concatenation of two sequences holds the one and then the other. *)
LEMMA Concatenated ==
  ASSUME NEW p, NEW q, IsSeq(p), IsSeq(q)
  PROVE  /\ IsSeq(p \o q)
         /\ Len(p \o q) = Len(p) + Len(q)
         /\ \A k \in 1..Len(p) : (p \o q)[k] = p[k]
         /\ \A k \in 1..Len(q) : (p \o q)[Len(p) + k] = q[k]
<1>1. PICK S : p \in Seq(S)
  BY DEF IsSeq
<1>2. PICK T : q \in Seq(T)
  BY DEF IsSeq
<1>3. p \in Seq(S \cup T) /\ q \in Seq(S \cup T)
  BY <1>1, <1>2, SeqMonotonic
<1>4. p \o q \in Seq(S \cup T)
  BY <1>3, ConcatProperties
<1>5. Len(p \o q) = Len(p) + Len(q) /\ Len(p) \in Nat /\ Len(q) \in Nat
  BY <1>3, ConcatProperties, LenProperties
<1>6. \A k \in 1..(Len(p) + Len(q)) :
         (p \o q)[k] = IF k <= Len(p) THEN p[k] ELSE q[k - Len(p)]
  BY <1>3, ConcatProperties
<1>7. \A k \in 1..Len(p) : (p \o q)[k] = p[k]
  BY <1>5, <1>6
<1>8. ASSUME NEW k \in 1..Len(q) PROVE (p \o q)[Len(p) + k] = q[k]
  <2>1. Len(p) + k \in 1..(Len(p) + Len(q)) /\ ~(Len(p) + k <= Len(p)) /\ (Len(p) + k) - Len(p) = k
    BY <1>5
  <2> QED BY <2>1, <1>6
<1> QED BY <1>4, <1>5, <1>7, <1>8 DEF IsSeq

(* A sequence of one element. *)
LEMMA Single == \A e : IsSeq(<<e>>) /\ Len(<<e>>) = 1 /\ <<e>>[1] = e
<1> TAKE e
<1>1. <<e>> \in Seq({e})
  OBVIOUS
<1> QED BY <1>1 DEF IsSeq

(* The log is out and then the event e, with all that follows from it. *)
Appended(out, e, log) ==
  /\ IsSeq(log)
  /\ Len(log) = Len(out) + 1
  /\ DOMAIN log = 1..(Len(out) + 1)
  /\ DOMAIN out = 1..Len(out)
  /\ \A k \in 1..Len(out) : log[k] = out[k]
  /\ log[Len(out) + 1] = e
  /\ \A id : Opened(log, id) <=> (Opened(out, id) \/ e.item = id)
  /\ \A id : Closed(log, id) <=>
               (Closed(out, id) \/ (e.item = id /\ e.ev = "done"))
  /\ Orderly(out) /\ Fits(out, e) => Orderly(log)

(* What one more event makes of a log: nothing is lost, the items it      *)
(* opens and closes, and an orderly log stays orderly if the event fits   *)
(* it.                                                                    *)
LEMMA LogAppended ==
  ASSUME NEW out, NEW e, IsSeq(out)
  PROVE  Appended(out, e, out \o <<e>>)
<1> DEFINE log == out \o <<e>>
<1>1. IsSeq(log) /\ Len(log) = Len(out) + 1 /\ \A k \in 1..Len(out) : log[k] = out[k]
  BY Single, Concatenated
<1>2. log[Len(out) + 1] = e
  BY Single, Concatenated
<1>3. DOMAIN log = 1..(Len(out) + 1) /\ DOMAIN out = 1..Len(out) /\ Len(out) \in Nat
  BY <1>1, SeqFacts
<1> HIDE DEF log
<1>4. \A id : Opened(log, id) <=> (Opened(out, id) \/ e.item = id)
  BY <1>1, <1>2, <1>3 DEF Opened
<1>5. \A id : Closed(log, id) <=> (Closed(out, id) \/ (e.item = id /\ e.ev = "done"))
  BY <1>1, <1>2, <1>3 DEF Closed
<1>6. ASSUME Orderly(out), Fits(out, e) PROVE Orderly(log)
  <2> SUFFICES ASSUME NEW k \in DOMAIN log, log[k].item # <<>>
               PROVE  /\ log[k].ev = "added" <=> \A j \in 1..(k - 1) : log[j].item # log[k].item
                      /\ \A j \in 1..(k - 1) : log[j].item = log[k].item => log[j].ev # "done"
    BY DEF Orderly
  <2>1. CASE k \in 1..Len(out)
    <3>1. \A j \in 1..(k - 1) : j \in 1..Len(out) /\ log[j] = out[j]
      BY <2>1, <1>1, <1>3
    <3>2. log[k] = out[k]
      BY <2>1, <1>1
    <3> QED BY <1>3, <1>6, <2>1, <3>1, <3>2 DEF Orderly
  <2>2. CASE k = Len(out) + 1
    <3>1. 1..(k - 1) = DOMAIN out /\ log[k] = e
      BY <2>2, <1>2, <1>3
    <3>2. \A j \in 1..(k - 1) : log[j] = out[j]
      BY <3>1, <1>1, <1>3
    <3> QED BY <1>6, <3>1, <3>2 DEF Fits, Opened, Closed
  <2> QED BY <1>3, <2>1, <2>2
<1> QED BY <1>1, <1>2, <1>3, <1>4, <1>5, <1>6 DEF log, Appended

-----------------------------------------------------------------------------
(* Each sub-state is well formed: TypeOK, and what it needs to be         *)
(* inductive.                                                             *)
EnvOK(e) ==
  /\ DOMAIN e = DOMAIN NewEnvelope
  /\ e.started \in BOOLEAN /\ e.completed \in BOOLEAN
  /\ e.status \in Statuses
  /\ e.next \in Nat
  /\ IsSeq(e.items)
  /\ \A k \in DOMAIN e.items : e.items[k].index \in Nat

ReasoningOK(r) ==
  DOMAIN r = DOMAIN NewReasoning /\ r.life \in Lifecycle /\ r.index \in Nat

MessageOK(m) ==
  /\ DOMAIN m = DOMAIN NewMessage
  /\ m.life \in Lifecycle /\ m.index \in Nat
  /\ IsSeq(m.segments)
  /\ m.life = "not_started" => m.segments = <<>>

ThinkOK(h) == DOMAIN h = DOMAIN NewThink /\ h.phase \in Phases

CallOK(c) ==
  /\ DOMAIN c = DOMAIN NewCall
  /\ c.output \in Nat \cup {NoIndex}
  /\ c.added \in BOOLEAN /\ c.done \in BOOLEAN /\ c.buffered \in BOOLEAN
  /\ IsSeq(c.id)
  /\ c.added \/ c.item = <<>>

ToolsOK(h) ==
  /\ DOMAIN h = DOMAIN NewTools
  /\ h.finalized \in BOOLEAN
  /\ h.base \in Nat \cup {NoIndex}
  /\ DOMAIN h.calls \subseteq Nat /\ IsFiniteSet(DOMAIN h.calls)
  /\ \A i \in DOMAIN h.calls : CallOK(h.calls[i]) /\ (h.calls[i].done => h.finalized)

TurnOK(s) ==
  /\ DOMAIN s = DOMAIN NewTurn
  /\ EnvOK(s.env)
  /\ ReasoningOK(s.reasoning)
  /\ MessageOK(s.message)
  /\ ThinkOK(s.think)
  /\ ToolsOK(s.tools)
  /\ IsSeq(s.out)

(* The log shows what the life cycle of the item says. *)
LifeShown(life, out, id) ==
  /\ life = "not_started" <=> ~Opened(out, id)
  /\ life = "done" <=> Closed(out, id)

IsToolId(id) == id \notin {<<>>, ReasoningId, MessageId}

(* The log shows whether the call was opened and closed. *)
CallShown(call, out) ==
  IF call.added
  THEN /\ IsToolId(call.item) /\ Opened(out, call.item)
       /\ call.done => Closed(out, call.item)
  ELSE call.item = <<>>

(* An item is recorded as completed only when it is closed. *)
ItemsShown(s) ==
  \A k \in DOMAIN s.env.items :
    /\ s.env.items[k].item.id = ReasoningId => s.reasoning.life = "done"
    /\ s.env.items[k].item.id = MessageId => s.message.life = "done"

(* The item is that of some opened call. *)
FromCall(s, id) ==
  \E i \in DOMAIN s.tools.calls : s.tools.calls[i].added /\ s.tools.calls[i].item = id

(* The log and the state agree about every item. *)
Shown(s) ==
  /\ ItemsShown(s)
  /\ LifeShown(s.reasoning.life, s.out, ReasoningId)
  /\ LifeShown(s.message.life, s.out, MessageId)
  /\ \A i \in DOMAIN s.tools.calls : CallShown(s.tools.calls[i], s.out)
  /\ \A k \in DOMAIN s.out : \/ s.out[k].item \in {<<>>, ReasoningId, MessageId}
                             \/ FromCall(s, s.out[k].item)

(* ItemsDistinct of any turn. *)
Distinct(s) ==
  \A i, j \in DOMAIN s.tools.calls :
    /\ s.tools.calls[i].added /\ s.tools.calls[j].added
    /\ s.tools.calls[i].item = s.tools.calls[j].item
    => i = j

(* The log is orderly, and no open call has been closed in it. *)
InOrder(s) ==
  /\ Orderly(s.out)
  /\ \A i \in DOMAIN s.tools.calls :
       s.tools.calls[i].added /\ ~s.tools.calls[i].done => ~Closed(s.out, s.tools.calls[i].item)

(* The flags of the envelope that no item handler touches. *)
Kept(s, t) ==
  /\ t.env.started = s.env.started
  /\ t.env.completed = s.env.completed
  /\ t.env.status = s.env.status
  /\ t.env.finish = s.env.finish

Envelope == {"created", "in_progress", "completed", "failed"}

(* Only item events were added to the log. *)
Grows(s, t) ==
  /\ Len(s.out) <= Len(t.out)
  /\ \A k \in 1..Len(s.out) : t.out[k] = s.out[k]
  /\ \A k \in (Len(s.out) + 1)..Len(t.out) : t.out[k].ev \notin Envelope

(* No call is lost, and an opened one keeps its item id. *)
CallsKept(s, t) ==
  \A i \in DOMAIN s.tools.calls :
    /\ i \in DOMAIN t.tools.calls
    /\ s.tools.calls[i].added => /\ t.tools.calls[i].added
                                 /\ t.tools.calls[i].item = s.tools.calls[i].item

(* Nothing more was said of an item that was closed. *)
Silenced(s, t) ==
  \A k \in (Len(s.out) + 1)..Len(t.out) :
    /\ s.reasoning.life = "done" => t.out[k].item # ReasoningId
    /\ s.message.life = "done" => t.out[k].item # MessageId

(* What every handler of an item does to the stages of the items and to   *)
(* the log.                                                               *)
Steps(s, t) ==
  /\ TurnOK(t)
  /\ Kept(s, t)
  /\ Grows(s, t)
  /\ s.reasoning.life = "done" => t.reasoning.life = "done"
  /\ s.message.life = "done" => t.message.life = "done"
  /\ CallsKept(s, t)
  /\ Shown(s) => Shown(t) /\ Silenced(s, t)
  /\ Shown(s) /\ InOrder(s) /\ Distinct(t) => InOrder(t)

(* Doing nothing is a step. *)
LEMMA StepsReflexive == ASSUME NEW s, TurnOK(s) PROVE Steps(s, s)
<1>1. Len(s.out) \in Nat
  BY SeqFacts DEF TurnOK
<1> QED BY <1>1 DEF Steps, Kept, Grows, CallsKept, Silenced

(* Two moves one after the other are a move. *)
LEMMA StepsTransitive ==
  ASSUME NEW s, NEW t, NEW u, TurnOK(s), Steps(s, t), Steps(t, u)
  PROVE  Steps(s, u)
<1>1. TurnOK(t) /\ TurnOK(u)
  BY DEF Steps
<1>2. Len(s.out) \in Nat /\ Len(t.out) \in Nat /\ Len(u.out) \in Nat
  BY <1>1, SeqFacts DEF TurnOK
<1>3. Kept(s, u)
  BY DEF Steps, Kept
<1>4. Grows(s, u)
  BY <1>2 DEF Steps, Grows
<1>5. CallsKept(s, u)
  BY DEF Steps, CallsKept
<1>6. Distinct(u) => Distinct(t)
  BY DEF Steps, CallsKept, Distinct
<1>7. ASSUME Shown(s) PROVE Shown(u) /\ Silenced(s, u)
  <2>1. Shown(t) /\ Silenced(s, t) /\ Silenced(t, u) /\ Shown(u)
    BY <1>7 DEF Steps
  <2>2. \A k \in (Len(s.out) + 1)..Len(t.out) : u.out[k] = t.out[k]
    BY <1>2 DEF Steps, Grows
  <2>3. /\ s.reasoning.life = "done" => t.reasoning.life = "done"
        /\ s.message.life = "done" => t.message.life = "done"
    BY DEF Steps
  <2>4. ASSUME NEW k \in (Len(s.out) + 1)..Len(u.out)
        PROVE  /\ s.reasoning.life = "done" => u.out[k].item # ReasoningId
               /\ s.message.life = "done" => u.out[k].item # MessageId
    <3>1. CASE k \in (Len(s.out) + 1)..Len(t.out)
      BY <2>1, <2>2, <3>1 DEF Silenced
    <3>2. CASE k \in (Len(t.out) + 1)..Len(u.out)
      BY <2>1, <2>3, <3>2 DEF Silenced
    <3> QED BY <1>2, <3>1, <3>2
  <2> QED BY <2>1, <2>4 DEF Silenced
<1> QED BY <1>1, <1>3, <1>4, <1>5, <1>6, <1>7 DEF Steps

-----------------------------------------------------------------------------
(* The call is in the same stage, with the same item. *)
SameCall(c, d) == d.added = c.added /\ d.done = c.done /\ d.item = c.item

(* Nothing was emitted, opened or closed. *)
Silent(s, t) ==
  /\ TurnOK(t)
  /\ Kept(s, t)
  /\ t.env.items = s.env.items
  /\ t.out = s.out
  /\ t.reasoning.life = s.reasoning.life
  /\ t.message.life = s.message.life
  /\ \A i \in DOMAIN s.tools.calls :
       i \in DOMAIN t.tools.calls /\ SameCall(s.tools.calls[i], t.tools.calls[i])
  /\ \A i \in DOMAIN t.tools.calls \ DOMAIN s.tools.calls :
       ~t.tools.calls[i].added /\ t.tools.calls[i].item = <<>>

(* A step that emits nothing and opens or closes nothing is a move. *)
LEMMA SilentSteps ==
  ASSUME NEW s, NEW t, TurnOK(s), Silent(s, t)
  PROVE  Steps(s, t)
<1>1. Len(s.out) \in Nat
  BY SeqFacts DEF TurnOK
<1>2. Grows(s, t)
  BY <1>1 DEF Silent, Grows
<1>3. CallsKept(s, t)
  BY DEF Silent, CallsKept, SameCall
<1>4. ASSUME Shown(s) PROVE Shown(t) /\ Silenced(s, t)
  <2>1. \A id : FromCall(s, id) => FromCall(t, id)
    BY DEF Silent, FromCall, SameCall
  <2>2. \A i \in DOMAIN t.tools.calls : CallShown(t.tools.calls[i], t.out)
    <3> TAKE i \in DOMAIN t.tools.calls
    <3>1. CASE i \in DOMAIN s.tools.calls
      BY <3>1, <1>4 DEF Silent, SameCall, Shown, CallShown
    <3>2. CASE i \notin DOMAIN s.tools.calls
      BY <3>2 DEF Silent, CallShown
    <3> QED BY <3>1, <3>2
  <2>3. Silenced(s, t)
    BY <1>1 DEF Silenced, Silent
  <2>4. ItemsShown(t)
    BY <1>4 DEF Shown, Silent, ItemsShown
  <2> QED BY <1>4, <2>1, <2>2, <2>3, <2>4 DEF Shown, Silent
<1>5. ASSUME InOrder(s) PROVE InOrder(t)
  <2> SUFFICES ASSUME NEW i \in DOMAIN t.tools.calls, t.tools.calls[i].added,
                      ~t.tools.calls[i].done
               PROVE  ~Closed(t.out, t.tools.calls[i].item)
    BY <1>5 DEF InOrder, Silent
  <2>1. i \in DOMAIN s.tools.calls
    BY DEF Silent
  <2> QED BY <2>1, <1>5 DEF Silent, SameCall, InOrder
<1> QED BY <1>2, <1>3, <1>4, <1>5 DEF Steps, Silent

(* Emit adds events to the log and changes nothing else. *)
LEMMA Emitted ==
  ASSUME NEW s, NEW events, TurnOK(s), IsSeq(events)
  PROVE  /\ TurnOK(Emit(s, events))
         /\ Emit(s, events).out = s.out \o events
         /\ Emit(s, events).env = s.env
         /\ Emit(s, events).reasoning = s.reasoning
         /\ Emit(s, events).message = s.message
         /\ Emit(s, events).think = s.think
         /\ Emit(s, events).tools = s.tools
<1>1. IsSeq(s.out \o events)
  BY Concatenated DEF TurnOK
<1> QED BY <1>1 DEF Emit, TurnOK, NewTurn

(* The same for a single event. *)
LEMMA EmittedOne ==
  ASSUME NEW s, NEW e, TurnOK(s)
  PROVE  /\ TurnOK(Emit(s, <<e>>))
         /\ Emit(s, <<e>>).env = s.env
         /\ Emit(s, <<e>>).reasoning = s.reasoning
         /\ Emit(s, <<e>>).message = s.message
         /\ Emit(s, <<e>>).think = s.think
         /\ Emit(s, <<e>>).tools = s.tools
         /\ Appended(s.out, e, Emit(s, <<e>>).out)
<1>1. IsSeq(<<e>>) /\ IsSeq(s.out)
  BY Single DEF TurnOK
<1>2. Appended(s.out, e, s.out \o <<e>>)
  BY <1>1, LogAppended
<1> QED BY <1>1, <1>2, Emitted

(* The item is open. *)
MaySay(s, id) ==
  \/ id = ReasoningId /\ s.reasoning.life = "open"
  \/ id = MessageId /\ s.message.life = "open"
  \/ \E i \in DOMAIN s.tools.calls :
       s.tools.calls[i].added /\ ~s.tools.calls[i].done /\ s.tools.calls[i].item = id

(* Something more is said of an open item. *)
LEMMA SayingSteps ==
  ASSUME NEW s, NEW e, TurnOK(s), e.ev \notin Envelope,
         e.item = <<>> \/ (e.ev \notin {"added", "done"} /\ MaySay(s, e.item))
  PROVE  Steps(s, Emit(s, <<e>>))
<1> DEFINE t == Emit(s, <<e>>)
<1>1. Len(s.out) \in Nat
  BY SeqFacts DEF TurnOK
<1>2. /\ TurnOK(t) /\ t.env = s.env /\ t.reasoning = s.reasoning
      /\ t.message = s.message /\ t.tools = s.tools
  BY EmittedOne, Zenon
<1>3. Appended(s.out, e, t.out)
  BY EmittedOne, Zenon
<1> HIDE DEF t
<1>4. Kept(s, t) /\ CallsKept(s, t)
  BY <1>2 DEF Kept, CallsKept
<1>5. Grows(s, t)
  BY <1>1, <1>3 DEF Grows, Appended
<1>6. ASSUME Shown(s) PROVE Shown(t) /\ Silenced(s, t)
  <2>1. e.item # <<>> => MaySay(s, e.item) /\ e.ev # "done" /\ Opened(s.out, e.item)
    BY <1>6 DEF MaySay, Shown, LifeShown, CallShown
  <2>2. \A id : id # <<>> => (Opened(t.out, id) <=> Opened(s.out, id))
                             /\ (Closed(t.out, id) <=> Closed(s.out, id))
    BY <1>3, <2>1 DEF Appended
  <2>3. /\ LifeShown(t.reasoning.life, t.out, ReasoningId)
        /\ LifeShown(t.message.life, t.out, MessageId)
    BY <1>2, <1>6, <2>2 DEF Shown, LifeShown, ReasoningId, MessageId
  <2>4. \A i \in DOMAIN t.tools.calls : CallShown(t.tools.calls[i], t.out)
    BY <1>2, <1>6, <2>2 DEF Shown, CallShown, IsToolId
  <2>5. \A id : FromCall(t, id) <=> FromCall(s, id)
    BY <1>2 DEF FromCall
  <2>6. e.item # <<>> => e.item \in {ReasoningId, MessageId} \/ FromCall(s, e.item)
    BY <2>1 DEF MaySay, FromCall
  <2>7. \A k \in DOMAIN t.out : \/ t.out[k].item \in {<<>>, ReasoningId, MessageId}
                                \/ FromCall(t, t.out[k].item)
    BY <1>1, <1>3, <1>6, <2>5, <2>6 DEF Shown, Appended
  <2>8. Silenced(s, t)
    <3>1. s.reasoning.life = "done" => e.item # ReasoningId
      BY <1>6, <2>1 DEF MaySay, Shown, LifeShown, CallShown, IsToolId, ReasoningId, MessageId
    <3>2. s.message.life = "done" => e.item # MessageId
      BY <1>6, <2>1 DEF MaySay, Shown, LifeShown, CallShown, IsToolId, ReasoningId, MessageId
    <3> QED BY <1>1, <1>3, <3>1, <3>2 DEF Silenced, Appended
  <2>9. ItemsShown(t)
    BY <1>2, <1>6 DEF Shown, ItemsShown
  <2> QED BY <2>3, <2>4, <2>7, <2>8, <2>9 DEF Shown
<1>7. ASSUME Shown(s), InOrder(s) PROVE InOrder(t)
  <2>1. e.item # <<>> => Opened(s.out, e.item) /\ ~Closed(s.out, e.item) /\ e.ev \notin {"added", "done"}
    BY <1>7 DEF MaySay, Shown, LifeShown, CallShown, InOrder
  <2>2. Fits(s.out, e)
    BY <2>1 DEF Fits
  <2>3. \A i \in DOMAIN s.tools.calls :
          s.tools.calls[i].added => s.tools.calls[i].item # <<>>
    BY <1>7 DEF Shown, CallShown, IsToolId
  <2> QED BY <1>2, <1>3, <1>7, <2>1, <2>2, <2>3 DEF InOrder, Appended
<1> QED BY <1>2, <1>4, <1>5, <1>6, <1>7 DEF Steps, t

(* The two steps of a life cycle, and the events that go with them. *)
LifeStep(from, to, ev) ==
  \/ from = "not_started" /\ to = "open" /\ ev = "added"
  \/ from = "open" /\ to = "done" /\ ev = "done"

(* From s to u no completed item is recorded but the one that e closes.     *)
Records(s, u, e) ==
  \A k \in DOMAIN u.env.items :
    \/ k \in DOMAIN s.env.items /\ u.env.items[k] = s.env.items[k]
    \/ e.ev = "done" /\ u.env.items[k].item.id = e.item

(* The reasoning or the message item opens, or closes, and the event says so. *)
LEMMA LifeSteps ==
  ASSUME NEW s, NEW u, NEW e, TurnOK(s), TurnOK(u), Kept(s, u), u.out = s.out,
         u.tools = s.tools, Records(s, u, e),
         \/ /\ e.item = ReasoningId
            /\ LifeStep(s.reasoning.life, u.reasoning.life, e.ev)
            /\ u.message.life = s.message.life
         \/ /\ e.item = MessageId
            /\ LifeStep(s.message.life, u.message.life, e.ev)
            /\ u.reasoning.life = s.reasoning.life
  PROVE  Steps(s, Emit(u, <<e>>))
<1> DEFINE t == Emit(u, <<e>>)
<1>1. Len(s.out) \in Nat
  BY SeqFacts DEF TurnOK
<1>2. /\ TurnOK(t) /\ t.env = u.env /\ t.reasoning = u.reasoning
      /\ t.message = u.message /\ t.tools = u.tools /\ Appended(u.out, e, t.out)
  BY EmittedOne, Zenon
<1>3. Appended(s.out, e, t.out) /\ t.tools = s.tools
  BY <1>2
<1>4. ReasoningId # MessageId /\ ReasoningId # <<>> /\ MessageId # <<>> /\ e.ev \in {"added", "done"}
  BY DEF ReasoningId, MessageId, LifeStep
<1> HIDE DEF t
<1>5. Kept(s, t) /\ CallsKept(s, t)
  BY <1>2, <1>3 DEF Kept, CallsKept
<1>6. Grows(s, t)
  BY <1>1, <1>3, <1>4 DEF Grows, Appended, Envelope
<1>7. /\ s.reasoning.life = "done" => t.reasoning.life = "done" /\ e.item # ReasoningId
      /\ s.message.life = "done" => t.message.life = "done" /\ e.item # MessageId
  BY <1>2, <1>4 DEF LifeStep
<1>8. ASSUME Shown(s) PROVE Shown(t) /\ Silenced(s, t)
  <2>1. /\ LifeShown(t.reasoning.life, t.out, ReasoningId)
        /\ LifeShown(t.message.life, t.out, MessageId)
    BY <1>2, <1>3, <1>4, <1>8 DEF Shown, LifeShown, Appended, LifeStep
  <2>2. \A i \in DOMAIN t.tools.calls : CallShown(t.tools.calls[i], t.out)
    BY <1>3, <1>8 DEF Shown, CallShown, Appended
  <2>3. \A id : FromCall(t, id) <=> FromCall(s, id)
    BY <1>3 DEF FromCall
  <2>4. \A k \in DOMAIN t.out : \/ t.out[k].item \in {<<>>, ReasoningId, MessageId}
                                \/ FromCall(t, t.out[k].item)
    BY <1>1, <1>3, <1>8, <2>3 DEF Shown, Appended
  <2>5. Silenced(s, t)
    BY <1>1, <1>3, <1>7 DEF Silenced, Appended
  <2>6. ItemsShown(t)
    BY <1>2, <1>4, <1>8 DEF Shown, ItemsShown, Records, LifeStep
  <2> QED BY <2>1, <2>2, <2>4, <2>5, <2>6 DEF Shown
<1>9. ASSUME Shown(s), InOrder(s) PROVE InOrder(t)
  <2>1. Fits(s.out, e)
    BY <1>4, <1>9 DEF Fits, Shown, LifeShown, LifeStep
  <2>2. \A i \in DOMAIN s.tools.calls :
          s.tools.calls[i].added => s.tools.calls[i].item # e.item
    BY <1>9 DEF Shown, CallShown, IsToolId
  <2> QED BY <1>2, <1>3, <1>9, <2>1, <2>2 DEF InOrder, Appended
<1> QED BY <1>2, <1>5, <1>6, <1>7, <1>8, <1>9 DEF Steps, t

(* No call but i changed stage. *)
OtherCallsSame(s, u, i) ==
  /\ DOMAIN u.tools.calls = DOMAIN s.tools.calls
  /\ i \in DOMAIN s.tools.calls
  /\ \A j \in DOMAIN s.tools.calls \ {i} : SameCall(s.tools.calls[j], u.tools.calls[j])

(* A tool call's item opens under an id of its own. *)
LEMMA CallOpensSteps ==
  ASSUME NEW s, NEW u, NEW e, NEW i, TurnOK(s), TurnOK(u), Kept(s, u), u.out = s.out,
         u.reasoning.life = s.reasoning.life, u.message.life = s.message.life,
         OtherCallsSame(s, u, i), Records(s, u, e),
         ~s.tools.calls[i].added, ~s.tools.calls[i].done,
         u.tools.calls[i].added, ~u.tools.calls[i].done,
         IsToolId(u.tools.calls[i].item),
         e.item = u.tools.calls[i].item, e.ev = "added"
  PROVE  Steps(s, Emit(u, <<e>>))
<1> DEFINE t == Emit(u, <<e>>)
<1>1. Len(s.out) \in Nat
  BY SeqFacts DEF TurnOK
<1>2. /\ TurnOK(t) /\ t.env = u.env /\ t.reasoning = u.reasoning
      /\ t.message = u.message /\ t.tools = u.tools /\ Appended(u.out, e, t.out)
  BY EmittedOne, Zenon
<1>3. Appended(s.out, e, t.out)
  BY <1>2
<1> HIDE DEF t
<1>4. Kept(s, t) /\ CallsKept(s, t)
  BY <1>2 DEF Kept, CallsKept, OtherCallsSame, SameCall
<1>5. Grows(s, t)
  BY <1>1, <1>3 DEF Grows, Appended, Envelope
<1>6. ASSUME Shown(s) PROVE Shown(t) /\ Silenced(s, t)
  <2>1. /\ LifeShown(t.reasoning.life, t.out, ReasoningId)
        /\ LifeShown(t.message.life, t.out, MessageId)
    BY <1>2, <1>3, <1>6 DEF Shown, LifeShown, Appended, IsToolId
  <2>2. \A j \in DOMAIN t.tools.calls : CallShown(t.tools.calls[j], t.out)
    BY <1>2, <1>3, <1>6 DEF Shown, CallShown, Appended, OtherCallsSame, SameCall
  <2>3. ASSUME NEW id PROVE FromCall(t, id) <=> FromCall(s, id) \/ id = e.item
    <3>1. \A j \in DOMAIN s.tools.calls \ {i} : SameCall(s.tools.calls[j], t.tools.calls[j])
      BY <1>2 DEF OtherCallsSame
    <3>2. DOMAIN t.tools.calls = DOMAIN s.tools.calls /\ i \in DOMAIN s.tools.calls
      BY <1>2 DEF OtherCallsSame
    <3>3. t.tools.calls[i].added /\ t.tools.calls[i].item = e.item
      BY <1>2
    <3>4. FromCall(s, id) => FromCall(t, id)
      BY <3>1, <3>2, <3>3 DEF FromCall, SameCall
    <3>5. FromCall(t, id) => FromCall(s, id) \/ id = e.item
      BY <3>1, <3>2, <3>3 DEF FromCall, SameCall
    <3> QED BY <3>2, <3>3, <3>4, <3>5 DEF FromCall
  <2>4. \A k \in DOMAIN t.out : \/ t.out[k].item \in {<<>>, ReasoningId, MessageId}
                                \/ FromCall(t, t.out[k].item)
    BY <1>1, <1>3, <1>6, <2>3 DEF Shown, Appended
  <2>5. Silenced(s, t)
    BY <1>1, <1>3 DEF Silenced, Appended, IsToolId
  <2>6. ItemsShown(t)
    BY <1>2, <1>6 DEF Shown, ItemsShown, Records
  <2> QED BY <2>1, <2>2, <2>4, <2>5, <2>6 DEF Shown
<1>7. ASSUME Shown(s), InOrder(s), Distinct(t) PROVE InOrder(t)
  <2>1. ~FromCall(s, e.item)
    BY <1>2, <1>7 DEF FromCall, Distinct, OtherCallsSame, SameCall
  <2>2. ~Opened(s.out, e.item) /\ ~Closed(s.out, e.item)
    BY <1>7, <2>1 DEF Shown, Opened, Closed, IsToolId
  <2>3. Fits(s.out, e)
    BY <2>2 DEF Fits
  <2> QED BY <1>2, <1>3, <1>7, <2>2, <2>3 DEF InOrder, Appended, OtherCallsSame, SameCall
<1> QED BY <1>2, <1>4, <1>5, <1>6, <1>7 DEF Steps, t

(* A tool call's item, if it was opened, closes with its last event. *)
LEMMA CallClosesSteps ==
  ASSUME NEW s, NEW u, NEW e, NEW i, TurnOK(s), TurnOK(u), Kept(s, u), u.out = s.out,
         u.reasoning.life = s.reasoning.life, u.message.life = s.message.life,
         OtherCallsSame(s, u, i), Records(s, u, e),
         u.tools.calls[i].added = s.tools.calls[i].added,
         u.tools.calls[i].item = s.tools.calls[i].item,
         ~s.tools.calls[i].done, u.tools.calls[i].done,
         e.item = s.tools.calls[i].item, e.ev = "done"
  PROVE  Steps(s, Emit(u, <<e>>))
<1> DEFINE t == Emit(u, <<e>>)
<1>1. Len(s.out) \in Nat
  BY SeqFacts DEF TurnOK
<1>2. /\ TurnOK(t) /\ t.env = u.env /\ t.reasoning = u.reasoning
      /\ t.message = u.message /\ t.tools = u.tools /\ Appended(u.out, e, t.out)
  BY EmittedOne, Zenon
<1>3. Appended(s.out, e, t.out)
  BY <1>2
<1> HIDE DEF t
<1>4. Kept(s, t) /\ CallsKept(s, t)
  BY <1>2 DEF Kept, CallsKept, OtherCallsSame, SameCall
<1>5. Grows(s, t)
  BY <1>1, <1>3 DEF Grows, Appended, Envelope
<1>6. ASSUME Shown(s) PROVE Shown(t) /\ Silenced(s, t)
  <2>1. e.item \notin {ReasoningId, MessageId} /\ (e.item # <<>> => Opened(s.out, e.item) /\ FromCall(s, e.item))
    BY <1>6 DEF Shown, CallShown, IsToolId, OtherCallsSame, FromCall, ReasoningId, MessageId
  <2>2. /\ LifeShown(t.reasoning.life, t.out, ReasoningId)
        /\ LifeShown(t.message.life, t.out, MessageId)
    BY <1>2, <1>3, <1>6, <2>1 DEF Shown, LifeShown, Appended
  <2>3. ASSUME NEW j \in DOMAIN t.tools.calls PROVE CallShown(t.tools.calls[j], t.out)
    <3>1. j \in DOMAIN s.tools.calls /\ CallShown(s.tools.calls[j], s.out)
      BY <1>2, <1>6 DEF Shown, OtherCallsSame
    <3>2. CASE j = i
      BY <1>2, <1>3, <3>1, <3>2 DEF CallShown, Appended
    <3>3. CASE j # i
      <4>1. SameCall(s.tools.calls[j], t.tools.calls[j])
        BY <1>2, <3>1, <3>3 DEF OtherCallsSame
      <4> QED BY <1>3, <3>1, <4>1 DEF CallShown, Appended, SameCall
    <3> QED BY <3>2, <3>3
  <2>4. \A id : FromCall(t, id) <=> FromCall(s, id)
    BY <1>2 DEF FromCall, OtherCallsSame, SameCall
  <2>5. ASSUME NEW k \in DOMAIN t.out
        PROVE  \/ t.out[k].item \in {<<>>, ReasoningId, MessageId}
               \/ FromCall(t, t.out[k].item)
    <3>1. (k \in DOMAIN s.out /\ t.out[k] = s.out[k]) \/ t.out[k] = e
      BY <1>1, <1>3 DEF Appended
    <3> QED BY <1>6, <2>1, <2>4, <3>1 DEF Shown
  <2>6. Silenced(s, t)
    BY <1>1, <1>3, <2>1 DEF Silenced, Appended
  <2>7. ItemsShown(t)
    BY <1>2, <1>6, <2>1 DEF Shown, ItemsShown, Records
  <2> QED BY <2>2, <2>3, <2>5, <2>6, <2>7 DEF Shown
<1>7. ASSUME Shown(s), InOrder(s), Distinct(t) PROVE InOrder(t)
  <2>1. Fits(s.out, e)
    BY <1>7 DEF Fits, Shown, CallShown, InOrder, OtherCallsSame
  <2>2. \A j \in DOMAIN t.tools.calls \ {i} :
          t.tools.calls[j].added => t.tools.calls[j].item # e.item
    <3> SUFFICES ASSUME NEW j \in DOMAIN t.tools.calls \ {i}, t.tools.calls[j].added,
                        t.tools.calls[j].item = e.item
                 PROVE  FALSE
      OBVIOUS
    <3>1. e.item # <<>>
      BY <1>2, <1>7 DEF Shown, CallShown, IsToolId, OtherCallsSame, SameCall
    <3>2. t.tools.calls[i].added /\ t.tools.calls[i].item = e.item
      BY <1>2, <1>7, <3>1 DEF Shown, CallShown, OtherCallsSame
    <3> QED BY <1>2, <1>7, <3>2 DEF Distinct, OtherCallsSame
  <2> QED BY <1>2, <1>3, <1>7, <2>1, <2>2 DEF InOrder, Appended, OtherCallsSame, SameCall
<1> QED BY <1>2, <1>4, <1>5, <1>6, <1>7 DEF Steps, t

-----------------------------------------------------------------------------
(* A step that speaks of the reasoning and the message only and leaves the *)
(* calls alone: every handler but those of the tool-call store.            *)
Paces(s, t) ==
  /\ Steps(s, t)
  /\ t.tools = s.tools
  /\ \A k \in (Len(s.out) + 1)..Len(t.out) : t.out[k].item \in {ReasoningId, MessageId}

(* Doing nothing leaves the calls alone. *)
LEMMA PacesReflexive == ASSUME NEW s, TurnOK(s) PROVE Paces(s, s)
<1>1. Len(s.out) \in Nat
  BY SeqFacts DEF TurnOK
<1> QED BY <1>1, StepsReflexive DEF Paces

(* Two steps that leave the calls alone do so together. *)
LEMMA PacesTransitive ==
  ASSUME NEW s, NEW t, NEW u, TurnOK(s), Paces(s, t), Paces(t, u)
  PROVE  Paces(s, u)
<1>1. TurnOK(t) /\ TurnOK(u)
  BY DEF Paces, Steps
<1>2. Len(s.out) \in Nat /\ Len(t.out) \in Nat /\ Len(u.out) \in Nat
  BY <1>1, SeqFacts DEF TurnOK
<1>3. Steps(s, u)
  BY StepsTransitive DEF Paces
<1>4. \A k \in (Len(s.out) + 1)..Len(t.out) : u.out[k] = t.out[k]
  BY <1>2 DEF Paces, Steps, Grows
<1> QED BY <1>2, <1>3, <1>4 DEF Paces

(* A step that says nothing and leaves the calls alone advances the turn. *)
LEMMA SilentPaces ==
  ASSUME NEW s, NEW t, TurnOK(s), TurnOK(t), Kept(s, t), t.env.items = s.env.items,
         t.out = s.out, t.tools = s.tools,
         t.reasoning.life = s.reasoning.life, t.message.life = s.message.life
  PROVE  Paces(s, t)
<1>1. Len(s.out) \in Nat
  BY SeqFacts DEF TurnOK
<1>2. Silent(s, t)
  BY DEF Silent, SameCall
<1> QED BY <1>1, <1>2, SilentSteps DEF Paces

(* Something more is said of the open reasoning or message item. *)
LEMMA SayingPaces ==
  ASSUME NEW s, NEW e, TurnOK(s), e.ev \notin Envelope \cup {"added", "done"},
         \/ e.item = ReasoningId /\ s.reasoning.life = "open"
         \/ e.item = MessageId /\ s.message.life = "open"
  PROVE  Paces(s, Emit(s, <<e>>))
<1>1. Steps(s, Emit(s, <<e>>))
  BY SayingSteps DEF MaySay
<1>2. Appended(s.out, e, Emit(s, <<e>>).out) /\ Emit(s, <<e>>).tools = s.tools
  BY EmittedOne, Zenon
<1>3. Len(s.out) \in Nat
  BY SeqFacts DEF TurnOK
<1> QED BY <1>1, <1>2, <1>3 DEF Paces, Appended

(* The reasoning or the message item opens or closes: as LifeSteps. *)
LEMMA LifePaces ==
  ASSUME NEW s, NEW u, NEW e, TurnOK(s), TurnOK(u), Kept(s, u), u.out = s.out,
         u.tools = s.tools, Records(s, u, e),
         \/ /\ e.item = ReasoningId
            /\ LifeStep(s.reasoning.life, u.reasoning.life, e.ev)
            /\ u.message.life = s.message.life
         \/ /\ e.item = MessageId
            /\ LifeStep(s.message.life, u.message.life, e.ev)
            /\ u.reasoning.life = s.reasoning.life
  PROVE  Paces(s, Emit(u, <<e>>))
<1>1. Steps(s, Emit(u, <<e>>))
  BY LifeSteps
<1>2. Appended(u.out, e, Emit(u, <<e>>).out) /\ Emit(u, <<e>>).tools = u.tools
  BY EmittedOne, Zenon
<1>3. Len(s.out) \in Nat
  BY SeqFacts DEF TurnOK
<1> QED BY <1>1, <1>2, <1>3 DEF Paces, Appended

-----------------------------------------------------------------------------
(* The handlers of the reasoning item and of the message item. *)

(* Vec::push: the elements there were, and the new one. *)
LEMMA AppendIsSeq ==
  ASSUME NEW q, NEW e, IsSeq(q)
  PROVE  /\ IsSeq(Append(q, e))
         /\ \A k \in DOMAIN Append(q, e) :
              (k \in DOMAIN q /\ Append(q, e)[k] = q[k]) \/ Append(q, e)[k] = e
<1>1. PICK S : q \in Seq(S)
  BY DEF IsSeq
<1>2. q \in Seq(S \cup {e})
  BY <1>1, SeqMonotonic
<1>3. /\ Append(q, e) \in Seq(S \cup {e}) /\ Len(Append(q, e)) = Len(q) + 1
      /\ \A k \in 1..Len(q) : Append(q, e)[k] = q[k]
      /\ Append(q, e)[Len(q) + 1] = e
  BY <1>2, AppendProperties
<1>4. Len(q) \in Nat /\ DOMAIN q = 1..Len(q) /\ DOMAIN Append(q, e) = 1..(Len(q) + 1)
  BY <1>2, <1>3, LenProperties
<1>5. \A k \in 1..(Len(q) + 1) : k \in 1..Len(q) \/ k = Len(q) + 1
  BY <1>4
<1> QED BY <1>3, <1>4, <1>5 DEF IsSeq

(* A sequence with one element replaced is one. *)
LEMMA ExceptIsSeq ==
  ASSUME NEW q, NEW k, NEW e, NEW r, IsSeq(q), r = [q EXCEPT ![k] = e]
  PROVE  IsSeq(r)
<1>1. PICK S : q \in Seq(S)
  BY DEF IsSeq
<1>2. Len(q) \in Nat /\ q \in [1..Len(q) -> S]
  BY <1>1, LenProperties
<1>3. [q EXCEPT ![k] = e] \in [1..Len(q) -> S \cup {e}]
  BY <1>2
<1>4. [q EXCEPT ![k] = e] \in Seq(S \cup {e})
  BY <1>2, <1>3, SeqDef
<1> QED BY <1>4 DEF IsSeq

(* Two events in one batch are as good as one after the other. *)
LEMMA EmittedPair ==
  ASSUME NEW s, NEW d, NEW e, TurnOK(s)
  PROVE  Emit(s, <<d, e>>) = Emit(Emit(s, <<d>>), <<e>>)
<1>1. PICK S : s.out \in Seq(S)
  BY DEF TurnOK, IsSeq
<1>2. s.out \in Seq(S \cup {d, e}) /\ <<d>> \in Seq(S \cup {d, e}) /\ <<e>> \in Seq(S \cup {d, e})
  BY <1>1, SeqMonotonic
<1>3. (s.out \o <<d>>) \o <<e>> = s.out \o (<<d>> \o <<e>>)
  BY <1>2, ConcatAssociative
<1>4. <<d>> \o <<e>> = <<d, e>>
  <2>1. <<d>> \o <<e>> \in Seq(S \cup {d, e}) /\ <<d, e>> \in Seq(S \cup {d, e})
    BY <1>2, ConcatProperties
  <2>2. Len(<<d>> \o <<e>>) = 2 /\ Len(<<d, e>>) = 2
    BY Single, Concatenated
  <2>3. (<<d>> \o <<e>>)[1] = d /\ (<<d>> \o <<e>>)[2] = e
    BY Single, Concatenated
  <2>4. \A k \in 1..2 : (<<d>> \o <<e>>)[k] = <<d, e>>[k]
    BY <2>3
  <2> QED BY <2>1, <2>2, <2>4, SeqEqual
<1>5. "out" \in DOMAIN s
  BY DEF TurnOK, NewTurn
<1>6. [[s EXCEPT !.out = s.out \o <<d>>] EXCEPT !.out = (s.out \o <<d>>) \o <<e>>] =
        [s EXCEPT !.out = (s.out \o <<d>>) \o <<e>>]
  OBVIOUS
<1>7. [s EXCEPT !.out = s.out \o <<d>>].out = s.out \o <<d>>
  BY <1>5
<1> QED BY <1>3, <1>4, <1>6, <1>7 DEF Emit

(* A state that differs from s only in the data of its items and their texts. *)
LEMMA DataPaces ==
  ASSUME NEW s, NEW t, TurnOK(s), DOMAIN t = DOMAIN s,
         t.env = s.env, t.tools = s.tools, t.out = s.out,
         ReasoningOK(t.reasoning), t.reasoning.life = s.reasoning.life,
         MessageOK(t.message), t.message.life = s.message.life,
         ThinkOK(t.think)
  PROVE  Paces(s, t) /\ TurnOK(t)
<1>1. TurnOK(t) /\ Kept(s, t)
  BY DEF TurnOK, Kept
<1> QED BY <1>1, SilentPaces

-----------------------------------------------------------------------------
(* ensure_started of the reasoning item opens it unless it was opened. *)
LEMMA ReasoningEnsureStartedPaces ==
  ASSUME NEW s, TurnOK(s)
  PROVE  /\ Paces(s, ReasoningEnsureStarted(s))
         /\ s.reasoning.life # "done" => ReasoningEnsureStarted(s).reasoning.life = "open"
<1>1. CASE s.reasoning.life # "not_started"
  BY <1>1, PacesReflexive DEF ReasoningEnsureStarted, TurnOK, ReasoningOK, Lifecycle
<1>2. CASE s.reasoning.life = "not_started"
  <2> DEFINE u == AllocateOutputIndex([s EXCEPT !.reasoning.life = "open",
                                               !.reasoning.index = s.env.next])
             e == [ev |-> "added", item |-> ReasoningId, index |-> s.env.next]
  <2>1. /\ DOMAIN u = DOMAIN s
        /\ u.env = [s.env EXCEPT !.next = @ + 1]
        /\ u.reasoning = [s.reasoning EXCEPT !.life = "open", !.index = s.env.next]
        /\ u.message = s.message /\ u.think = s.think /\ u.tools = s.tools /\ u.out = s.out
    BY DEF TurnOK, NewTurn, AllocateOutputIndex
  <2>2. e.ev = "added" /\ e.item = ReasoningId
    OBVIOUS
  <2>3. ReasoningEnsureStarted(s) = Emit(u, <<e>>)
    BY <1>2 DEF ReasoningEnsureStarted
  <2> HIDE DEF u, e
  <2>4. EnvOK(u.env) /\ Kept(s, u) /\ Records(s, u, e)
    BY <2>1 DEF TurnOK, EnvOK, NewEnvelope, Kept, Records
  <2>5. ReasoningOK(u.reasoning) /\ u.reasoning.life = "open"
    BY <2>1 DEF TurnOK, EnvOK, ReasoningOK, NewReasoning, Lifecycle
  <2>6. TurnOK(u)
    BY <2>1, <2>4, <2>5 DEF TurnOK
  <2>7. Paces(s, Emit(u, <<e>>))
    BY <1>2, <2>1, <2>2, <2>4, <2>5, <2>6, LifePaces DEF LifeStep
  <2>8. Emit(u, <<e>>).reasoning = u.reasoning
    BY <2>6, EmittedOne, Zenon
  <2> QED BY <2>3, <2>5, <2>7, <2>8
<1> QED BY <1>1, <1>2

(* push_delta of the reasoning item. *)
LEMMA ReasoningPushDeltaPaces ==
  ASSUME NEW s, NEW delta, TurnOK(s)
  PROVE  Paces(s, ReasoningPushDelta(s, delta))
<1>1. CASE s.reasoning.life = "done"
  BY <1>1, PacesReflexive DEF ReasoningPushDelta
<1>2. CASE s.reasoning.life # "done"
  <2> DEFINE s1 == ReasoningEnsureStarted(s)
             u  == [s1 EXCEPT !.reasoning.text = @ \o delta]
             e  == [ev |-> "delta", item |-> ReasoningId, part |-> 1, text |-> delta]
  <2>1. Paces(s, s1) /\ s1.reasoning.life = "open"
    BY <1>2, ReasoningEnsureStartedPaces
  <2>2. e.ev = "delta" /\ e.item = ReasoningId
    OBVIOUS
  <2>3. ReasoningPushDelta(s, delta) = Emit(u, <<e>>)
    BY <1>2 DEF ReasoningPushDelta
  <2> HIDE DEF s1, e
  <2>4. TurnOK(s1)
    BY <2>1 DEF Paces, Steps
  <2>5. /\ DOMAIN u = DOMAIN s1 /\ u.env = s1.env /\ u.message = s1.message
        /\ u.think = s1.think /\ u.tools = s1.tools /\ u.out = s1.out
        /\ u.reasoning = [s1.reasoning EXCEPT !.text = @ \o delta]
    BY <2>4 DEF TurnOK, NewTurn
  <2> HIDE DEF u
  <2>6. ReasoningOK(u.reasoning) /\ u.reasoning.life = s1.reasoning.life
    BY <2>4, <2>5 DEF TurnOK, ReasoningOK, NewReasoning
  <2>7. Paces(s1, u) /\ TurnOK(u)
    BY <2>4, <2>5, <2>6, DataPaces DEF TurnOK
  <2>8. Paces(u, Emit(u, <<e>>))
    BY <2>1, <2>2, <2>6, <2>7, SayingPaces DEF Envelope
  <2> QED BY <2>1, <2>3, <2>4, <2>7, <2>8, PacesTransitive
<1> QED BY <1>1, <1>2

(* AppendCompletedItem records the item and changes nothing else.           *)
Completes(s, index, item, t) ==
  /\ TurnOK(t)
  /\ Kept(s, t)
  /\ \A k \in DOMAIN t.env.items :
       \/ k \in DOMAIN s.env.items /\ t.env.items[k] = s.env.items[k]
       \/ t.env.items[k] = [index |-> index, item |-> item]
  /\ t.reasoning = s.reasoning /\ t.message = s.message /\ t.think = s.think
  /\ t.tools = s.tools /\ t.out = s.out

(* append_completed_item records the item and changes nothing else. *)
LEMMA ItemAppended ==
  ASSUME NEW s, NEW index \in Nat, NEW item, TurnOK(s)
  PROVE  Completes(s, index, item, AppendCompletedItem(s, index, item))
<1> DEFINE t == AppendCompletedItem(s, index, item)
<1>1. /\ DOMAIN t = DOMAIN s
      /\ t.env = [s.env EXCEPT !.items = Append(@, [index |-> index, item |-> item])]
      /\ t.reasoning = s.reasoning /\ t.message = s.message /\ t.think = s.think
      /\ t.tools = s.tools /\ t.out = s.out
  BY DEF TurnOK, NewTurn, AppendCompletedItem
<1> HIDE DEF t
<1> DEFINE rec == [index |-> index, item |-> item]
<1>2. /\ IsSeq(Append(s.env.items, rec))
      /\ \A k \in DOMAIN Append(s.env.items, rec) :
           \/ k \in DOMAIN s.env.items /\ Append(s.env.items, rec)[k] = s.env.items[k]
           \/ Append(s.env.items, rec)[k] = rec
  <2>1. IsSeq(s.env.items)
    BY DEF TurnOK, EnvOK
  <2> QED BY <2>1, AppendIsSeq
<1>5. rec.index \in Nat
  OBVIOUS
<1> HIDE DEF rec
<1>3. EnvOK(t.env) /\ Kept(s, t) /\ t.env.items = Append(s.env.items, rec)
  BY <1>1, <1>2, <1>5 DEF TurnOK, EnvOK, NewEnvelope, Kept, rec
<1>4. TurnOK(t)
  BY <1>1, <1>3 DEF TurnOK
<1> QED BY <1>1, <1>2, <1>3, <1>4 DEF t, rec, Completes

(* finalize of the reasoning item closes it if it is open, and only then  *)
(* does anything.                                                         *)
LEMMA ReasoningFinalizePaces ==
  ASSUME NEW s, TurnOK(s)
  PROVE  /\ Paces(s, ReasoningFinalize(s))
         /\ ReasoningFinalize(s).reasoning.life # "open"
         /\ s.reasoning.life # "open" => ReasoningFinalize(s) = s
<1>1. CASE s.reasoning.life # "open"
  BY <1>1, PacesReflexive DEF ReasoningFinalize
<1>2. CASE s.reasoning.life = "open"
  <2> DEFINE item == [type |-> "reasoning", id |-> ReasoningId, text |-> s.reasoning.text]
             d == [ev |-> "text_done", item |-> ReasoningId, part |-> 1,
                   text |-> s.reasoning.text]
             e == [ev |-> "done", item |-> ReasoningId, index |-> s.reasoning.index,
                   body |-> item]
             c == [s EXCEPT !.reasoning.life = "done"]
             u == AppendCompletedItem(c, s.reasoning.index, item)
             s1 == Emit(s, <<d>>)
             u1 == Emit(u, <<d>>)
  <2>1. ReasoningFinalize(s) = Emit(u, <<d, e>>)
    BY <1>2 DEF ReasoningFinalize
  <2>2. /\ DOMAIN c = DOMAIN s /\ c.env = s.env /\ c.message = s.message
        /\ c.think = s.think /\ c.tools = s.tools /\ c.out = s.out
        /\ c.reasoning = [s.reasoning EXCEPT !.life = "done"]
    BY DEF TurnOK, NewTurn
  <2>3. /\ d.ev = "text_done" /\ d.item = ReasoningId /\ e.ev = "done"
        /\ e.item = ReasoningId /\ item.id = ReasoningId
    OBVIOUS
  <2> HIDE DEF c, d, e, item
  <2>4. ReasoningOK(c.reasoning) /\ c.reasoning.life = "done"
    BY <2>2 DEF TurnOK, ReasoningOK, NewReasoning, Lifecycle
  <2>5. TurnOK(c)
    BY <2>2, <2>4 DEF TurnOK
  <2>6. /\ TurnOK(u) /\ Kept(c, u) /\ u.out = s.out /\ u.tools = s.tools
        /\ u.message = s.message /\ u.reasoning = c.reasoning /\ Records(s, u, e)
    <3>1. s.reasoning.index \in Nat
      BY DEF TurnOK, ReasoningOK
    <3>2. Completes(c, s.reasoning.index, item, u)
      BY <2>5, <3>1, ItemAppended
    <3> HIDE DEF u
    <3> QED BY <3>2, <2>2, <2>3 DEF Completes, Records
  <2> HIDE DEF u
  <2>7. Paces(s, s1)
    BY <1>2, <2>3, SayingPaces DEF Envelope
  <2>8. /\ TurnOK(s1) /\ s1.env = s.env /\ s1.reasoning = s.reasoning
        /\ s1.message = s.message /\ s1.tools = s.tools
    BY EmittedOne, Zenon
  <2>9. /\ TurnOK(u1) /\ u1.env = u.env /\ u1.reasoning = u.reasoning
        /\ u1.message = u.message /\ u1.tools = u.tools
    BY <2>6, EmittedOne, Zenon
  <2>10. s1.out = s.out \o <<d>> /\ u1.out = u.out \o <<d>>
    BY <2>6, Single, Emitted, ZenonT(40)
  <2> HIDE DEF s1, u1
  <2>11. Kept(s1, u1) /\ Records(s1, u1, e)
    BY <2>2, <2>6, <2>8, <2>9 DEF Kept, Records
  <2>12. u1.reasoning.life = "done" /\ s1.reasoning.life = "open"
    BY <1>2, <2>4, <2>6, <2>8, <2>9
  <2>13. Paces(s1, Emit(u1, <<e>>))
    BY <2>3, <2>6, <2>8, <2>9, <2>10, <2>11, <2>12, LifePaces DEF LifeStep
  <2>14. Emit(u, <<d, e>>) = Emit(u1, <<e>>)
    BY <2>6, EmittedPair DEF u1
  <2>15. Emit(u1, <<e>>).reasoning = u1.reasoning
    BY <2>9, EmittedOne, Zenon
  <2>16. Paces(s, ReasoningFinalize(s))
    BY <2>1, <2>7, <2>13, <2>14, PacesTransitive
  <2> QED BY <1>2, <2>1, <2>12, <2>14, <2>15, <2>16
<1> QED BY <1>1, <1>2

-----------------------------------------------------------------------------
(* ensure_started of the message item opens it unless it was opened. *)
LEMMA MessageEnsureStartedPaces ==
  ASSUME NEW s, TurnOK(s)
  PROVE  /\ Paces(s, MessageEnsureStarted(s))
         /\ s.message.life # "done" => MessageEnsureStarted(s).message.life = "open"
<1>1. CASE s.message.life # "not_started"
  BY <1>1, PacesReflexive DEF MessageEnsureStarted, TurnOK, MessageOK, Lifecycle
<1>2. CASE s.message.life = "not_started"
  <2> DEFINE u == AllocateOutputIndex([s EXCEPT !.message.life = "open",
                                               !.message.index = s.env.next])
             e == [ev |-> "added", item |-> MessageId, index |-> s.env.next]
  <2>1. /\ DOMAIN u = DOMAIN s
        /\ u.env = [s.env EXCEPT !.next = @ + 1]
        /\ u.message = [s.message EXCEPT !.life = "open", !.index = s.env.next]
        /\ u.reasoning = s.reasoning /\ u.think = s.think /\ u.tools = s.tools /\ u.out = s.out
    BY DEF TurnOK, NewTurn, AllocateOutputIndex
  <2>2. e.ev = "added" /\ e.item = MessageId
    OBVIOUS
  <2>3. MessageEnsureStarted(s) = Emit(u, <<e>>)
    BY <1>2 DEF MessageEnsureStarted
  <2> HIDE DEF u, e
  <2>4. EnvOK(u.env) /\ Kept(s, u) /\ Records(s, u, e)
    BY <2>1 DEF TurnOK, EnvOK, NewEnvelope, Kept, Records
  <2>5. MessageOK(u.message) /\ u.message.life = "open"
    BY <2>1 DEF TurnOK, EnvOK, MessageOK, NewMessage, Lifecycle
  <2>6. TurnOK(u)
    BY <2>1, <2>4, <2>5 DEF TurnOK
  <2>7. Paces(s, Emit(u, <<e>>))
    BY <1>2, <2>1, <2>2, <2>4, <2>5, <2>6, LifePaces DEF LifeStep
  <2>8. Emit(u, <<e>>).message = u.message
    BY <2>6, EmittedOne, Zenon
  <2> QED BY <2>3, <2>5, <2>7, <2>8
<1> QED BY <1>1, <1>2

(* A state that differs from s only in the parts of its message.            *)
LEMMA PartsPace ==
  ASSUME NEW s, NEW t, TurnOK(s), DOMAIN t = DOMAIN s, t.env = s.env, t.reasoning = s.reasoning,
         t.think = s.think, t.tools = s.tools, t.out = s.out,
         DOMAIN t.message = DOMAIN s.message, t.message.life = s.message.life,
         t.message.index = s.message.index, IsSeq(t.message.segments),
         t.message.life = "not_started" => t.message.segments = <<>>
  PROVE  Paces(s, t) /\ TurnOK(t)
<1>1. MessageOK(t.message)
  BY DEF TurnOK, MessageOK
<1> QED BY <1>1, DataPaces DEF TurnOK

(* add_annotations: data only. *)
LEMMA AddAnnotationsPaces ==
  ASSUME NEW s, NEW anns, TurnOK(s)
  PROVE  Paces(s, AddAnnotations(s, anns))
<1> DEFINE k == CurrentTextSegment(s.message)
           t == [s EXCEPT !.message.segments[k].anns = @ \o anns]
           u == [s EXCEPT !.message.pending = @ \o anns]
<1>1. Paces(s, t)
  <2>1. /\ DOMAIN t = DOMAIN s /\ t.env = s.env /\ t.reasoning = s.reasoning
        /\ t.think = s.think /\ t.tools = s.tools /\ t.out = s.out
        /\ t.message = [s.message EXCEPT !.segments[k].anns = @ \o anns]
    BY DEF TurnOK, NewTurn
  <2> DEFINE seg == [s.message.segments[k] EXCEPT !.anns = @ \o anns]
  <2> HIDE DEF t, k
  <2>2. /\ DOMAIN t.message = DOMAIN s.message /\ t.message.life = s.message.life
        /\ t.message.index = s.message.index
        /\ t.message.segments = [s.message.segments EXCEPT ![k] = seg]
    BY <2>1 DEF TurnOK, MessageOK, NewMessage
  <2> HIDE DEF seg
  <2>3. IsSeq(s.message.segments)
    BY DEF TurnOK, MessageOK
  <2>5. IsSeq([s.message.segments EXCEPT ![k] = seg])
    BY <2>3, ExceptIsSeq, SMT
  <2>6. IsSeq(t.message.segments)
    BY <2>2, <2>5
  <2>4. s.message.segments = <<>> => t.message.segments = <<>>
    BY <2>2
  <2> QED BY <2>1, <2>2, <2>4, <2>6, PartsPace DEF TurnOK, MessageOK
<1>2. Paces(s, u)
  <2>1. /\ DOMAIN u = DOMAIN s /\ u.env = s.env /\ u.reasoning = s.reasoning
        /\ u.think = s.think /\ u.tools = s.tools /\ u.out = s.out
        /\ u.message = [s.message EXCEPT !.pending = @ \o anns]
    BY DEF TurnOK, NewTurn
  <2> HIDE DEF u, k
  <2>2. /\ DOMAIN u.message = DOMAIN s.message /\ u.message.life = s.message.life
        /\ u.message.index = s.message.index /\ u.message.segments = s.message.segments
    BY <2>1 DEF TurnOK, MessageOK, NewMessage
  <2> QED BY <2>1, <2>2, PartsPace DEF TurnOK, MessageOK
<1> QED BY <1>1, <1>2, PacesReflexive, SMTT(40) DEF AddAnnotations

(* An event about a part is said of the open message item. *)
LEMMA PartEventSays ==
  ASSUME NEW s, NEW name, NEW part, NEW seg, TurnOK(s), s.message.life = "open",
         name \notin Envelope \cup {"added", "done"}
  PROVE  Paces(s, Emit(s, <<PartEvent(name, part, seg)>>))
<1>1. PartEvent(name, part, seg).ev = name /\ PartEvent(name, part, seg).item = MessageId
  BY DEF PartEvent
<1> QED BY <1>1, SayingPaces

(* start_text_segment opens the message with its first part. *)
LEMMA StartTextSegmentPaces ==
  ASSUME NEW s, TurnOK(s), s.message.life # "done"
  PROVE  /\ Paces(s, StartTextSegment(s))
         /\ StartTextSegment(s).message.life = "open"
<1> DEFINE s1  == MessageEnsureStarted(s)
           seg == [kind |-> "text", text |-> <<>>, anns |-> s1.message.pending,
                   closed |-> FALSE]
           u   == [s1 EXCEPT !.message.segments = Append(@, seg), !.message.pending = <<>>]
           part == Len(s1.message.segments) + 1
<1>1. Paces(s, s1) /\ s1.message.life = "open"
  BY MessageEnsureStartedPaces
<1>2. StartTextSegment(s) = Emit(u, <<PartEvent("part_added", part, seg)>>)
  BY DEF StartTextSegment
<1> HIDE DEF s1, seg, part
<1>3. TurnOK(s1)
  BY <1>1 DEF Paces, Steps
<1>4. /\ DOMAIN u = DOMAIN s1 /\ u.env = s1.env /\ u.reasoning = s1.reasoning
      /\ u.think = s1.think /\ u.tools = s1.tools /\ u.out = s1.out
      /\ u.message = [s1.message EXCEPT !.segments = Append(@, seg), !.pending = <<>>]
  BY <1>3 DEF TurnOK, NewTurn
<1> HIDE DEF u
<1>5. /\ DOMAIN u.message = DOMAIN s1.message /\ u.message.life = s1.message.life
      /\ u.message.index = s1.message.index
      /\ u.message.segments = Append(s1.message.segments, seg)
  BY <1>3, <1>4 DEF TurnOK, MessageOK, NewMessage
<1>6. IsSeq(u.message.segments)
  BY <1>3, <1>5, AppendIsSeq DEF TurnOK, MessageOK
<1>7. Paces(s1, u) /\ TurnOK(u)
  BY <1>1, <1>3, <1>4, <1>5, <1>6, PartsPace
<1>8. Paces(u, Emit(u, <<PartEvent("part_added", part, seg)>>))
  BY <1>1, <1>5, <1>7, PartEventSays DEF Envelope
<1>9. Emit(u, <<PartEvent("part_added", part, seg)>>).message = u.message
  BY <1>7, EmittedOne, Zenon
<1> QED BY <1>1, <1>2, <1>3, <1>5, <1>7, <1>8, <1>9, PacesTransitive

(* push_text_delta, whether it opens a part or adds to the open one. *)
LEMMA PushTextDeltaPaces ==
  ASSUME NEW s, NEW delta, TurnOK(s)
  PROVE  Paces(s, PushTextDelta(s, delta))
<1>1. CASE s.message.life = "done" \/ delta = <<>>
  BY <1>1, PacesReflexive, ZenonT(40) DEF PushTextDelta
<1>2. CASE ~(s.message.life = "done" \/ delta = <<>>)
  <2> DEFINE k0 == CurrentTextSegment(s.message)
             t0 == [s EXCEPT !.message.segments[k0].anns = @ \o s.message.pending,
                             !.message.pending = <<>>]
             s1 == IF k0 = 0 THEN StartTextSegment(s) ELSE t0
             k  == Len(s1.message.segments)
             u  == [s1 EXCEPT !.message.segments[k].text = @ \o delta]
             e  == [ev |-> "delta", item |-> MessageId, part |-> k, text |-> delta]
  <2>1. PushTextDelta(s, delta) = Emit(u, <<e>>)
    BY <1>2 DEF PushTextDelta
  <2>2. e.ev = "delta" /\ e.item = MessageId
    OBVIOUS
  <2>3. Paces(s, s1) /\ s1.message.life = "open"
    <3>1. CASE k0 = 0
      BY <1>2, <3>1, StartTextSegmentPaces
    <3>2. CASE k0 # 0
      <4>1. s.message.life = "open"
        BY <1>2, <3>2 DEF CurrentTextSegment, TurnOK, MessageOK, Lifecycle
      <4>2. /\ DOMAIN t0 = DOMAIN s /\ t0.env = s.env /\ t0.reasoning = s.reasoning
            /\ t0.think = s.think /\ t0.tools = s.tools /\ t0.out = s.out
            /\ t0.message = [s.message EXCEPT !.segments[k0].anns = @ \o s.message.pending,
                                              !.pending = <<>>]
        BY DEF TurnOK, NewTurn
      <4>3. s1 = t0
        BY <3>2
      <4> DEFINE seg == [s.message.segments[k0] EXCEPT !.anns = @ \o s.message.pending]
      <4> HIDE DEF t0, s1, k0
      <4>4. /\ DOMAIN t0.message = DOMAIN s.message /\ t0.message.life = s.message.life
            /\ t0.message.index = s.message.index
            /\ t0.message.segments = [s.message.segments EXCEPT ![k0] = seg]
        BY <4>2 DEF TurnOK, MessageOK, NewMessage
      <4> HIDE DEF seg
      <4>5. IsSeq(s.message.segments)
        BY DEF TurnOK, MessageOK
      <4>6. IsSeq(t0.message.segments)
        BY <4>4, <4>5, ExceptIsSeq, SMT
      <4> QED BY <4>1, <4>2, <4>3, <4>4, <4>6, PartsPace
    <3> QED BY <3>1, <3>2
  <2> HIDE DEF s1, e
  <2>4. TurnOK(s1)
    BY <2>3 DEF Paces, Steps
  <2>5. /\ DOMAIN u = DOMAIN s1 /\ u.env = s1.env /\ u.reasoning = s1.reasoning
        /\ u.think = s1.think /\ u.tools = s1.tools /\ u.out = s1.out
        /\ u.message = [s1.message EXCEPT !.segments[k].text = @ \o delta]
    BY <2>4 DEF TurnOK, NewTurn
  <2> DEFINE seg == [s1.message.segments[k] EXCEPT !.text = @ \o delta]
  <2> HIDE DEF u, k
  <2>6. /\ DOMAIN u.message = DOMAIN s1.message /\ u.message.life = s1.message.life
        /\ u.message.index = s1.message.index
        /\ u.message.segments = [s1.message.segments EXCEPT ![k] = seg]
    BY <2>4, <2>5 DEF TurnOK, MessageOK, NewMessage
  <2> HIDE DEF seg
  <2>10. IsSeq(s1.message.segments)
    BY <2>4 DEF TurnOK, MessageOK
  <2>7. IsSeq(u.message.segments)
    BY <2>6, <2>10, ExceptIsSeq, SMT
  <2>8. Paces(s1, u) /\ TurnOK(u)
    BY <2>3, <2>4, <2>5, <2>6, <2>7, PartsPace
  <2>9. Paces(u, Emit(u, <<e>>))
    BY <2>2, <2>3, <2>6, <2>8, SayingPaces DEF Envelope
  <2> QED BY <2>1, <2>3, <2>4, <2>8, <2>9, PacesTransitive
<1> QED BY <1>1, <1>2, SMTT(40)

(* push_refusal_part opens and closes a part at once. *)
LEMMA PushRefusalPartPaces ==
  ASSUME NEW s, NEW refusal, TurnOK(s)
  PROVE  Paces(s, PushRefusalPart(s, refusal))
<1>1. CASE refusal = <<>> \/ s.message.life = "done"
  BY <1>1, PacesReflexive DEF PushRefusalPart
<1>2. CASE ~(refusal = <<>> \/ s.message.life = "done")
  <2> DEFINE s1  == MessageEnsureStarted(s)
             seg == [kind |-> "refusal", text |-> refusal, anns |-> <<>>, closed |-> TRUE]
             u   == [s1 EXCEPT !.message.segments = Append(@, seg)]
             k   == Len(s1.message.segments) + 1
             d   == PartEvent("part_added", k, seg)
             e   == PartEvent("part_done", k, seg)
             u1  == Emit(u, <<d>>)
  <2>1. Paces(s, s1) /\ s1.message.life = "open"
    BY <1>2, MessageEnsureStartedPaces
  <2>2. PushRefusalPart(s, refusal) = Emit(u, <<d, e>>)
    BY <1>2 DEF PushRefusalPart
  <2> HIDE DEF s1, seg, k
  <2>3. TurnOK(s1)
    BY <2>1 DEF Paces, Steps
  <2>4. /\ DOMAIN u = DOMAIN s1 /\ u.env = s1.env /\ u.reasoning = s1.reasoning
        /\ u.think = s1.think /\ u.tools = s1.tools /\ u.out = s1.out
        /\ u.message = [s1.message EXCEPT !.segments = Append(@, seg)]
    BY <2>3 DEF TurnOK, NewTurn
  <2> HIDE DEF u
  <2>5. /\ DOMAIN u.message = DOMAIN s1.message /\ u.message.life = s1.message.life
        /\ u.message.index = s1.message.index
        /\ u.message.segments = Append(s1.message.segments, seg)
    BY <2>3, <2>4 DEF TurnOK, MessageOK, NewMessage
  <2>6. IsSeq(u.message.segments)
    BY <2>3, <2>5, AppendIsSeq DEF TurnOK, MessageOK
  <2>7. Paces(s1, u) /\ TurnOK(u)
    BY <2>1, <2>3, <2>4, <2>5, <2>6, PartsPace
  <2>8. Paces(u, u1)
    BY <2>1, <2>5, <2>7, PartEventSays DEF Envelope
  <2>9. TurnOK(u1) /\ u1.message = u.message
    BY <2>7, EmittedOne, Zenon
  <2>10. Emit(u, <<d, e>>) = Emit(u1, <<e>>)
    BY <2>7, EmittedPair
  <2> HIDE DEF u1, d
  <2>11. Paces(u1, Emit(u1, <<e>>))
    BY <2>1, <2>5, <2>9, PartEventSays DEF Envelope
  <2> QED BY <2>1, <2>2, <2>3, <2>7, <2>8, <2>9, <2>10, <2>11, PacesTransitive
<1> QED BY <1>1, <1>2

-----------------------------------------------------------------------------
(* The end of the message, and the think detector. *)

(* The state after a step is well formed. *)
LEMMA PacesOK == ASSUME NEW s, NEW t, Paces(s, t) PROVE TurnOK(t)
<1> QED BY DEF Paces, Steps

(* Emitting nothing. *)
LEMMA EmittedNothing ==
  ASSUME NEW s, TurnOK(s)
  PROVE  Paces(s, Emit(s, <<>>)) /\ Emit(s, <<>>).message = s.message
         /\ Emit(s, <<>>).reasoning = s.reasoning /\ Emit(s, <<>>).tools = s.tools
<1> DEFINE t == Emit(s, <<>>)
<1>1. IsSeq(<<>>)
  <2>1. <<>> \in Seq({})
    OBVIOUS
  <2> QED BY <2>1 DEF IsSeq
<1>2. /\ TurnOK(t) /\ t.env = s.env /\ t.reasoning = s.reasoning /\ t.message = s.message
      /\ t.tools = s.tools /\ t.out = s.out \o <<>>
  BY <1>1, Emitted, Zenon
<1>3. s.out \o <<>> = s.out
  BY ConcatEmptySeq DEF TurnOK, IsSeq
<1> HIDE DEF t
<1>4. Paces(s, t)
  BY <1>2, <1>3, SilentPaces DEF Kept
<1> QED BY <1>2, <1>4 DEF t

(* close_segment: text_done and part_done of one part, the message stays  *)
(* open.                                                                  *)
LEMMA CloseSegmentPaces ==
  ASSUME NEW s, NEW k, TurnOK(s), s.message.life = "open"
  PROVE  /\ Paces(s, CloseSegment(s, k))
         /\ CloseSegment(s, k).message.life = "open"
<1> DEFINE u == [s EXCEPT !.message.segments[k].closed = TRUE]
           d == [ev |-> "text_done", item |-> MessageId, part |-> k,
                 text |-> s.message.segments[k].text]
           e == PartEvent("part_done", k, s.message.segments[k])
           seg == [s.message.segments[k] EXCEPT !.closed = TRUE]
<1>1. CloseSegment(s, k) = IF s.message.segments[k].closed THEN Emit(u, <<>>) ELSE Emit(u, <<d, e>>)
  BY DEF CloseSegment, ClosePartEvents
<1>2. /\ DOMAIN u = DOMAIN s /\ u.env = s.env /\ u.reasoning = s.reasoning
      /\ u.think = s.think /\ u.tools = s.tools /\ u.out = s.out
      /\ u.message = [s.message EXCEPT !.segments[k].closed = TRUE]
  BY DEF TurnOK, NewTurn
<1>3. d.ev = "text_done" /\ d.item = MessageId
  OBVIOUS
<1> HIDE DEF u, d
<1>4. /\ DOMAIN u.message = DOMAIN s.message /\ u.message.life = s.message.life
      /\ u.message.index = s.message.index
      /\ u.message.segments = [s.message.segments EXCEPT ![k] = seg]
  BY <1>2 DEF TurnOK, MessageOK, NewMessage
<1> HIDE DEF seg
<1>5. IsSeq(s.message.segments)
  BY DEF TurnOK, MessageOK
<1>6. IsSeq([s.message.segments EXCEPT ![k] = seg])
  BY <1>5, ExceptIsSeq, SMTT(40)
<1>7. Paces(s, u) /\ TurnOK(u)
  <2>1. IsSeq(u.message.segments)
    BY <1>4, <1>6
  <2> QED BY <1>2, <1>4, <2>1, PartsPace
<1>8. Paces(u, Emit(u, <<>>)) /\ Emit(u, <<>>).message = u.message
  BY <1>7, EmittedNothing
<1>9. Paces(u, Emit(u, <<d, e>>)) /\ Emit(u, <<d, e>>).message = u.message
  <2> DEFINE u1 == Emit(u, <<d>>)
  <2>1. Emit(u, <<d, e>>) = Emit(u1, <<e>>)
    BY <1>7, EmittedPair
  <2>2. Paces(u, u1)
    BY <1>3, <1>4, <1>7, SayingPaces DEF Envelope
  <2>3. TurnOK(u1) /\ u1.message = u.message
    BY <1>7, EmittedOne, Zenon
  <2> HIDE DEF u1
  <2>4. Paces(u1, Emit(u1, <<e>>))
    BY <1>4, <2>3, PartEventSays DEF Envelope
  <2>5. Emit(u1, <<e>>).message = u1.message
    BY <2>3, EmittedOne, Zenon
  <2> QED BY <1>7, <2>1, <2>2, <2>3, <2>4, <2>5, PacesTransitive
<1> QED BY <1>1, <1>4, <1>7, <1>8, <1>9, PacesTransitive

(* flush_open_text_part closes the last part if it is an open text. *)
LEMMA FlushOpenTextPartPaces ==
  ASSUME NEW s, TurnOK(s)
  PROVE  Paces(s, FlushOpenTextPart(s))
<1>1. CASE s.message.life = "done" \/ CurrentTextSegment(s.message) = 0
  BY <1>1, PacesReflexive DEF FlushOpenTextPart
<1>2. CASE ~(s.message.life = "done" \/ CurrentTextSegment(s.message) = 0)
  <2>1. s.message.life = "open"
    BY <1>2 DEF CurrentTextSegment, TurnOK, MessageOK, Lifecycle
  <2>2. FlushOpenTextPart(s) = CloseSegment(s, CurrentTextSegment(s.message))
    BY <1>2 DEF FlushOpenTextPart
  <2> QED BY <2>1, <2>2, CloseSegmentPaces
<1> QED BY <1>1, <1>2

(* finalize_message marks its item done before it closes the parts: the      *)
(* state without that mark.                                                  *)
Reopened(s) == [s EXCEPT !.message.life = "open"]

(* After k of the parts were closed. *)
Closing(none, s, t, k) ==
  /\ TurnOK(t) /\ t.message.life = "done"
  /\ t.reasoning = s.reasoning /\ t.tools = s.tools
  /\ Paces(Reopened(s), Reopened(t))

Segments == INSTANCE Iteration_proofs WITH Step <- CloseNext, Holds <- Closing

(* Taking the mark away changes nothing else. *)
LEMMA ReopenedFields ==
  ASSUME NEW s, TurnOK(s)
  PROVE  /\ TurnOK(Reopened(s)) /\ Reopened(s).message.life = "open"
         /\ Reopened(s).env = s.env /\ Reopened(s).reasoning = s.reasoning
         /\ Reopened(s).think = s.think /\ Reopened(s).tools = s.tools
         /\ Reopened(s).out = s.out
         /\ Reopened(s).message = [s.message EXCEPT !.life = "open"]
<1> DEFINE t == Reopened(s)
<1>1. /\ DOMAIN t = DOMAIN s /\ t.env = s.env /\ t.reasoning = s.reasoning
      /\ t.think = s.think /\ t.tools = s.tools /\ t.out = s.out
      /\ t.message = [s.message EXCEPT !.life = "open"]
  BY DEF TurnOK, NewTurn, Reopened
<1> HIDE DEF t
<1>2. MessageOK(t.message) /\ t.message.life = "open"
  BY <1>1 DEF TurnOK, MessageOK, NewMessage, Lifecycle
<1>3. TurnOK(t)
  BY <1>1, <1>2 DEF TurnOK
<1> QED BY <1>1, <1>2, <1>3 DEF t

(* One round of finalize_message's loop over the parts. *)
LEMMA ClosingStep ==
  ASSUME NEW s, NEW t, NEW k, TurnOK(s), Closing(0, s, t, k - 1)
  PROVE  Closing(0, s, CloseNext(0, t, k), k)
<1> DEFINE c == CloseSegment(t, k)
           u == [t EXCEPT !.message.segments[k].closed = TRUE]
           seg == [t.message.segments[k] EXCEPT !.closed = TRUE]
           evs == ClosePartEvents(t.message.segments, k)
<1>1. TurnOK(t) /\ t.message.life = "done"
  BY DEF Closing
<1>2. /\ DOMAIN u = DOMAIN t /\ u.env = t.env /\ u.reasoning = t.reasoning
      /\ u.think = t.think /\ u.tools = t.tools /\ u.out = t.out
      /\ u.message = [t.message EXCEPT !.segments[k].closed = TRUE]
  BY <1>1 DEF TurnOK, NewTurn
<1>3. c = Emit(u, evs)
  BY DEF CloseSegment
<1>4. CloseSegment(Reopened(t), k) = Reopened(c)
  <2>1. Reopened(t).message.segments = t.message.segments
    BY <1>1 DEF Reopened, TurnOK, NewTurn, MessageOK, NewMessage
  <2>2. CloseSegment(Reopened(t), k) =
          Emit([Reopened(t) EXCEPT !.message.segments[k].closed = TRUE], evs)
    BY <2>1 DEF CloseSegment
  <2>3. [Reopened(t) EXCEPT !.message.segments[k].closed = TRUE] = Reopened(u)
    BY <1>1 DEF Reopened, TurnOK, NewTurn, MessageOK, NewMessage
  <2>4. Emit(Reopened(u), evs) = Reopened(Emit(u, evs))
    <3> HIDE DEF u, evs
    <3> QED BY <1>1, <1>2 DEF Emit, Reopened, TurnOK, NewTurn
  <2> QED BY <1>3, <2>2, <2>3, <2>4
<1>5. TurnOK(c) /\ c.message.life = "done" /\ c.reasoning = t.reasoning /\ c.tools = t.tools
  <2> HIDE DEF u
  <2>1. /\ DOMAIN u.message = DOMAIN t.message /\ u.message.life = t.message.life
        /\ u.message.index = t.message.index
        /\ u.message.segments = [t.message.segments EXCEPT ![k] = seg]
    BY <1>1, <1>2 DEF TurnOK, MessageOK, NewMessage
  <2> HIDE DEF seg
  <2>2. IsSeq(t.message.segments)
    BY <1>1 DEF TurnOK, MessageOK
  <2>3. IsSeq([t.message.segments EXCEPT ![k] = seg])
    BY <2>2, ExceptIsSeq, SMT
  <2>4. TurnOK(u)
    <3>1. IsSeq(u.message.segments)
      BY <2>1, <2>3
    <3> QED BY <1>1, <1>2, <2>1, <3>1, PartsPace
  <2>5. IsSeq(evs)
    <3>1. IsSeq(<<>>)
      BY DEF IsSeq
    <3>2. \A d, e : IsSeq(<<d, e>>)
      <4> TAKE d, e
      <4>1. <<d, e>> \in Seq({d, e})
        OBVIOUS
      <4> QED BY <4>1 DEF IsSeq
    <3> QED BY <3>1, <3>2 DEF ClosePartEvents
  <2> HIDE DEF evs, c
  <2>6. TurnOK(c) /\ c.message = u.message /\ c.reasoning = u.reasoning /\ c.tools = u.tools
    BY <1>3, <2>4, <2>5, Emitted, Zenon
  <2> QED BY <1>1, <1>2, <2>1, <2>6
<1>6. TurnOK(Reopened(t)) /\ Reopened(t).message.life = "open"
  BY <1>1, ReopenedFields
<1>7. Paces(Reopened(t), Reopened(c))
  BY <1>4, <1>6, CloseSegmentPaces
<1>8. TurnOK(Reopened(s)) /\ Paces(Reopened(s), Reopened(t))
  BY ReopenedFields DEF Closing
<1>9. Paces(Reopened(s), Reopened(c))
  BY <1>7, <1>8, PacesTransitive
<1> HIDE DEF c
<1>10. Closing(0, s, c, k)
  BY <1>5, <1>9 DEF Closing
<1> QED BY <1>10 DEF CloseNext, c

(* finalize_message closes its parts and then itself; the loop keeps what *)
(* every round of it keeps.                                               *)
LEMMA MessageFinalizePaces ==
  ASSUME NEW s, TurnOK(s)
  PROVE  /\ Paces(s, MessageFinalize(s))
         /\ MessageFinalize(s).message.life # "open"
         /\ MessageFinalize(s).reasoning = s.reasoning
<1>1. CASE s.message.life # "open"
  BY <1>1, PacesReflexive DEF MessageFinalize
<1>2. CASE s.message.life = "open"
  <2> DEFINE s0 == [s EXCEPT !.message.life = "done"]
             n  == Len(s.message.segments)
             s1 == EachSegment!Iterate(0, s0, n)
             item == [type |-> "message", id |-> MessageId, parts |-> ContentParts(s.message)]
             u  == AppendCompletedItem(s1, s.message.index, item)
             e  == [ev |-> "done", item |-> MessageId, index |-> s.message.index, body |-> item]
  <2>1. MessageFinalize(s) = Emit(u, <<e>>)
    BY <1>2 DEF MessageFinalize
  <2>2. e.ev = "done" /\ e.item = MessageId /\ item.id = MessageId
    OBVIOUS
  <2>3. /\ DOMAIN s0 = DOMAIN s /\ s0.env = s.env /\ s0.reasoning = s.reasoning
        /\ s0.think = s.think /\ s0.tools = s.tools /\ s0.out = s.out
        /\ s0.message = [s.message EXCEPT !.life = "done"]
    BY DEF TurnOK, NewTurn
  <2> HIDE DEF s0, item, e
  <2>4. MessageOK(s0.message) /\ s0.message.life = "done"
    BY <2>3 DEF TurnOK, MessageOK, NewMessage, Lifecycle
  <2>5. TurnOK(s0)
    BY <2>3, <2>4 DEF TurnOK
  <2>6. n \in Nat
    BY SeqFacts DEF TurnOK, MessageOK
  <2> HIDE DEF n
  <2>7. Closing(0, s0, s1, n)
    <3>1. Closing(0, s0, s0, 0)
      BY <2>4, <2>5, ReopenedFields, PacesReflexive DEF Closing
    <3>2. \A t : \A k \in 1..n : Closing(0, s0, t, k - 1) => Closing(0, s0, CloseNext(0, t, k), k)
      BY <2>5, ClosingStep
    <3>3. Closing(0, s0, Segments!Iterate(0, s0, n), n)
      BY <2>6, <3>1, <3>2, Segments!LoopInvariant
    <3> QED BY <3>3 DEF EachSegment!Iterate, Segments!Iterate
  <2> HIDE DEF s1
  <2>8. /\ TurnOK(s1) /\ s1.message.life = "done" /\ s1.reasoning = s.reasoning
        /\ s1.tools = s.tools /\ Paces(Reopened(s0), Reopened(s1))
    BY <2>3, <2>7 DEF Closing
  <2>9. Paces(s, Reopened(s0))
    <3>1. /\ TurnOK(Reopened(s0)) /\ Reopened(s0).message.life = "open"
          /\ Reopened(s0).env = s0.env /\ Reopened(s0).reasoning = s0.reasoning
          /\ Reopened(s0).tools = s0.tools /\ Reopened(s0).out = s0.out
      BY <2>5, ReopenedFields
    <3> QED BY <1>2, <2>3, <3>1, SilentPaces DEF Kept
  <2>10. Paces(s, Reopened(s1))
    BY <2>8, <2>9, PacesTransitive
  <2>11. /\ TurnOK(Reopened(s1)) /\ Reopened(s1).message.life = "open"
         /\ Reopened(s1).env = s1.env /\ Reopened(s1).reasoning = s1.reasoning
         /\ Reopened(s1).tools = s1.tools /\ Reopened(s1).out = s1.out
    BY <2>8, ReopenedFields
  <2>12. Completes(s1, s.message.index, item, u)
    <3>1. s.message.index \in Nat
      BY DEF TurnOK, MessageOK
    <3> QED BY <2>8, <3>1, ItemAppended
  <2> HIDE DEF u
  <2>13. Paces(Reopened(s1), Emit(u, <<e>>))
    <3>1. /\ TurnOK(u) /\ Kept(Reopened(s1), u) /\ u.out = Reopened(s1).out
          /\ u.tools = Reopened(s1).tools /\ u.message.life = "done"
          /\ u.reasoning = Reopened(s1).reasoning /\ Records(Reopened(s1), u, e)
      BY <2>2, <2>8, <2>11, <2>12 DEF Completes, Kept, Records
    <3> QED BY <2>2, <2>11, <3>1, LifePaces DEF LifeStep
  <2>14. /\ TurnOK(u) /\ u.message = s1.message /\ u.reasoning = s.reasoning
    BY <2>8, <2>12 DEF Completes
  <2>15. Emit(u, <<e>>).message = u.message /\ Emit(u, <<e>>).reasoning = u.reasoning
    BY <2>14, EmittedOne, Zenon
  <2> QED BY <2>1, <2>8, <2>10, <2>13, <2>14, <2>15, PacesTransitive
<1> QED BY <1>1, <1>2

-----------------------------------------------------------------------------
(* What the log says of the texts: hearing it event by event. *)

(* Nothing heard so far, if no delta of the part was among the first k events. *)
HeardNothing(x, s, t, k) ==
  (\A j \in 1..k : ~(x.out[j].item = x.id /\ x.out[j].ev = "delta" /\ x.out[j].part = x.part))
    => t = s

Ears == INSTANCE Iteration_proofs WITH Step <- HearNext, Holds <- HeardNothing

HeardUpTo(out, id, part, n) ==
  Hearing!Iterate([out |-> out, id |-> id, part |-> part], <<>>, n)

(* The k-th event is heard if it is a delta of the part. *)
HeardRound(out, id, part, k) ==
  HeardUpTo(out, id, part, k) =
    IF out[k].item = id /\ out[k].ev = "delta" /\ out[k].part = part
    THEN HeardUpTo(out, id, part, k - 1) \o out[k].text
    ELSE HeardUpTo(out, id, part, k - 1)

(* A log is heard event by event. *)
LEMMA HeardUnfolds ==
  ASSUME NEW out, NEW id, NEW part
  PROVE  /\ Heard(out, id, part) = HeardUpTo(out, id, part, Len(out))
         /\ HeardUpTo(out, id, part, 0) = <<>>
         /\ \A k \in Nat \ {0} : HeardRound(out, id, part, k)
<1> DEFINE x == [out |-> out, id |-> id, part |-> part]
<1>1. x.out = out /\ x.id = id /\ x.part = part
  OBVIOUS
<1>2. Heard(out, id, part) = HeardUpTo(out, id, part, Len(out))
  BY DEF Heard, HeardUpTo
<1>3. \A k : HeardUpTo(out, id, part, k) = Ears!Iterate(x, <<>>, k)
  BY DEF HeardUpTo, Hearing!Iterate, Ears!Iterate
<1> HIDE DEF x
<1>4. Ears!Iterate(x, <<>>, 0) = <<>>
  BY Ears!LoopUnfolds
<1>5. ASSUME NEW k \in Nat \ {0}
      PROVE  HeardRound(out, id, part, k)
  <2>1. Ears!Iterate(x, <<>>, k) = HearNext(x, Ears!Iterate(x, <<>>, k - 1), k)
    BY Ears!LoopUnfolds
  <2>2. HeardUpTo(out, id, part, k) = HearNext(x, HeardUpTo(out, id, part, k - 1), k)
    BY <1>3, <2>1
  <2> QED BY <1>1, <2>2 DEF HearNext, HeardRound
<1> QED BY <1>2, <1>3, <1>4, <1>5

(* A delta of the part is heard at the end, any other event changes nothing. *)
LEMMA HeardAppended ==
  ASSUME NEW out, NEW e, NEW log, IsSeq(out), Appended(out, e, log), NEW id, NEW part
  PROVE  Heard(log, id, part) =
           IF e.item = id /\ e.ev = "delta" /\ e.part = part
           THEN Heard(out, id, part) \o e.text ELSE Heard(out, id, part)
<1> DEFINE n == Len(out)
           S == {k \in Nat : k <= n => HeardUpTo(log, id, part, k) = HeardUpTo(out, id, part, k)}
<1>1. n \in Nat /\ Len(log) = n + 1 /\ log[n + 1] = e /\ \A k \in 1..n : log[k] = out[k]
  BY SeqFacts DEF Appended
<1>2. Heard(out, id, part) = HeardUpTo(out, id, part, n)
  BY HeardUnfolds
<1>3. Heard(log, id, part) = HeardUpTo(log, id, part, n + 1)
  BY <1>1, HeardUnfolds
<1> HIDE DEF n
<1>4. 0 \in S
  BY HeardUnfolds
<1>5. ASSUME NEW k \in Nat \ {0}, k - 1 \in S PROVE k \in S
  <2> SUFFICES ASSUME k <= n PROVE HeardUpTo(log, id, part, k) = HeardUpTo(out, id, part, k)
    OBVIOUS
  <2>1. log[k] = out[k] /\ HeardUpTo(log, id, part, k - 1) = HeardUpTo(out, id, part, k - 1)
    BY <1>1, <1>5
  <2>2. HeardRound(log, id, part, k) /\ HeardRound(out, id, part, k)
    BY HeardUnfolds
  <2> QED BY <2>1, <2>2 DEF HeardRound
<1> HIDE DEF S
<1>6. n \in S
  BY <1>1, <1>4, <1>5, Ears!Induction
<1>7. HeardUpTo(log, id, part, n) = HeardUpTo(out, id, part, n)
  BY <1>1, <1>6 DEF S
<1>8. n + 1 \in Nat \ {0} /\ (n + 1) - 1 = n
  BY <1>1
<1>9. HeardRound(log, id, part, n + 1)
  BY <1>8, HeardUnfolds
<1> QED BY <1>1, <1>2, <1>3, <1>7, <1>8, <1>9 DEF HeardRound

(* Without a delta of the part nothing is heard. *)
LEMMA HeardNone ==
  ASSUME NEW out, IsSeq(out), NEW id, NEW part,
         \A k \in DOMAIN out : ~(out[k].item = id /\ out[k].ev = "delta" /\ out[k].part = part)
  PROVE  Heard(out, id, part) = <<>>
<1> DEFINE x == [out |-> out, id |-> id, part |-> part]
           n == Len(out)
<1>1. x.out = out /\ x.id = id /\ x.part = part
  OBVIOUS
<1>2. n \in Nat /\ DOMAIN out = 1..n
  BY SeqFacts
<1>3. Heard(out, id, part) = Ears!Iterate(x, <<>>, n)
  BY DEF Heard, Hearing!Iterate, Ears!Iterate
<1> HIDE DEF x, n
<1>4. HeardNothing(x, <<>>, <<>>, 0)
  BY DEF HeardNothing
<1>5. \A t : \A k \in 1..n : HeardNothing(x, <<>>, t, k - 1) => HeardNothing(x, <<>>, HearNext(x, t, k), k)
  <2> SUFFICES ASSUME NEW t, NEW k \in 1..n, HeardNothing(x, <<>>, t, k - 1),
                      \A j \in 1..k : ~(x.out[j].item = x.id /\ x.out[j].ev = "delta"
                                        /\ x.out[j].part = x.part)
               PROVE  HearNext(x, t, k) = <<>>
    BY DEF HeardNothing
  <2>1. k \in 1..k /\ \A j \in 1..(k - 1) : j \in 1..k
    BY <1>2
  <2>2. t = <<>>
    BY <2>1 DEF HeardNothing
  <2> QED BY <2>1, <2>2 DEF HearNext
<1>6. HeardNothing(x, <<>>, Ears!Iterate(x, <<>>, n), n)
  BY <1>2, <1>4, <1>5, Ears!LoopInvariant
<1> QED BY <1>1, <1>2, <1>3, <1>6 DEF HeardNothing

-----------------------------------------------------------------------------
(* The log says of every text what the item holds, and how one event more *)
(* keeps that: first of the reasoning, then of one part of the message.   *)

(* The log says of the reasoning item what its state holds. *)
ReasoningTold(r, out) ==
  /\ Heard(out, ReasoningId, 1) = r.text
  /\ \A k \in DOMAIN out : out[k].item = ReasoningId =>
       /\ out[k].ev = "text_done" => r.life = "done" /\ out[k].text = r.text
       /\ out[k].ev = "done" =>
            /\ out[k].body.text = r.text
            /\ \E j \in 1..(k - 1) : out[j].item = ReasoningId /\ out[j].ev = "text_done"

(* A segment is a text or a refusal, and a refusal is closed. *)
SegmentOK(seg) ==
  /\ DOMAIN seg = {"kind", "text", "anns", "closed"}
  /\ seg.kind \in {"text", "refusal"}
  /\ seg.kind = "refusal" => seg.closed

(* The event is about part k of the message. *)
OfPart(e, k) == e.item = MessageId /\ e.ev \notin {"added", "done"} /\ e.part = k

(* The message closed its parts and lists them in its done event, e. *)
Delivered(e, m) ==
  /\ \A k \in DOMAIN m.segments : m.segments[k].closed
  /\ e.body.parts = ContentParts(m)

(* The log says of the message's parts what its segments hold. *)
MessageTold(m, out) ==
  /\ \A k \in DOMAIN m.segments :
       SegmentOK(m.segments[k]) /\ PartTold(out, k, m.segments[k])
  /\ \A j \in DOMAIN out : out[j].item = MessageId =>
       /\ out[j].ev = "done" => Delivered(out[j], m)
       /\ out[j].ev \notin {"added", "done"} => out[j].part \in DOMAIN m.segments

(* The log says what a client is to know of the text of the two items. *)
Told(s) == ReasoningTold(s.reasoning, s.out) /\ MessageTold(s.message, s.out)

(* Events that the reasoning's text does not depend on. *)
LEMMA ReasoningAside ==
  ASSUME NEW out, NEW e, NEW log, NEW r, NEW q, IsSeq(out), Appended(out, e, log),
         e.item = ReasoningId => e.ev \notin {"delta", "text_done", "done"},
         q.text = r.text, r.life = "done" => q.life = "done", ReasoningTold(r, out)
  PROVE  ReasoningTold(q, log)
<1>1. Heard(log, ReasoningId, 1) = Heard(out, ReasoningId, 1)
  BY HeardAppended
<1>2. Len(out) \in Nat
  BY SeqFacts
<1> QED BY <1>1, <1>2 DEF ReasoningTold, Appended

(* A delta of the reasoning is heard. *)
LEMMA ReasoningHeard ==
  ASSUME NEW out, NEW e, NEW log, NEW r, NEW q, IsSeq(out), Appended(out, e, log),
         e.item = ReasoningId, e.ev = "delta", e.part = 1,
         q.text = r.text \o e.text, r.life # "done", ReasoningTold(r, out)
  PROVE  ReasoningTold(q, log)
<1>1. Heard(log, ReasoningId, 1) = Heard(out, ReasoningId, 1) \o e.text
  BY HeardAppended
<1>2. Len(out) \in Nat
  BY SeqFacts
<1>3. \A k \in DOMAIN out : out[k].item = ReasoningId => out[k].ev \notin {"text_done", "done"}
  BY <1>2 DEF ReasoningTold, Appended
<1>4. \A k \in DOMAIN log : log[k].item = ReasoningId => log[k].ev \notin {"text_done", "done"}
  BY <1>2, <1>3 DEF Appended
<1>5. Heard(log, ReasoningId, 1) = q.text
  BY <1>1 DEF ReasoningTold
<1> QED BY <1>4, <1>5 DEF ReasoningTold

(* The reasoning closes with its text. *)
LEMMA ReasoningEnds ==
  ASSUME NEW out, NEW d, NEW mid, NEW e, NEW log, NEW r, NEW q,
         IsSeq(out), Appended(out, d, mid), Appended(mid, e, log),
         d.item = ReasoningId, d.ev = "text_done", d.text = r.text,
         e.item = ReasoningId, e.ev = "done", e.body.text = r.text,
         q.text = r.text, q.life = "done", ReasoningTold(r, out)
  PROVE  ReasoningTold(q, log)
<1>1. IsSeq(mid) /\ Len(out) \in Nat
  BY SeqFacts DEF Appended
<1>2. Heard(log, ReasoningId, 1) = Heard(out, ReasoningId, 1)
  BY <1>1, HeardAppended
<1>3. \A k \in DOMAIN log : k \in 1..Len(out) \/ k = Len(out) + 1 \/ k = Len(out) + 2
  BY <1>1 DEF Appended
<1>4. /\ \A k \in 1..Len(out) : log[k] = out[k]
      /\ log[Len(out) + 1] = d /\ log[Len(out) + 2] = e /\ DOMAIN out = 1..Len(out)
  BY <1>1 DEF Appended
<1>5. ASSUME NEW k \in DOMAIN log, log[k].item = ReasoningId
      PROVE  /\ log[k].ev = "text_done" => q.life = "done" /\ log[k].text = q.text
             /\ log[k].ev = "done" =>
                  /\ log[k].body.text = q.text
                  /\ \E j \in 1..(k - 1) : log[j].item = ReasoningId /\ log[j].ev = "text_done"
  <2>1. CASE k \in 1..Len(out)
    <3>1. \A j \in 1..(k - 1) : log[j] = out[j]
      BY <1>1, <1>4, <2>1
    <3> QED BY <1>4, <1>5, <2>1, <3>1 DEF ReasoningTold
  <2>2. CASE k = Len(out) + 1
    BY <1>4, <2>2
  <2>3. CASE k = Len(out) + 2
    <3>1. Len(out) + 1 \in 1..(k - 1)
      BY <1>1, <2>3
    <3> QED BY <1>4, <2>3, <3>1
  <2> QED BY <1>3, <2>1, <2>2, <2>3
<1> QED BY <1>2, <1>5 DEF ReasoningTold

-----------------------------------------------------------------------------
(* An event more, and where the log speaks of a part. *)
LEMMA PartAtAppended ==
  ASSUME NEW out, NEW e, NEW log, IsSeq(out), Appended(out, e, log), NEW k
  PROVE  /\ PartAt(log, k) = PartAt(out, k) \cup {j \in {Len(out) + 1} : OfPart(e, k)}
         /\ \A j \in PartAt(out, k) : j \in 1..Len(out) /\ log[j] = out[j]
         /\ Len(out) \in Nat
<1>1. Len(out) \in Nat
  BY SeqFacts
<1>2. \A j : j \in PartAt(log, k) <=> j \in PartAt(out, k) \/ (j = Len(out) + 1 /\ OfPart(e, k))
  BY <1>1 DEF PartAt, OfPart, Appended
<1> QED BY <1>1, <1>2 DEF PartAt, Appended

(* An event about something else. *)
LEMMA PartAside ==
  ASSUME NEW out, NEW e, NEW log, IsSeq(out), Appended(out, e, log), NEW k, NEW seg,
         ~OfPart(e, k), PartTold(out, k, seg)
  PROVE  PartTold(log, k, seg)
<1>1. PartAt(log, k) = PartAt(out, k) /\ \A j \in PartAt(out, k) : log[j] = out[j]
  BY PartAtAppended
<1>2. Heard(log, MessageId, k) = Heard(out, MessageId, k)
  BY HeardAppended DEF OfPart
<1> QED BY <1>1, <1>2 DEF PartTold

(* part_added of a text, that nothing was said of before. *)
LEMMA PartOpens ==
  ASSUME NEW out, NEW e, NEW log, IsSeq(out), Appended(out, e, log), NEW k, NEW seg,
         PartAt(out, k) = {}, OfPart(e, k), e.ev = "part_added",
         seg.kind = "text", seg.text = <<>>, ~seg.closed
  PROVE  PartTold(log, k, seg)
<1>1. PartAt(log, k) = {Len(out) + 1} /\ Len(out) \in Nat /\ log[Len(out) + 1] = e
  BY PartAtAppended DEF Appended
<1>2. Heard(out, MessageId, k) = <<>>
  BY HeardNone DEF PartAt
<1>3. Heard(log, MessageId, k) = <<>>
  BY <1>2, HeardAppended
<1> QED BY <1>1, <1>3 DEF PartTold

(* A delta of an open text. *)
LEMMA PartHeard ==
  ASSUME NEW out, NEW e, NEW log, IsSeq(out), Appended(out, e, log), NEW k, NEW seg, NEW now,
         PartTold(out, k, seg), OfPart(e, k), e.ev = "delta",
         seg.kind = "text", ~seg.closed,
         now.kind = "text", now.text = seg.text \o e.text, ~now.closed
  PROVE  PartTold(log, k, now)
<1> DEFINE at == PartAt(out, k)
           n  == Len(out) + 1
<1>1. PartAt(log, k) = at \cup {n} /\ Len(out) \in Nat /\ log[n] = e
      /\ \A j \in at : j \in 1..Len(out) /\ log[j] = out[j]
  BY PartAtAppended DEF Appended
<1>2. Heard(log, MessageId, k) = now.text
  <2>1. Heard(out, MessageId, k) = seg.text
    BY DEF PartTold
  <2>2. Heard(log, MessageId, k) = Heard(out, MessageId, k) \o e.text
    BY HeardAppended DEF OfPart
  <2> QED BY <2>1, <2>2
<1>3. /\ \E j \in at : out[j].ev = "part_added"
      /\ \A j \in at : /\ out[j].ev \in {"part_added", "delta"}
                       /\ out[j].ev = "part_added" <=> \A i \in at : j <= i
  BY DEF PartTold
<1> HIDE DEF at, n
<1>4. \A j \in PartAt(log, k) : log[j].ev = "part_added" <=> \A i \in PartAt(log, k) : j <= i
  BY <1>1, <1>3 DEF n
<1>5. \A j \in PartAt(log, k) : log[j].ev \in {"part_added", "delta"}
  BY <1>1, <1>3
<1>6. \E j \in PartAt(log, k) : log[j].ev = "part_added"
  BY <1>1, <1>3
<1> QED BY <1>2, <1>4, <1>5, <1>6 DEF PartTold

(* Annotations of an open text. *)
LEMMA PartAnnotated ==
  ASSUME NEW out, NEW k, NEW seg, NEW now, PartTold(out, k, seg), ~seg.closed,
         now.kind = seg.kind, now.text = seg.text, ~now.closed
  PROVE  PartTold(out, k, now)
<1> QED BY DEF PartTold

(* text_done and part_done close an open text. *)
LEMMA PartCloses ==
  ASSUME NEW out, NEW d, NEW mid, NEW e, NEW log, IsSeq(out), Appended(out, d, mid),
         Appended(mid, e, log), NEW k, NEW seg, NEW now,
         PartTold(out, k, seg), seg.kind = "text", ~seg.closed,
         OfPart(d, k), d.ev = "text_done", d.text = seg.text,
         OfPart(e, k), e.ev = "part_done", e.text = seg.text, e.anns = seg.anns,
         now.kind = "text", now.text = seg.text, now.anns = seg.anns, now.closed
  PROVE  PartTold(log, k, now)
<1> DEFINE at == PartAt(out, k)
           n  == Len(out) + 1
           m  == Len(out) + 2
<1>1. /\ IsSeq(mid) /\ Len(mid) = n /\ mid[n] = d /\ log[m] = e /\ log[n] = mid[n]
      /\ Len(out) \in Nat
  BY SeqFacts DEF Appended
<1>2. /\ PartAt(log, k) = at \cup {n, m}
      /\ \A j \in at : j \in 1..Len(out) /\ log[j] = out[j]
  BY <1>1, PartAtAppended
<1>3. Heard(log, MessageId, k) = now.text
  BY <1>1, HeardAppended DEF PartTold
<1>4. /\ \E j \in at : out[j].ev = "part_added"
      /\ \A j \in at : /\ out[j].ev \in {"part_added", "delta"}
                       /\ out[j].ev = "part_added" <=> \A i \in at : j <= i
  BY DEF PartTold
<1> HIDE DEF at, n
<1>5. \A j \in PartAt(log, k) : log[j].ev = "part_added" <=> \A i \in PartAt(log, k) : j <= i
  BY <1>1, <1>2, <1>4 DEF n
<1>6. \A j \in PartAt(log, k) :
        /\ log[j].ev = "part_done" <=> j = m
        /\ log[j].ev = "text_done" <=> j = n
        /\ j <= m
        /\ j > n => j = m
  BY <1>1, <1>2, <1>4 DEF n
<1>7. n \in PartAt(log, k) /\ m \in PartAt(log, k) /\ n < m
  BY <1>1, <1>2 DEF n
<1>8. \E j \in PartAt(log, k) : log[j].ev = "part_added"
  BY <1>2, <1>4
<1>9. \A j \in PartAt(log, k) : log[j].ev \in {"part_added", "delta", "text_done", "part_done"}
  BY <1>1, <1>2, <1>4
<1> QED BY <1>1, <1>3, <1>5, <1>6, <1>7, <1>8, <1>9 DEF PartTold

(* A refusal opens and closes at once. *)
LEMMA PartRefused ==
  ASSUME NEW out, NEW d, NEW mid, NEW e, NEW log, IsSeq(out), Appended(out, d, mid),
         Appended(mid, e, log), NEW k, NEW seg,
         PartAt(out, k) = {}, seg.kind = "refusal", seg.closed,
         OfPart(d, k), d.ev = "part_added",
         OfPart(e, k), e.ev = "part_done", e.text = seg.text, e.anns = seg.anns
  PROVE  PartTold(log, k, seg)
<1> DEFINE n  == Len(out) + 1
           m  == Len(out) + 2
<1>1. /\ IsSeq(mid) /\ Len(mid) = n /\ mid[n] = d /\ log[m] = e /\ log[n] = mid[n]
      /\ Len(out) \in Nat
  BY SeqFacts DEF Appended
<1>2. PartAt(log, k) = {n, m}
  BY <1>1, PartAtAppended
<1> QED BY <1>1, <1>2 DEF PartTold

-----------------------------------------------------------------------------
(* The same for all parts of the message. *)

(* Two events more. *)
LEMMA LogAppendedTwice ==
  ASSUME NEW out, NEW d, NEW mid, NEW e, NEW log,
         IsSeq(out), Appended(out, d, mid), Appended(mid, e, log)
  PROVE  /\ IsSeq(mid) /\ Len(out) \in Nat /\ DOMAIN out = 1..Len(out)
         /\ DOMAIN log = 1..(Len(out) + 2)
         /\ \A j \in DOMAIN log : \/ j \in DOMAIN out /\ log[j] = out[j]
                                  \/ log[j] = d
                                  \/ log[j] = e
<1>1. Len(out) \in Nat
  BY SeqFacts
<1> QED BY <1>1 DEF Appended

(* The parts stay as they are, and what is said is not about them. *)
LEMMA MessageAside ==
  ASSUME NEW out, NEW e, NEW log, NEW m, NEW q, IsSeq(out), Appended(out, e, log),
         e.item = MessageId => e.ev = "added",
         q.segments = m.segments, MessageTold(m, out)
  PROVE  MessageTold(q, log)
<1>1. Len(out) \in Nat
  BY SeqFacts
<1>2. ContentParts(q) = ContentParts(m)
  BY DEF ContentParts
<1>3. \A k : ~OfPart(e, k)
  BY DEF OfPart
<1>4. \A k \in DOMAIN q.segments : SegmentOK(q.segments[k]) /\ PartTold(log, k, q.segments[k])
  BY <1>3, PartAside DEF MessageTold
<1>5. \A j \in DOMAIN log : log[j].item = MessageId =>
        /\ log[j].ev = "done" => Delivered(log[j], q)
        /\ log[j].ev \notin {"added", "done"} => log[j].part \in DOMAIN q.segments
  BY <1>1, <1>2 DEF MessageTold, Delivered, Appended
<1> QED BY <1>4, <1>5 DEF MessageTold

(* The same without an event. *)
LEMMA MessageStill ==
  ASSUME NEW out, NEW m, NEW q, q.segments = m.segments, MessageTold(m, out)
  PROVE  MessageTold(q, out)
<1>1. ContentParts(q) = ContentParts(m)
  BY DEF ContentParts
<1> QED BY <1>1 DEF MessageTold, Delivered

(* From m to q only part k changed, or is new. *)
PartChanged(m, q, k) ==
  /\ k \in DOMAIN q.segments
  /\ DOMAIN m.segments \subseteq DOMAIN q.segments
  /\ DOMAIN q.segments \subseteq DOMAIN m.segments \cup {k}
  /\ \A j \in DOMAIN q.segments \ {k} : q.segments[j] = m.segments[j]
  /\ SegmentOK(q.segments[k])

(* The log spoke of no part there is not. *)
LEMMA NothingOfNew ==
  ASSUME NEW out, NEW m, NEW k, MessageTold(m, out), k \notin DOMAIN m.segments
  PROVE  PartAt(out, k) = {}
<1> QED BY DEF MessageTold, PartAt

(* One part changed without a word. *)
LEMMA MessagePartChanged ==
  ASSUME NEW out, NEW m, NEW q, NEW k, MessageTold(m, out), ~Closed(out, MessageId),
         PartChanged(m, q, k), PartTold(out, k, q.segments[k])
  PROVE  MessageTold(q, out)
<1> QED BY DEF MessageTold, PartChanged, Closed

(* One part changed, and an event is about it. *)
LEMMA MessagePartSaid ==
  ASSUME NEW out, NEW e, NEW log, NEW m, NEW q, NEW k, IsSeq(out), Appended(out, e, log),
         MessageTold(m, out), ~Closed(out, MessageId), OfPart(e, k),
         PartChanged(m, q, k), PartTold(log, k, q.segments[k])
  PROVE  MessageTold(q, log)
<1>1. Len(out) \in Nat
  BY SeqFacts
<1>2. ASSUME NEW j \in DOMAIN q.segments
      PROVE  SegmentOK(q.segments[j]) /\ PartTold(log, j, q.segments[j])
  <2>1. CASE j = k
    BY <2>1 DEF PartChanged
  <2>2. CASE j # k
    <3>1. j \in DOMAIN m.segments /\ q.segments[j] = m.segments[j] /\ ~OfPart(e, j)
      BY <2>2 DEF PartChanged, OfPart
    <3>2. SegmentOK(m.segments[j]) /\ PartTold(out, j, m.segments[j])
      BY <3>1 DEF MessageTold
    <3> QED BY <3>1, <3>2, PartAside
  <2> QED BY <2>1, <2>2
<1>3. ASSUME NEW j \in DOMAIN log, log[j].item = MessageId
      PROVE  /\ log[j].ev # "done"
             /\ log[j].ev # "added" => log[j].part \in DOMAIN q.segments
  <2>1. CASE j \in DOMAIN out
    <3>1. log[j] = out[j]
      BY <2>1 DEF Appended
    <3> QED BY <1>3, <2>1, <3>1 DEF MessageTold, Closed, PartChanged
  <2>2. CASE j \notin DOMAIN out
    <3>1. log[j] = e
      BY <1>1, <2>2 DEF Appended
    <3> QED BY <3>1 DEF OfPart, PartChanged
  <2> QED BY <2>1, <2>2
<1> QED BY <1>2, <1>3 DEF MessageTold

(* One part changed, and two events are about it. *)
LEMMA MessagePartSaidTwice ==
  ASSUME NEW out, NEW d, NEW mid, NEW e, NEW log, NEW m, NEW q, NEW k, IsSeq(out),
         Appended(out, d, mid), Appended(mid, e, log),
         MessageTold(m, out), ~Closed(out, MessageId), OfPart(d, k), OfPart(e, k),
         PartChanged(m, q, k), PartTold(log, k, q.segments[k])
  PROVE  MessageTold(q, log)
<1>1. /\ IsSeq(mid)
      /\ \A j \in DOMAIN log : \/ j \in DOMAIN out /\ log[j] = out[j]
                               \/ log[j] = d
                               \/ log[j] = e
  BY LogAppendedTwice
<1>2. ASSUME NEW j \in DOMAIN q.segments
      PROVE  SegmentOK(q.segments[j]) /\ PartTold(log, j, q.segments[j])
  <2>1. CASE j = k
    BY <2>1 DEF PartChanged
  <2>2. CASE j # k
    <3>1. j \in DOMAIN m.segments /\ q.segments[j] = m.segments[j] /\ ~OfPart(d, j) /\ ~OfPart(e, j)
      BY <2>2 DEF PartChanged, OfPart
    <3>2. SegmentOK(m.segments[j]) /\ PartTold(out, j, m.segments[j])
      BY <3>1 DEF MessageTold
    <3>3. PartTold(mid, j, m.segments[j])
      BY <3>1, <3>2, PartAside
    <3> QED BY <1>1, <3>1, <3>2, <3>3, PartAside
  <2> QED BY <2>1, <2>2
<1>3. ASSUME NEW j \in DOMAIN log, log[j].item = MessageId
      PROVE  /\ log[j].ev # "done"
             /\ log[j].ev # "added" => log[j].part \in DOMAIN q.segments
  <2>1. CASE j \in DOMAIN out /\ log[j] = out[j]
    BY <1>3, <2>1 DEF MessageTold, Closed, PartChanged
  <2>2. CASE log[j] = d \/ log[j] = e
    BY <2>2 DEF OfPart, PartChanged
  <2> QED BY <1>1, <2>1, <2>2
<1> QED BY <1>2, <1>3 DEF MessageTold

(* The message closes over its parts. *)
LEMMA MessageEnds ==
  ASSUME NEW out, NEW e, NEW log, NEW m, NEW q, IsSeq(out), Appended(out, e, log),
         e.item = MessageId, e.ev = "done", Delivered(e, m),
         q.segments = m.segments, MessageTold(m, out)
  PROVE  MessageTold(q, log)
<1>1. Len(out) \in Nat
  BY SeqFacts
<1>2. ContentParts(q) = ContentParts(m)
  BY DEF ContentParts
<1>3. \A k : ~OfPart(e, k)
  BY DEF OfPart
<1>4. \A k \in DOMAIN q.segments : SegmentOK(q.segments[k]) /\ PartTold(log, k, q.segments[k])
  BY <1>3, PartAside DEF MessageTold
<1>5. \A j \in DOMAIN log : log[j].item = MessageId =>
        /\ log[j].ev = "done" => Delivered(log[j], q)
        /\ log[j].ev \notin {"added", "done"} => log[j].part \in DOMAIN q.segments
  BY <1>1, <1>2 DEF MessageTold, Delivered, Appended
<1> QED BY <1>4, <1>5 DEF MessageTold

-----------------------------------------------------------------------------
(* Every handler of the two items says what it does. *)

(* A step that leaves the texts as they are, and what it says is not about them. *)
LEMMA AsideTold ==
  ASSUME NEW s, NEW u, NEW e, TurnOK(s), TurnOK(u), Told(s), u.out = s.out,
         u.reasoning.text = s.reasoning.text, u.message.segments = s.message.segments,
         s.reasoning.life = "done" => u.reasoning.life = "done",
         e.item \in {ReasoningId, MessageId} => e.ev = "added"
  PROVE  Told(Emit(u, <<e>>))
<1> DEFINE t == Emit(u, <<e>>)
<1>1. t.reasoning = u.reasoning /\ t.message = u.message /\ Appended(u.out, e, t.out)
  BY EmittedOne, Zenon
<1> HIDE DEF t
<1>2. ReasoningTold(t.reasoning, t.out)
  BY <1>1, ReasoningAside DEF Told, TurnOK
<1>3. MessageTold(t.message, t.out)
  BY <1>1, MessageAside DEF Told, TurnOK
<1> QED BY <1>2, <1>3 DEF Told, t

(* The same without an event. *)
LEMMA StillTold ==
  ASSUME NEW s, NEW t, Told(s), t.out = s.out,
         t.reasoning.text = s.reasoning.text, t.message.segments = s.message.segments,
         s.reasoning.life = "done" => t.reasoning.life = "done"
  PROVE  Told(t)
<1>1. ReasoningTold(t.reasoning, t.out)
  BY DEF Told, ReasoningTold
<1>2. MessageTold(t.message, t.out)
  BY MessageStill DEF Told
<1> QED BY <1>1, <1>2 DEF Told

(* What is said of the message leaves the reasoning alone. *)
LEMMA ReasoningUnmoved ==
  ASSUME NEW out, NEW e, NEW log, NEW r, IsSeq(out), Appended(out, e, log),
         e.item = MessageId, ReasoningTold(r, out)
  PROVE  ReasoningTold(r, log) /\ IsSeq(log)
<1>1. e.item # ReasoningId
  BY DEF ReasoningId, MessageId
<1> QED BY <1>1, ReasoningAside DEF Appended

(* ensure_started of the reasoning item. *)
LEMMA ReasoningEnsureStartedTells ==
  ASSUME NEW s, TurnOK(s), Told(s)
  PROVE  Told(ReasoningEnsureStarted(s))
<1>1. CASE s.reasoning.life # "not_started"
  BY <1>1 DEF ReasoningEnsureStarted
<1>2. CASE s.reasoning.life = "not_started"
  <2> DEFINE u == AllocateOutputIndex([s EXCEPT !.reasoning.life = "open",
                                               !.reasoning.index = s.env.next])
             e == [ev |-> "added", item |-> ReasoningId, index |-> s.env.next]
  <2>1. /\ DOMAIN u = DOMAIN s
        /\ u.env = [s.env EXCEPT !.next = @ + 1]
        /\ u.reasoning = [s.reasoning EXCEPT !.life = "open", !.index = s.env.next]
        /\ u.message = s.message /\ u.think = s.think /\ u.tools = s.tools /\ u.out = s.out
    BY DEF TurnOK, NewTurn, AllocateOutputIndex
  <2>2. e.ev = "added" /\ e.item = ReasoningId
    OBVIOUS
  <2>3. ReasoningEnsureStarted(s) = Emit(u, <<e>>)
    BY <1>2 DEF ReasoningEnsureStarted
  <2> HIDE DEF u, e
  <2>4. EnvOK(u.env)
    BY <2>1 DEF TurnOK, EnvOK, NewEnvelope
  <2>5. ReasoningOK(u.reasoning) /\ u.reasoning.text = s.reasoning.text
    BY <2>1 DEF TurnOK, EnvOK, ReasoningOK, NewReasoning, Lifecycle
  <2>6. TurnOK(u)
    BY <2>1, <2>4, <2>5 DEF TurnOK
  <2>7. /\ s.reasoning.life = "done" => u.reasoning.life = "done"
        /\ u.message.segments = s.message.segments
    BY <1>2, <2>1
  <2>8. Told(Emit(u, <<e>>))
    BY <2>1, <2>2, <2>5, <2>6, <2>7, AsideTold
  <2> QED BY <2>3, <2>8
<1> QED BY <1>1, <1>2

(* push_delta of the reasoning item. *)
LEMMA ReasoningPushDeltaTells ==
  ASSUME NEW s, NEW delta, TurnOK(s), Told(s)
  PROVE  Told(ReasoningPushDelta(s, delta))
<1>1. CASE s.reasoning.life = "done"
  BY <1>1 DEF ReasoningPushDelta
<1>2. CASE s.reasoning.life # "done"
  <2> DEFINE s1 == ReasoningEnsureStarted(s)
             u  == [s1 EXCEPT !.reasoning.text = @ \o delta]
             e  == [ev |-> "delta", item |-> ReasoningId, part |-> 1, text |-> delta]
             t  == Emit(u, <<e>>)
  <2>1. Paces(s, s1) /\ s1.reasoning.life = "open"
    BY <1>2, ReasoningEnsureStartedPaces
  <2>2. Told(s1)
    BY ReasoningEnsureStartedTells
  <2>3. e.ev = "delta" /\ e.item = ReasoningId /\ e.part = 1 /\ e.text = delta
    OBVIOUS
  <2>4. ReasoningPushDelta(s, delta) = t
    BY <1>2 DEF ReasoningPushDelta
  <2> HIDE DEF s1, e
  <2>5. TurnOK(s1)
    BY <2>1 DEF Paces, Steps
  <2>6. /\ DOMAIN u = DOMAIN s1 /\ u.env = s1.env /\ u.message = s1.message
        /\ u.think = s1.think /\ u.tools = s1.tools /\ u.out = s1.out
        /\ u.reasoning = [s1.reasoning EXCEPT !.text = @ \o delta]
    BY <2>5 DEF TurnOK, NewTurn
  <2> HIDE DEF u
  <2>7. ReasoningOK(u.reasoning) /\ u.reasoning.text = s1.reasoning.text \o delta
    BY <2>5, <2>6 DEF TurnOK, ReasoningOK, NewReasoning
  <2>8. TurnOK(u)
    BY <2>5, <2>6, <2>7 DEF TurnOK
  <2>9. t.reasoning = u.reasoning /\ t.message = u.message /\ Appended(u.out, e, t.out)
    BY <2>8, EmittedOne, Zenon
  <2> HIDE DEF t
  <2>10. Appended(s1.out, e, t.out) /\ IsSeq(s1.out) /\ t.message = s1.message
    BY <2>5, <2>6, <2>9 DEF TurnOK
  <2>11. ReasoningTold(t.reasoning, t.out)
    BY <2>1, <2>2, <2>3, <2>7, <2>9, <2>10, ReasoningHeard DEF Told
  <2>12. MessageTold(t.message, t.out)
    <3>1. e.item # MessageId
      BY <2>3 DEF ReasoningId, MessageId
    <3> QED BY <2>2, <2>10, <3>1, MessageAside DEF Told
  <2> QED BY <2>4, <2>11, <2>12 DEF Told
<1> QED BY <1>1, <1>2

(* finalize of the reasoning item. *)
LEMMA ReasoningFinalizeTells ==
  ASSUME NEW s, TurnOK(s), Told(s)
  PROVE  Told(ReasoningFinalize(s))
<1>1. CASE s.reasoning.life # "open"
  BY <1>1 DEF ReasoningFinalize
<1>2. CASE s.reasoning.life = "open"
  <2> DEFINE item == [type |-> "reasoning", id |-> ReasoningId, text |-> s.reasoning.text]
             d == [ev |-> "text_done", item |-> ReasoningId, part |-> 1,
                   text |-> s.reasoning.text]
             e == [ev |-> "done", item |-> ReasoningId, index |-> s.reasoning.index,
                   body |-> item]
             c == [s EXCEPT !.reasoning.life = "done"]
             u == AppendCompletedItem(c, s.reasoning.index, item)
             v == Emit(u, <<d>>)
             t == Emit(v, <<e>>)
  <2>1. ReasoningFinalize(s) = Emit(u, <<d, e>>)
    BY <1>2 DEF ReasoningFinalize
  <2>2. /\ DOMAIN c = DOMAIN s /\ c.env = s.env /\ c.message = s.message
        /\ c.think = s.think /\ c.tools = s.tools /\ c.out = s.out
        /\ c.reasoning = [s.reasoning EXCEPT !.life = "done"]
    BY DEF TurnOK, NewTurn
  <2>3. /\ d.ev = "text_done" /\ d.item = ReasoningId /\ d.text = s.reasoning.text
        /\ e.ev = "done" /\ e.item = ReasoningId /\ e.body.text = s.reasoning.text
    OBVIOUS
  <2> HIDE DEF c, d, e, item
  <2>4. /\ ReasoningOK(c.reasoning) /\ c.reasoning.life = "done"
        /\ c.reasoning.text = s.reasoning.text
    BY <2>2 DEF TurnOK, ReasoningOK, NewReasoning, Lifecycle
  <2>5. TurnOK(c)
    BY <2>2, <2>4 DEF TurnOK
  <2>6. /\ TurnOK(u) /\ u.out = s.out /\ u.message = s.message /\ u.reasoning = c.reasoning
    <3>1. s.reasoning.index \in Nat
      BY DEF TurnOK, ReasoningOK
    <3>2. Completes(c, s.reasoning.index, item, u)
      BY <2>5, <3>1, ItemAppended
    <3> HIDE DEF u
    <3> QED BY <3>2, <2>2 DEF Completes
  <2> HIDE DEF u
  <2>7. Emit(u, <<d, e>>) = t
    BY <2>6, EmittedPair
  <2>8. TurnOK(v) /\ v.reasoning = u.reasoning /\ v.message = u.message /\ Appended(u.out, d, v.out)
    BY <2>6, EmittedOne, Zenon
  <2> HIDE DEF v
  <2>9. t.reasoning = v.reasoning /\ t.message = v.message /\ Appended(v.out, e, t.out)
    BY <2>8, EmittedOne, Zenon
  <2> HIDE DEF t
  <2>10. /\ Appended(s.out, d, v.out) /\ IsSeq(s.out) /\ IsSeq(v.out)
         /\ t.message = s.message /\ t.reasoning = c.reasoning
    BY <2>6, <2>8, <2>9 DEF TurnOK
  <2>11. ReasoningTold(t.reasoning, t.out)
    BY <2>3, <2>4, <2>9, <2>10, ReasoningEnds DEF Told
  <2>12. MessageTold(t.message, t.out)
    <3>1. d.item # MessageId /\ e.item # MessageId
      BY <2>3 DEF ReasoningId, MessageId
    <3>2. MessageTold(s.message, v.out)
      BY <2>10, <3>1, MessageAside DEF Told
    <3> QED BY <2>9, <2>10, <3>1, <3>2, MessageAside
  <2> QED BY <2>1, <2>7, <2>11, <2>12 DEF Told
<1> QED BY <1>1, <1>2

-----------------------------------------------------------------------------
(* ensure_started of the message item. *)
LEMMA MessageEnsureStartedTells ==
  ASSUME NEW s, TurnOK(s), Told(s)
  PROVE  Told(MessageEnsureStarted(s))
<1>1. CASE s.message.life # "not_started"
  BY <1>1 DEF MessageEnsureStarted
<1>2. CASE s.message.life = "not_started"
  <2> DEFINE u == AllocateOutputIndex([s EXCEPT !.message.life = "open",
                                               !.message.index = s.env.next])
             e == [ev |-> "added", item |-> MessageId, index |-> s.env.next]
  <2>1. /\ DOMAIN u = DOMAIN s
        /\ u.env = [s.env EXCEPT !.next = @ + 1]
        /\ u.message = [s.message EXCEPT !.life = "open", !.index = s.env.next]
        /\ u.reasoning = s.reasoning /\ u.think = s.think /\ u.tools = s.tools /\ u.out = s.out
    BY DEF TurnOK, NewTurn, AllocateOutputIndex
  <2>2. e.ev = "added" /\ e.item = MessageId
    OBVIOUS
  <2>3. MessageEnsureStarted(s) = Emit(u, <<e>>)
    BY <1>2 DEF MessageEnsureStarted
  <2> HIDE DEF u, e
  <2>4. EnvOK(u.env)
    BY <2>1 DEF TurnOK, EnvOK, NewEnvelope
  <2>5. MessageOK(u.message) /\ u.message.segments = s.message.segments
    BY <2>1 DEF TurnOK, EnvOK, MessageOK, NewMessage, Lifecycle
  <2>6. TurnOK(u)
    BY <2>1, <2>4, <2>5 DEF TurnOK
  <2>7. Told(Emit(u, <<e>>))
    BY <2>1, <2>2, <2>5, <2>6, AsideTold
  <2> QED BY <2>3, <2>7
<1> QED BY <1>1, <1>2

(* An open message was not closed. *)
LEMMA OpenIsNotClosed ==
  ASSUME NEW s, Shown(s), s.message.life = "open"
  PROVE  ~Closed(s.out, MessageId)
<1> QED BY DEF Shown, LifeShown

(* The last part is an open text. *)
TextOpen(m) ==
  /\ Len(m.segments) \in DOMAIN m.segments
  /\ m.segments[Len(m.segments)].kind = "text"
  /\ ~m.segments[Len(m.segments)].closed

(* current_text_segment finds the open text at the end, if there is one. *)
LEMMA CurrentIsOpen ==
  ASSUME NEW m, MessageOK(m), CurrentTextSegment(m) # 0
  PROVE  TextOpen(m) /\ CurrentTextSegment(m) = Len(m.segments)
<1>1. /\ m.segments # <<>> /\ m.segments[Len(m.segments)].kind = "text"
      /\ ~m.segments[Len(m.segments)].closed
      /\ CurrentTextSegment(m) = Len(m.segments)
  BY DEF CurrentTextSegment
<1>2. Len(m.segments) \in Nat /\ DOMAIN m.segments = 1..Len(m.segments)
  BY SeqFacts DEF MessageOK
<1>3. Len(m.segments) # 0
  BY <1>1
<1> QED BY <1>1, <1>2, <1>3 DEF TextOpen

(* Vec::push, by positions. *)
LEMMA AppendAt ==
  ASSUME NEW q, NEW e, IsSeq(q)
  PROVE  /\ IsSeq(Append(q, e)) /\ Len(q) \in Nat /\ Len(Append(q, e)) = Len(q) + 1
         /\ DOMAIN q = 1..Len(q) /\ DOMAIN Append(q, e) = 1..(Len(q) + 1)
         /\ \A k \in DOMAIN q : Append(q, e)[k] = q[k]
         /\ Append(q, e)[Len(q) + 1] = e
<1>1. PICK S : q \in Seq(S)
  BY DEF IsSeq
<1>2. q \in Seq(S \cup {e})
  BY <1>1, SeqMonotonic
<1>3. /\ Append(q, e) \in Seq(S \cup {e}) /\ Len(Append(q, e)) = Len(q) + 1
      /\ \A k \in 1..Len(q) : Append(q, e)[k] = q[k]
      /\ Append(q, e)[Len(q) + 1] = e
  BY <1>2, AppendProperties
<1> QED BY <1>2, <1>3, LenProperties DEF IsSeq

(* A part more at the end. *)
LEMMA PartAppended ==
  ASSUME NEW m, NEW q, NEW seg, IsSeq(m.segments), q.segments = Append(m.segments, seg),
         SegmentOK(seg)
  PROVE  /\ PartChanged(m, q, Len(m.segments) + 1)
         /\ Len(m.segments) + 1 \notin DOMAIN m.segments
         /\ q.segments[Len(m.segments) + 1] = seg
         /\ Len(q.segments) = Len(m.segments) + 1
<1>1. /\ Len(m.segments) \in Nat /\ Len(q.segments) = Len(m.segments) + 1
      /\ DOMAIN m.segments = 1..Len(m.segments) /\ DOMAIN q.segments = 1..(Len(m.segments) + 1)
      /\ \A k \in DOMAIN m.segments : q.segments[k] = m.segments[k]
      /\ q.segments[Len(m.segments) + 1] = seg
  BY AppendAt
<1> QED BY <1>1 DEF PartChanged

(* A part is replaced. *)
LEMMA PartReplaced ==
  ASSUME NEW m, NEW q, NEW k, NEW seg, k \in DOMAIN m.segments,
         q.segments = [m.segments EXCEPT ![k] = seg], SegmentOK(seg)
  PROVE  PartChanged(m, q, k) /\ q.segments[k] = seg /\ DOMAIN q.segments = DOMAIN m.segments
<1> QED BY DEF PartChanged

(* start_text_segment: a part that nothing was said of. *)
LEMMA StartTextSegmentTells ==
  ASSUME NEW s, TurnOK(s), Shown(s), Told(s), s.message.life # "done"
  PROVE  Told(StartTextSegment(s)) /\ TextOpen(StartTextSegment(s).message)
<1> DEFINE s1  == MessageEnsureStarted(s)
           seg == [kind |-> "text", text |-> <<>>, anns |-> s1.message.pending,
                   closed |-> FALSE]
           u   == [s1 EXCEPT !.message.segments = Append(@, seg), !.message.pending = <<>>]
           part == Len(s1.message.segments) + 1
           e   == PartEvent("part_added", part, seg)
           t   == Emit(u, <<e>>)
<1>1. Paces(s, s1) /\ s1.message.life = "open"
  BY MessageEnsureStartedPaces
<1>2. StartTextSegment(s) = t
  BY DEF StartTextSegment
<1>3. /\ seg.kind = "text" /\ seg.text = <<>> /\ ~seg.closed /\ SegmentOK(seg)
      /\ e.ev = "part_added" /\ OfPart(e, part) /\ e.item = MessageId
  BY DEF SegmentOK, PartEvent, OfPart
<1>4. Told(s1)
  BY MessageEnsureStartedTells
<1> HIDE DEF s1, seg, part, e
<1>5. TurnOK(s1) /\ Shown(s1)
  BY <1>1 DEF Paces, Steps
<1>6. /\ DOMAIN u = DOMAIN s1 /\ u.env = s1.env /\ u.reasoning = s1.reasoning
      /\ u.think = s1.think /\ u.tools = s1.tools /\ u.out = s1.out
      /\ u.message = [s1.message EXCEPT !.segments = Append(@, seg), !.pending = <<>>]
  BY <1>5 DEF TurnOK, NewTurn
<1> HIDE DEF u
<1>7. /\ DOMAIN u.message = DOMAIN s1.message /\ u.message.life = s1.message.life
      /\ u.message.index = s1.message.index
      /\ u.message.segments = Append(s1.message.segments, seg)
  BY <1>5, <1>6 DEF TurnOK, MessageOK, NewMessage
<1>8. IsSeq(s1.message.segments) /\ IsSeq(u.message.segments)
  BY <1>5, <1>7, AppendAt DEF TurnOK, MessageOK
<1>9. TurnOK(u)
  BY <1>1, <1>5, <1>6, <1>7, <1>8 DEF TurnOK, MessageOK
<1>10. t.reasoning = u.reasoning /\ t.message = u.message /\ Appended(u.out, e, t.out)
  BY <1>9, EmittedOne, Zenon
<1> HIDE DEF t
<1>11. Appended(s1.out, e, t.out) /\ IsSeq(s1.out) /\ t.reasoning = s1.reasoning
  BY <1>5, <1>6, <1>10 DEF TurnOK
<1>12. /\ PartChanged(s1.message, t.message, part) /\ part \notin DOMAIN s1.message.segments
       /\ t.message.segments[part] = seg /\ Len(t.message.segments) = part
  <2>1. t.message.segments = Append(s1.message.segments, seg)
    BY <1>7, <1>10
  <2> DEFINE n == Len(s1.message.segments) + 1
  <2>2. /\ PartChanged(s1.message, t.message, n) /\ n \notin DOMAIN s1.message.segments
        /\ t.message.segments[n] = seg /\ Len(t.message.segments) = n
    <3>1. SegmentOK(seg) /\ IsSeq(s1.message.segments)
      BY <1>3, <1>8
    <3> HIDE DEF n
    <3> QED BY <2>1, <3>1, PartAppended, Zenon DEF n
  <2>3. part = n
    BY DEF part
  <2> QED BY <2>2, <2>3
<1>13. PartTold(t.out, part, seg)
  <2>1. PartAt(s1.out, part) = {}
    BY <1>4, <1>12, NothingOfNew DEF Told
  <2> QED BY <1>3, <1>11, <2>1, PartOpens
<1>14. MessageTold(t.message, t.out)
  BY <1>1, <1>3, <1>4, <1>5, <1>11, <1>12, <1>13, MessagePartSaid, OpenIsNotClosed DEF Told
<1>15. ReasoningTold(t.reasoning, t.out)
  BY <1>3, <1>4, <1>11, ReasoningUnmoved DEF Told
<1>16. TextOpen(t.message)
  BY <1>3, <1>12 DEF TextOpen, PartChanged
<1> QED BY <1>2, <1>14, <1>15, <1>16 DEF Told

(* With an open text the message cannot have been closed. *)
LEMMA TextOpenNotClosed ==
  ASSUME NEW m, NEW out, TextOpen(m), MessageTold(m, out)
  PROVE  ~Closed(out, MessageId)
<1> QED BY DEF TextOpen, MessageTold, Delivered, Closed

(* add_annotations: a part that is open, or none yet. *)
LEMMA AddAnnotationsTells ==
  ASSUME NEW s, NEW anns, TurnOK(s), Told(s)
  PROVE  Told(AddAnnotations(s, anns))
<1> DEFINE k == CurrentTextSegment(s.message)
           t == [s EXCEPT !.message.segments[k].anns = @ \o anns]
           u == [s EXCEPT !.message.pending = @ \o anns]
<1>1. ASSUME k # 0 PROVE Told(t)
  <2>1. /\ t.reasoning = s.reasoning /\ t.out = s.out
        /\ t.message = [s.message EXCEPT !.segments[k].anns = @ \o anns]
    BY DEF TurnOK, NewTurn
  <2> DEFINE seg == [s.message.segments[k] EXCEPT !.anns = @ \o anns]
  <2>2. TextOpen(s.message) /\ k = Len(s.message.segments)
    BY <1>1, CurrentIsOpen DEF TurnOK
  <2> HIDE DEF t, k
  <2>3. t.message.segments = [s.message.segments EXCEPT ![k] = seg]
    BY <2>1 DEF TurnOK, MessageOK, NewMessage
  <2>4. /\ k \in DOMAIN s.message.segments /\ s.message.segments[k].kind = "text"
        /\ ~s.message.segments[k].closed
    BY <2>2 DEF TextOpen
  <2>5. SegmentOK(s.message.segments[k]) /\ PartTold(s.out, k, s.message.segments[k])
    BY <2>4 DEF Told, MessageTold
  <2>6. /\ SegmentOK(seg) /\ seg.kind = s.message.segments[k].kind
        /\ seg.text = s.message.segments[k].text /\ ~seg.closed
    BY <2>4, <2>5 DEF SegmentOK
  <2> HIDE DEF seg
  <2>7. PartChanged(s.message, t.message, k) /\ t.message.segments[k] = seg
    BY <2>3, <2>4, <2>6, PartReplaced, Zenon
  <2>8. PartTold(s.out, k, seg)
    BY <2>4, <2>5, <2>6, PartAnnotated
  <2>9. ~Closed(s.out, MessageId)
    BY <2>2, TextOpenNotClosed DEF Told
  <2>10. MessageTold(t.message, t.out)
    BY <2>1, <2>7, <2>8, <2>9, MessagePartChanged DEF Told
  <2> QED BY <2>1, <2>10 DEF Told
<1>2. Told(u)
  <2>1. u.reasoning = s.reasoning /\ u.out = s.out /\ u.message.segments = s.message.segments
    BY DEF TurnOK, NewTurn, MessageOK, NewMessage
  <2> QED BY <2>1, StillTold
<1> QED BY <1>1, <1>2 DEF AddAnnotations

(* A well-formed turn with one part of its message replaced is one. *)
LEMMA PartSetOK ==
  ASSUME NEW s, NEW t, NEW k, NEW seg, TurnOK(s), DOMAIN t = DOMAIN s, t.env = s.env,
         t.reasoning = s.reasoning, t.think = s.think, t.tools = s.tools, t.out = s.out,
         DOMAIN t.message = DOMAIN s.message, t.message.life = s.message.life,
         t.message.index = s.message.index, k \in DOMAIN s.message.segments,
         t.message.segments = [s.message.segments EXCEPT ![k] = seg]
  PROVE  TurnOK(t) /\ Len(t.message.segments) = Len(s.message.segments)
<1>1. IsSeq(s.message.segments)
  BY DEF TurnOK, MessageOK
<1>2. IsSeq(t.message.segments)
  BY <1>1, ExceptIsSeq, SMTT(30)
<1>3. /\ DOMAIN t.message.segments = 1..Len(t.message.segments)
      /\ DOMAIN s.message.segments = 1..Len(s.message.segments)
      /\ Len(t.message.segments) \in Nat /\ Len(s.message.segments) \in Nat
  BY <1>1, <1>2, SeqFacts
<1>4. DOMAIN t.message.segments = DOMAIN s.message.segments
  OBVIOUS
<1>5. s.message.segments # <<>>
  <2>1. DOMAIN <<>> = {}
    OBVIOUS
  <2> QED BY <2>1
<1>6. MessageOK(t.message)
  BY <1>2, <1>5 DEF TurnOK, MessageOK
<1>7. TurnOK(t)
  BY <1>6 DEF TurnOK
<1> QED BY <1>3, <1>4, <1>7

(* push_text_delta: the open part, or a new one, gets the delta. *)
LEMMA PushTextDeltaTells ==
  ASSUME NEW s, NEW delta, TurnOK(s), Shown(s), Told(s)
  PROVE  Told(PushTextDelta(s, delta))
<1>1. CASE s.message.life = "done" \/ delta = <<>>
  BY <1>1, ZenonT(40) DEF PushTextDelta
<1>2. CASE ~(s.message.life = "done" \/ delta = <<>>)
  <2> DEFINE k0 == CurrentTextSegment(s.message)
             t0 == [s EXCEPT !.message.segments[k0].anns = @ \o s.message.pending,
                             !.message.pending = <<>>]
             s1 == IF k0 = 0 THEN StartTextSegment(s) ELSE t0
             k  == Len(s1.message.segments)
             u  == [s1 EXCEPT !.message.segments[k].text = @ \o delta]
             e  == [ev |-> "delta", item |-> MessageId, part |-> k, text |-> delta]
             t  == Emit(u, <<e>>)
  <2>1. PushTextDelta(s, delta) = t
    BY <1>2 DEF PushTextDelta
  <2>2. e.ev = "delta" /\ e.item = MessageId /\ e.part = k /\ e.text = delta
    OBVIOUS
  <2>3. TurnOK(s1) /\ Told(s1) /\ TextOpen(s1.message)
    <3>1. CASE k0 = 0
      BY <1>2, <3>1, StartTextSegmentPaces, StartTextSegmentTells DEF Paces, Steps
    <3>2. CASE k0 # 0
      <4>1. /\ DOMAIN t0 = DOMAIN s /\ t0.env = s.env /\ t0.reasoning = s.reasoning
            /\ t0.think = s.think /\ t0.tools = s.tools /\ t0.out = s.out
            /\ t0.message = [s.message EXCEPT !.segments[k0].anns = @ \o s.message.pending,
                                              !.pending = <<>>]
        BY DEF TurnOK, NewTurn
      <4>2. s1 = t0
        BY <3>2
      <4> DEFINE seg == [s.message.segments[k0] EXCEPT !.anns = @ \o s.message.pending]
      <4>3. TextOpen(s.message) /\ k0 = Len(s.message.segments)
        BY <3>2, CurrentIsOpen DEF TurnOK
      <4> HIDE DEF t0, s1, k0
      <4>4. /\ DOMAIN t0.message = DOMAIN s.message /\ t0.message.life = s.message.life
            /\ t0.message.index = s.message.index
            /\ t0.message.segments = [s.message.segments EXCEPT ![k0] = seg]
        BY <4>1 DEF TurnOK, MessageOK, NewMessage
      <4>5. /\ k0 \in DOMAIN s.message.segments /\ s.message.segments[k0].kind = "text"
            /\ ~s.message.segments[k0].closed
        BY <4>3 DEF TextOpen
      <4>6. SegmentOK(s.message.segments[k0]) /\ PartTold(s.out, k0, s.message.segments[k0])
        BY <4>5 DEF Told, MessageTold
      <4>7. /\ SegmentOK(seg) /\ seg.kind = s.message.segments[k0].kind
            /\ seg.text = s.message.segments[k0].text /\ ~seg.closed
        BY <4>5, <4>6 DEF SegmentOK
      <4> HIDE DEF seg
      <4>8. /\ PartChanged(s.message, t0.message, k0) /\ t0.message.segments[k0] = seg
            /\ DOMAIN t0.message.segments = DOMAIN s.message.segments
        BY <4>4, <4>5, <4>7, PartReplaced, Zenon
      <4>9. PartTold(s.out, k0, seg)
        BY <4>5, <4>6, <4>7, PartAnnotated
      <4>10. ~Closed(s.out, MessageId)
        BY <4>3, TextOpenNotClosed DEF Told
      <4>11. MessageTold(t0.message, t0.out)
        BY <4>1, <4>8, <4>9, <4>10, MessagePartChanged DEF Told
      <4>12. TurnOK(t0) /\ Len(t0.message.segments) = Len(s.message.segments)
        <5>1. /\ TurnOK(s) /\ DOMAIN t0 = DOMAIN s /\ t0.env = s.env
              /\ t0.reasoning = s.reasoning /\ t0.think = s.think
              /\ t0.tools = s.tools /\ t0.out = s.out
          BY <4>1
        <5>2. /\ DOMAIN t0.message = DOMAIN s.message /\ t0.message.life = s.message.life
              /\ t0.message.index = s.message.index /\ k0 \in DOMAIN s.message.segments
              /\ t0.message.segments = [s.message.segments EXCEPT ![k0] = seg]
          BY <4>4, <4>5
        <5> QED BY <5>1, <5>2, PartSetOK
      <4>13. TextOpen(t0.message)
        BY <4>3, <4>5, <4>7, <4>8, <4>12 DEF TextOpen
      <4> QED BY <4>1, <4>2, <4>11, <4>12, <4>13 DEF Told
    <3> QED BY <3>1, <3>2
  <2> HIDE DEF s1, e
  <2>4. /\ DOMAIN u = DOMAIN s1 /\ u.env = s1.env /\ u.reasoning = s1.reasoning
        /\ u.think = s1.think /\ u.tools = s1.tools /\ u.out = s1.out
        /\ u.message = [s1.message EXCEPT !.segments[k].text = @ \o delta]
    BY <2>3 DEF TurnOK, NewTurn
  <2> DEFINE old == s1.message.segments[k]
             seg == [old EXCEPT !.text = @ \o delta]
  <2>5. /\ k \in DOMAIN s1.message.segments /\ old.kind = "text" /\ ~old.closed
    BY <2>3 DEF TextOpen
  <2> HIDE DEF u, k
  <2>6. /\ DOMAIN u.message = DOMAIN s1.message /\ u.message.life = s1.message.life
        /\ u.message.index = s1.message.index
        /\ u.message.segments = [s1.message.segments EXCEPT ![k] = seg]
    BY <2>3, <2>4 DEF TurnOK, MessageOK, NewMessage
  <2>7. SegmentOK(old) /\ PartTold(s1.out, k, old)
    BY <2>3, <2>5 DEF Told, MessageTold
  <2> HIDE DEF old
  <2>8. /\ SegmentOK(seg) /\ seg.kind = "text" /\ ~seg.closed
        /\ seg.text = old.text \o delta
    BY <2>5, <2>7 DEF SegmentOK
  <2> HIDE DEF seg
  <2>9. PartChanged(s1.message, u.message, k) /\ u.message.segments[k] = seg
    BY <2>5, <2>6, <2>8, PartReplaced, Zenon
  <2>10. TurnOK(u)
    BY <2>3, <2>4, <2>5, <2>6, PartSetOK
  <2>11. t.reasoning = u.reasoning /\ t.message = u.message /\ Appended(u.out, e, t.out)
    BY <2>10, EmittedOne, Zenon
  <2> HIDE DEF t
  <2>12. Appended(s1.out, e, t.out) /\ IsSeq(s1.out) /\ t.reasoning = s1.reasoning
    BY <2>3, <2>4, <2>11 DEF TurnOK
  <2>13. OfPart(e, k)
    BY <2>2 DEF OfPart
  <2>14. PartTold(t.out, k, seg)
    BY <2>2, <2>5, <2>7, <2>8, <2>12, <2>13, PartHeard
  <2>15. ~Closed(s1.out, MessageId)
    BY <2>3, TextOpenNotClosed DEF Told
  <2>16. MessageTold(t.message, t.out)
    BY <2>3, <2>9, <2>11, <2>12, <2>13, <2>14, <2>15, MessagePartSaid DEF Told
  <2>17. ReasoningTold(t.reasoning, t.out)
    BY <2>2, <2>3, <2>12, ReasoningUnmoved DEF Told
  <2> QED BY <2>1, <2>16, <2>17 DEF Told
<1> QED BY <1>1, <1>2

(* push_refusal_part: a new part, opened and closed. *)
LEMMA PushRefusalPartTells ==
  ASSUME NEW s, NEW refusal, TurnOK(s), Shown(s), Told(s)
  PROVE  Told(PushRefusalPart(s, refusal))
<1>1. CASE refusal = <<>> \/ s.message.life = "done"
  BY <1>1 DEF PushRefusalPart
<1>2. CASE ~(refusal = <<>> \/ s.message.life = "done")
  <2> DEFINE s1  == MessageEnsureStarted(s)
             seg == [kind |-> "refusal", text |-> refusal, anns |-> <<>>, closed |-> TRUE]
             u   == [s1 EXCEPT !.message.segments = Append(@, seg)]
             k   == Len(s1.message.segments) + 1
             d   == PartEvent("part_added", k, seg)
             e   == PartEvent("part_done", k, seg)
             v   == Emit(u, <<d>>)
             t   == Emit(v, <<e>>)
  <2>1. Paces(s, s1) /\ s1.message.life = "open"
    BY <1>2, MessageEnsureStartedPaces
  <2>2. PushRefusalPart(s, refusal) = Emit(u, <<d, e>>)
    BY <1>2 DEF PushRefusalPart
  <2>3. /\ seg.kind = "refusal" /\ seg.closed /\ SegmentOK(seg)
        /\ d.ev = "part_added" /\ OfPart(d, k) /\ d.item = MessageId
        /\ e.ev = "part_done" /\ OfPart(e, k) /\ e.item = MessageId
        /\ e.text = seg.text /\ e.anns = seg.anns
    BY DEF SegmentOK, PartEvent, OfPart
  <2>4. Told(s1)
    BY MessageEnsureStartedTells
  <2> HIDE DEF s1, seg, k, d, e
  <2>5. TurnOK(s1) /\ Shown(s1)
    BY <2>1 DEF Paces, Steps
  <2>6. /\ DOMAIN u = DOMAIN s1 /\ u.env = s1.env /\ u.reasoning = s1.reasoning
        /\ u.think = s1.think /\ u.tools = s1.tools /\ u.out = s1.out
        /\ u.message = [s1.message EXCEPT !.segments = Append(@, seg)]
    BY <2>5 DEF TurnOK, NewTurn
  <2> HIDE DEF u
  <2>7. /\ DOMAIN u.message = DOMAIN s1.message /\ u.message.life = s1.message.life
        /\ u.message.index = s1.message.index
        /\ u.message.segments = Append(s1.message.segments, seg)
    BY <2>5, <2>6 DEF TurnOK, MessageOK, NewMessage
  <2>8. IsSeq(s1.message.segments) /\ IsSeq(u.message.segments)
    BY <2>5, <2>7, AppendAt DEF TurnOK, MessageOK
  <2>9. TurnOK(u)
    BY <2>1, <2>5, <2>6, <2>7, <2>8 DEF TurnOK, MessageOK
  <2>10. Emit(u, <<d, e>>) = t
    BY <2>9, EmittedPair
  <2>11. TurnOK(v) /\ v.reasoning = u.reasoning /\ v.message = u.message /\ Appended(u.out, d, v.out)
    BY <2>9, EmittedOne, Zenon
  <2> HIDE DEF v
  <2>12. t.reasoning = v.reasoning /\ t.message = v.message /\ Appended(v.out, e, t.out)
    BY <2>11, EmittedOne, Zenon
  <2> HIDE DEF t
  <2>13. /\ Appended(s1.out, d, v.out) /\ IsSeq(s1.out) /\ IsSeq(v.out)
         /\ t.reasoning = s1.reasoning /\ t.message.segments = Append(s1.message.segments, seg)
    BY <2>5, <2>6, <2>7, <2>11, <2>12 DEF TurnOK
  <2>14. /\ PartChanged(s1.message, t.message, k) /\ k \notin DOMAIN s1.message.segments
         /\ t.message.segments[k] = seg
    <3> DEFINE n == Len(s1.message.segments) + 1
    <3>1. /\ PartChanged(s1.message, t.message, n) /\ n \notin DOMAIN s1.message.segments
          /\ t.message.segments[n] = seg
      <4>1. /\ SegmentOK(seg) /\ IsSeq(s1.message.segments)
            /\ t.message.segments = Append(s1.message.segments, seg)
        BY <2>3, <2>8, <2>13
      <4> HIDE DEF n
      <4> QED BY <4>1, PartAppended, Zenon DEF n
    <3>2. k = n
      BY DEF k
    <3> QED BY <3>1, <3>2
  <2>15. PartTold(t.out, k, seg)
    <3>1. PartAt(s1.out, k) = {}
      BY <2>4, <2>14, NothingOfNew DEF Told
    <3> QED BY <2>3, <2>12, <2>13, <3>1, PartRefused
  <2>16. MessageTold(t.message, t.out)
    <3>1. ~Closed(s1.out, MessageId) /\ MessageTold(s1.message, s1.out)
      BY <2>1, <2>4, <2>5, OpenIsNotClosed DEF Told
    <3>2. PartTold(t.out, k, t.message.segments[k])
      BY <2>14, <2>15
    <3> QED BY <2>3, <2>12, <2>13, <2>14, <3>1, <3>2, MessagePartSaidTwice
  <2>17. ReasoningTold(t.reasoning, t.out)
    BY <2>3, <2>4, <2>12, <2>13, ReasoningUnmoved DEF Told
  <2> QED BY <2>2, <2>10, <2>16, <2>17 DEF Told
<1> QED BY <1>1, <1>2

(* close_segment: text_done and part_done of a text that is open. *)
LEMMA CloseSegmentTells ==
  ASSUME NEW s, NEW k, TurnOK(s), Told(s), ~Closed(s.out, MessageId),
         k \in DOMAIN s.message.segments
  PROVE  LET t == CloseSegment(s, k)
         IN  /\ Told(t)
             /\ DOMAIN t.message.segments = DOMAIN s.message.segments
             /\ ContentParts(t.message) = ContentParts(s.message)
             /\ t.message.segments[k].closed
             /\ \A j \in DOMAIN s.message.segments \ {k} :
                  t.message.segments[j] = s.message.segments[j]
<1> DEFINE old == s.message.segments[k]
           seg == [old EXCEPT !.closed = TRUE]
           u == [s EXCEPT !.message.segments[k].closed = TRUE]
           d == [ev |-> "text_done", item |-> MessageId, part |-> k, text |-> old.text]
           e == PartEvent("part_done", k, old)
           c == CloseSegment(s, k)
<1>1. c = IF old.closed THEN Emit(u, <<>>) ELSE Emit(u, <<d, e>>)
  BY DEF CloseSegment, ClosePartEvents
<1>2. /\ DOMAIN u = DOMAIN s /\ u.env = s.env /\ u.reasoning = s.reasoning
      /\ u.think = s.think /\ u.tools = s.tools /\ u.out = s.out
      /\ u.message = [s.message EXCEPT !.segments[k].closed = TRUE]
  BY DEF TurnOK, NewTurn
<1>3. /\ d.ev = "text_done" /\ d.item = MessageId /\ OfPart(d, k) /\ d.text = old.text
      /\ e.ev = "part_done" /\ e.item = MessageId /\ OfPart(e, k) /\ e.text = old.text
      /\ e.anns = old.anns
  BY DEF PartEvent, OfPart
<1> HIDE DEF u, d, e, c
<1>4. /\ DOMAIN u.message = DOMAIN s.message /\ u.message.life = s.message.life
      /\ u.message.index = s.message.index
      /\ u.message.segments = [s.message.segments EXCEPT ![k] = seg]
  BY <1>2 DEF TurnOK, MessageOK, NewMessage
<1>5. SegmentOK(old) /\ PartTold(s.out, k, old)
  BY DEF Told, MessageTold
<1> HIDE DEF old
<1>6. /\ SegmentOK(seg) /\ seg.kind = old.kind /\ seg.closed
      /\ seg.text = old.text /\ seg.anns = old.anns
  BY <1>5 DEF SegmentOK
<1> HIDE DEF seg
<1>7. /\ PartChanged(s.message, u.message, k) /\ u.message.segments[k] = seg
      /\ DOMAIN u.message.segments = DOMAIN s.message.segments
  BY <1>4, <1>6, PartReplaced, Zenon
<1>8. TurnOK(u)
  BY <1>2, <1>4, PartSetOK, Zenon
<1>9. /\ \A j \in DOMAIN s.message.segments \ {k} : u.message.segments[j] = s.message.segments[j]
      /\ u.message.segments[k].closed
      /\ ContentParts(u.message) = ContentParts(s.message)
  <2>1. \A j \in DOMAIN s.message.segments \ {k} : u.message.segments[j] = s.message.segments[j]
    BY <1>7 DEF PartChanged
  <2>2. \A j \in DOMAIN s.message.segments :
          /\ u.message.segments[j].kind = s.message.segments[j].kind
          /\ u.message.segments[j].text = s.message.segments[j].text
          /\ u.message.segments[j].anns = s.message.segments[j].anns
    BY <1>6, <1>7, <2>1 DEF old
  <2> QED BY <1>6, <1>7, <2>1, <2>2 DEF ContentParts
<1>10. CASE old.closed
  <2>1. c.out = s.out /\ c.reasoning = s.reasoning /\ c.message = u.message
    <3>1. IsSeq(<<>>)
      BY DEF IsSeq
    <3>2. c.out = u.out \o <<>> /\ c.reasoning = u.reasoning /\ c.message = u.message
      BY <1>1, <1>8, <1>10, <3>1, Emitted, Zenon
    <3>3. s.out \o <<>> = s.out
      BY ConcatEmptySeq DEF TurnOK, IsSeq
    <3> QED BY <1>2, <3>2, <3>3
  <2>2. PartTold(s.out, k, seg)
    BY <1>5, <1>6, <1>10 DEF PartTold
  <2>3. MessageTold(c.message, c.out)
    BY <1>7, <2>1, <2>2, MessagePartChanged DEF Told
  <2> QED BY <1>7, <1>9, <2>1, <2>3 DEF Told, c
<1>11. CASE ~old.closed
  <2> DEFINE v == Emit(u, <<d>>)
             t == Emit(v, <<e>>)
  <2>1. c = t
    BY <1>1, <1>8, <1>11, EmittedPair
  <2>2. TurnOK(v) /\ v.reasoning = u.reasoning /\ v.message = u.message /\ Appended(u.out, d, v.out)
    BY <1>8, EmittedOne, Zenon
  <2> HIDE DEF v
  <2>3. t.reasoning = v.reasoning /\ t.message = v.message /\ Appended(v.out, e, t.out)
    BY <2>2, EmittedOne, Zenon
  <2> HIDE DEF t
  <2>4. /\ Appended(s.out, d, v.out) /\ IsSeq(s.out) /\ IsSeq(v.out)
        /\ t.reasoning = s.reasoning /\ t.message = u.message
    BY <1>2, <2>2, <2>3 DEF TurnOK
  <2>5. old.kind = "text"
    BY <1>5, <1>11 DEF SegmentOK
  <2>6. PartTold(t.out, k, seg)
    BY <1>3, <1>5, <1>6, <1>11, <2>3, <2>4, <2>5, PartCloses
  <2>7. MessageTold(t.message, t.out)
    <3>1. MessageTold(s.message, s.out)
      BY DEF Told
    <3>2. PartChanged(s.message, t.message, k) /\ PartTold(t.out, k, t.message.segments[k])
      BY <1>7, <2>4, <2>6
    <3> QED BY <1>3, <2>3, <2>4, <3>1, <3>2, MessagePartSaidTwice
  <2>8. ReasoningTold(t.reasoning, t.out)
    BY <1>3, <2>3, <2>4, ReasoningUnmoved DEF Told
  <2> QED BY <1>7, <1>9, <2>1, <2>4, <2>7, <2>8 DEF Told, c
<1> QED BY <1>10, <1>11

(* flush_open_text_part closes the last part if it is an open text. *)
LEMMA FlushOpenTextPartTells ==
  ASSUME NEW s, TurnOK(s), Told(s)
  PROVE  Told(FlushOpenTextPart(s))
<1> DEFINE k == CurrentTextSegment(s.message)
<1>1. CASE s.message.life = "done" \/ k = 0
  BY <1>1 DEF FlushOpenTextPart
<1>2. CASE ~(s.message.life = "done" \/ k = 0)
  <2>1. TextOpen(s.message) /\ k = Len(s.message.segments)
    BY <1>2, CurrentIsOpen DEF TurnOK
  <2>2. FlushOpenTextPart(s) = CloseSegment(s, k)
    BY <1>2 DEF FlushOpenTextPart
  <2>3. k \in DOMAIN s.message.segments /\ ~Closed(s.out, MessageId)
    BY <2>1, TextOpenNotClosed DEF TextOpen, Told
  <2> HIDE DEF k
  <2> QED BY <2>2, <2>3, CloseSegmentTells
<1> QED BY <1>1, <1>2

(* After k of the parts were closed, the log says of all what they hold. *)
Telling(none, s, t, k) ==
  /\ Closing(0, s, t, k)
  /\ Told(t)
  /\ DOMAIN t.message.segments = DOMAIN s.message.segments
  /\ ContentParts(t.message) = ContentParts(s.message)
  /\ \A j \in 1..k : t.message.segments[j].closed

Tellings == INSTANCE Iteration_proofs WITH Step <- CloseNext, Holds <- Telling

(* One round of finalize_message's loop, and what it says. *)
LEMMA TellingStep ==
  ASSUME NEW s, NEW t, NEW k, TurnOK(s), Shown(Reopened(s)),
         k \in 1..Len(s.message.segments), Telling(0, s, t, k - 1)
  PROVE  Telling(0, s, CloseNext(0, t, k), k)
<1> DEFINE c == CloseSegment(t, k)
<1>1. Closing(0, s, CloseNext(0, t, k), k)
  BY ClosingStep DEF Telling
<1>2. CloseNext(0, t, k) = c
  BY DEF CloseNext
<1>3. TurnOK(t) /\ Told(t) /\ Paces(Reopened(s), Reopened(t))
  BY DEF Telling, Closing
<1>4. ~Closed(t.out, MessageId)
  <2>1. Shown(Reopened(t))
    BY <1>3 DEF Paces, Steps
  <2>2. Reopened(t).message.life = "open" /\ Reopened(t).out = t.out
    BY <1>3, ReopenedFields
  <2> QED BY <2>1, <2>2, OpenIsNotClosed
<1>5. k \in DOMAIN t.message.segments /\ DOMAIN s.message.segments = 1..Len(s.message.segments)
  BY SeqFacts DEF Telling, TurnOK, MessageOK
<1>6. /\ Told(c)
      /\ DOMAIN c.message.segments = DOMAIN t.message.segments
      /\ ContentParts(c.message) = ContentParts(t.message)
      /\ c.message.segments[k].closed
      /\ \A j \in DOMAIN t.message.segments \ {k} :
           c.message.segments[j] = t.message.segments[j]
  BY <1>3, <1>4, <1>5, CloseSegmentTells
<1>7. ASSUME NEW j \in 1..k PROVE c.message.segments[j].closed
  <2>1. CASE j = k
    BY <1>6, <2>1
  <2>2. CASE j # k
    <3>1. j \in 1..(k - 1) /\ j \in DOMAIN t.message.segments \ {k}
      BY <1>5, <2>2 DEF Telling
    <3> QED BY <1>6, <3>1 DEF Telling
  <2> QED BY <2>1, <2>2
<1> HIDE DEF c
<1> QED BY <1>1, <1>2, <1>6, <1>7 DEF Telling

(* finalize_message closes all parts and says so, then lists them. *)
LEMMA MessageFinalizeTells ==
  ASSUME NEW s, TurnOK(s), Shown(s), Told(s)
  PROVE  Told(MessageFinalize(s))
<1>1. CASE s.message.life # "open"
  BY <1>1 DEF MessageFinalize
<1>2. CASE s.message.life = "open"
  <2> DEFINE s0 == [s EXCEPT !.message.life = "done"]
             n  == Len(s.message.segments)
             s1 == EachSegment!Iterate(0, s0, n)
             item == [type |-> "message", id |-> MessageId, parts |-> ContentParts(s.message)]
             u  == AppendCompletedItem(s1, s.message.index, item)
             e  == [ev |-> "done", item |-> MessageId, index |-> s.message.index, body |-> item]
             t  == Emit(u, <<e>>)
  <2>1. MessageFinalize(s) = t
    BY <1>2 DEF MessageFinalize
  <2>2. e.ev = "done" /\ e.item = MessageId /\ e.body.parts = ContentParts(s.message)
    OBVIOUS
  <2>3. /\ DOMAIN s0 = DOMAIN s /\ s0.env = s.env /\ s0.reasoning = s.reasoning
        /\ s0.think = s.think /\ s0.tools = s.tools /\ s0.out = s.out
        /\ s0.message = [s.message EXCEPT !.life = "done"]
    BY DEF TurnOK, NewTurn
  <2> HIDE DEF s0, item, e
  <2>4. /\ MessageOK(s0.message) /\ s0.message.life = "done"
        /\ s0.message.segments = s.message.segments
    BY <2>3 DEF TurnOK, MessageOK, NewMessage, Lifecycle
  <2>5. TurnOK(s0)
    BY <2>3, <2>4 DEF TurnOK
  <2>6. n \in Nat /\ DOMAIN s.message.segments = 1..n /\ n = Len(s0.message.segments)
    BY <2>4, SeqFacts DEF TurnOK, MessageOK
  <2>7. Shown(Reopened(s0))
    <3>1. /\ Reopened(s0).env = s.env /\ Reopened(s0).reasoning = s.reasoning
          /\ Reopened(s0).tools = s.tools /\ Reopened(s0).out = s.out
          /\ Reopened(s0).message.life = s.message.life
      BY <1>2, <2>3, <2>5, ReopenedFields
    <3> QED BY <3>1 DEF Shown, ItemsShown, FromCall
  <2>8. Told(s0)
    BY <2>3, <2>4, StillTold
  <2>9. ContentParts(s0.message) = ContentParts(s.message)
    BY <2>4 DEF ContentParts
  <2> HIDE DEF n
  <2>10. Telling(0, s0, s1, n)
    <3>1. Telling(0, s0, s0, 0)
      <4>1. Closing(0, s0, s0, 0)
        BY <2>4, <2>5, ReopenedFields, PacesReflexive DEF Closing
      <4> QED BY <2>8, <4>1 DEF Telling
    <3>2. \A r : \A k \in 1..n : Telling(0, s0, r, k - 1) => Telling(0, s0, CloseNext(0, r, k), k)
      BY <2>5, <2>6, <2>7, TellingStep
    <3>3. Telling(0, s0, Tellings!Iterate(0, s0, n), n)
      BY <2>6, <3>1, <3>2, Tellings!LoopInvariant
    <3> QED BY <3>3 DEF EachSegment!Iterate, Tellings!Iterate
  <2> HIDE DEF s1
  <2>11. TurnOK(s1) /\ Told(s1)
    BY <2>10 DEF Telling, Closing
  <2>12. Delivered(e, s1.message)
    <3>1. ContentParts(s1.message) = ContentParts(s.message)
      BY <2>9, <2>10 DEF Telling
    <3>2. \A k \in DOMAIN s1.message.segments : s1.message.segments[k].closed
      BY <2>4, <2>6, <2>10 DEF Telling
    <3> QED BY <2>2, <3>1, <3>2 DEF Delivered
  <2>13. TurnOK(u) /\ u.out = s1.out /\ u.message = s1.message /\ u.reasoning = s1.reasoning
    <3>1. s.message.index \in Nat
      BY DEF TurnOK, MessageOK
    <3>2. Completes(s1, s.message.index, item, u)
      BY <2>11, <3>1, ItemAppended
    <3> HIDE DEF u
    <3> QED BY <3>2 DEF Completes
  <2> HIDE DEF u
  <2>14. t.reasoning = u.reasoning /\ t.message = u.message /\ Appended(u.out, e, t.out)
    BY <2>13, EmittedOne, Zenon
  <2> HIDE DEF t
  <2>15. /\ Appended(s1.out, e, t.out) /\ IsSeq(s1.out) /\ t.message = s1.message
         /\ t.reasoning = s1.reasoning
    BY <2>11, <2>13, <2>14 DEF TurnOK
  <2>16. MessageTold(t.message, t.out)
    <3>1. MessageTold(s1.message, s1.out) /\ t.message.segments = s1.message.segments
      BY <2>11, <2>15 DEF Told
    <3> QED BY <2>2, <2>12, <2>15, <3>1, MessageEnds
  <2>17. ReasoningTold(t.reasoning, t.out)
    BY <2>2, <2>11, <2>15, ReasoningUnmoved DEF Told
  <2> QED BY <2>1, <2>16, <2>17 DEF Told
<1> QED BY <1>1, <1>2

-----------------------------------------------------------------------------
(* Both at once: what the handlers do and what they say. *)

(* The relation every handler of an item stands in, between the states before *)
(* and after it.                                                              *)
Moves(s, t) == Steps(s, t) /\ (Shown(s) /\ Told(s) => Told(t))

(* No step at all is a move. *)
LEMMA MovesReflexive == ASSUME NEW s, TurnOK(s) PROVE Moves(s, s)
<1> QED BY StepsReflexive DEF Moves

(* Two moves are one. *)
LEMMA MovesTransitive ==
  ASSUME NEW s, NEW t, NEW u, TurnOK(s), Moves(s, t), Moves(t, u)
  PROVE  Moves(s, u)
<1>1. Steps(s, u)
  BY StepsTransitive DEF Moves
<1> QED BY <1>1 DEF Moves, Steps

(* A step that says nothing, and leaves the texts alone. *)
LEMMA SilentMoves ==
  ASSUME NEW s, NEW t, TurnOK(s), Silent(s, t),
         t.reasoning = s.reasoning, t.message = s.message
  PROVE  Moves(s, t)
<1>1. Steps(s, t)
  BY SilentSteps
<1>2. Told(s) => Told(t)
  BY StillTold DEF Silent
<1> QED BY <1>1, <1>2 DEF Moves

(* The ids of tool calls are of their own kind. *)
LEMMA CallAside ==
  ASSUME NEW s, NEW i \in DOMAIN s.tools.calls, Shown(s)
  PROVE  s.tools.calls[i].item \notin {ReasoningId, MessageId}
<1>1. ReasoningId # <<>> /\ MessageId # <<>>
  BY DEF ReasoningId, MessageId
<1> QED BY <1>1 DEF Shown, CallShown, IsToolId

(* Something more is said of an open call, or of one without an item. *)
LEMMA SayingMoves ==
  ASSUME NEW s, NEW e, NEW i \in DOMAIN s.tools.calls, TurnOK(s),
         e.ev \notin Envelope \cup {"added", "done"}, e.item = s.tools.calls[i].item,
         e.item = <<>> \/ (s.tools.calls[i].added /\ ~s.tools.calls[i].done)
  PROVE  Moves(s, Emit(s, <<e>>))
<1>1. Steps(s, Emit(s, <<e>>))
  BY SayingSteps DEF MaySay
<1>2. ASSUME Shown(s), Told(s) PROVE Told(Emit(s, <<e>>))
  <2>1. e.item \notin {ReasoningId, MessageId}
    BY <1>2, CallAside
  <2> QED BY <1>2, <2>1, AsideTold
<1> QED BY <1>1, <1>2 DEF Moves

(* A tool call's item opens. *)
LEMMA CallOpens ==
  ASSUME NEW s, NEW u, NEW e, NEW i, TurnOK(s), TurnOK(u), Kept(s, u), u.out = s.out,
         u.reasoning = s.reasoning, u.message = s.message,
         OtherCallsSame(s, u, i), Records(s, u, e),
         ~s.tools.calls[i].added, ~s.tools.calls[i].done,
         u.tools.calls[i].added, ~u.tools.calls[i].done,
         IsToolId(u.tools.calls[i].item),
         e.item = u.tools.calls[i].item, e.ev = "added"
  PROVE  Moves(s, Emit(u, <<e>>))
<1>1. Steps(s, Emit(u, <<e>>))
  BY CallOpensSteps
<1>2. ASSUME Told(s) PROVE Told(Emit(u, <<e>>))
  BY <1>2, AsideTold
<1> QED BY <1>1, <1>2 DEF Moves

(* A tool call's item closes. *)
LEMMA CallCloses ==
  ASSUME NEW s, NEW u, NEW e, NEW i, TurnOK(s), TurnOK(u), Kept(s, u), u.out = s.out,
         u.reasoning = s.reasoning, u.message = s.message,
         OtherCallsSame(s, u, i), Records(s, u, e),
         u.tools.calls[i].added = s.tools.calls[i].added,
         u.tools.calls[i].item = s.tools.calls[i].item,
         ~s.tools.calls[i].done, u.tools.calls[i].done,
         e.item = s.tools.calls[i].item, e.ev = "done"
  PROVE  Moves(s, Emit(u, <<e>>))
<1>1. Steps(s, Emit(u, <<e>>))
  BY CallClosesSteps
<1>2. ASSUME Shown(s), Told(s) PROVE Told(Emit(u, <<e>>))
  <2>1. e.item \notin {ReasoningId, MessageId}
    BY <1>2, CallAside DEF OtherCallsSame
  <2> QED BY <1>2, <2>1, AsideTold
<1> QED BY <1>1, <1>2 DEF Moves

(* A move of the reasoning, the message or the think detector. *)
Writes(s, t) == Moves(s, t) /\ Paces(s, t)

(* A move of those, or of the calls before their finalize, which then leaves *)
(* them as they are.                                                         *)
Advances(s, t) ==
  /\ Moves(s, t)
  /\ t.tools.finalized = s.tools.finalized
  /\ s.tools.finalized =>
       /\ t.tools = s.tools
       /\ \A k \in (Len(s.out) + 1)..Len(t.out) : t.out[k].item \in {ReasoningId, MessageId}

(* How a handler is shown to write no more than it may. *)
LEMMA PacesWrite ==
  ASSUME NEW s, NEW t, Paces(s, t), Shown(s) /\ Told(s) => Told(t)
  PROVE  Writes(s, t)
<1> QED BY DEF Writes, Moves, Paces

(* What leaves all calls alone leaves finalized ones alone. *)
LEMMA WritesAdvance == ASSUME NEW s, NEW t, Writes(s, t) PROVE Advances(s, t)
<1> QED BY DEF Writes, Paces, Advances

(* No step at all writes nothing. *)
LEMMA WritesReflexive == ASSUME NEW s, TurnOK(s) PROVE Writes(s, s)
<1> QED BY PacesReflexive, PacesWrite

(* Two such steps are one. *)
LEMMA WritesTransitive ==
  ASSUME NEW s, NEW t, NEW u, TurnOK(s), Writes(s, t), Writes(t, u)
  PROVE  Writes(s, u)
<1> QED BY PacesTransitive, MovesTransitive DEF Writes

(* The state after one is well formed. *)
LEMMA WritesOK == ASSUME NEW s, NEW t, Writes(s, t) PROVE TurnOK(t)
<1> QED BY PacesOK DEF Writes

(* No step at all advances. *)
LEMMA AdvancesReflexive == ASSUME NEW s, TurnOK(s) PROVE Advances(s, s)
<1> QED BY WritesReflexive, WritesAdvance

(* Two steps that advance do so together. *)
LEMMA AdvancesTransitive ==
  ASSUME NEW s, NEW t, NEW u, TurnOK(s), Advances(s, t), Advances(t, u)
  PROVE  Advances(s, u)
<1>1. TurnOK(t) /\ TurnOK(u) /\ Moves(s, u)
  BY MovesTransitive DEF Advances, Moves, Steps
<1>2. Len(s.out) \in Nat /\ Len(t.out) \in Nat /\ Len(u.out) \in Nat
  BY <1>1, SeqFacts DEF TurnOK
<1>3. \A k \in (Len(s.out) + 1)..Len(t.out) : u.out[k] = t.out[k]
  BY <1>2 DEF Advances, Moves, Steps, Grows
<1> QED BY <1>1, <1>2, <1>3 DEF Advances

(* A state that was advanced to is well formed. *)
LEMMA AdvancesOK == ASSUME NEW s, NEW t, Advances(s, t) PROVE TurnOK(t)
<1> QED BY DEF Advances, Moves, Steps

(* Emitting nothing. *)
LEMMA EmittedNone ==
  ASSUME NEW s, TurnOK(s)
  PROVE  Writes(s, Emit(s, <<>>)) /\ Emit(s, <<>>).message = s.message
         /\ Emit(s, <<>>).reasoning = s.reasoning /\ Emit(s, <<>>).tools = s.tools
         /\ Emit(s, <<>>).out = s.out
<1> DEFINE t == Emit(s, <<>>)
<1>1. IsSeq(<<>>)
  BY DEF IsSeq
<1>2. /\ t.reasoning = s.reasoning /\ t.message = s.message /\ t.out = s.out \o <<>>
  BY <1>1, Emitted, Zenon
<1>3. s.out \o <<>> = s.out
  BY ConcatEmptySeq DEF TurnOK, IsSeq
<1>4. Paces(s, t) /\ t.tools = s.tools
  BY EmittedNothing
<1> HIDE DEF t
<1>5. Told(s) => Told(t)
  BY <1>2, <1>3, StillTold
<1>6. Writes(s, t)
  BY <1>4, <1>5, PacesWrite
<1> QED BY <1>2, <1>3, <1>4, <1>6 DEF t

(* A step of the think detector's data. *)
LEMMA DataWrites ==
  ASSUME NEW s, NEW t, TurnOK(s), DOMAIN t = DOMAIN s,
         t.env = s.env, t.tools = s.tools, t.out = s.out,
         t.reasoning = s.reasoning, t.message = s.message, ThinkOK(t.think)
  PROVE  Writes(s, t) /\ TurnOK(t)
<1>1. Paces(s, t) /\ TurnOK(t)
  BY DataPaces DEF TurnOK
<1>2. Told(s) => Told(t)
  BY StillTold
<1> QED BY <1>1, <1>2, PacesWrite

(* push_delta and finalize of the reasoning item. *)
LEMMA ReasoningPushDeltaWrites ==
  ASSUME NEW s, NEW delta, TurnOK(s)
  PROVE  Writes(s, ReasoningPushDelta(s, delta))
<1> QED BY ReasoningPushDeltaPaces, ReasoningPushDeltaTells, PacesWrite

LEMMA ReasoningFinalizeWrites ==
  ASSUME NEW s, TurnOK(s)
  PROVE  /\ Writes(s, ReasoningFinalize(s))
         /\ ReasoningFinalize(s).reasoning.life # "open"
         /\ s.reasoning.life # "open" => ReasoningFinalize(s) = s
<1> QED BY ReasoningFinalizePaces, ReasoningFinalizeTells, PacesWrite

(* The handlers of the message item. *)
LEMMA AddAnnotationsWrites ==
  ASSUME NEW s, NEW anns, TurnOK(s)
  PROVE  Writes(s, AddAnnotations(s, anns))
<1> QED BY AddAnnotationsPaces, AddAnnotationsTells, PacesWrite

LEMMA PushTextDeltaWrites ==
  ASSUME NEW s, NEW delta, TurnOK(s)
  PROVE  Writes(s, PushTextDelta(s, delta))
<1> QED BY PushTextDeltaPaces, PushTextDeltaTells, PacesWrite

LEMMA PushRefusalPartWrites ==
  ASSUME NEW s, NEW refusal, TurnOK(s)
  PROVE  Writes(s, PushRefusalPart(s, refusal))
<1> QED BY PushRefusalPartPaces, PushRefusalPartTells, PacesWrite

LEMMA FlushOpenTextPartWrites ==
  ASSUME NEW s, TurnOK(s)
  PROVE  Writes(s, FlushOpenTextPart(s))
<1> QED BY FlushOpenTextPartPaces, FlushOpenTextPartTells, PacesWrite

LEMMA MessageFinalizeWrites ==
  ASSUME NEW s, TurnOK(s)
  PROVE  /\ Writes(s, MessageFinalize(s))
         /\ MessageFinalize(s).message.life # "open"
         /\ MessageFinalize(s).reasoning = s.reasoning
<1> QED BY MessageFinalizePaces, MessageFinalizeTells, PacesWrite

-----------------------------------------------------------------------------
(* A step that changes only the think detector's state. *)
LEMMA ThinkWrites ==
  ASSUME NEW s, NEW t, TurnOK(s), DOMAIN t = DOMAIN s, t.env = s.env,
         t.reasoning = s.reasoning, t.message = s.message, t.tools = s.tools,
         t.out = s.out, ThinkOK(t.think)
  PROVE  Writes(s, t) /\ TurnOK(t)
<1> QED BY DataWrites DEF TurnOK

(* The held-back tail is replaced. *)
LEMMA TailSet ==
  ASSUME NEW s, NEW tail, TurnOK(s)
  PROVE  /\ Writes(s, [s EXCEPT !.think.tail = tail])
         /\ TurnOK([s EXCEPT !.think.tail = tail])
<1> DEFINE t == [s EXCEPT !.think.tail = tail]
<1>1. /\ DOMAIN t = DOMAIN s /\ t.env = s.env /\ t.reasoning = s.reasoning
      /\ t.message = s.message /\ t.tools = s.tools /\ t.out = s.out
      /\ t.think = [s.think EXCEPT !.tail = tail]
  BY DEF TurnOK, NewTurn
<1> HIDE DEF t
<1>2. ThinkOK(t.think)
  BY <1>1 DEF TurnOK, ThinkOK, NewThink
<1>3. Writes(s, t) /\ TurnOK(t)
  BY <1>1, <1>2, ThinkWrites
<1> QED BY <1>3 DEF t

(* The detection buffer is replaced. *)
LEMMA BufferSet ==
  ASSUME NEW s, NEW buffer, TurnOK(s)
  PROVE  /\ Writes(s, [s EXCEPT !.think.buffer = buffer])
         /\ TurnOK([s EXCEPT !.think.buffer = buffer])
<1> DEFINE t == [s EXCEPT !.think.buffer = buffer]
<1>1. /\ DOMAIN t = DOMAIN s /\ t.env = s.env /\ t.reasoning = s.reasoning
      /\ t.message = s.message /\ t.tools = s.tools /\ t.out = s.out
      /\ t.think = [s.think EXCEPT !.buffer = buffer]
  BY DEF TurnOK, NewTurn
<1> HIDE DEF t
<1>2. ThinkOK(t.think)
  BY <1>1 DEF TurnOK, ThinkOK, NewThink
<1>3. Writes(s, t) /\ TurnOK(t)
  BY <1>1, <1>2, ThinkWrites
<1> QED BY <1>3 DEF t

(* The detector changes phase. *)
LEMMA PhaseSet ==
  ASSUME NEW s, NEW p \in Phases, TurnOK(s)
  PROVE  /\ Writes(s, [s EXCEPT !.think.phase = p])
         /\ TurnOK([s EXCEPT !.think.phase = p])
         /\ [s EXCEPT !.think.phase = p].reasoning = s.reasoning
         /\ [s EXCEPT !.think.phase = p].tools = s.tools
<1> DEFINE t == [s EXCEPT !.think.phase = p]
<1>1. /\ DOMAIN t = DOMAIN s /\ t.env = s.env /\ t.reasoning = s.reasoning
      /\ t.message = s.message /\ t.tools = s.tools /\ t.out = s.out
      /\ t.think = [s.think EXCEPT !.phase = p]
  BY DEF TurnOK, NewTurn
<1> HIDE DEF t
<1>2. ThinkOK(t.think)
  BY <1>1 DEF TurnOK, ThinkOK, NewThink
<1>3. Writes(s, t) /\ TurnOK(t)
  BY <1>1, <1>2, ThinkWrites
<1> QED BY <1>1, <1>3 DEF t

(* The detector changes phase and forgets its buffer. *)
LEMMA PhaseSetBufferDropped ==
  ASSUME NEW s, NEW p \in Phases, TurnOK(s)
  PROVE  /\ Writes(s, [s EXCEPT !.think.phase = p, !.think.buffer = <<>>])
         /\ TurnOK([s EXCEPT !.think.phase = p, !.think.buffer = <<>>])
<1> DEFINE t == [s EXCEPT !.think.phase = p, !.think.buffer = <<>>]
<1>1. /\ DOMAIN t = DOMAIN s /\ t.env = s.env /\ t.reasoning = s.reasoning
      /\ t.message = s.message /\ t.tools = s.tools /\ t.out = s.out
      /\ t.think = [s.think EXCEPT !.phase = p, !.buffer = <<>>]
  BY DEF TurnOK, NewTurn
<1> HIDE DEF t
<1>2. ThinkOK(t.think)
  BY <1>1 DEF TurnOK, ThinkOK, NewThink
<1>3. Writes(s, t) /\ TurnOK(t)
  BY <1>1, <1>2, ThinkWrites
<1> QED BY <1>3 DEF t

(* route_reasoning_delta: inside a think block. *)
LEMMA RouteReasoningDeltaWrites ==
  ASSUME NEW s, NEW delta, TurnOK(s)
  PROVE  Writes(s, RouteReasoningDelta(s, delta))
<1> DEFINE combined == s.think.tail \o delta
           close    == FindThinkClose(combined)
           kept     == Len(combined) - TrailingPartialCloseLen(combined)
           pre      == SubSeq(combined, 1, close - 1)
           post     == SubSeq(combined, close + 2, Len(combined))
           whole    == SubSeq(combined, 1, kept)
           rest     == SubSeq(combined, kept + 1, Len(combined))
           s1       == [s EXCEPT !.think.tail = <<>>]
           s2       == [s1 EXCEPT !.think.tail = rest]
           push(t, text) == IF text = <<>> THEN t ELSE ReasoningPushDelta(t, text)
           a        == push(s1, pre)
           b        == ReasoningFinalize(a)
           c        == [b EXCEPT !.think.phase = "text"]
<1>1. RouteReasoningDelta(s, delta) =
        IF close > 0 THEN PushTextDelta(c, post) ELSE push(s2, whole)
  BY DEF RouteReasoningDelta
<1>2. Writes(s, s1) /\ TurnOK(s1)
  BY TailSet
<1>3. ASSUME NEW t, NEW text, TurnOK(t) PROVE Writes(t, push(t, text)) /\ TurnOK(push(t, text))
  BY <1>3, WritesReflexive, ReasoningPushDeltaWrites, WritesOK
<1> HIDE DEF combined, close, kept, pre, post, whole, rest, s1
<1>4. Writes(s, push(s2, whole))
  <2>1. Writes(s1, s2) /\ TurnOK(s2)
    BY <1>2, TailSet
  <2> HIDE DEF s2, push
  <2>2. Writes(s2, push(s2, whole))
    BY <1>3, <2>1
  <2> QED BY <1>2, <2>1, <2>2, WritesTransitive
<1>5. Writes(s, PushTextDelta(c, post))
  <2>1. Writes(s1, a) /\ TurnOK(a)
    BY <1>2, <1>3
  <2> HIDE DEF a, push
  <2>2. Writes(a, b) /\ TurnOK(b)
    BY <2>1, ReasoningFinalizeWrites, WritesOK
  <2> HIDE DEF b
  <2>3. Writes(b, c) /\ TurnOK(c)
    BY <2>2, PhaseSet DEF Phases
  <2> HIDE DEF c
  <2>4. Writes(c, PushTextDelta(c, post))
    BY <2>3, PushTextDeltaWrites
  <2>5. Writes(s, a)
    BY <1>2, <2>1, WritesTransitive
  <2>6. Writes(s, b)
    BY <2>2, <2>5, WritesTransitive
  <2>7. Writes(s, c)
    BY <2>3, <2>6, WritesTransitive
  <2> QED BY <2>4, <2>7, WritesTransitive
<1> HIDE DEF push, c, s2
<1> QED BY <1>1, <1>4, <1>5

(* route_detecting_delta: not yet known whether the content is a think    *)
(* block.                                                                 *)
LEMMA RouteDetectingDeltaWrites ==
  ASSUME NEW s, NEW delta, TurnOK(s)
  PROVE  Writes(s, RouteDetectingDelta(s, delta))
<1> DEFINE buffer   == s.think.buffer \o delta
           trimmed  == TrimStart(buffer)
           after    == SubSeq(trimmed, 3, Len(trimmed))
           detected == [s EXCEPT !.think.phase = "reasoning", !.think.buffer = <<>>]
           plain    == [s EXCEPT !.think.phase = "text", !.think.buffer = <<>>]
           held     == [s EXCEPT !.think.buffer = buffer]
<1>1. RouteDetectingDelta(s, delta) =
        IF MatchThinkOpenAtStart(trimmed)
        THEN IF after = <<>> THEN detected ELSE RouteReasoningDelta(detected, after)
        ELSE IF CouldBePartialThinkOpen(trimmed) THEN held
        ELSE PushTextDelta(plain, buffer)
  BY SMTT(40) DEF RouteDetectingDelta
<1>2. Writes(s, detected) /\ TurnOK(detected)
  BY PhaseSetBufferDropped, ZenonT(40) DEF Phases
<1>3. Writes(s, plain) /\ TurnOK(plain)
  BY PhaseSetBufferDropped, ZenonT(40) DEF Phases
<1>4. Writes(s, held)
  BY BufferSet
<1> HIDE DEF buffer, trimmed, after, detected, plain, held
<1>5. Writes(s, RouteReasoningDelta(detected, after))
  BY <1>2, RouteReasoningDeltaWrites, WritesTransitive
<1>6. Writes(s, PushTextDelta(plain, buffer))
  BY <1>3, PushTextDeltaWrites, WritesTransitive
<1> QED BY <1>1, <1>2, <1>4, <1>5, <1>6

(* push_content_delta, in every phase. *)
LEMMA PushContentDeltaWrites ==
  ASSUME NEW s, NEW delta, TurnOK(s)
  PROVE  Writes(s, PushContentDelta(s, delta))
<1>1. s.think.phase \in Phases
  BY DEF TurnOK, ThinkOK
<1> QED BY <1>1, PushTextDeltaWrites, RouteReasoningDeltaWrites, RouteDetectingDeltaWrites
        DEF PushContentDelta, Phases

(* What was held back of the reasoning is let go at the end. *)
LEMMA DrainReasonTailWrites ==
  ASSUME NEW s, TurnOK(s)
  PROVE  Writes(s, DrainReasonTail(s))
<1> DEFINE s1 == [s EXCEPT !.think.tail = <<>>]
<1>1. DrainReasonTail(s) = IF s.think.tail = <<>> THEN s ELSE ReasoningPushDelta(s1, s.think.tail)
  BY DEF DrainReasonTail
<1>2. Writes(s, s1) /\ TurnOK(s1)
  BY TailSet
<1> HIDE DEF s1
<1>3. Writes(s, ReasoningPushDelta(s1, s.think.tail))
  BY <1>2, ReasoningPushDeltaWrites, WritesTransitive
<1> QED BY <1>1, <1>3, WritesReflexive

(* What was held back while detecting is let go at the end. *)
LEMMA FlushBufferWrites ==
  ASSUME NEW s, TurnOK(s)
  PROVE  Writes(s, FlushBuffer(s))
<1> DEFINE s1 == [s EXCEPT !.think.buffer = <<>>]
<1>1. FlushBuffer(s) = PushTextDelta(s1, s.think.buffer)
  BY DEF FlushBuffer
<1>2. Writes(s, s1) /\ TurnOK(s1)
  BY BufferSet
<1> HIDE DEF s1
<1> QED BY <1>1, <1>2, PushTextDeltaWrites, WritesTransitive

(* flush_on_finalize, in every phase. *)
LEMMA ThinkFlushOnFinalizeWrites ==
  ASSUME NEW s, TurnOK(s)
  PROVE  Writes(s, ThinkFlushOnFinalize(s))
<1> DEFINE s1 == CASE s.think.phase = "reasoning" -> ReasoningFinalize(DrainReasonTail(s))
                   [] s.think.phase = "detecting" -> FlushBuffer(s)
                   [] OTHER                       -> s
<1>1. Writes(s, ReasoningFinalize(DrainReasonTail(s)))
  BY DrainReasonTailWrites, WritesOK, ReasoningFinalizeWrites, WritesTransitive
<1>2. Writes(s, s1)
  <2>1. s.think.phase \in Phases
    BY DEF TurnOK, ThinkOK
  <2> QED BY <1>1, <2>1, FlushBufferWrites, WritesReflexive DEF Phases
<1>3. ThinkFlushOnFinalize(s) = [s1 EXCEPT !.think.phase = "text"]
  BY DEF ThinkFlushOnFinalize
<1> HIDE DEF s1
<1>4. Writes(s1, [s1 EXCEPT !.think.phase = "text"])
  BY <1>2, WritesOK, PhaseSet DEF Phases
<1> QED BY <1>2, <1>3, <1>4, WritesTransitive

(* force_inline_think_to_text, in every phase. *)
LEMMA ForceInlineThinkToTextWrites ==
  ASSUME NEW s, TurnOK(s)
  PROVE  Writes(s, ForceInlineThinkToText(s))
<1> DEFINE a == DrainReasonTail(s)
           b == ReasoningFinalize(a)
           c == FlushBuffer(b)
<1>1. ForceInlineThinkToText(s) =
        IF s.think.phase = "text" THEN s ELSE [c EXCEPT !.think.phase = "text"]
  BY DEF ForceInlineThinkToText
<1>2. Writes(s, a) /\ TurnOK(a)
  BY DrainReasonTailWrites, WritesOK
<1> HIDE DEF a
<1>3. Writes(a, b) /\ TurnOK(b)
  BY <1>2, ReasoningFinalizeWrites, WritesOK
<1> HIDE DEF b
<1>4. Writes(b, c) /\ TurnOK(c)
  BY <1>3, FlushBufferWrites, WritesOK
<1> HIDE DEF c
<1>5. Writes(c, [c EXCEPT !.think.phase = "text"])
  BY <1>4, PhaseSet DEF Phases
<1>6. Writes(s, b)
  BY <1>2, <1>3, WritesTransitive
<1>7. Writes(s, c)
  BY <1>4, <1>6, WritesTransitive
<1> QED BY <1>1, <1>5, <1>7, WritesReflexive, WritesTransitive

-----------------------------------------------------------------------------
(* Tool calls: the steps about one call. *)

(* t is s with its call i replaced by c.                                     *)
Replaced(s, i, c, t) ==
  /\ TurnOK(t)
  /\ t.env = s.env /\ t.reasoning = s.reasoning /\ t.message = s.message /\ t.out = s.out
  /\ t.tools.finalized = s.tools.finalized
  /\ DOMAIN t.tools.calls = DOMAIN s.tools.calls
  /\ t.tools.calls[i] = c
  /\ \A j \in DOMAIN s.tools.calls \ {i} : t.tools.calls[j] = s.tools.calls[j]

(* Replacing a well-formed call by another one leaves the turn well       *)
(* formed.                                                                *)
LEMMA CallReplaced ==
  ASSUME NEW s, NEW i, NEW c, TurnOK(s), i \in DOMAIN s.tools.calls, CallOK(c),
         c.done => s.tools.finalized
  PROVE  Replaced(s, i, c, [s EXCEPT !.tools.calls[i] = c])
<1> DEFINE t == [s EXCEPT !.tools.calls[i] = c]
<1>1. /\ DOMAIN t = DOMAIN s /\ t.env = s.env /\ t.reasoning = s.reasoning
      /\ t.message = s.message /\ t.think = s.think /\ t.out = s.out
      /\ t.tools = [s.tools EXCEPT !.calls[i] = c]
  BY DEF TurnOK, NewTurn
<1> HIDE DEF t
<1>2. /\ DOMAIN t.tools = DOMAIN s.tools /\ t.tools.finalized = s.tools.finalized
      /\ t.tools.base = s.tools.base
      /\ t.tools.calls = [s.tools.calls EXCEPT ![i] = c]
  BY <1>1 DEF TurnOK, ToolsOK, NewTools
<1>3. /\ DOMAIN t.tools.calls = DOMAIN s.tools.calls
      /\ t.tools.calls[i] = c
      /\ \A j \in DOMAIN s.tools.calls \ {i} : t.tools.calls[j] = s.tools.calls[j]
  BY <1>2
<1>4. ToolsOK(t.tools)
  BY <1>2, <1>3 DEF TurnOK, ToolsOK
<1>5. TurnOK(t)
  BY <1>1, <1>4 DEF TurnOK
<1> QED BY <1>1, <1>2, <1>3, <1>5 DEF Replaced, t

(* What is new in the log is about call i, or about no item.                 *)
OnlyOf(s, i, t) ==
  \A k \in (Len(s.out) + 1)..Len(t.out) : t.out[k].item \in {<<>>, t.tools.calls[i].item}

(* A step about call i alone, which does not close it.                       *)
Touches(s, i, t) ==
  /\ Moves(s, t)
  /\ t.reasoning = s.reasoning /\ t.message = s.message
  /\ t.tools.finalized = s.tools.finalized
  /\ DOMAIN t.tools.calls = DOMAIN s.tools.calls
  /\ t.tools.calls[i].done = s.tools.calls[i].done
  /\ s.tools.calls[i].added => t.tools.calls[i].added
  /\ \A j \in DOMAIN s.tools.calls \ {i} : t.tools.calls[j] = s.tools.calls[j]
  /\ OnlyOf(s, i, t)

(* A state that was touched is well formed. *)
LEMMA TouchesOK == ASSUME NEW s, NEW i, NEW t, Touches(s, i, t) PROVE TurnOK(t)
<1> QED BY DEF Touches, Moves, Steps

(* No step at all touches a call. *)
LEMMA TouchesReflexive ==
  ASSUME NEW s, NEW i, TurnOK(s) PROVE Touches(s, i, s)
<1>1. OnlyOf(s, i, s)
  BY SeqFacts DEF TurnOK, OnlyOf
<1> QED BY <1>1, MovesReflexive DEF Touches

(* Call i keeps its item, so what was about it still is. *)
LEMMA OnlyOfTransitive ==
  ASSUME NEW s, NEW i, NEW t, NEW u, TurnOK(s), Moves(s, t), Moves(t, u),
         i \in DOMAIN t.tools.calls, OnlyOf(s, i, t), OnlyOf(t, i, u)
  PROVE  OnlyOf(s, i, u)
<1>1. TurnOK(t) /\ TurnOK(u)
  BY DEF Moves, Steps
<1>2. Len(s.out) \in Nat /\ Len(t.out) \in Nat /\ Len(u.out) \in Nat
  BY <1>1, SeqFacts DEF TurnOK
<1>3. \A k \in (Len(s.out) + 1)..Len(t.out) : u.out[k] = t.out[k]
  BY <1>2 DEF Moves, Steps, Grows
<1>4. t.tools.calls[i].item \in {<<>>, u.tools.calls[i].item}
  <2>1. t.tools.calls[i].added \/ t.tools.calls[i].item = <<>>
    BY <1>1 DEF TurnOK, ToolsOK, CallOK
  <2>2. t.tools.calls[i].added => u.tools.calls[i].item = t.tools.calls[i].item
    BY DEF Moves, Steps, CallsKept
  <2> QED BY <2>1, <2>2
<1>5. ASSUME NEW k \in (Len(s.out) + 1)..Len(u.out) PROVE u.out[k].item \in {<<>>, u.tools.calls[i].item}
  <2>1. CASE k \in (Len(s.out) + 1)..Len(t.out)
    BY <1>3, <1>4, <2>1 DEF OnlyOf
  <2>2. CASE k \in (Len(t.out) + 1)..Len(u.out)
    BY <2>2 DEF OnlyOf
  <2> QED BY <1>2, <2>1, <2>2
<1> QED BY <1>5 DEF OnlyOf

(* Two steps about call i are one. *)
LEMMA TouchesTransitive ==
  ASSUME NEW s, NEW i, NEW t, NEW u, TurnOK(s), i \in DOMAIN s.tools.calls,
         Touches(s, i, t), Touches(t, i, u)
  PROVE  Touches(s, i, u)
<1>1. Moves(s, u)
  BY MovesTransitive DEF Touches
<1>2. OnlyOf(s, i, u)
  BY OnlyOfTransitive DEF Touches
<1> QED BY <1>1, <1>2 DEF Touches

(* The call is replaced by one of the same item in the same stage. *)
LEMMA ReplacedTouches ==
  ASSUME NEW s, NEW i, NEW c, NEW t, TurnOK(s), i \in DOMAIN s.tools.calls,
         Replaced(s, i, c, t), SameCall(s.tools.calls[i], c)
  PROVE  Touches(s, i, t)
<1>1. Silent(s, t)
  BY DEF Replaced, Silent, Kept, SameCall
<1>2. Moves(s, t)
  BY <1>1, SilentMoves DEF Replaced
<1>3. OnlyOf(s, i, t)
  BY SeqFacts DEF Replaced, TurnOK, OnlyOf
<1> QED BY <1>2, <1>3 DEF Replaced, Touches, SameCall

(* One more event, about call i. *)
LEMMA OnlyOneMore ==
  ASSUME NEW s, NEW i, NEW t, NEW e, TurnOK(s), Appended(s.out, e, t.out),
         e.item = t.tools.calls[i].item
  PROVE  OnlyOf(s, i, t)
<1>1. Len(s.out) \in Nat
  BY SeqFacts DEF TurnOK
<1> QED BY <1>1 DEF OnlyOf, Appended

(* A delta of an open call, or of one that has no item.                      *)
LEMMA SayingTouches ==
  ASSUME NEW s, NEW i, NEW e, TurnOK(s), i \in DOMAIN s.tools.calls,
         ~s.tools.calls[i].done, e.item = s.tools.calls[i].item,
         e.ev \notin Envelope \cup {"added", "done"}
  PROVE  Touches(s, i, Emit(s, <<e>>))
<1>1. s.tools.calls[i].added \/ s.tools.calls[i].item = <<>>
  BY DEF TurnOK, ToolsOK, CallOK
<1>2. Moves(s, Emit(s, <<e>>))
  BY <1>1, SayingMoves
<1>3. /\ Emit(s, <<e>>).reasoning = s.reasoning /\ Emit(s, <<e>>).message = s.message
      /\ Emit(s, <<e>>).tools = s.tools
  BY EmittedOne, Zenon
<1>4. Appended(s.out, e, Emit(s, <<e>>).out)
  BY EmittedOne, Zenon
<1>5. OnlyOf(s, i, Emit(s, <<e>>))
  BY <1>3, <1>4, OnlyOneMore
<1> QED BY <1>2, <1>3, <1>5 DEF Touches

(* Emitting nothing touches no call. *)
LEMMA NothingTouches ==
  ASSUME NEW s, NEW i, TurnOK(s)
  PROVE  Touches(s, i, Emit(s, <<>>))
<1>1. /\ Moves(s, Emit(s, <<>>)) /\ Emit(s, <<>>).message = s.message
      /\ Emit(s, <<>>).reasoning = s.reasoning /\ Emit(s, <<>>).tools = s.tools
      /\ Emit(s, <<>>).out = s.out
  BY EmittedNone DEF Writes
<1>2. OnlyOf(s, i, Emit(s, <<>>))
  BY <1>1, SeqFacts DEF TurnOK, OnlyOf
<1> QED BY <1>1, <1>2 DEF Touches

-----------------------------------------------------------------------------
(* EnsureOutputIndex changes no more than its call's index.                  *)
LEMMA OutputIndexEnsured ==
  ASSUME NEW s, NEW i, TurnOK(s), i \in DOMAIN s.tools.calls
  PROVE  /\ TurnOK(EnsureOutputIndex(s, i)) /\ Kept(s, EnsureOutputIndex(s, i))
         /\ EnsureOutputIndex(s, i).env.items = s.env.items
         /\ EnsureOutputIndex(s, i).reasoning = s.reasoning
         /\ EnsureOutputIndex(s, i).message = s.message
         /\ EnsureOutputIndex(s, i).out = s.out
         /\ EnsureOutputIndex(s, i).tools.finalized = s.tools.finalized
         /\ DOMAIN EnsureOutputIndex(s, i).tools.calls = DOMAIN s.tools.calls
         /\ \A j \in DOMAIN s.tools.calls \ {i} :
              EnsureOutputIndex(s, i).tools.calls[j] = s.tools.calls[j]
         /\ SameCall(s.tools.calls[i], EnsureOutputIndex(s, i).tools.calls[i])
<1>1. CASE s.tools.calls[i].output # NoIndex
  BY <1>1 DEF EnsureOutputIndex, Kept, SameCall
<1>2. CASE s.tools.calls[i].output = NoIndex
  <2> DEFINE base == IF s.tools.base = NoIndex THEN s.env.next ELSE s.tools.base
             next == IF s.env.next < base + i + 1 THEN base + i + 1 ELSE s.env.next
             c == [s.tools.calls[i] EXCEPT !.output = base + i]
             u == EnsureOutputIndex(s, i)
  <2>1. i \in Nat /\ base \in Nat /\ next \in Nat /\ base + i \in Nat
    BY DEF TurnOK, EnvOK, ToolsOK, NoIndex
  <2>2. u = AdvanceOutputIndexTo([s EXCEPT !.tools.base = base,
                                           !.tools.calls[i].output = base + i], base + i + 1)
    BY <1>2 DEF EnsureOutputIndex
  <2>3. /\ DOMAIN u = DOMAIN s /\ u.env = [s.env EXCEPT !.next = next]
        /\ u.reasoning = s.reasoning /\ u.message = s.message /\ u.think = s.think
        /\ u.out = s.out
        /\ u.tools = [s.tools EXCEPT !.base = base, !.calls[i].output = base + i]
    BY <2>2, ZenonT(40) DEF TurnOK, NewTurn, AdvanceOutputIndexTo
  <2> HIDE DEF u, base, next
  <2>4. EnvOK(u.env) /\ Kept(s, u) /\ u.env.items = s.env.items
    BY <2>1, <2>3 DEF TurnOK, EnvOK, NewEnvelope, Kept
  <2>5. /\ DOMAIN u.tools = DOMAIN s.tools /\ u.tools.finalized = s.tools.finalized
        /\ u.tools.base = base
        /\ u.tools.calls = [s.tools.calls EXCEPT ![i] = c]
    BY <2>3 DEF TurnOK, ToolsOK, NewTools
  <2>6. CallOK(s.tools.calls[i]) /\ (s.tools.calls[i].done => s.tools.finalized)
    BY DEF TurnOK, ToolsOK
  <2>7. CallOK(c) /\ SameCall(s.tools.calls[i], c)
    BY <2>1, <2>6 DEF CallOK, NewCall, SameCall
  <2> HIDE DEF c
  <2>8. /\ DOMAIN u.tools.calls = DOMAIN s.tools.calls
        /\ u.tools.calls[i] = c
        /\ \A j \in DOMAIN s.tools.calls \ {i} : u.tools.calls[j] = s.tools.calls[j]
    BY <2>5
  <2>9. ToolsOK(u.tools)
    BY <2>1, <2>5, <2>6, <2>7, <2>8 DEF TurnOK, ToolsOK, SameCall
  <2>10. TurnOK(u)
    BY <2>3, <2>4, <2>9 DEF TurnOK
  <2> QED BY <2>3, <2>4, <2>5, <2>7, <2>8, <2>10 DEF u
<1> QED BY <1>1, <1>2

(* ensure_output_index is a step about its call. *)
LEMMA OutputIndexTouches ==
  ASSUME NEW s, NEW i, TurnOK(s), i \in DOMAIN s.tools.calls
  PROVE  Touches(s, i, EnsureOutputIndex(s, i))
<1> DEFINE u == EnsureOutputIndex(s, i)
<1>1. /\ TurnOK(u) /\ Kept(s, u) /\ u.env.items = s.env.items /\ u.reasoning = s.reasoning /\ u.message = s.message
      /\ u.out = s.out /\ u.tools.finalized = s.tools.finalized
      /\ DOMAIN u.tools.calls = DOMAIN s.tools.calls
      /\ \A j \in DOMAIN s.tools.calls \ {i} : u.tools.calls[j] = s.tools.calls[j]
      /\ SameCall(s.tools.calls[i], u.tools.calls[i])
  BY OutputIndexEnsured
<1> HIDE DEF u
<1>2. Silent(s, u)
  BY <1>1 DEF Silent, SameCall
<1>3. Moves(s, u)
  BY <1>1, <1>2, SilentMoves
<1>4. OnlyOf(s, i, u)
  BY <1>1, SeqFacts DEF TurnOK, OnlyOf
<1> QED BY <1>1, <1>3, <1>4 DEF Touches, SameCall, u

(* The ids the bridge makes for tool items are of their own kind.            *)
LEMMA ToolIds ==
  ASSUME NEW prefix \in {"fc", "ctc"}, NEW id, IsSeq(id)
  PROVE  IsToolId(<<prefix>> \o id)
<1>1. /\ Len(<<prefix>> \o id) = 1 + Len(id) /\ Len(id) \in Nat
      /\ (<<prefix>> \o id)[1] = prefix
  <2>1. Len(<<prefix>> \o id) = 1 + Len(id) /\ Len(id) \in Nat
    BY Single, Concatenated, SeqFacts
  <2>2. (<<prefix>> \o id)[1] = <<prefix>>[1]
    BY Single, Concatenated
  <2> QED BY <2>1, <2>2
<1>2. <<prefix>> \o id # <<>>
  BY <1>1
<1>3. ReasoningId[1] = "rs" /\ MessageId[1] = "msg"
  BY DEF ReasoningId, MessageId
<1>4. prefix # "rs" /\ prefix # "msg"
  OBVIOUS
<1> QED BY <1>1, <1>2, <1>3, <1>4 DEF IsToolId

(* The call as ensure_added leaves it. *)
OpenedCall(call, i) == [Identified(call, i) EXCEPT !.added = TRUE]

(* A call gets an item id when it is opened, and it is a tool item id. *)
LEMMA CallIdentified ==
  ASSUME NEW call, NEW i, CallOK(call)
  PROVE  /\ CallOK(OpenedCall(call, i)) /\ OpenedCall(call, i).added
         /\ OpenedCall(call, i).done = call.done
         /\ IsToolId(OpenedCall(call, i).item)
<1> DEFINE id == IF call.id = <<>> THEN <<"synthetic", i>> ELSE call.id
           prefix == IF ResolveToolKind(call.name) = "custom" THEN "ctc" ELSE "fc"
           name == IF call.name = "" THEN "unknown_tool" ELSE call.name
           c == OpenedCall(call, i)
<1>1. c = [[call EXCEPT !.id = id, !.name = name, !.item = <<prefix>> \o id] EXCEPT !.added = TRUE]
  BY DEF OpenedCall, Identified
<1>2. IsSeq(id)
  <2>1. <<"synthetic", i>> \in Seq({"synthetic", i})
    OBVIOUS
  <2> QED BY <2>1 DEF CallOK, IsSeq
<1>3. prefix \in {"fc", "ctc"}
  OBVIOUS
<1> HIDE DEF c, id, prefix, name
<1>4. /\ DOMAIN c = DOMAIN call /\ c.id = id /\ c.item = <<prefix>> \o id /\ c.added
      /\ c.done = call.done /\ c.output = call.output /\ c.buffered = call.buffered
  BY <1>1 DEF CallOK, NewCall
<1>5. IsToolId(<<prefix>> \o id)
  BY <1>2, <1>3, ToolIds
<1>6. CallOK(c)
  BY <1>2, <1>4 DEF CallOK
<1> QED BY <1>4, <1>5, <1>6 DEF c

(* ensure_added opens the call unless it was opened. *)
LEMMA EnsureAddedTouches ==
  ASSUME NEW s, NEW i, TurnOK(s), i \in DOMAIN s.tools.calls, ~s.tools.calls[i].done
  PROVE  Touches(s, i, EnsureAdded(s, i)) /\ EnsureAdded(s, i).tools.calls[i].added
<1>1. CASE s.tools.calls[i].added
  BY <1>1, TouchesReflexive DEF EnsureAdded
<1>2. CASE ~s.tools.calls[i].added
  <2> DEFINE c == OpenedCall(s.tools.calls[i], i)
             w == [s EXCEPT !.tools.calls[i] = c]
             u == EnsureOutputIndex(w, i)
             e == [ev |-> "added", item |-> u.tools.calls[i].item,
                   index |-> u.tools.calls[i].output,
                   body |-> ToolItem(u.tools.calls[i],
                                     ResolveToolKind(s.tools.calls[i].name), <<>>)]
             t == Emit(u, <<e>>)
  <2>1. EnsureAdded(s, i) = t
    BY <1>2 DEF EnsureAdded, OpenedCall
  <2>2. e.ev = "added" /\ e.item = u.tools.calls[i].item
    OBVIOUS
  <2>3. CallOK(s.tools.calls[i])
    BY DEF TurnOK, ToolsOK
  <2>4. CallOK(c) /\ c.added /\ c.done = s.tools.calls[i].done /\ IsToolId(c.item)
    BY <2>3, CallIdentified
  <2> HIDE DEF c, e
  <2>5. Replaced(s, i, c, w)
    BY <2>4, CallReplaced
  <2> HIDE DEF w
  <2>6. TurnOK(w) /\ i \in DOMAIN w.tools.calls
    BY <2>5 DEF Replaced
  <2>7. /\ TurnOK(u) /\ Kept(w, u) /\ u.env.items = w.env.items /\ u.reasoning = w.reasoning /\ u.message = w.message
        /\ u.out = w.out /\ u.tools.finalized = w.tools.finalized
        /\ DOMAIN u.tools.calls = DOMAIN w.tools.calls
        /\ \A j \in DOMAIN w.tools.calls \ {i} : u.tools.calls[j] = w.tools.calls[j]
        /\ SameCall(w.tools.calls[i], u.tools.calls[i])
    BY <2>6, OutputIndexEnsured
  <2> HIDE DEF u
  <2>8. /\ Kept(s, u) /\ u.env.items = s.env.items /\ u.reasoning = s.reasoning /\ u.message = s.message /\ u.out = s.out
        /\ u.tools.finalized = s.tools.finalized
        /\ DOMAIN u.tools.calls = DOMAIN s.tools.calls
        /\ \A j \in DOMAIN s.tools.calls \ {i} : u.tools.calls[j] = s.tools.calls[j]
        /\ SameCall(c, u.tools.calls[i])
    BY <2>5, <2>7 DEF Replaced, Kept
  <2>9. OtherCallsSame(s, u, i) /\ Records(s, u, e)
    BY <2>8 DEF OtherCallsSame, SameCall, Records
  <2>10. /\ u.tools.calls[i].added /\ ~u.tools.calls[i].done /\ IsToolId(u.tools.calls[i].item)
    BY <2>4, <2>8 DEF SameCall
  <2>11. Moves(s, t)
    BY <1>2, <2>2, <2>7, <2>8, <2>9, <2>10, CallOpens
  <2>12. /\ t.reasoning = u.reasoning /\ t.message = u.message /\ t.tools = u.tools
         /\ Appended(u.out, e, t.out)
    BY <2>7, EmittedOne, Zenon
  <2> HIDE DEF t
  <2>14. OnlyOf(s, i, t)
    BY <2>2, <2>8, <2>12, OnlyOneMore
  <2>13. Touches(s, i, t)
    BY <2>4, <2>8, <2>10, <2>11, <2>12, <2>14 DEF Touches, SameCall
  <2> QED BY <2>1, <2>10, <2>12, <2>13
<1> QED BY <1>1, <1>2

(* emit_arguments_incremental says something of the call, or nothing. *)
LEMMA EmitArgumentsTouches ==
  ASSUME NEW s, NEW i, TurnOK(s), i \in DOMAIN s.tools.calls, ~s.tools.calls[i].done
  PROVE  Touches(s, i, EmitArgumentsIncremental(s, i))
<1> DEFINE call == s.tools.calls[i]
           c == [call EXCEPT !.emitted = EmittedAfter(call)]
           u == [s EXCEPT !.tools.calls[i] = c]
           e == ArgsDelta(call, PendingArguments(call))
<1>1. EmitArgumentsIncremental(s, i) =
        IF PendingArguments(call) = <<>> THEN Emit(u, <<>>) ELSE Emit(u, <<e>>)
  BY DEF EmitArgumentsIncremental, IncrementalEvents
<1>2. e.ev = "delta" /\ e.item = call.item
  BY DEF ArgsDelta
<1> HIDE DEF e
<1>3. CallOK(call)
  BY DEF TurnOK, ToolsOK
<1>4. CallOK(c) /\ SameCall(call, c)
  BY <1>3 DEF CallOK, NewCall, SameCall
<1> HIDE DEF c
<1>5. Replaced(s, i, c, u)
  BY <1>4, CallReplaced DEF SameCall
<1> HIDE DEF u
<1>6. Touches(s, i, u)
  BY <1>4, <1>5, ReplacedTouches
<1>7. TurnOK(u) /\ i \in DOMAIN u.tools.calls /\ u.tools.calls[i] = c
  BY <1>5 DEF Replaced
<1>8. Touches(u, i, Emit(u, <<e>>))
  BY <1>2, <1>4, <1>7, SayingTouches DEF Envelope, SameCall
<1>9. Touches(u, i, Emit(u, <<>>))
  BY <1>7, NothingTouches
<1> QED BY <1>1, <1>6, <1>8, <1>9, TouchesTransitive

(* emit_custom_input_delta says something of the call, or nothing. *)
LEMMA EmitCustomInputTouches ==
  ASSUME NEW s, NEW i, TurnOK(s), i \in DOMAIN s.tools.calls, ~s.tools.calls[i].done
  PROVE  Touches(s, i, EmitCustomInputDelta(s, i))
<1> DEFINE call == s.tools.calls[i]
           prefix == PartialCustomInput(call.args)
           sent   == IF IsPrefix(call.input, prefix) THEN Len(call.input) ELSE 0
           delta  == SubSeq(prefix, sent + 1, Len(prefix))
           c == [call EXCEPT !.input = prefix]
           u == [s EXCEPT !.tools.calls[i] = c]
           e == ArgsDelta(call, delta)
<1>1. EmitCustomInputDelta(s, i) =
        IF prefix = call.input \/ delta = <<>> THEN s ELSE Emit(u, <<e>>)
  BY DEF EmitCustomInputDelta
<1>2. e.ev = "delta" /\ e.item = call.item
  BY DEF ArgsDelta
<1> HIDE DEF e, delta, sent, prefix
<1>3. CallOK(call)
  BY DEF TurnOK, ToolsOK
<1>4. CallOK(c) /\ SameCall(call, c)
  BY <1>3 DEF CallOK, NewCall, SameCall
<1> HIDE DEF c
<1>5. Replaced(s, i, c, u)
  BY <1>4, CallReplaced DEF SameCall
<1> HIDE DEF u
<1>6. Touches(s, i, u)
  BY <1>4, <1>5, ReplacedTouches
<1>7. TurnOK(u) /\ i \in DOMAIN u.tools.calls /\ u.tools.calls[i] = c
  BY <1>5 DEF Replaced
<1>8. Touches(u, i, Emit(u, <<e>>))
  BY <1>2, <1>4, <1>7, SayingTouches DEF Envelope, SameCall
<1> QED BY <1>1, <1>6, <1>8, TouchesReflexive, TouchesTransitive

(* The form of a call update that the handlers use. *)
LEMMA CallUpdated ==
  ASSUME NEW s, NEW i, NEW c, TurnOK(s), i \in DOMAIN s.tools.calls, CallOK(c),
         SameCall(s.tools.calls[i], c)
  PROVE  /\ Touches(s, i, [s EXCEPT !.tools.calls[i] = c])
         /\ TurnOK([s EXCEPT !.tools.calls[i] = c])
         /\ i \in DOMAIN [s EXCEPT !.tools.calls[i] = c].tools.calls
         /\ [s EXCEPT !.tools.calls[i] = c].tools.calls[i] = c
<1>1. c.done => s.tools.finalized
  BY DEF SameCall, TurnOK, ToolsOK
<1>2. Replaced(s, i, c, [s EXCEPT !.tools.calls[i] = c])
  BY <1>1, CallReplaced
<1>3. Touches(s, i, [s EXCEPT !.tools.calls[i] = c])
  BY <1>2, ReplacedTouches
<1> QED BY <1>2, <1>3 DEF Replaced

(* What becomes of a buffered namespace call is still the same item in    *)
(* the same stage.                                                        *)
LEMMA NestedCalls ==
  ASSUME NEW call, CallOK(call)
  PROVE  /\ CallOK(Resolved(call)) /\ SameCall(call, Resolved(call))
         /\ CallOK(Degraded(call)) /\ SameCall(call, Degraded(call))
         /\ CallOK(FlushBuffered(call)) /\ SameCall(call, FlushBuffered(call))
<1>1. CallOK(Resolved(call)) /\ SameCall(call, Resolved(call))
  BY DEF CallOK, NewCall, SameCall, Resolved
<1>2. CallOK(Degraded(call)) /\ SameCall(call, Degraded(call))
  <2> DEFINE freed == [call EXCEPT !.buffered = FALSE, !.resolved = TRUE]
             named == [freed EXCEPT !.ns = Spec_(call.name).ns, !.name = Spec_(call.name).name,
                                    !.args = NestedArguments(call.args)]
  <2>1. CallOK(freed) /\ SameCall(call, freed)
    BY DEF CallOK, NewCall, SameCall
  <2>2. Degraded(call) = IF ~IsNested(call.name) THEN freed ELSE named
    BY DEF Degraded
  <2> HIDE DEF freed
  <2>3. CallOK(named) /\ SameCall(call, named)
    BY <2>1 DEF CallOK, NewCall, SameCall
  <2> QED BY <2>1, <2>2, <2>3
<1> QED BY <1>1, <1>2 DEF FlushBuffered, SameCall

(* maybe_start_nested_buffer. *)
LEMMA StartNestedBufferTouches ==
  ASSUME NEW s, NEW i, TurnOK(s), i \in DOMAIN s.tools.calls
  PROVE  Touches(s, i, MaybeStartNestedBuffer(s, i))
<1> DEFINE call == s.tools.calls[i]
           u == EnsureOutputIndex(s, i)
           c == [u.tools.calls[i] EXCEPT !.buffered = TRUE]
           t == [u EXCEPT !.tools.calls[i] = c]
<1>1. MaybeStartNestedBuffer(s, i) =
        IF call.added \/ call.buffered \/ call.resolved \/ ~IsNested(call.name) THEN s ELSE t
  BY DEF MaybeStartNestedBuffer
<1>2. Touches(s, i, u) /\ TurnOK(u) /\ i \in DOMAIN u.tools.calls
  BY OutputIndexTouches DEF Touches, Moves, Steps
<1> HIDE DEF u
<1>3. CallOK(u.tools.calls[i])
  BY <1>2 DEF TurnOK, ToolsOK
<1>4. CallOK(c) /\ SameCall(u.tools.calls[i], c)
  BY <1>3 DEF CallOK, NewCall, SameCall
<1> HIDE DEF c
<1>5. Touches(u, i, t)
  BY <1>2, <1>4, CallUpdated
<1> QED BY <1>1, <1>2, <1>5, TouchesReflexive, TouchesTransitive

(* push_buffered: the action resolves, the buffer overflows, or nothing   *)
(* happens.                                                               *)
LEMMA PushBufferedTouches ==
  ASSUME NEW s, NEW i, TurnOK(s), i \in DOMAIN s.tools.calls, ~s.tools.calls[i].done
  PROVE  Touches(s, i, PushBuffered(s, i))
<1> DEFINE call == s.tools.calls[i]
           surface(t) == EmitArgumentsIncremental(EnsureAdded(t, i), i)
           found == [s EXCEPT !.tools.calls[i] = Resolved(call)]
           freed == [s EXCEPT !.tools.calls[i] = Degraded(call)]
<1>1. PushBuffered(s, i) =
        IF Resolvable(call)
        THEN IF ResolveToolKind(ActionOf(call.args)) = "custom"
             THEN EnsureAdded(found, i) ELSE surface(found)
        ELSE IF Len(call.args) > BufferMax THEN surface(freed) ELSE s
  BY DEF PushBuffered
<1>2. CallOK(call)
  BY DEF TurnOK, ToolsOK
<1>3. /\ CallOK(Resolved(call)) /\ SameCall(call, Resolved(call))
      /\ CallOK(Degraded(call)) /\ SameCall(call, Degraded(call))
  BY <1>2, NestedCalls
<1>4. /\ Touches(s, i, found) /\ TurnOK(found) /\ i \in DOMAIN found.tools.calls
      /\ found.tools.calls[i] = Resolved(call)
  BY <1>3, CallUpdated
<1>5. /\ Touches(s, i, freed) /\ TurnOK(freed) /\ i \in DOMAIN freed.tools.calls
      /\ freed.tools.calls[i] = Degraded(call)
  BY <1>3, CallUpdated
<1>6. ASSUME NEW t, TurnOK(t), i \in DOMAIN t.tools.calls, ~t.tools.calls[i].done
      PROVE  Touches(t, i, EnsureAdded(t, i)) /\ Touches(t, i, surface(t))
  <2> DEFINE u == EnsureAdded(t, i)
  <2>1. Touches(t, i, u)
    BY <1>6, EnsureAddedTouches
  <2> HIDE DEF u
  <2>2. TurnOK(u) /\ i \in DOMAIN u.tools.calls /\ ~u.tools.calls[i].done
    BY <1>6, <2>1 DEF Touches, Moves, Steps
  <2>3. Touches(u, i, EmitArgumentsIncremental(u, i))
    BY <2>2, EmitArgumentsTouches
  <2>4. Touches(t, i, EmitArgumentsIncremental(u, i))
    BY <1>6, <2>1, <2>3, TouchesTransitive
  <2> QED BY <2>1, <2>4 DEF u
<1> HIDE DEF surface, found, freed
<1>7. ~found.tools.calls[i].done /\ ~freed.tools.calls[i].done
  BY <1>3, <1>4, <1>5 DEF SameCall
<1>8. Touches(s, i, EnsureAdded(found, i)) /\ Touches(s, i, surface(found))
  BY <1>4, <1>6, <1>7, TouchesTransitive
<1>9. Touches(s, i, surface(freed))
  BY <1>5, <1>6, <1>7, TouchesTransitive
<1> QED BY <1>1, <1>8, <1>9, TouchesReflexive

(* What push_delta does with a call whose identity is known. *)
LEMMA PushIdentifiedTouches ==
  ASSUME NEW s, NEW d, NEW addedNow, TurnOK(s), d.index \in DOMAIN s.tools.calls,
         ~s.tools.calls[d.index].done
  PROVE  Touches(s, d.index, PushIdentified(s, d, addedNow))
<1> DEFINE i    == d.index
           s1   == EnsureAdded(s, i)
           e    == ArgsDelta(s1.tools.calls[i], d.args)
<1>1. PushIdentified(s, d, addedNow) =
        IF ResolveToolKind(s.tools.calls[i].name) = "custom" THEN EmitCustomInputDelta(s1, i)
        ELSE IF addedNow THEN EmitArgumentsIncremental(s1, i)
        ELSE IF d.args = <<>> THEN s1 ELSE Emit(s1, <<e>>)
  BY DEF PushIdentified
<1>2. e.ev = "delta" /\ e.item = s1.tools.calls[i].item
  BY DEF ArgsDelta
<1> HIDE DEF e
<1>3. Touches(s, i, s1)
  BY EnsureAddedTouches
<1> HIDE DEF s1
<1>4. TurnOK(s1) /\ i \in DOMAIN s1.tools.calls /\ ~s1.tools.calls[i].done
  BY <1>3 DEF Touches, Moves, Steps
<1>5. Touches(s1, i, EmitCustomInputDelta(s1, i))
  BY <1>4, EmitCustomInputTouches
<1>6. Touches(s1, i, EmitArgumentsIncremental(s1, i))
  BY <1>4, EmitArgumentsTouches
<1>7. Touches(s1, i, Emit(s1, <<e>>))
  BY <1>2, <1>4, SayingTouches DEF Envelope
<1> QED BY <1>1, <1>3, <1>5, <1>6, <1>7, TouchesTransitive

(* apply_tool_call_delta makes the call if it is new, and emits nothing. *)
LEMMA DeltaApplied ==
  ASSUME NEW s, NEW d, NEW why, TurnOK(s), d.index \in Nat, IsSeq(d.id)
  PROVE  /\ Silent(s, ApplyToolCallDelta(s, d, why))
         /\ ApplyToolCallDelta(s, d, why).reasoning = s.reasoning
         /\ ApplyToolCallDelta(s, d, why).message = s.message
         /\ ApplyToolCallDelta(s, d, why).tools.finalized = s.tools.finalized
         /\ d.index \in DOMAIN ApplyToolCallDelta(s, d, why).tools.calls
<1> DEFINE x == d.index
           old == IF x \in DOMAIN s.tools.calls THEN s.tools.calls[x] ELSE NewCall
           id == IF d.id = <<>> THEN old.id ELSE d.id
           new == [old EXCEPT !.id = IF d.id = <<>> THEN @ ELSE d.id,
                              !.name = IF d.name = "" THEN @ ELSE d.name,
                              !.args = @ \o d.args,
                              !.reasoning = IF @ = <<>> THEN why ELSE @]
           calls == [i \in DOMAIN s.tools.calls \cup {x} |-> IF i = x THEN new ELSE s.tools.calls[i]]
           t == ApplyToolCallDelta(s, d, why)
<1>1. t = [s EXCEPT !.tools.calls = calls]
  BY DEF ApplyToolCallDelta
<1>2. CallOK(NewCall) /\ ~NewCall.added /\ ~NewCall.done /\ NewCall.item = <<>>
  <2>1. IsSeq(<<>>)
    BY DEF IsSeq
  <2> QED BY <2>1 DEF CallOK, NewCall, NoIndex
<1>3. CallOK(old) /\ (old.done => s.tools.finalized)
  BY <1>2 DEF TurnOK, ToolsOK
<1>4. x \notin DOMAIN s.tools.calls => ~old.added /\ old.item = <<>>
  BY <1>2
<1>5. x \in DOMAIN s.tools.calls => old = s.tools.calls[x]
  OBVIOUS
<1> HIDE DEF old, t
<1>6. CallOK(new) /\ SameCall(old, new)
  <2>1. IsSeq(id)
    BY <1>3 DEF CallOK
  <2>2. /\ DOMAIN new = DOMAIN old /\ new.id = id /\ new.item = old.item
        /\ new.added = old.added /\ new.done = old.done /\ new.output = old.output
        /\ new.buffered = old.buffered
    BY <1>3 DEF CallOK, NewCall
  <2> HIDE DEF new, id
  <2> QED BY <1>3, <2>1, <2>2 DEF CallOK, SameCall
<1> HIDE DEF new
<1>7. /\ DOMAIN t = DOMAIN s /\ t.env = s.env /\ t.reasoning = s.reasoning
      /\ t.message = s.message /\ t.think = s.think /\ t.out = s.out
      /\ t.tools = [s.tools EXCEPT !.calls = calls]
  BY <1>1 DEF TurnOK, NewTurn
<1>8. /\ DOMAIN calls = DOMAIN s.tools.calls \cup {x} /\ calls[x] = new
      /\ \A i \in DOMAIN s.tools.calls \ {x} : calls[i] = s.tools.calls[i]
  OBVIOUS
<1> HIDE DEF calls
<1>9. /\ DOMAIN t.tools = DOMAIN s.tools /\ t.tools.finalized = s.tools.finalized
      /\ t.tools.base = s.tools.base /\ t.tools.calls = calls
  BY <1>7 DEF TurnOK, ToolsOK, NewTools
<1>10. IsFiniteSet(DOMAIN calls) /\ DOMAIN calls \subseteq Nat
  <2>1. IsFiniteSet(DOMAIN s.tools.calls) /\ DOMAIN s.tools.calls \subseteq Nat
    BY DEF TurnOK, ToolsOK
  <2> QED BY <1>8, <2>1, FS_AddElement
<1>11. \A i \in DOMAIN calls : CallOK(calls[i]) /\ (calls[i].done => s.tools.finalized)
  BY <1>3, <1>6, <1>8 DEF TurnOK, ToolsOK, SameCall
<1>12. ToolsOK(t.tools)
  BY <1>9, <1>10, <1>11 DEF TurnOK, ToolsOK
<1>13. TurnOK(t)
  BY <1>7, <1>12 DEF TurnOK
<1>14. Silent(s, t)
  <2>1. Kept(s, t)
    BY <1>7 DEF Kept
  <2>2. ASSUME NEW i \in DOMAIN s.tools.calls
        PROVE  i \in DOMAIN t.tools.calls /\ SameCall(s.tools.calls[i], t.tools.calls[i])
    BY <1>5, <1>6, <1>8, <1>9 DEF SameCall
  <2>3. ASSUME NEW i \in DOMAIN t.tools.calls \ DOMAIN s.tools.calls
        PROVE  ~t.tools.calls[i].added /\ t.tools.calls[i].item = <<>>
    BY <1>4, <1>6, <1>8, <1>9 DEF SameCall
  <2> QED BY <1>7, <1>13, <2>1, <2>2, <2>3 DEF Silent
<1> QED BY <1>7, <1>8, <1>9, <1>14 DEF t

(* push_delta of the tool-call store, once it is finalized (it does       *)
(* nothing) and before.                                                   *)
LEMMA ToolsPushDeltaAdvances ==
  ASSUME NEW s, NEW d, NEW why, TurnOK(s), d.index \in Nat, IsSeq(d.id)
  PROVE  Advances(s, ToolsPushDelta(s, d, why))
<1>1. CASE s.tools.finalized
  BY <1>1, AdvancesReflexive DEF ToolsPushDelta
<1>2. CASE ~s.tools.finalized
  <2> DEFINE i  == d.index
             s1 == ApplyToolCallDelta(s, d, why)
             fresh == ~s1.tools.calls[i].added
             s2 == IF fresh THEN MaybeStartNestedBuffer(s1, i) ELSE s1
             t  == ToolsPushDelta(s, d, why)
  <2>1. t = IF ~HasIdentity(s1.tools.calls[i]) THEN s1
            ELSE IF s2.tools.calls[i].buffered THEN PushBuffered(s2, i)
            ELSE PushIdentified(s2, d, fresh)
    BY <1>2 DEF ToolsPushDelta
  <2>2. /\ Silent(s, s1) /\ s1.reasoning = s.reasoning /\ s1.message = s.message
        /\ s1.tools.finalized = s.tools.finalized /\ i \in DOMAIN s1.tools.calls
    BY DeltaApplied
  <2> HIDE DEF s1
  <2>3. Moves(s, s1) /\ TurnOK(s1)
    BY <2>2, SilentMoves DEF Silent
  <2>4. Touches(s1, i, s2)
    BY <2>2, <2>3, StartNestedBufferTouches, TouchesReflexive, SMTT(40)
  <2> HIDE DEF s2, fresh
  <2>5. TurnOK(s2) /\ i \in DOMAIN s2.tools.calls /\ ~s2.tools.calls[i].done
    BY <1>2, <2>2, <2>3, <2>4 DEF Touches, Moves, Steps, TurnOK, ToolsOK
  <2>6. Touches(s2, i, PushBuffered(s2, i)) /\ Touches(s2, i, PushIdentified(s2, d, fresh))
    BY <2>5, PushBufferedTouches, PushIdentifiedTouches
  <2>7. Touches(s1, i, t)
    BY <2>1, <2>2, <2>3, <2>4, <2>6, TouchesReflexive, TouchesTransitive
  <2> HIDE DEF t
  <2>8. Moves(s, t)
    BY <2>3, <2>7, MovesTransitive DEF Touches
  <2>9. t.tools.finalized = s.tools.finalized
    BY <2>2, <2>7 DEF Touches
  <2>10. Advances(s, t)
    BY <1>2, <2>8, <2>9 DEF Advances
  <2> QED BY <2>10 DEF t
<1> QED BY <1>1, <1>2

-----------------------------------------------------------------------------
(* The end of the tool calls. *)

(* A batch of events is as good as two. *)
LEMMA EmittedTwice ==
  ASSUME NEW s, NEW p, NEW q, TurnOK(s), IsSeq(p), IsSeq(q)
  PROVE  Emit(s, p \o q) = Emit(Emit(s, p), q)
<1>1. PICK S, P, Q : s.out \in Seq(S) /\ p \in Seq(P) /\ q \in Seq(Q)
  BY DEF TurnOK, IsSeq
<1>2. \E T : s.out \in Seq(T) /\ p \in Seq(T) /\ q \in Seq(T)
  <2>1. s.out \in Seq(S \cup P \cup Q) /\ p \in Seq(S \cup P \cup Q) /\ q \in Seq(S \cup P \cup Q)
    BY <1>1, SeqMonotonic
  <2> QED BY <2>1
<1>7. \A o, T : o \in Seq(T) /\ p \in Seq(T) /\ q \in Seq(T) => (o \o p) \o q = o \o (p \o q)
  BY ConcatAssociative
<1>3. (s.out \o p) \o q = s.out \o (p \o q)
  BY <1>2, <1>7
<1>4. "out" \in DOMAIN s
  BY DEF TurnOK, NewTurn
<1>5. [[s EXCEPT !.out = s.out \o p] EXCEPT !.out = (s.out \o p) \o q] =
        [s EXCEPT !.out = (s.out \o p) \o q]
  OBVIOUS
<1>6. [s EXCEPT !.out = s.out \o p].out = s.out \o p
  BY <1>4
<1> QED BY <1>3, <1>5, <1>6 DEF Emit

(* Call i was closed and nothing else changed about the turn's items.        *)
Finishes(s, i, t) ==
  /\ Moves(s, t)
  /\ t.reasoning = s.reasoning /\ t.message = s.message
  /\ t.tools.finalized
  /\ DOMAIN t.tools.calls = DOMAIN s.tools.calls
  /\ t.tools.calls[i].done
  /\ \A j \in DOMAIN s.tools.calls \ {i} : t.tools.calls[j] = s.tools.calls[j]
  /\ OnlyOf(s, i, t)

(* The last two of finalize_state's three stages: the call is marked done,   *)
(* its item recorded, and the rest of its input, its text and its end sent.  *)
LEMMA CallFinished ==
  ASSUME NEW s, NEW i, NEW c, NEW index \in Nat, NEW item, NEW residue, NEW d, NEW e,
         item.id = c.item,
         TurnOK(s), s.tools.finalized, i \in DOMAIN s.tools.calls, ~s.tools.calls[i].done,
         CallOK(c), c.added = s.tools.calls[i].added, c.item = s.tools.calls[i].item, c.done,
         residue = <<>> \/ \E r : /\ residue = <<r>> /\ r.item = c.item /\ r.ev = "delta",
         d.item = c.item, d.ev = "text_done", e.item = c.item, e.ev = "done"
  PROVE  Finishes(s, i, Emit(AppendCompletedItem([s EXCEPT !.tools.calls[i] = c], index, item),
                             residue \o <<d, e>>))
<1> DEFINE s3 == [s EXCEPT !.tools.calls[i] = c]
           w  == AppendCompletedItem(s3, index, item)
           w1 == Emit(w, residue)
           w2 == Emit(w1, <<d>>)
           a1 == Emit(s, residue)
           a2 == Emit(a1, <<d>>)
           t  == Emit(w2, <<e>>)
<1>1. IsSeq(residue) /\ IsSeq(<<d, e>>)
  <2>1. IsSeq(<<>>)
    BY DEF IsSeq
  <2>2. \A r : IsSeq(<<r>>)
    BY Single
  <2>3. <<d, e>> \in Seq({d, e})
    OBVIOUS
  <2> QED BY <2>1, <2>2, <2>3 DEF IsSeq
<1>2. Replaced(s, i, c, s3)
  BY CallReplaced
<1> HIDE DEF s3
<1>3. TurnOK(s3)
  BY <1>2 DEF Replaced
<1>4. Completes(s3, index, item, w)
  BY <1>3, ItemAppended
<1> HIDE DEF w
<1>21. Records(s, w, e)
  BY <1>2, <1>4 DEF Replaced, Completes, Records
<1>22. TurnOK(w)
  BY <1>4 DEF Completes
<1>5. /\ Kept(s, w) /\ w.out = s.out
      /\ w.reasoning = s.reasoning /\ w.message = s.message
      /\ w.tools.finalized /\ DOMAIN w.tools.calls = DOMAIN s.tools.calls
      /\ w.tools.calls[i] = c
      /\ \A j \in DOMAIN s.tools.calls \ {i} : w.tools.calls[j] = s.tools.calls[j]
  BY <1>2, <1>4, ZenonT(40) DEF Replaced, Completes, Kept
<1>6. Emit(w, residue \o <<d, e>>) = t
  <2>1. Emit(w, residue \o <<d, e>>) = Emit(w1, <<d, e>>)
    BY <1>1, <1>22, EmittedTwice
  <2>2. TurnOK(w1)
    BY <1>1, <1>22, Emitted, Zenon
  <2> HIDE DEF w1
  <2>3. Emit(w1, <<d, e>>) = Emit(Emit(w1, <<d>>), <<e>>)
    BY <2>2, EmittedPair
  <2> QED BY <2>1, <2>3
<1>7. Touches(s, i, a1) /\ a1.tools = s.tools /\ a1.env = s.env
  <2>1. a1.tools = s.tools /\ a1.env = s.env
    BY <1>1, Emitted, Zenon
  <2>2. CASE residue = <<>>
    BY <2>1, <2>2, NothingTouches
  <2>3. CASE residue # <<>>
    <3>1. PICK r : residue = <<r>> /\ r.item = c.item /\ r.ev = "delta"
      BY <2>3
    <3> HIDE DEF a1
    <3>2. a1 = Emit(s, <<r>>)
      BY <3>1 DEF a1
    <3>3. Touches(s, i, Emit(s, <<r>>))
      BY <3>1, SayingTouches DEF Envelope
    <3> QED BY <2>1, <3>2, <3>3
  <2> QED BY <2>2, <2>3
<1>8. /\ TurnOK(w1) /\ w1.env = w.env /\ w1.reasoning = w.reasoning
      /\ w1.message = w.message /\ w1.tools = w.tools /\ w1.out = w.out \o residue
  BY <1>1, <1>22, Emitted, Zenon
<1>9. a1.out = s.out \o residue
  BY <1>1, Emitted, Zenon
<1> HIDE DEF a1, w1
<1>10. TurnOK(a1) /\ a1.out = w1.out
  BY <1>5, <1>7, <1>8, <1>9 DEF Touches, Moves, Steps
<1>11. Touches(a1, i, a2) /\ a2.tools = a1.tools /\ a2.env = a1.env
  <2>1. a2.tools = a1.tools /\ a2.env = a1.env
    BY <1>10, EmittedOne, Zenon
  <2>2. Touches(a1, i, Emit(a1, <<d>>))
    BY <1>7, <1>10, SayingTouches DEF Envelope
  <2> QED BY <2>1, <2>2
<1>12. /\ TurnOK(w2) /\ w2.env = w1.env /\ w2.reasoning = w1.reasoning
       /\ w2.message = w1.message /\ w2.tools = w1.tools
  BY <1>8, EmittedOne, Zenon
<1>13. w2.out = a2.out
  <2>1. IsSeq(<<d>>)
    BY Single
  <2>2. w2.out = w1.out \o <<d>>
    BY <1>8, <2>1, Emitted, ZenonT(40)
  <2>3. a2.out = a1.out \o <<d>>
    BY <1>10, <2>1, Emitted, Zenon
  <2> QED BY <1>10, <2>2, <2>3
<1> HIDE DEF a2, w2
<1>14. Touches(s, i, a2)
  BY <1>7, <1>11, TouchesTransitive
<1>15. /\ TurnOK(a2) /\ Kept(a2, w2) /\ w2.out = a2.out
       /\ w2.reasoning = a2.reasoning /\ w2.message = a2.message
       /\ a2.tools = s.tools
  BY <1>5, <1>7, <1>8, <1>11, <1>12, <1>13, <1>14 DEF Touches, Moves, Steps, Kept
<1>16. OtherCallsSame(a2, w2, i) /\ Records(a2, w2, e)
  BY <1>5, <1>7, <1>8, <1>11, <1>12, <1>15, <1>21 DEF OtherCallsSame, SameCall, Records
<1>17. Moves(a2, t)
  <2>1. /\ w2.tools.calls[i].added = a2.tools.calls[i].added
        /\ w2.tools.calls[i].item = a2.tools.calls[i].item
        /\ ~a2.tools.calls[i].done /\ w2.tools.calls[i].done
        /\ e.item = a2.tools.calls[i].item
    BY <1>5, <1>8, <1>12, <1>15
  <2> QED BY <1>12, <1>15, <1>16, <2>1, CallCloses
<1>18. Moves(s, t)
  BY <1>14, <1>17, MovesTransitive DEF Touches
<1>19. /\ t.reasoning = w2.reasoning /\ t.message = w2.message /\ t.tools = w2.tools
       /\ Appended(w2.out, e, t.out)
  BY <1>12, EmittedOne, Zenon
<1> HIDE DEF t
<1>23. OnlyOf(s, i, t)
  <2>1. t.tools.calls[i] = c /\ a2.tools.calls[i].item = c.item /\ i \in DOMAIN a2.tools.calls
    BY <1>5, <1>8, <1>12, <1>15, <1>19
  <2>2. OnlyOf(a2, i, t)
    BY <1>15, <1>19, <2>1, OnlyOneMore
  <2>3. OnlyOf(s, i, a2)
    BY <1>14 DEF Touches
  <2> QED BY <1>14, <1>17, <2>1, <2>2, <2>3, OnlyOfTransitive DEF Touches
<1>20. Finishes(s, i, t)
  BY <1>5, <1>8, <1>12, <1>18, <1>19, <1>23 DEF Finishes
<1> QED BY <1>6, <1>20 DEF w, s3

(* What finalize_state does before it closes the call: it is flushed, opened *)
(* if it can be, and has the rest of its arguments sent.                     *)
ReadyToClose(s, i) ==
  LET flushed == [s EXCEPT !.tools.calls[i] = FlushBuffered(s.tools.calls[i])]
      s1 == IF HasIdentity(flushed.tools.calls[i]) THEN EnsureAdded(flushed, i) ELSE flushed
  IN  IF ResolveToolKind(s1.tools.calls[i].name) = "custom" THEN s1
      ELSE EmitArgumentsIncremental(s1, i)

(* finalize_state closes the call that it is given, in each of its three  *)
(* forms.                                                                 *)
LEMMA FinalizeStateFinishes ==
  ASSUME NEW s, NEW i, TurnOK(s), s.tools.finalized, i \in DOMAIN s.tools.calls,
         ~s.tools.calls[i].done
  PROVE  /\ Finishes(s, i, FinalizeState(s, i))
         /\ Finishes(ReadyToClose(s, i), i, FinalizeState(s, i))
<1> DEFINE flushed == [s EXCEPT !.tools.calls[i] = FlushBuffered(s.tools.calls[i])]
           s1 == IF HasIdentity(flushed.tools.calls[i]) THEN EnsureAdded(flushed, i) ELSE flushed
           custom == ResolveToolKind(s1.tools.calls[i].name) = "custom"
           s2 == IF custom THEN s1 ELSE EmitArgumentsIncremental(s1, i)
           call == s2.tools.calls[i]
           full == FinalArguments(call)
           residue == IF ~custom \/ ResidualInput(call) = <<>> THEN <<>>
                      ELSE <<ArgsDelta(call, ResidualInput(call))>>
           input == IF custom THEN full ELSE call.input
           c == [call EXCEPT !.done = TRUE, !.input = input]
           s3 == [s2 EXCEPT !.tools.calls[i].done = TRUE,
                            !.tools.calls[i].input = IF custom THEN full ELSE @]
           d == [ev |-> "text_done", item |-> call.item, part |-> 1, text |-> full]
           e == [ev |-> "done", item |-> call.item, index |-> IndexOrZero(call),
                 body |-> FinalItem(call)]
<1>1. FinalizeState(s, i) =
        Emit(AppendCompletedItem(s3, IndexOrZero(call), FinalItem(call)), residue \o <<d, e>>)
  BY DEF FinalizeState
<1>21. ReadyToClose(s, i) = s2
  BY DEF ReadyToClose
<1>2. /\ Touches(s, i, flushed) /\ TurnOK(flushed) /\ i \in DOMAIN flushed.tools.calls
      /\ flushed.tools.calls[i].done = s.tools.calls[i].done
  <2>1. CallOK(FlushBuffered(s.tools.calls[i])) /\ SameCall(s.tools.calls[i], FlushBuffered(s.tools.calls[i]))
    BY NestedCalls DEF TurnOK, ToolsOK
  <2> QED BY <2>1, CallUpdated, SMTT(40) DEF SameCall
<1> HIDE DEF flushed
<1>3. Touches(flushed, i, s1)
  BY <1>2, EnsureAddedTouches, TouchesReflexive
<1> HIDE DEF s1
<1>4. TurnOK(s1) /\ i \in DOMAIN s1.tools.calls /\ ~s1.tools.calls[i].done
  BY <1>2, <1>3 DEF Touches, Moves, Steps
<1>5. Touches(s1, i, s2)
  BY <1>4, EmitArgumentsTouches, TouchesReflexive
<1>6. residue = <<>> \/ \E r : /\ residue = <<r>> /\ r.item = call.item /\ r.ev = "delta"
  BY DEF ArgsDelta
<1>7. d.item = call.item /\ d.ev = "text_done" /\ e.item = call.item /\ e.ev = "done"
  OBVIOUS
<1>14. s3 = [s2 EXCEPT !.tools.calls[i].done = TRUE, !.tools.calls[i].input = input]
  OBVIOUS
<1> HIDE DEF residue, custom, full, input, d, e, s2, s3
<1>8. Touches(s, i, s1)
  BY <1>2, <1>3, TouchesTransitive
<1>9. Touches(s, i, s2)
  BY <1>5, <1>8, TouchesTransitive
<1>10. TurnOK(s2) /\ s2.tools.finalized /\ i \in DOMAIN s2.tools.calls /\ ~s2.tools.calls[i].done
  BY <1>9 DEF Touches, Moves, Steps
<1>11. CallOK(call)
  BY <1>10 DEF TurnOK, ToolsOK
<1>12. CallOK(c) /\ c.added = call.added /\ c.item = call.item /\ c.done
  BY <1>11 DEF CallOK, NewCall
<1>15. s3 = [s2 EXCEPT !.tools.calls[i] = c]
  <2> DEFINE c1 == [call EXCEPT !.done = TRUE]
             k1 == [s2.tools.calls EXCEPT ![i] = c1]
             h1 == [s2.tools EXCEPT !.calls = k1]
             u1 == [s2 EXCEPT !.tools = h1]
             k2 == [s2.tools.calls EXCEPT ![i] = c]
             h2 == [s2.tools EXCEPT !.calls = k2]
  <2>1. "tools" \in DOMAIN s2 /\ "calls" \in DOMAIN s2.tools
    BY <1>10 DEF TurnOK, NewTurn, ToolsOK, NewTools
  <2>2. u1.tools = h1 /\ h1.calls = k1 /\ k1[i] = c1
    BY <1>10, <2>1
  <2>3. [u1 EXCEPT !.tools.calls[i].input = input] =
          [u1 EXCEPT !.tools = [h1 EXCEPT !.calls = [k1 EXCEPT ![i] = [c1 EXCEPT !.input = input]]]]
    <3> HIDE DEF u1, h1, k1, c1
    <3> QED BY <2>2
  <2>4. s3 = [u1 EXCEPT !.tools.calls[i].input = input]
    BY <1>14
  <2>5. [c1 EXCEPT !.input = input] = c
    OBVIOUS
  <2>6. [k1 EXCEPT ![i] = c] = k2
    BY <1>10
  <2>7. [h1 EXCEPT !.calls = k2] = h2
    BY <2>1
  <2>8. [u1 EXCEPT !.tools = h2] = [s2 EXCEPT !.tools = h2]
    BY <2>1
  <2> HIDE DEF u1, h1, k1, c1, c
  <2> QED BY <2>3, <2>4, <2>5, <2>6, <2>7, <2>8
<1>17. FinalItem(call).id = c.item /\ IndexOrZero(call) \in Nat
  BY <1>11, <1>12 DEF FinalItem, ToolItem, IndexOrZero, CallOK, NoIndex
<1> HIDE DEF c
<1>18. /\ residue = <<>> \/ \E r : /\ residue = <<r>> /\ r.item = c.item /\ r.ev = "delta"
       /\ d.item = c.item /\ d.ev = "text_done" /\ e.item = c.item /\ e.ev = "done"
  BY <1>6, <1>7, <1>12
<1>19. Finishes(s2, i, Emit(AppendCompletedItem([s2 EXCEPT !.tools.calls[i] = c], IndexOrZero(call),
                                                FinalItem(call)), residue \o <<d, e>>))
  BY <1>10, <1>12, <1>17, <1>18, CallFinished
<1>13. Finishes(s2, i, FinalizeState(s, i))
  BY <1>1, <1>15, <1>19
<1>16. Moves(s, FinalizeState(s, i))
  BY <1>9, <1>13, MovesTransitive DEF Touches, Finishes
<1>20. OnlyOf(s, i, FinalizeState(s, i))
  BY <1>9, <1>10, <1>13, OnlyOfTransitive DEF Touches, Finishes
<1>22. Finishes(s, i, FinalizeState(s, i))
  BY <1>9, <1>13, <1>16, <1>20 DEF Touches, Finishes
<1> QED BY <1>13, <1>21, <1>22

(* What holds of finalize's loop after k of the calls unfinished in s.       *)
Finishing(none, s, t, k) ==
  /\ Moves(s, t)
  /\ t.reasoning = s.reasoning /\ t.message = s.message
  /\ t.tools.finalized
  /\ Cardinality(Unfinished(t)) = Cardinality(Unfinished(s)) - k

EachFinished == INSTANCE Iteration_proofs WITH Step <- FinalizeNext, Holds <- Finishing

(* Only finitely many calls are unfinished. *)
LEMMA UnfinishedFinite ==
  ASSUME NEW s, TurnOK(s)
  PROVE  /\ IsFiniteSet(Unfinished(s)) /\ Unfinished(s) \subseteq Nat
         /\ Cardinality(Unfinished(s)) \in Nat
<1>1. IsFiniteSet(DOMAIN s.tools.calls) /\ DOMAIN s.tools.calls \subseteq Nat
  BY DEF TurnOK, ToolsOK
<1>2. Unfinished(s) \in SUBSET DOMAIN s.tools.calls
  BY DEF Unfinished
<1> QED BY <1>1, <1>2, FS_Subset, FS_CardinalityType

(* One round of finalize's loop leaves one unfinished call less. *)
LEMMA FinishingStep ==
  ASSUME NEW s, NEW t, NEW k \in 1..Cardinality(Unfinished(s)), TurnOK(s),
         Finishing(0, s, t, k - 1)
  PROVE  Finishing(0, s, FinalizeNext(0, t, k), k)
<1> DEFINE i == CHOOSE x \in Unfinished(t) : \A j \in Unfinished(t) : x <= j
           u == FinalizeState(t, i)
<1>1. TurnOK(t) /\ t.tools.finalized
  BY DEF Finishing, Moves, Steps
<1>2. IsFiniteSet(Unfinished(t)) /\ Unfinished(t) \subseteq Nat /\ Cardinality(Unfinished(t)) \in Nat
  BY <1>1, UnfinishedFinite
<1>3. Cardinality(Unfinished(s)) \in Nat /\ Cardinality(Unfinished(t)) = Cardinality(Unfinished(s)) - (k - 1)
  BY UnfinishedFinite DEF Finishing
<1>4. Unfinished(t) # {}
  BY <1>3, FS_EmptySet
<1>5. i \in Unfinished(t)
  <2>1. \E x \in Unfinished(t) : \A j \in Unfinished(t) : x <= j
    <3> SUFFICES ASSUME \A x \in Unfinished(t) : \E j \in Unfinished(t) : ~(x <= j)
                 PROVE  FALSE
      OBVIOUS
    <3>1. \A x \in Unfinished(t) : \E j \in Unfinished(t) : j < x
      BY <1>2
    <3> QED BY <1>2, <1>4, <3>1, EachFinished!NoDescent
  <2> QED BY <2>1
<1>6. FinalizeNext(0, t, k) = u
  BY DEF FinalizeNext
<1> HIDE DEF i
<1>7. Finishes(t, i, u)
  BY <1>1, <1>5, FinalizeStateFinishes DEF Unfinished
<1> HIDE DEF u
<1>8. Unfinished(u) = Unfinished(t) \ {i}
  BY <1>7 DEF Finishes, Unfinished
<1>9. Cardinality(Unfinished(u)) = Cardinality(Unfinished(t)) - 1
  BY <1>2, <1>5, <1>8, FS_RemoveElement
<1>10. Moves(s, u)
  BY <1>7, MovesTransitive DEF Finishing, Finishes
<1>11. Finishing(0, s, u, k)
  BY <1>3, <1>7, <1>9, <1>10 DEF Finishing, Finishes
<1> QED BY <1>6, <1>11

(* finalize of the tool-call store closes every call: as many rounds as   *)
(* there are unfinished calls leave none.                                 *)
LEMMA ToolsFinalizeMoves ==
  ASSUME NEW s, TurnOK(s)
  PROVE  /\ Moves(s, ToolsFinalize(s))
         /\ ToolsFinalize(s).reasoning = s.reasoning
         /\ ToolsFinalize(s).message = s.message
         /\ ToolsFinalize(s).tools.finalized
         /\ ~s.tools.finalized => Unfinished(ToolsFinalize(s)) = {}
<1>1. CASE s.tools.finalized
  BY <1>1, MovesReflexive DEF ToolsFinalize
<1>2. CASE ~s.tools.finalized
  <2> DEFINE s0 == [s EXCEPT !.tools.finalized = TRUE]
             n  == Cardinality(Unfinished(s))
             t  == EachUnfinished!Iterate(0, s0, n)
  <2>1. ToolsFinalize(s) = t
    BY <1>2 DEF ToolsFinalize
  <2>2. /\ DOMAIN s0 = DOMAIN s /\ s0.env = s.env /\ s0.reasoning = s.reasoning
        /\ s0.message = s.message /\ s0.think = s.think /\ s0.out = s.out
        /\ s0.tools = [s.tools EXCEPT !.finalized = TRUE]
    BY DEF TurnOK, NewTurn
  <2> HIDE DEF s0
  <2>3. s0.tools.calls = s.tools.calls /\ s0.tools.finalized /\ ToolsOK(s0.tools)
    BY <2>2 DEF TurnOK, ToolsOK, NewTools
  <2>4. TurnOK(s0)
    BY <2>2, <2>3 DEF TurnOK
  <2>5. Moves(s, s0)
    <3>1. Silent(s, s0)
      BY <2>2, <2>3, <2>4 DEF Silent, SameCall, Kept
    <3> QED BY <2>2, <3>1, SilentMoves
  <2>6. n = Cardinality(Unfinished(s0)) /\ n \in Nat
    BY <2>3, UnfinishedFinite DEF Unfinished
  <2> HIDE DEF n
  <2>7. Finishing(0, s0, t, n)
    <3>1. Finishing(0, s0, s0, 0)
      BY <2>3, <2>4, <2>6, MovesReflexive DEF Finishing
    <3>2. \A u : \A k \in 1..n : Finishing(0, s0, u, k - 1) => Finishing(0, s0, FinalizeNext(0, u, k), k)
      BY <2>4, <2>6, FinishingStep
    <3>3. Finishing(0, s0, EachFinished!Iterate(0, s0, n), n)
      BY <2>6, <3>1, <3>2, EachFinished!LoopInvariant
    <3> QED BY <3>3 DEF EachUnfinished!Iterate, EachFinished!Iterate
  <2> HIDE DEF t
  <2>8. Cardinality(Unfinished(t)) = 0
    BY <2>6, <2>7 DEF Finishing
  <2>9. TurnOK(t)
    BY <2>7 DEF Finishing, Moves, Steps
  <2>10. Unfinished(t) = {}
    BY <2>8, <2>9, UnfinishedFinite, FS_EmptySet
  <2>11. Moves(s, t)
    BY <2>5, <2>7, MovesTransitive DEF Finishing
  <2> QED BY <2>1, <2>2, <2>7, <2>10, <2>11 DEF Finishing
<1> QED BY <1>1, <1>2

-----------------------------------------------------------------------------
(* The chunk handlers. *)

(* One tool-call fragment of a chunk. *)
LEMMA PushToolCallDeltaAdvances ==
  ASSUME NEW s, NEW d \in CallSet, NEW why, TurnOK(s)
  PROVE  Advances(s, PushToolCallDelta(s, d, why))
<1> DEFINE u == ForceInlineThinkToText(s)
<1>1. Advances(s, u) /\ TurnOK(u)
  BY ForceInlineThinkToTextWrites, WritesAdvance, WritesOK
<1>2. PushToolCallDelta(s, d, why) = ToolsPushDelta(u, d, why)
  BY DEF PushToolCallDelta
<1> HIDE DEF u
<1>3. d.index \in Nat /\ IsSeq(d.id)
  BY DEF CallSet, IsSeq
<1>4. Advances(u, ToolsPushDelta(u, d, why))
  BY <1>1, <1>3, ToolsPushDeltaAdvances
<1> QED BY <1>1, <1>2, <1>4, AdvancesTransitive

(* After k of the calls of a chunk. *)
PushingCalls(x, s, t, k) == TurnOK(s) /\ Advances(s, t)

CallsPushed == INSTANCE Iteration_proofs WITH Step <- PushCall, Holds <- PushingCalls

(* All the tool-call fragments of a chunk. *)
LEMMA ToolCallEventsAdvances ==
  ASSUME NEW s, NEW calls \in Seq(CallSet), NEW hint, TurnOK(s)
  PROVE  Advances(s, ToolCallEvents(s, calls, hint))
<1> DEFINE active == ActiveReasoningText(s)
           why    == IF active = <<>> THEN hint ELSE active
           s1     == IF active = <<>> THEN s ELSE ReasoningFinalize(s)
           s2     == ForceInlineThinkToText(s1)
           x      == [calls |-> calls, why |-> why]
           n      == Len(calls)
           t      == EachCall!Iterate(x, s2, n)
<1>1. ToolCallEvents(s, calls, hint) = t
  BY DEF ToolCallEvents
<1>2. Advances(s, s1) /\ TurnOK(s1)
  BY ReasoningFinalizeWrites, WritesReflexive, WritesAdvance, WritesOK
<1> HIDE DEF s1
<1>3. Advances(s1, s2) /\ TurnOK(s2)
  BY <1>2, ForceInlineThinkToTextWrites, WritesAdvance, WritesOK
<1>4. x.calls = calls /\ n \in Nat /\ \A k \in 1..n : calls[k] \in CallSet
  BY LenProperties
<1> HIDE DEF s2, x, n, why
<1>5. PushingCalls(x, s2, s2, 0)
  BY <1>3, AdvancesReflexive DEF PushingCalls
<1>6. ASSUME NEW u, NEW k \in 1..n, PushingCalls(x, s2, u, k - 1)
      PROVE  PushingCalls(x, s2, PushCall(x, u, k), k)
  <2>1. Advances(s2, u) /\ TurnOK(u)
    BY <1>6, AdvancesOK DEF PushingCalls
  <2>2. PushCall(x, u, k) = PushToolCallDelta(u, calls[k], x.why)
    BY <1>4 DEF PushCall
  <2>3. Advances(u, PushCall(x, u, k))
    BY <1>4, <2>1, <2>2, PushToolCallDeltaAdvances
  <2> QED BY <1>3, <2>1, <2>3, AdvancesTransitive DEF PushingCalls
<1>7. PushingCalls(x, s2, CallsPushed!Iterate(x, s2, n), n)
  <2>1. \A u : \A k \in 1..n : PushingCalls(x, s2, u, k - 1) => PushingCalls(x, s2, PushCall(x, u, k), k)
    BY <1>6
  <2> QED BY <1>4, <1>5, <2>1, CallsPushed!LoopInvariant
<1>8. PushingCalls(x, s2, t, n)
  BY <1>7 DEF EachCall!Iterate, CallsPushed!Iterate
<1> HIDE DEF t
<1>9. Advances(s2, t)
  BY <1>8 DEF PushingCalls
<1>10. Advances(s1, t)
  BY <1>2, <1>3, <1>9, AdvancesTransitive
<1> QED BY <1>1, <1>2, <1>10, AdvancesTransitive

-----------------------------------------------------------------------------
(* Content that is a string. *)
LEMMA StringContentWrites ==
  ASSUME NEW s, NEW text, NEW reasoning, TurnOK(s)
  PROVE  Writes(s, StringContentEvents(s, text, reasoning))
<1> DEFINE u == ReasoningFinalize(s)
<1>1. StringContentEvents(s, text, reasoning) =
        IF text = <<>> THEN s
        ELSE IF reasoning # <<>> THEN PushTextDelta(u, text) ELSE PushContentDelta(s, text)
  BY DEF StringContentEvents
<1>2. Writes(s, u) /\ TurnOK(u)
  BY ReasoningFinalizeWrites, WritesOK
<1> HIDE DEF u
<1>3. Writes(s, PushTextDelta(u, text))
  BY <1>2, PushTextDeltaWrites, WritesTransitive
<1> QED BY <1>1, <1>3, WritesReflexive, PushContentDeltaWrites

(* One part of content that is an array. *)
LEMMA PartEventsWrites ==
  ASSUME NEW s, NEW part, TurnOK(s)
  PROVE  Writes(s, PartEvents(s, part))
<1> DEFINE u == AddAnnotations(s, part.anns)
<1>1. PartEvents(s, part) =
        IF part.text = <<>> THEN s
        ELSE IF part.kind = "refusal" THEN PushRefusalPart(s, part.text)
        ELSE PushTextDelta(u, part.text)
  BY DEF PartEvents
<1>2. Writes(s, u) /\ TurnOK(u)
  BY AddAnnotationsWrites, WritesOK
<1> HIDE DEF u
<1>3. Writes(s, PushTextDelta(u, part.text))
  BY <1>2, PushTextDeltaWrites, WritesTransitive
<1> QED BY <1>1, <1>3, WritesReflexive, PushRefusalPartWrites

(* After k of the parts of a chunk. *)
PushingParts(parts, s, t, k) == TurnOK(s) /\ Writes(s, t)

PartsPushed == INSTANCE Iteration_proofs WITH Step <- PushPart, Holds <- PushingParts

(* Content that is an array of parts. *)
LEMMA StructuredContentWrites ==
  ASSUME NEW s, NEW parts, IsSeq(parts), TurnOK(s)
  PROVE  Writes(s, StructuredContentEvents(s, parts))
<1> DEFINE s1 == ReasoningFinalize(s)
           s2 == ForceInlineThinkToText(s1)
           n  == Len(parts)
           t  == EachPart!Iterate(parts, s2, n)
<1>1. StructuredContentEvents(s, parts) = t
  BY DEF StructuredContentEvents
<1>2. Writes(s, s1) /\ TurnOK(s1)
  BY ReasoningFinalizeWrites, WritesOK
<1> HIDE DEF s1
<1>3. Writes(s1, s2) /\ TurnOK(s2)
  BY <1>2, ForceInlineThinkToTextWrites, WritesOK
<1>4. n \in Nat
  BY SeqFacts
<1> HIDE DEF s2, n
<1>5. PushingParts(parts, s2, s2, 0)
  BY <1>3, WritesReflexive DEF PushingParts
<1>6. ASSUME NEW u, NEW k \in 1..n, PushingParts(parts, s2, u, k - 1)
      PROVE  PushingParts(parts, s2, PushPart(parts, u, k), k)
  <2> DEFINE v == IF k > 1 THEN FlushOpenTextPart(u) ELSE u
  <2>1. Writes(s2, u) /\ TurnOK(u)
    BY <1>6, WritesOK DEF PushingParts
  <2>2. PushPart(parts, u, k) = PartEvents(v, parts[k])
    BY DEF PushPart
  <2>3. Writes(u, v) /\ TurnOK(v)
    BY <2>1, FlushOpenTextPartWrites, WritesReflexive, WritesOK
  <2> HIDE DEF v
  <2>4. Writes(v, PushPart(parts, u, k))
    BY <2>2, <2>3, PartEventsWrites
  <2>5. Writes(u, PushPart(parts, u, k))
    BY <2>1, <2>3, <2>4, WritesTransitive
  <2> QED BY <1>3, <2>1, <2>5, WritesTransitive DEF PushingParts
<1>7. PushingParts(parts, s2, PartsPushed!Iterate(parts, s2, n), n)
  <2>1. \A u : \A k \in 1..n : PushingParts(parts, s2, u, k - 1)
                              => PushingParts(parts, s2, PushPart(parts, u, k), k)
    BY <1>6
  <2> QED BY <1>4, <1>5, <2>1, PartsPushed!LoopInvariant
<1>8. PushingParts(parts, s2, t, n)
  BY <1>7 DEF EachPart!Iterate, PartsPushed!Iterate
<1> HIDE DEF t
<1>9. Writes(s2, t)
  BY <1>8 DEF PushingParts
<1>10. Writes(s1, t)
  BY <1>2, <1>3, <1>9, WritesTransitive
<1> QED BY <1>1, <1>2, <1>10, WritesTransitive

(* Content of any form. *)
LEMMA ContentEventsWrites ==
  ASSUME NEW s, NEW content \in ContentSet, NEW reasoning, TurnOK(s)
  PROVE  Writes(s, ContentEvents(s, content, reasoning))
<1>1. content.form \in {"none", "text", "parts"} /\ IsSeq(content.parts)
  BY DEF ContentSet, IsSeq
<1> QED BY <1>1, StringContentWrites, StructuredContentWrites, WritesReflexive
        DEF ContentEvents

(* The refusal of a chunk. *)
LEMMA RefusalEventsWrites ==
  ASSUME NEW s, NEW refusal, TurnOK(s)
  PROVE  Writes(s, RefusalEvents(s, refusal))
<1> DEFINE s1 == ReasoningFinalize(s)
           s2 == FlushOpenTextPart(s1)
<1>1. RefusalEvents(s, refusal) = IF refusal = <<>> THEN s ELSE PushRefusalPart(s2, refusal)
  BY DEF RefusalEvents
<1>2. Writes(s, s1) /\ TurnOK(s1)
  BY ReasoningFinalizeWrites, WritesOK
<1> HIDE DEF s1
<1>3. Writes(s1, s2) /\ TurnOK(s2)
  BY <1>2, FlushOpenTextPartWrites, WritesOK
<1> HIDE DEF s2
<1>4. Writes(s2, PushRefusalPart(s2, refusal))
  BY <1>3, PushRefusalPartWrites
<1>5. Writes(s, s2)
  BY <1>2, <1>3, WritesTransitive
<1>6. Writes(s, PushRefusalPart(s2, refusal))
  BY <1>4, <1>5, WritesTransitive
<1> QED BY <1>1, <1>6, WritesReflexive

(* What process_chat_chunk does once it has started the turn.                *)
Processed(s, c) ==
  LET reasoning == ReasoningField(c)
      s2 == IF reasoning = <<>> THEN s ELSE ReasoningPushDelta(s, reasoning)
      s3 == ContentEvents(AddAnnotations(s2, c.anns), c.content, reasoning)
      s4 == IF c.calls = <<>> THEN s3 ELSE ToolCallEvents(s3, c.calls, reasoning)
  IN  RefusalEvents(s4, c.refusal)

(* Everything a chunk without an error says. *)
LEMMA ProcessedAdvances ==
  ASSUME NEW s, NEW c \in ChunkSet(Seq(CallSet)), TurnOK(s)
  PROVE  Advances(s, Processed(s, c))
<1> DEFINE reasoning == ReasoningField(c)
           s2 == IF reasoning = <<>> THEN s ELSE ReasoningPushDelta(s, reasoning)
           a  == AddAnnotations(s2, c.anns)
           s3 == ContentEvents(a, c.content, reasoning)
           s4 == IF c.calls = <<>> THEN s3 ELSE ToolCallEvents(s3, c.calls, reasoning)
           s5 == RefusalEvents(s4, c.refusal)
<1>1. Processed(s, c) = s5
  BY DEF Processed
<1>2. c.content \in ContentSet /\ c.calls \in Seq(CallSet)
  BY DEF ChunkSet
<1>3. Advances(s, s2) /\ TurnOK(s2)
  BY ReasoningPushDeltaWrites, WritesReflexive, WritesAdvance, WritesOK
<1> HIDE DEF s2, reasoning
<1>4. Advances(s2, a) /\ TurnOK(a)
  BY <1>3, AddAnnotationsWrites, WritesAdvance, WritesOK
<1> HIDE DEF a
<1>5. Advances(a, s3) /\ TurnOK(s3)
  BY <1>2, <1>4, ContentEventsWrites, WritesAdvance, WritesOK
<1> HIDE DEF s3
<1>6. Advances(s3, s4) /\ TurnOK(s4)
  BY <1>2, <1>5, ToolCallEventsAdvances, AdvancesReflexive, AdvancesOK
<1> HIDE DEF s4
<1>7. Advances(s4, s5)
  BY <1>6, RefusalEventsWrites, WritesAdvance
<1> HIDE DEF s5
<1>8. Advances(s, a)
  BY <1>3, <1>4, AdvancesTransitive
<1>9. Advances(s, s3)
  BY <1>5, <1>8, AdvancesTransitive
<1>10. Advances(s, s4)
  BY <1>6, <1>9, AdvancesTransitive
<1> QED BY <1>1, <1>7, <1>10, AdvancesTransitive

-----------------------------------------------------------------------------
(* The output of a terminal event. *)

(* How many numbers an interval has. *)
LEMMA Intervals ==
  ASSUME NEW n \in Nat
  PROVE  /\ IsFiniteSet(1..n) /\ Cardinality(1..n) = n
         /\ IsFiniteSet(0..(n - 1)) /\ Cardinality(0..(n - 1)) = n
<1>1. \A a, b \in Int : /\ IsFiniteSet(a..b)
                         /\ Cardinality(a..b) = IF a > b THEN 0 ELSE (b - a) + 1
  BY FS_Interval, Zenon
<1>2. 0 \in Int /\ 1 \in Int /\ n \in Int /\ n - 1 \in Int
  OBVIOUS
<1>3. IsFiniteSet(1..n) /\ Cardinality(1..n) = IF 1 > n THEN 0 ELSE (n - 1) + 1
  BY <1>1, <1>2, Zenon
<1>4. /\ IsFiniteSet(0..(n - 1))
      /\ Cardinality(0..(n - 1)) = IF 0 > n - 1 THEN 0 ELSE ((n - 1) - 0) + 1
  BY <1>1, <1>2, Zenon
<1> QED BY <1>3, <1>4

(* Of two items one is sorted before the other, and has the lower rank.      *)
LEMMA RankIncreases ==
  ASSUME NEW items, IsSeq(items), \A k \in DOMAIN items : items[k].index \in Nat,
         NEW i \in DOMAIN items, NEW j \in DOMAIN items, Precedes(items, i, j)
  PROVE  Rank(items, i) < Rank(items, j)
<1> DEFINE A == {k \in DOMAIN items : Precedes(items, k, i)}
           B == {k \in DOMAIN items : Precedes(items, k, j)}
<1>1. DOMAIN items = 1..Len(items) /\ Len(items) \in Nat
  BY SeqFacts
<1>2. IsFiniteSet(B)
  <2>1. IsFiniteSet(DOMAIN items)
    BY <1>1, Intervals
  <2> QED BY <2>1, FS_Subset
<1>3. A \subseteq B /\ i \in B /\ i \notin A
  BY <1>1 DEF Precedes
<1>4. Cardinality(A) <= Cardinality(B) /\ Cardinality(A) # Cardinality(B)
  BY <1>2, <1>3, FS_Subset
<1>5. Cardinality(A) \in Nat /\ Cardinality(B) \in Nat
  BY <1>2, <1>3, FS_Subset, FS_CardinalityType
<1> QED BY <1>4, <1>5 DEF Rank

(* An item has fewer items before it than there are. *)
LEMMA RankBounded ==
  ASSUME NEW items, IsSeq(items), NEW i \in DOMAIN items, \A k \in DOMAIN items : items[k].index \in Nat
  PROVE  Rank(items, i) \in 0..(Len(items) - 1)
<1> DEFINE A == {k \in DOMAIN items : Precedes(items, k, i)}
           B == DOMAIN items \ {i}
<1>1. DOMAIN items = 1..Len(items) /\ Len(items) \in Nat
  BY SeqFacts
<1>2. IsFiniteSet(DOMAIN items) /\ Cardinality(DOMAIN items) = Len(items)
  BY <1>1, Intervals
<1>3. IsFiniteSet(B) /\ Cardinality(B) = Len(items) - 1
  BY <1>2, FS_RemoveElement
<1>4. A \subseteq B
  BY <1>1 DEF Precedes
<1>5. Cardinality(A) <= Cardinality(B) /\ Cardinality(A) \in Nat
  BY <1>3, <1>4, FS_Subset, FS_CardinalityType
<1> QED BY <1>1, <1>3, <1>5 DEF Rank

(* Every position of the output is some item's rank.                         *)
LEMMA RankReached ==
  ASSUME NEW items, IsSeq(items), \A k \in DOMAIN items : items[k].index \in Nat,
         NEW m \in 0..(Len(items) - 1)
  PROVE  \E i \in DOMAIN items : Rank(items, i) = m
<1> SUFFICES ASSUME \A i \in DOMAIN items : Rank(items, i) # m PROVE FALSE
  OBVIOUS
<1> DEFINE S == DOMAIN items
           T == (0..(Len(items) - 1)) \ {m}
           f == [i \in S |-> Rank(items, i)]
<1>1. S = 1..Len(items) /\ Len(items) \in Nat
  BY SeqFacts
<1>2. IsFiniteSet(S) /\ Cardinality(S) = Len(items)
  BY <1>1, Intervals
<1>3. IsFiniteSet(0..(Len(items) - 1)) /\ Cardinality(0..(Len(items) - 1)) = Len(items)
  BY <1>1, Intervals
<1>4. IsFiniteSet(T) /\ Cardinality(T) = Len(items) - 1
  BY <1>3, FS_RemoveElement
<1>5. f \in [S -> T]
  BY RankBounded
<1>6. Cardinality(T) < Cardinality(S)
  BY <1>1, <1>2, <1>4
<1> HIDE DEF T, f
<1>7. PICK x, y \in S : x # y /\ f[x] = f[y]
  BY <1>2, <1>4, <1>5, <1>6, FS_PigeonHole
<1>8. Rank(items, x) = Rank(items, y)
  BY <1>7 DEF f
<1>9. Precedes(items, x, y) \/ Precedes(items, y, x)
  BY <1>1, <1>7 DEF Precedes
<1>10. Rank(items, x) \in Int /\ Rank(items, y) \in Int
  BY RankBounded
<1> QED BY <1>8, <1>9, <1>10, RankIncreases

(* The output is made of the completed items and of nothing else.            *)
LEMMA OutputFromItems ==
  ASSUME NEW env, EnvOK(env), NEW k \in DOMAIN CompletedOutputItems(env)
  PROVE  \E i \in DOMAIN env.items : CompletedOutputItems(env)[k] = env.items[i].item
<1> DEFINE i == CHOOSE j \in DOMAIN env.items : Rank(env.items, j) = k - 1
<1>1. k \in DOMAIN env.items
  BY DEF CompletedOutputItems
<1>2. IsSeq(env.items) /\ \A j \in DOMAIN env.items : env.items[j].index \in Nat
  BY DEF EnvOK
<1>3. DOMAIN env.items = 1..Len(env.items) /\ Len(env.items) \in Nat
  BY <1>2, SeqFacts
<1>4. k - 1 \in 0..(Len(env.items) - 1)
  BY <1>1, <1>3
<1>5. \E j \in DOMAIN env.items : Rank(env.items, j) = k - 1
  BY <1>2, <1>4, RankReached
<1>6. i \in DOMAIN env.items
  BY <1>5
<1> QED BY <1>1, <1>6 DEF CompletedOutputItems
=============================================================================
