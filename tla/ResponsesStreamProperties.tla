--------------------- MODULE ResponsesStreamProperties ----------------------
(***************************************************************************)
(* What one turn promises its client and the session store.  The client of *)
(* a streamed turn sees only st.out, an event sequence in which each output *)
(* item is addressed by its id; fed is what the upstream sent, or what its *)
(* body was turned into.                                                   *)
(***************************************************************************)
EXTENDS CreateResponse

Concat(seqs) == FlattenSeq(seqs)

Log(id) == SelectSeq(st.out, LAMBDA e : e.item = id)

Named(log, name) == SelectSeq(log, LAMBDA e : e.ev = name)

(* The text that the deltas of a part of an item carry, in order.           *)
HearNext(x, text, k) ==
  IF x.out[k].item = x.id /\ x.out[k].ev = "delta" /\ x.out[k].part = x.part
  THEN text \o x.out[k].text ELSE text

Hearing == INSTANCE Iteration WITH Step <- HearNext

Heard(out, id, part) ==
  Hearing!Iterate([out |-> out, id |-> id, part |-> part], <<>>, Len(out))

(* The text a client reassembles from the deltas of a part. *)
Reassembled(id, part) == Heard(st.out, id, part)

ItemIds == {st.out[k].item : k \in DOMAIN st.out} \ {<<>>}

TerminalAt == {k \in DOMAIN st.out : st.out[k].ev \in {"completed", "failed"}}

(* The terminal event, when there is one. *)
Verdict == st.out[CHOOSE k \in TerminalAt : TRUE]

IsTerminator(m) == m = Done \/ m.error

(* Position of the message that ends a turn, 0 when none does. *)
EndIn(messages) ==
  LET at == {k \in DOMAIN messages : IsTerminator(messages[k])}
  IN  IF at = {} THEN 0 ELSE CHOOSE k \in at : \A j \in at : k <= j

EndPosition == EndIn(fed)

(* The upstream was silent after it ended the turn. *)
NothingAfterEnd == EndPosition \in {0, Len(fed)}

Calls == st.tools.calls

-----------------------------------------------------------------------------
(* Every sub-state keeps to its declared values (the state structs of       *)
(* stream_envelope, stream_reasoning, stream_message, stream_inline_think   *)
(* and stream_tools).                                                       *)
TypeOK ==
  /\ DOMAIN st = DOMAIN NewTurn
  /\ st.env.started \in BOOLEAN /\ st.env.completed \in BOOLEAN
  /\ st.env.status \in Statuses
  /\ st.env.next \in Nat
  /\ st.reasoning.life \in Lifecycle /\ st.reasoning.index \in Nat
  /\ st.message.life \in Lifecycle /\ st.message.index \in Nat
  /\ st.think.phase \in Phases
  /\ st.tools.finalized \in BOOLEAN
  /\ st.tools.base \in Nat \cup {NoIndex}
  /\ DOMAIN Calls \subseteq Nat
  /\ \A i \in DOMAIN Calls : /\ DOMAIN Calls[i] = DOMAIN NewCall
                             /\ Calls[i].output \in Nat \cup {NoIndex}
                             /\ Calls[i].added \in BOOLEAN
                             /\ Calls[i].done \in BOOLEAN
                             /\ Calls[i].buffered \in BOOLEAN
  /\ phase \in {"reading", "ended", "closed", "dropped", "answered"}

(* The client sees created and in_progress first and once each, before any  *)
(* item, and one terminal event at most: ensure_started, finalize and fail  *)
(* are reached from every handler and from each other.                      *)
LifecycleProtocol ==
  /\ st.out # <<>> => /\ st.out[1].ev = "created"
                      /\ st.out[2].ev = "in_progress"
  /\ \A k \in 3..Len(st.out) : st.out[k].ev \notin {"created", "in_progress"}
  /\ Cardinality(TerminalAt) = IF st.env.completed THEN 1 ELSE 0
  /\ phase \in {"ended", "closed"} => st.env.completed

(* The upstream gave two calls that have been opened two item ids. *)
ItemsDistinct ==
  \A i, j \in DOMAIN Calls :
    Calls[i].added /\ Calls[j].added /\ Calls[i].item = Calls[j].item => i = j

(* An item is added before anything is said of it, added once, and nothing  *)
(* is said of it after its done event: across all the ways an item can be   *)
(* opened (a delta, a late identity, a resolved or degraded namespace       *)
(* buffer, a flush at the end of the stream).  Only items that have an id:  *)
(* an index that never got one is outside, see the README; and an upstream  *)
(* that gives one id to two calls makes one item of them.                   *)
ItemProtocol ==
  ItemsDistinct =>
    \A k \in DOMAIN st.out :
      LET before == {j \in 1..(k - 1) : st.out[j].item = st.out[k].item}
      IN  st.out[k].item # <<>> => /\ st.out[k].ev = "added" <=> before = {}
                                  /\ \A j \in before : st.out[j].ev # "done"

(* The terminal event finds no item open: the step that completes the turn  *)
(* (finalize, fail) closes all that was opened before or by it, and the     *)
(* terminal event is the last one it emits.                                 *)
AllClosedAtTerminal ==
  [][~st.env.completed /\ st'.env.completed =>
       /\ st'.out[Len(st'.out)].ev \in {"completed", "failed"}
       /\ \A id \in {st'.out[k].item : k \in DOMAIN st'.out} \ {<<>>} :
            \E k \in DOMAIN st'.out : st'.out[k].item = id /\ st'.out[k].ev = "done"
    ]_turnVars

(* The reasoning item closes with the text its deltas carried: said by the  *)
(* end of its summary part, and again by the end of the item.              *)
ReasoningReassembles ==
  \A k \in DOMAIN st.out : st.out[k].item = ReasoningId =>
    /\ st.out[k].ev = "text_done" => st.out[k].text = Reassembled(ReasoningId, 1)
    /\ st.out[k].ev = "done" =>
         /\ st.out[k].body.text = Reassembled(ReasoningId, 1)
         /\ \E j \in 1..(k - 1) : st.out[j].item = ReasoningId /\ st.out[j].ev = "text_done"

(* Where a log speaks of the message's part k. *)
PartAt(out, k) ==
  {j \in DOMAIN out : /\ out[j].item = MessageId /\ out[j].ev \notin {"added", "done"}
                      /\ out[j].part = k}

(* What a log must have said of part k, when seg is what the part holds:    *)
(* part_added first, part_done last and only of a closed part, with all of  *)
(* it; and for a text, between them the deltas that make it up, then its    *)
(* text_done.                                                              *)
PartTold(out, k, seg) ==
  LET at == PartAt(out, k)
  IN  /\ \E j \in at : out[j].ev = "part_added"
      /\ seg.closed <=> \E j \in at : out[j].ev = "part_done"
      /\ \A j \in at :
           /\ out[j].ev \in {"part_added", "delta", "text_done", "part_done"}
           /\ out[j].ev = "part_added" <=> \A i \in at : j <= i
           /\ out[j].ev = "part_done" => /\ out[j].text = seg.text /\ out[j].anns = seg.anns
                                         /\ \A i \in at : i <= j
      /\ seg.kind = "text" =>
           /\ Heard(out, MessageId, k) = seg.text
           /\ \A j \in at :
                /\ out[j].ev = "text_done" =>
                     /\ seg.closed /\ out[j].text = seg.text
                     /\ \A i \in at : i > j => out[i].ev = "part_done"
                /\ out[j].ev = "part_done" =>
                     \E i \in at : i < j /\ out[i].ev = "text_done"

(* Each content part of the message opens once, takes deltas only while it  *)
(* is open and closes with exactly the text its deltas carried and the      *)
(* annotations it was given, whatever mix of strings, part arrays, refusals *)
(* and held-back tags produced it; the message closes over all its parts,   *)
(* all closed; and the reasoning summary a client reassembles is the one    *)
(* its item closes with.                                                   *)
PartProtocol ==
  /\ ReasoningReassembles
  /\ \A k \in DOMAIN st.message.segments : PartTold(st.out, k, st.message.segments[k])
  /\ \A k \in DOMAIN st.out : st.out[k].item = MessageId /\ st.out[k].ev = "done" =>
       /\ st.out[k].body.parts = ContentParts(st.message)
       /\ \A j \in DOMAIN st.message.segments : st.message.segments[j].closed

-----------------------------------------------------------------------------
(* All content strings, and what they mean when no chunk boundary is        *)
(* considered: split_inline_think's reading of a leading think block.       *)
ContentFed == Concat([k \in DOMAIN fed |-> fed[k].content.text])

OnlyStrings ==
  \A k \in DOMAIN fed :
    [fed[k] EXCEPT !.content = EmptyChunk.content, !.finish = ""] = EmptyChunk
    /\ fed[k].content.parts = <<>>

WholeThink(content) ==
  LET lead  == TrimStart(content)
      inner == SubSeq(lead, 3, Len(lead))
      close == FindThinkClose(inner)
  IN  IF ~MatchThinkOpenAtStart(lead)
      THEN [reasoning |-> <<>>, text |-> content]
      ELSE IF close = 0 THEN [reasoning |-> inner, text |-> <<>>]
      ELSE [reasoning |-> SubSeq(inner, 1, close - 1),
            text |-> SubSeq(inner, close + 2, Len(inner))]

MessageText(m) ==
  Concat([k \in DOMAIN m.segments |->
            IF m.segments[k].kind = "text" THEN m.segments[k].text ELSE <<>>])

(* The first chunk that says anything is nothing but blanks. *)
BlankFirst ==
  \E k \in DOMAIN fed :
    /\ fed[k].content.text # <<>> /\ Blank(fed[k].content.text)
    /\ \A j \in 1..(k - 1) : fed[j].content.text = <<>>

(* What the client is to make of the content: the one cut that matters is   *)
(* that of the leading blanks.  A first chunk of them alone is no beginning *)
(* of a tag (could_be_partial_think_open), and all is text from there on.   *)
ThinkRead ==
  IF BlankFirst THEN [reasoning |-> <<>>, text |-> ContentFed] ELSE WholeThink(ContentFed)

(* However the upstream cuts its content into chunks, but for a first chunk *)
(* of blanks alone, the client gets the same reasoning and the same text: a *)
(* tag split across chunks is found, a tag that never completes is          *)
(* delivered as what it is, and nothing held back is lost; and after such a *)
(* first chunk it gets the content as it came (route_detecting_delta,       *)
(* route_reasoning_delta and flush_on_finalize against the whole).          *)
ThinkSplitFaithful ==
  st.env.completed /\ OnlyStrings /\ NothingAfterEnd =>
    /\ st.reasoning.text = ThinkRead.reasoning
    /\ MessageText(st.message) = ThinkRead.text

(* A chunk's visible content as the sequence of kinded texts it carries. *)
Visible(c) ==
  CASE c.content.form = "text"  -> <<[kind |-> "text", text |-> c.content.text]>>
    [] c.content.form = "parts" -> [k \in DOMAIN c.content.parts |->
         [kind |-> c.content.parts[k].kind, text |-> c.content.parts[k].text]]
    [] OTHER -> <<>>

Tokens(kinded) ==
  Concat([k \in DOMAIN kinded |->
            [j \in DOMAIN kinded[k].text |-> <<kinded[k].kind, kinded[k].text[j]>>]])

NoTags == \A k \in DOMAIN ContentFed : ContentFed[k] \notin {"o", "p", "c", "d"}

(* Without think tags the message is exactly what the upstream said, token  *)
(* by token and in order, over strings, part arrays and refusals, with or   *)
(* without a reasoning field beside them.                                   *)
VisibleFaithful ==
  st.env.completed /\ NoTags /\ NothingAfterEnd =>
    Tokens(ContentParts(st.message)) =
      Tokens(Concat([k \in DOMAIN fed |->
               Visible(fed[k]) \o
               <<[kind |-> "refusal", text |-> fed[k].refusal]>>]))

(* No annotation is lost, duplicated or reordered on its way to a part: it  *)
(* joins the open text part or waits for the next one.                      *)
AnnotationsConserved ==
  LET m == st.message
      onParts == Concat([k \in DOMAIN m.segments |-> m.segments[k].anns])
      sent(c) == c.anns \o Concat([k \in DOMAIN c.content.parts |->
                                     c.content.parts[k].anns])
  IN  ~st.env.completed =>
        onParts \o m.pending = Concat([k \in DOMAIN fed |-> sent(fed[k])])

-----------------------------------------------------------------------------
(* Output indices, over every item that claimed one. *)
Claimed ==
  {[id |-> ReasoningId, index |-> st.reasoning.index] :
      k \in {1} \ {k \in {1} : st.reasoning.life = "not_started"}} \cup
  {[id |-> MessageId, index |-> st.message.index] :
      k \in {1} \ {k \in {1} : st.message.life = "not_started"}} \cup
  {[id |-> <<"call", i>>, index |-> Calls[i].output] :
      i \in {j \in DOMAIN Calls : Calls[j].output # NoIndex}}

(* No two items of one response share an output index.                      *)
OutputIndexUnique ==
  \A a, b \in Claimed : a.index = b.index => a = b

(* Text or reasoning that opened after the first tool call claimed its base *)
LateItem ==
  /\ st.tools.base # NoIndex
  /\ \/ st.reasoning.life # "not_started" /\ st.reasoning.index > st.tools.base
     \/ st.message.life # "not_started" /\ st.message.index > st.tools.base

Contiguous == DOMAIN Calls = 0..(Cardinality(DOMAIN Calls) - 1)

AllIdentified == \A i \in DOMAIN Calls : HasIdentity(Calls[i])

(* For a turn whose tool calls come last and are numbered from 0, an item's *)
(* output_index is its position in the final response.output: a client may  *)
(* fill the array from the events alone.                                    *)
OutputIndexIsPosition ==
  st.env.completed /\ NothingAfterEnd /\ Contiguous /\ AllIdentified /\ ~LateItem =>
    LET output == Verdict.output
        dones  == Named(st.out, "done")
    IN  /\ Len(output) = Len(dones)
        /\ \A k \in DOMAIN dones : output[dones[k].index + 1] = dones[k].body

(* A fragment that gives call i an id or a name. *)
NamesCall(d, i) == d.index = i /\ (d.id # <<>> \/ d.name # "")

(* Where the first n messages give call i an id or a name. *)
NamedAt(messages, n, i) ==
  UNION {{<<k, j>> : j \in {j \in DOMAIN messages[k].calls : NamesCall(messages[k].calls[j], i)}} :
           k \in 1..n}

(* They do so once, in one fragment, which need not be the first.           *)
GivenOnce(messages, n, i) ==
  \A p \in NamedAt(messages, n, i) :
    LET d == messages[p[1]].calls[p[2]]
    IN  /\ d.id # <<>> /\ d.name # ""
        /\ \A q \in NamedAt(messages, n, i) : p = q

(* The upstream gives the call its id and its name once, and no two calls   *)
(* the same id.                                                             *)
NamedOnce(i) == ItemsDistinct /\ GivenOnce(fed, Len(fed), i)

(* While a function call is open, the argument deltas sent so far are       *)
(* exactly the arguments received so far: nothing buffered before the       *)
(* identity or the action is skipped or sent twice (push_delta).            *)
ArgumentsMirrored ==
  \A i \in DOMAIN Calls :
    (/\ Calls[i].added /\ ~Calls[i].done /\ NamedOnce(i)
     /\ ResolveToolKind(Calls[i].name) # "custom") =>
      Reassembled(Calls[i].item, 1) = Calls[i].args

(* The deltas of a completed call reassemble to the arguments it closes     *)
(* with, as the comment in push_delta promises.                             *)
DeltasConverge ==
  \A i \in DOMAIN Calls :
    Calls[i].done /\ Calls[i].added =>
      Reassembled(Calls[i].item, 1) =
        Named(Log(Calls[i].item), "text_done")[1].text

(* The texts that the item is said to have when it ends. *)
EndTexts(out, id) ==
  {out[k].text : k \in {k \in DOMAIN out : out[k].item = id /\ out[k].ev = "text_done"}}

(* A custom tool's input is decoded incrementally from partial JSON; once   *)
(* the JSON is whole the decoded deltas are the input, none missing or      *)
(* repeated, even if the identity came late. (A namespace call that         *)
(* overflowed its buffer sends what it has raw, whatever it degraded to.)   *)
CustomInputExact ==
  \A i \in DOMAIN Calls :
    (/\ Calls[i].done /\ Calls[i].added /\ NamedOnce(i) /\ ~Calls[i].resolved
     /\ ResolveToolKind(Calls[i].name) = "custom" /\ IsInputObject(Calls[i].args)) =>
         /\ Reassembled(Calls[i].item, 1) = CustomInput(Calls[i].args)
         /\ EndTexts(st.out, Calls[i].item) = {CustomInput(Calls[i].args)}

(* What an item of a tool call is known by. *)
Title(item) == <<item.type, item.call, item.name, item.ns>>

(* An item is closed under the type, call id, name and namespace it was     *)
(* opened with, also when it is a namespace call whose action was found in  *)
(* the arguments, or never found.                                           *)
IdentityStable ==
  \A i \in DOMAIN Calls :
    Calls[i].done /\ Calls[i].added /\ NamedOnce(i) =>
      \A j, k \in DOMAIN st.out :
        /\ st.out[j].item = Calls[i].item /\ st.out[j].ev = "added"
        /\ st.out[k].item = Calls[i].item /\ st.out[k].ev = "done"
        => Title(st.out[j].body) = Title(st.out[k].body)

-----------------------------------------------------------------------------
(* The chunks of a turn proper, before the message that ended it. *)
TurnChunks(messages) ==
  SubSeq(messages, 1,
         IF EndIn(messages) = 0 THEN Len(messages) ELSE EndIn(messages) - 1)

FinishReasons(chunks) == {chunks[k].finish : k \in DOMAIN chunks} \ {""}

LastFinish(chunks) ==
  CHOOSE f \in FinishReasons(chunks) :
    \E k \in DOMAIN chunks :
      /\ chunks[k].finish = f
      /\ \A j \in (k + 1)..Len(chunks) : chunks[j].finish = ""

(* What "a partial or invalid turn must not be saved" means of the stream   *)
(* itself: no error ended it, and it either named a finish reason that is   *)
(* not a cut-off or was ended by [DONE] with something to show.             *)
WorthSaving(messages, output) ==
  LET chunks == TurnChunks(messages)
      end    == EndIn(messages)
  IN  /\ end # 0 => ~messages[end].error
      /\ IF FinishReasons(chunks) # {}
         THEN LastFinish(chunks) \notin {"length", "content_filter"}
         ELSE end # 0 /\ output # <<>>

(* A turn that ran to its end is saved exactly when it is worth saving: a   *)
(* truncated, failed or cut-off stream never becomes a session, and a clean *)
(* one whose gateway omitted the finish reason does.                        *)
SavedIffWorthSaving ==
  phase = "closed" => (saved # NotSaved <=> WorthSaving(fed, Verdict.output))

(* A saved content read back: each token with the kind of its line, which   *)
(* is a refusal when it begins with the label.                              *)
ReadBack(content) ==
  LET start(j)  == Max({k \in 1..j : k = 1 \/ content[k - 1] = NewLine})
      kind(j)   == IF content[start(j)] = RefusalLabel THEN "refusal" ELSE "text"
      kinded    == [j \in DOMAIN content |-> <<kind(j), content[j]>>]
  IN  SelectSeq(kinded, LAMBDA t : t[2] \notin {NewLine, RefusalLabel})

LineCount(content) ==
  IF content = <<>> THEN 0 ELSE 1 + Cardinality({j \in DOMAIN content : content[j] = NewLine})

(* What is saved tells the next turn's upstream what the client was shown:  *)
(* the content, read back line by line, is the message's parts, a line for  *)
(* each and each word with its kind (the annotations are not kept); and the *)
(* calls are the tool calls of the response, in its order and with its      *)
(* arguments (build_assistant_message).                                     *)
SavedMatchesOutput ==
  phase = "closed" /\ saved # NotSaved /\ NothingAfterEnd /\ AllIdentified =>
    LET output   == Verdict.output
        messages == SelectSeq(output, LAMBDA it : it.type = "message")
        tools    == SelectSeq(output, LAMBDA it :
                                it.type \in {"function", "custom", "search"})
        shown(args, type) == CASE type = "custom" -> {CustomInput(args)}
                               [] type = "search" -> {args, <<"query">> \o args}
                               [] OTHER           -> {args}
        parts == IF messages = <<>> THEN <<>> ELSE messages[1].parts
    IN  /\ ReadBack(saved.content) = Tokens(parts)
        /\ LineCount(saved.content) = Len(parts)
        /\ Len(saved.calls) = Len(tools)
        /\ \A k \in DOMAIN tools :
             /\ saved.calls[k].id = tools[k].call
             /\ tools[k].args \in shown(Canonical(saved.calls[k].args), tools[k].type)

(* Once the terminal event is out, the turn's verdict stands: whatever the  *)
(* upstream still sends, the status stays and no event touches an item of   *)
(* the response the client was given.                                       *)
VerdictStands ==
  [][st.env.completed =>
       /\ st'.env.completed
       /\ st'.env.status = st.env.status
       /\ \A k \in (Len(st.out) + 1)..Len(st'.out) :
            /\ st'.out[k].ev \notin {"completed", "failed"}
            /\ \A j \in DOMAIN Verdict.output :
                 Verdict.output[j].id # st'.out[k].item]_turnVars

-----------------------------------------------------------------------------
(* Where the two renderings of a body are known to differ, see the README:  *)
(* think tags that do not open the content, or stand beside a reasoning     *)
(* field or tool calls; annotations of a message with two texts, or given   *)
(* twice; a refusal that is all there is beside calls; a body without a     *)
(* model, or with nothing in it and no finish reason; calls without an id   *)
(* or a name.                                                               *)
ThinkIsPlain(m) ==
  LET text == TrimStart(m.content.text)
      rest == SubSeq(text, 3, Len(text))
  IN  \/ \A k \in DOMAIN text : text[k] \notin {"o", "p", "c", "d"}
      \/ /\ MatchThinkOpenAtStart(text) /\ ThinkOpens(rest) = {}
         /\ ~Blank(SplitInlineThink(text).reasoning)
         /\ ReasoningField(m) = <<>> /\ m.calls = <<>>

Comparable(b) ==
  LET m == Choice(b)
      texts == SelectSeq(m.content.parts, LAMBDA p : p.kind = "text" /\ p.text # <<>>)
  IN  /\ Len(b.choices) = 1 /\ b.model # "" /\ ThinkIsPlain(m)
      /\ m.anns # <<>> => /\ Len(texts) <= 1
                          /\ \A k \in DOMAIN texts : ToSet(texts[k].anns) \cap ToSet(m.anns) = {}
      /\ \A k \in DOMAIN m.calls : m.calls[k].id # <<>> /\ m.calls[k].name # ""
      /\ m.calls # <<>> /\ m.refusal # <<>> =>
           MessageContentParts([m EXCEPT !.refusal = <<>>]) # <<>>
      /\ m.finish # "" \/ OutputItems(m) # <<>>

(* A call of a name nobody declared, with its registered namespace split    *)
(* off, as the stream has it and the object has not.                        *)
Split(item) ==
  IF item.ns = "" /\ item.name \in DOMAIN Undeclared
  THEN [item EXCEPT !.ns = Undeclared[item.name].ns, !.name = Undeclared[item.name].name]
  ELSE item

(* An item up to the whitespace around what inline think tags leave, and up *)
(* to the split of a name nobody declared.                                  *)
Tidy(item) ==
  CASE item.type = "reasoning" -> [item EXCEPT !.text = Trim(@)]
    [] item.type = "message"   ->
         [item EXCEPT !.parts = SelectSeq([k \in DOMAIN @ |-> [@[k] EXCEPT !.text = Trim(@)]],
                                          LAMBDA p : p.text # <<>>)]
    [] OTHER -> [Split(item) EXCEPT !.reasoning = Trim(@)]

TidyOutput(output) ==
  SelectSeq([k \in DOMAIN output |-> Tidy(output[k])],
            LAMBDA it : it.type = "message" => it.parts # <<>>)

(* A turn that upstream answers in full is the same turn whether the client *)
(* asked for one object or for a stream: the same items in the same order   *)
(* with the same ids, the same status and usage, but that a call of a name  *)
(* nobody declared under a registered namespace keeps that name whole in    *)
(* the object and is split in the stream; and it is saved exactly           *)
(* when that status is worth continuing and there is something in it        *)
(* (chat_to_responses and assistant_message_from_chat_body against          *)
(* chat_message_to_fake_delta and the stream's state machine).              *)
BufferedAgrees ==
  phase = "answered" /\ Comparable(body) =>
    LET json  == ChatToResponses(body)
        burst == st.out[Len(st.out)]
    IN  /\ fed # <<>> =>
             /\ <<json.status, json.model, json.usage>> = <<burst.status, burst.model, burst.usage>>
             /\ TidyOutput(json.output) = TidyOutput(burst.output)
        /\ json.output # <<>> =>
             (saved # NotSaved <=> json.status \in {"completed", "in_progress"})
        /\ saved # NotSaved =>
             \A k \in DOMAIN saved.calls :
               \E j \in DOMAIN json.output : /\ json.output[j].type \notin {"message", "reasoning"}
                                             /\ json.output[j].call = saved.calls[k].id
=============================================================================
