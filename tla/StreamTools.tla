---------------------------- MODULE StreamTools -----------------------------
(***************************************************************************)
(* The tool calls of a streamed turn (stream_tools.rs), keyed by the index *)
(* the upstream gives each call.                                           *)
(*                                                                         *)
(* Arguments are sequences of fragments of a JSON text: "act", "bad" and   *)
(* "l" are the opening half of an object with a known action selector, an  *)
(* unknown one and none; "r" is the closing half; "_" is whitespace        *)
(* outside strings; "i" and "q" open and close {"input":"..."} around the  *)
(* plain fragments of a custom tool's input.  Ids are sequences so that a  *)
(* synthetic one is distinct from all the upstream's: <<>> is "no id yet". *)
(***************************************************************************)
EXTENDS StreamInlineThink

CONSTANTS
  ToolContext,  \* chat name -> [kind, ns, name]: the request's tool registry
  Undeclared,   \* chat name nobody declared that splits at its last "__" into a
                \* registered namespace and a name -> [ns, name]
  ActionName,   \* the action that the selector "act" names
  BufferMax     \* NAMESPACE_BUFFER_MAX_BYTES, in fragments

(* A tool is registered under a name, and has one itself. *)
ASSUME ToolsAssumption ==
  /\ \A chat \in DOMAIN ToolContext : chat # "" /\ ToolContext[chat].name # ""
  /\ DOMAIN Undeclared \cap DOMAIN ToolContext = {}

NoIndex == -1

NewCall ==
  [output |-> NoIndex, item |-> <<>>, id |-> <<>>, name |-> "", ns |-> "",
   args |-> <<>>, added |-> FALSE, done |-> FALSE, reasoning |-> <<>>,
   emitted |-> <<>>, input |-> <<>>, buffered |-> FALSE, resolved |-> FALSE]

NewTools == [calls |-> <<>>, base |-> NoIndex, finalized |-> FALSE]

(* lookup_chat_name: what the request declared under a chat name. *)
Spec_(name) ==
  IF name \in DOMAIN ToolContext THEN ToolContext[name]
  ELSE [kind |-> "function", ns |-> "", name |-> name]

(* restore_namespace_and_name *)
RestoreNamespaceAndName(name) ==
  IF name \in DOMAIN Undeclared THEN Undeclared[name]
  ELSE [ns |-> Spec_(name).ns, name |-> Spec_(name).name]

(* A nested namespace is presented to the client as a function call. *)
ResolveToolKind(name) ==
  IF Spec_(name).kind \in {"custom", "search"} THEN Spec_(name).kind
  ELSE "function"

IsNested(name) == Spec_(name).kind = "nested"

BlankArgs(args) == \A k \in DOMAIN args : args[k] = "_"

IsObject(args) ==
  \E o, e \in DOMAIN args :
    /\ o < e /\ args[o] \in {"act", "bad", "l"} /\ args[e] = "r"
    /\ \A k \in DOMAIN args \ {o, e} : args[k] = "_"

IsInputObject(args) ==
  /\ Len(args) >= 2 /\ args[1] = "i" /\ args[Len(args)] = "q"
  /\ \A k \in 2..(Len(args) - 1) : args[k] # "q"

Squeeze(args) == SelectSeq(args, LAMBDA x : x # "_")

(* canonicalize_tool_arguments *)
Canonical(args) ==
  IF BlankArgs(args) THEN <<"{}">>
  ELSE IF IsObject(args) THEN Squeeze(args) ELSE args

(* resolve_nested_namespace_arguments: the selector is removed whether or   *)
(* not it names a known action.                                            *)
ActionOf(args) ==
  IF IsObject(args) /\ (\E k \in DOMAIN args : args[k] = "act") THEN ActionName ELSE ""

NestedArguments(args) == IF IsObject(args) THEN <<"l", "r">> ELSE args

(* custom_tool_input_from_chat_arguments, on canonical arguments *)
CustomInput(args) ==
  IF IsInputObject(args) THEN SubSeq(args, 2, Len(args) - 1) ELSE args

(* partial_custom_tool_input_from_chat_arguments; <<>> is both None and "". *)
PartialCustomInput(args) ==
  IF args = <<>> \/ args[1] # "i" THEN <<>>
  ELSE LET quotes == {k \in DOMAIN args : args[k] = "q"}
           end == IF quotes = {} THEN Len(args) + 1
                  ELSE CHOOSE k \in quotes : \A j \in quotes : k <= j
       IN  SubSeq(args, 2, end - 1)

HasIdentity(call) == call.id # <<>> \/ call.name # ""

(* apply_tool_call_delta on the entry of index i, created on first use. *)
ApplyToolCallDelta(s, d, why) ==
  LET old == IF d.index \in DOMAIN s.tools.calls
             THEN s.tools.calls[d.index] ELSE NewCall
      new == [old EXCEPT !.id = IF d.id = <<>> THEN @ ELSE d.id,
                         !.name = IF d.name = "" THEN @ ELSE d.name,
                         !.args = @ \o d.args,
                         !.reasoning = IF @ = <<>> THEN why ELSE @]
  IN  [s EXCEPT !.tools.calls =
         [i \in DOMAIN s.tools.calls \cup {d.index} |->
            IF i = d.index THEN new ELSE s.tools.calls[i]]]

(* ensure_output_index: base + index, the base fixed by the first claim. *)
EnsureOutputIndex(s, i) ==
  IF s.tools.calls[i].output # NoIndex THEN s
  ELSE LET base == IF s.tools.base = NoIndex THEN s.env.next ELSE s.tools.base
       IN  AdvanceOutputIndexTo(
             [s EXCEPT !.tools.base = base,
                       !.tools.calls[i].output = base + i], base + i + 1)

Identified(call, i) ==
  LET id == IF call.id = <<>> THEN <<"synthetic", i>> ELSE call.id
      prefix == IF ResolveToolKind(call.name) = "custom" THEN "ctc" ELSE "fc"
  IN  [call EXCEPT !.id = id,
                   !.name = IF @ = "" THEN "unknown_tool" ELSE @,
                   !.item = <<prefix>> \o id]

(* response_name_and_namespace *)
ResponseName(call, kind) ==
  CASE kind = "search"  -> [name |-> "", ns |-> ""]
    [] kind = "custom"  -> [name |-> call.name, ns |-> ""]
    [] call.ns # ""     -> [name |-> call.name, ns |-> call.ns]
    [] OTHER -> LET restored == RestoreNamespaceAndName(call.name)
                IN  IF restored.ns = "" THEN [name |-> call.name, ns |-> ""] ELSE restored

ToolItem(call, kind, args) ==
  [type |-> kind, id |-> call.item, call |-> call.id,
   name |-> ResponseName(call, kind).name, ns |-> ResponseName(call, kind).ns,
   args |-> args, reasoning |-> call.reasoning]

AddedUnrecorded(s, i) ==
  LET s1 == EnsureOutputIndex([s EXCEPT !.tools.calls[i] = Identified(@, i)], i)
      call == s1.tools.calls[i]
  IN  IF s.tools.calls[i].added THEN s
      ELSE Emit(s1, <<[ev |-> "added", item |-> call.item, index |-> call.output,
                       body |-> ToolItem(call, ResolveToolKind(call.name), <<>>)]>>)

(* kind is resolved before the fallback name is assigned. *)
EnsureAdded(s, i) ==
  IF s.tools.calls[i].added THEN s
  ELSE LET kind == ResolveToolKind(s.tools.calls[i].name)
           s1 == EnsureOutputIndex(
                   [s EXCEPT !.tools.calls[i] =
                      [Identified(@, i) EXCEPT !.added = TRUE]], i)
           call == s1.tools.calls[i]
       IN  Emit(s1, <<[ev |-> "added", item |-> call.item, index |-> call.output,
                       body |-> ToolItem(call, kind, <<>>)]>>)

(* output_index.unwrap_or(0): a call may end without having claimed one. *)
IndexOrZero(call) == IF call.output = NoIndex THEN 0 ELSE call.output

ArgsDelta(call, text) ==
  [ev |-> "delta", item |-> call.item, part |-> 1, index |-> IndexOrZero(call),
   text |-> text]

(* What emit_arguments_incremental sends: the unsent tail, or everything    *)
(* when what was sent is no longer a prefix.  It is cut in chunks of        *)
(* ARGUMENTS_CHUNK_SIZE bytes; here it is one delta.                        *)
PendingArguments(call) ==
  IF IsPrefix(call.emitted, call.args)
  THEN SubSeq(call.args, Len(call.emitted) + 1, Len(call.args))
  ELSE call.args

EmittedAfter(call) ==
  IF PendingArguments(call) = <<>> THEN call.emitted
  ELSE call.emitted \o PendingArguments(call)

IncrementalEvents(call) ==
  IF PendingArguments(call) = <<>> THEN <<>>
  ELSE <<ArgsDelta(call, PendingArguments(call))>>

EmitArgumentsIncremental(s, i) ==
  Emit([s EXCEPT !.tools.calls[i].emitted = EmittedAfter(s.tools.calls[i])],
       IncrementalEvents(s.tools.calls[i]))

CustomInputUnrecorded(s, i) ==
  LET prefix == PartialCustomInput(s.tools.calls[i].args)
  IN  IF prefix = <<>> THEN s
      ELSE Emit(s, <<ArgsDelta(s.tools.calls[i], prefix)>>)

EmitCustomInputDelta(s, i) ==
  LET call   == s.tools.calls[i]
      prefix == PartialCustomInput(call.args)
      sent   == IF IsPrefix(call.input, prefix) THEN Len(call.input) ELSE 0
      delta  == SubSeq(prefix, sent + 1, Len(prefix))
  IN  IF prefix = call.input \/ delta = <<>> THEN s
      ELSE Emit([s EXCEPT !.tools.calls[i].input = prefix],
                <<ArgsDelta(call, delta)>>)

(* try_resolve_nested_buffer *)
Resolvable(call) == IsNested(call.name) /\ ActionOf(call.args) # ""

Resolved(call) ==
  [call EXCEPT !.ns = Spec_(call.name).ns, !.name = ActionOf(call.args),
               !.args = NestedArguments(call.args),
               !.buffered = FALSE, !.resolved = TRUE]

(* degrade_buffered_namespace *)
Degraded(call) ==
  LET freed == [call EXCEPT !.buffered = FALSE, !.resolved = TRUE]
  IN  IF ~IsNested(call.name) THEN freed
      ELSE [freed EXCEPT !.ns = Spec_(call.name).ns,
                         !.name = Spec_(call.name).name,
                         !.args = NestedArguments(call.args)]

MaybeStartNestedBuffer(s, i) ==
  LET call == s.tools.calls[i]
  IN  IF call.added \/ call.buffered \/ call.resolved \/ ~IsNested(call.name)
      THEN s
      ELSE [EnsureOutputIndex(s, i) EXCEPT !.tools.calls[i].buffered = TRUE]

AddedBeforeResolved(s, i) ==
  LET call == s.tools.calls[i]
      s1   == EnsureAdded(s, i)
  IN  IF Resolvable(call)
      THEN EmitArgumentsIncremental(
             [s1 EXCEPT !.tools.calls[i] = Resolved(@)], i)
      ELSE s

(* A buffered call surfaces once its action parses or its buffer overflows. *)
PushBuffered(s, i) ==
  LET call == s.tools.calls[i]
      surface(t) == EmitArgumentsIncremental(EnsureAdded(t, i), i)
      found == [s EXCEPT !.tools.calls[i] = Resolved(call)]
  IN  IF Resolvable(call)
      THEN IF ResolveToolKind(ActionOf(call.args)) = "custom"
           THEN EnsureAdded(found, i) ELSE surface(found)
      ELSE IF Len(call.args) > BufferMax
      THEN surface([s EXCEPT !.tools.calls[i] = Degraded(call)])
      ELSE s

MirroredTwice(s, d, addedNow) ==
  LET s1 == EmitArgumentsIncremental(EnsureAdded(s, d.index), d.index)
  IN  IF d.args = <<>> THEN s1
      ELSE Emit(s1, <<ArgsDelta(s1.tools.calls[d.index], d.args)>>)

(* The raw fragment is mirrored without advancing call.emitted. *)
PushIdentified(s, d, addedNow) ==
  LET i    == d.index
      s1   == EnsureAdded(s, i)
      call == s1.tools.calls[i]
  IN  IF ResolveToolKind(s.tools.calls[i].name) = "custom"
      THEN EmitCustomInputDelta(s1, i)
      ELSE IF addedNow THEN EmitArgumentsIncremental(s1, i)
      ELSE IF d.args = <<>> THEN s1
      ELSE Emit(s1, <<ArgsDelta(call, d.args)>>)

(* push_delta *)
ToolsPushDelta(s, d, why) ==
  LET i  == d.index
      s1 == ApplyToolCallDelta(s, d, why)
      fresh == ~s1.tools.calls[i].added
      s2 == IF fresh THEN MaybeStartNestedBuffer(s1, i) ELSE s1
  IN  IF s.tools.finalized THEN s
      ELSE IF ~HasIdentity(s1.tools.calls[i]) THEN s1
      ELSE IF s2.tools.calls[i].buffered THEN PushBuffered(s2, i)
      ELSE PushIdentified(s2, d, fresh)

(* flush_buffered_nested_state: the action found now, or none after all.    *)
FlushBuffered(call) ==
  IF ~call.buffered \/ call.added THEN call
  ELSE IF Resolvable(call) THEN Resolved(call) ELSE Degraded(call)

FinalArguments(call) ==
  IF ResolveToolKind(call.name) = "custom" THEN CustomInput(Canonical(call.args))
  ELSE Canonical(call.args)

(* parse_tool_arguments_object: a search call's arguments become an object. *)
ItemArguments(call) ==
  LET args == FinalArguments(call)
  IN  IF ResolveToolKind(call.name) # "search" \/ IsObject(args) \/ args = <<"{}">>
      THEN args ELSE <<"query">> \o args

FinalItem(call) ==
  ToolItem(call, ResolveToolKind(call.name), ItemArguments(call))

ResidualInput(call) ==
  LET full == FinalArguments(call)
  IN  IF IsPrefix(call.input, full)
      THEN SubSeq(full, Len(call.input) + 1, Len(full)) ELSE full

(* finalize_state: flush what is buffered, open an item that has an         *)
(* identity and is still closed, send the rest of the arguments, close.     *)
FinalizeState(s, i) ==
  LET flushed == [s EXCEPT !.tools.calls[i] = FlushBuffered(@)]
      s1 == IF HasIdentity(flushed.tools.calls[i]) THEN EnsureAdded(flushed, i)
            ELSE flushed
      custom == ResolveToolKind(s1.tools.calls[i].name) = "custom"
      s2 == IF custom THEN s1 ELSE EmitArgumentsIncremental(s1, i)
      call == s2.tools.calls[i]
      full == FinalArguments(call)
      residue == IF ~custom \/ ResidualInput(call) = <<>> THEN <<>>
                 ELSE <<ArgsDelta(call, ResidualInput(call))>>
      s3 == [s2 EXCEPT !.tools.calls[i].done = TRUE,
                       !.tools.calls[i].input = IF custom THEN full ELSE @]
  IN  Emit(AppendCompletedItem(s3, IndexOrZero(call), FinalItem(call)),
           residue \o
           <<[ev |-> "text_done", item |-> call.item, part |-> 1, text |-> full],
             [ev |-> "done", item |-> call.item, index |-> IndexOrZero(call),
              body |-> FinalItem(call)]>>)

Unfinished(s) == {i \in DOMAIN s.tools.calls : ~s.tools.calls[i].done}

FinalizeNext(none, s, k) ==
  FinalizeState(s, CHOOSE i \in Unfinished(s) : \A j \in Unfinished(s) : i <= j)

EachUnfinished == INSTANCE Iteration WITH Step <- FinalizeNext

(* finalize: every call that is not done, in the order of the indices.      *)
ToolsFinalize(s) ==
  IF s.tools.finalized THEN s
  ELSE EachUnfinished!Iterate(0, [s EXCEPT !.tools.finalized = TRUE],
                              Cardinality(Unfinished(s)))

(* Only named calls are kept, with their accumulated arguments. *)
PersistedToolCalls(s) ==
  LET calls == s.tools.calls
      order == SetToSortSeq({i \in DOMAIN calls : calls[i].name # ""}, <)
      saved(i) == [id |-> IF calls[i].id = <<>> THEN <<"synthetic", i>>
                          ELSE calls[i].id,
                   name |-> calls[i].name, args |-> calls[i].args]
  IN  [k \in DOMAIN order |-> saved(order[k])]
=============================================================================
