---------------------------- MODULE ToolRegistry ----------------------------
(***************************************************************************)
(* The tool registry of a conversation (context.rs): the tools a turn      *)
(* declares become Chat functions, a continuation's are merged into the    *)
(* stored ones (resolve_session in session_bridge.rs), the calls upstream  *)
(* makes are shown under the client's names (chat_to_responses.rs,         *)
(* stream_tools.rs) and come back as input items of a later turn           *)
(* (handle_tool_call_item in responses_to_chat.rs).                        *)
(*                                                                         *)
(* A name is the sequence of the pieces that "__" separates; <<>> is a     *)
(* blank name, or none.  The flat join of a namespace and a name is their  *)
(* concatenation, so that joins collide when the code's do.                *)
(*                                                                         *)
(* Only register_chat_tool writes seen_chat_names, custom_tool_names and   *)
(* tool_search_enabled, together with chat_name_to_spec: they are its      *)
(* domain, its custom names and whether it has the search tool.            *)
(***************************************************************************)
EXTENDS Integers, Sequences

CONSTANTS
  Offered,       \* the tools a client may declare
  Hallucinated,  \* names upstream may call that were never declared
  Policy,        \* what to do with hosted tools: "passthrough" or another
  MaxParts,      \* CHAT_TOOL_NAME_MAX_LEN, in pieces
  Digest(_),     \* the piece that stands for the hash of a name
  MaxTools,      \* bound on the tools and items of one turn
  MaxTurns       \* bound on the turns of the conversation

ASSUME NamesAssumption ==
  /\ MaxParts \in Nat
  /\ \A t \in Offered : t.children \in Seq(Seq(STRING)) /\ Len(t.children) <= 2
  /\ \A h \in Hallucinated : h \in Seq(STRING) /\ h # <<>> /\ Len(h) <= MaxParts

VARIABLES
  phase,     \* "declaring", "scanning", "merging" or "calling"
  turn,      \* the number of the turn
  brought,   \* how many tools and items the turn has brought
  fresh,     \* the registry built from this turn's request
  context,   \* the stored registry, and once merged this turn's
  since,     \* the turn at which the stored line of turns began
  merged,    \* how many of fresh's tools have been merged into context
  declared,  \* history: what the conversation's turns have declared
  calls      \* history: the calls made, with the item each was shown as

vars == <<phase, turn, brought, fresh, context, since, merged,
          declared, calls>>

SearchName == <<"tool_search">>

Empty == [specs |-> <<>>, chatOf |-> <<>>, tools |-> <<>>, namespaces |-> {}]

ToolSpec(kind, ns, name, actions) ==
  [kind |-> kind, ns |-> ns, name |-> name, actions |-> actions]

SearchSpec == ToolSpec("search", <<>>, SearchName, {})

(* flatten_namespace_tool_name: a join that is too long keeps its head.     *)
Flatten(ns, name) ==
  IF Len(ns \o name) <= MaxParts THEN ns \o name
  ELSE Append(SubSeq(ns \o name, 1, MaxParts - 1), Digest(ns \o name))

Put(f, key, value) ==
  [k \in DOMAIN f \cup {key} |-> IF k = key THEN value ELSE f[k]]

(* chat_name_for_function *)
ChatNameForFunction(r, ns, name) ==
  IF ns = <<>> THEN name
  ELSE IF <<ns, name>> \in DOMAIN r.chatOf THEN r.chatOf[<<ns, name>>]
  ELSE Flatten(ns, name)

(* register_chat_tool: the first tool of a Chat name stays.                 *)
RegisterChatTool(r, chat, spec, def) ==
  IF chat = <<>> \/ chat \in DOMAIN r.specs THEN r
  ELSE [r EXCEPT !.specs  = Put(@, chat, spec),
                 !.chatOf = IF spec.ns = <<>> THEN @
                            ELSE Put(@, <<spec.ns, spec.name>>, chat),
                 !.tools  = Append(@, [hosted |-> FALSE, name |-> chat, def |-> def])]

AddFunctionTool(r, ns, name, def) ==
  IF name = <<>> THEN r
  ELSE RegisterChatTool(r, ChatNameForFunction(r, ns, name),
                        ToolSpec("function", ns, name, {}), def)

AddCustomTool(r, name, def) ==
  RegisterChatTool(r, name, ToolSpec("custom", <<>>, name, {}), def)

AddToolSearchTool(r) == RegisterChatTool(r, SearchName, SearchSpec, 0)

AlreadyListed(r, tool) == \E k \in DOMAIN r.tools : r.tools[k] = tool

AddHostedTool(r, tool) ==
  IF AlreadyListed(r, tool) THEN r ELSE [r EXCEPT !.tools = Append(@, tool)]

(* collect_function_children: a child <<>> is no function or has no name.   *)
Actions(children) == {children[k] : k \in DOMAIN children} \ {<<>>}

AddNestedNamespaceTool(r, t) ==
  IF Actions(t.children) = {} THEN r
  ELSE RegisterChatTool(r, Flatten(t.name, t.name),
         ToolSpec("nested", t.name, t.name, Actions(t.children)), t.def)

(* A namespace has at most two children: a third repeats what the second does. *)
AddChildren(r, t) ==
  LET add(q, k) == AddFunctionTool(q, t.name, t.children[k], t.def)
  IN  CASE Len(t.children) = 0 -> r
        [] Len(t.children) = 1 -> add(r, 1)
        [] OTHER               -> add(add(r, 1), 2)

AddNamespaceTool(r, t) ==
  LET known == [r EXCEPT !.namespaces = @ \cup {t.name}]
  IN  IF t.name = <<>> THEN r
      ELSE IF t.nested THEN AddNestedNamespaceTool(known, t)
      ELSE AddChildren(known, t)

(* add_response_tool: a bare string is a custom tool; unless they are to    *)
(* pass through, hosted tools are dropped, and so are types nobody knows.   *)
AddResponseTool(r, t) ==
  CASE t.type = "function"    -> AddFunctionTool(r, <<>>, t.name, t.def)
    [] t.type = "custom"      -> AddCustomTool(r, t.name, t.def)
    [] t.type = "tool_search" -> AddToolSearchTool(r)
    [] t.type = "namespace"   -> AddNamespaceTool(r, t)
    [] t.type = "hosted" /\ Policy = "passthrough" ->
         AddHostedTool(r, [hosted |-> TRUE, name |-> t.name, def |-> t.def])
    [] OTHER                  -> r

HasSearch(r) == SearchName \in DOMAIN r.specs /\ r.specs[SearchName] = SearchSpec

MergeFunctionsOnly(r, other, tool) ==
  IF tool.hosted \/ other.specs[tool.name].kind = "nested" THEN r
  ELSE RegisterChatTool(r, tool.name, other.specs[tool.name], tool.def)

MergeLastWins(r, other, tool) ==
  IF tool.hosted THEN AddHostedTool(r, tool)
  ELSE LET spec == other.specs[tool.name]
       IN  [RegisterChatTool(r, tool.name, spec, tool.def)
              EXCEPT !.specs = Put(@, tool.name, spec)]

(* One round of merge's loop. *)
MergeTool(r, other, tool) ==
  IF tool.hosted THEN AddHostedTool(r, tool)
  ELSE RegisterChatTool(r, tool.name, other.specs[tool.name], tool.def)

-----------------------------------------------------------------------------
Item(kind, ns, name) == [kind |-> kind, ns |-> ns, name |-> name]

RestoreNameOnly(r, chat) ==
  Item("function", <<>>,
       IF chat \in DOMAIN r.specs THEN r.specs[chat].name ELSE chat)

(* restore_namespace_and_name: the last "__" splits off a name only behind  *)
(* a namespace that is registered.                                          *)
Restore(r, chat) ==
  LET front == SubSeq(chat, 1, Len(chat) - 1)
  IN  IF chat \in DOMAIN r.specs
      THEN Item("function", r.specs[chat].ns, r.specs[chat].name)
      ELSE IF Len(chat) > 1 /\ front \in r.namespaces
      THEN Item("function", front, <<chat[Len(chat)]>>)
      ELSE Item("function", <<>>, chat)

(* The item a call is shown as.  A name that nobody declared is restored    *)
(* when the answer is streamed, and left alone when it is one JSON body.    *)
Shown(r, chat, action, streamed) ==
  LET spec == r.specs[chat]
  IN  IF chat \notin DOMAIN r.specs
      THEN IF streamed THEN Restore(r, chat) ELSE Item("function", <<>>, chat)
      ELSE CASE spec.kind = "search" -> Item("search", <<>>, <<>>)
             [] spec.kind = "custom" -> Item("custom", <<>>, spec.name)
             [] spec.kind = "nested" /\ action \in spec.actions ->
                  Item("function", spec.ns, action)
             [] OTHER -> Restore(r, chat)

(* handle_tool_call_item: the Chat name a call item comes back under.  A    *)
(* tool_choice goes the same way.                                           *)
ResentName(r, item) ==
  CASE item.kind = "search" -> SearchName
    [] item.kind = "custom" -> item.name
    [] OTHER                -> ChatNameForFunction(r, item.ns, item.name)

IsNested(r, chat) == chat \in DOMAIN r.specs /\ r.specs[chat].kind = "nested"

(* The functions a declaration asks for, without regard to any other: the   *)
(* Chat name and the spec of each, hosted tools aside.                      *)
Wanted(t) ==
  CASE t.type = "function" -> {<<t.name, ToolSpec("function", <<>>, t.name, {})>>}
    [] t.type = "custom"   -> {<<t.name, ToolSpec("custom", <<>>, t.name, {})>>}
    [] t.type = "tool_search" -> {<<SearchName, SearchSpec>>}
    [] t.type = "namespace" /\ t.name # <<>> /\ ~t.nested ->
         {<<Flatten(t.name, c), ToolSpec("function", t.name, c, {})>> : c \in Actions(t.children)}
    [] t.type = "namespace" /\ t.name # <<>> /\ t.nested /\ Actions(t.children) # {} ->
         {<<Flatten(t.name, t.name),
            ToolSpec("nested", t.name, t.name, Actions(t.children))>>}
    [] OTHER -> {}
-----------------------------------------------------------------------------
Init ==
  /\ phase = "declaring" /\ turn = 1 /\ brought = 0
  /\ fresh = Empty /\ context = Empty /\ since = 1 /\ merged = 0
  /\ declared = {} /\ calls = {}

Wished(t) == {<<turn, w[1], w[2]>> : w \in Wanted(t)}

Bring(r) == fresh' = r /\ brought < MaxTools /\ brought' = brought + 1

(* build_tool_context_from_request: the declared tools, *)
DeclareTool ==
  /\ phase = "declaring"
  /\ \E t \in Offered : /\ Bring(AddResponseTool(fresh, t))
                        /\ declared' = declared \cup Wished(t)
  /\ UNCHANGED <<phase, turn, context, since, merged, calls>>

(* then the input: a custom call makes a tool of its name, *)
ScanCustomCall ==
  /\ phase \in {"declaring", "scanning"}
  /\ \E t \in {o \in Offered : o.type = "custom"} :
       /\ Bring(AddCustomTool(fresh, t.name, 0))
       /\ declared' = declared \cup Wished(t)
  /\ phase' = "scanning"
  /\ UNCHANGED <<turn, context, since, merged, calls>>

(* and a tool_search_output brings the tools that were found. *)
ScanSearchOutput ==
  /\ phase \in {"declaring", "scanning"}
  /\ \E t \in Offered : /\ Bring(AddResponseTool(fresh, t))
                        /\ declared' = declared \cup Wished(t)
  /\ phase' = "scanning"
  /\ UNCHANGED <<turn, context, since, merged, calls>>

(* Without a previous_response_id the registry is this turn's, and the      *)
(* calls of the turns before come back in its input.                        *)
StartLine ==
  /\ phase \in {"declaring", "scanning"}
  /\ phase' = "calling" /\ context' = fresh /\ since' = turn
  /\ UNCHANGED <<turn, brought, fresh, merged, declared, calls>>

(* resolve_session: a continuation merges its own into the stored registry. *)
ResolveSession ==
  /\ phase \in {"declaring", "scanning"} /\ turn > 1
  /\ phase' = "merging" /\ merged' = 0
  /\ UNCHANGED <<turn, brought, fresh, context, since, declared, calls>>

Merge ==
  /\ phase = "merging" /\ merged < Len(fresh.tools)
  /\ merged' = merged + 1
  /\ context' = MergeTool(context, fresh, fresh.tools[merged'])
  /\ UNCHANGED <<phase, turn, brought, fresh, since, declared, calls>>

MergeSearch ==
  /\ phase = "merging" /\ merged = Len(fresh.tools)
  /\ context' = IF HasSearch(fresh) THEN AddToolSearchTool(context) ELSE context
  /\ phase' = "calling"
  /\ UNCHANGED <<turn, brought, fresh, since, merged, declared, calls>>

(* Upstream calls a function by a name it was given, or by another; bounded *)
(* to one call a turn, and none in the last, which comes back in no other.  *)
Call ==
  /\ phase = "calling" /\ turn < MaxTurns
  /\ \A c \in calls : c.turn # turn
  /\ \E chat \in DOMAIN context.specs \cup Hallucinated, streamed \in BOOLEAN :
       \E action \in IF IsNested(context, chat)
                     THEN context.specs[chat].actions \cup {<<>>} ELSE {<<>>} :
         calls' = calls \cup
           {[turn |-> turn, chat |-> chat, nested |-> IsNested(context, chat),
             item |-> Shown(context, chat, action, streamed)]}
  /\ UNCHANGED <<phase, turn, brought, fresh, context, since, merged, declared>>

(* The turn is saved and continued.  One that is not saved leaves no trace. *)
NextTurn ==
  /\ phase = "calling" /\ turn < MaxTurns
  /\ phase' = "declaring" /\ turn' = turn + 1 /\ brought' = 0
  /\ fresh' = Empty
  /\ UNCHANGED <<context, since, merged, declared, calls>>

Next ==
  \/ DeclareTool \/ ScanCustomCall \/ ScanSearchOutput
  \/ StartLine \/ ResolveSession
  \/ Merge \/ MergeSearch \/ Call \/ NextTurn

Spec == Init /\ [][Next]_vars
=============================================================================
