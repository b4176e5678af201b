----------------------- MODULE ToolRegistryProperties ------------------------
(***************************************************************************)
(* What the tool registry promises over the turns of a conversation.       *)
(***************************************************************************)
EXTENDS ToolRegistry

Functions == {k \in DOMAIN context.tools : ~context.tools[k].hosted}

(* The declarations of the turns that context was made from. *)
InForce == {<<w[2], w[3]>> : w \in {v \in declared : v[1] >= since}}

(* Nobody else among them asked for the same Chat name. *)
Undisputed(w) == w[1] # <<>> /\ \A v \in InForce : v[1] = w[1] => v = w

-----------------------------------------------------------------------------
(* Whatever a turn of the conversation declared, directly, in a namespace,  *)
(* by a custom call in its input or in a search output, is a function of    *)
(* the request, once, and classified as what it was declared as: as long as *)
(* no other tool joins to the same Chat name (merge and register_chat_tool).*)
DeclaredIsCallable ==
  phase = "calling" =>
    \A w \in InForce : Undisputed(w) =>
      /\ w[1] \in DOMAIN context.specs /\ context.specs[w[1]] = w[2]
      /\ \E k \in Functions :
           \A j \in Functions : context.tools[j].name = w[1] <=> j = k

(* A call shown to the client and sent back in a later turn reaches         *)
(* upstream under the name upstream used, through collisions, shortened     *)
(* names, names nobody declared and merges in between                       *)
(* (restore_namespace_and_name against chat_name_for_function).  Calls of   *)
(* nested namespaces are not among these: see EveryCallComesBack.           *)
CallsComeBack ==
  phase = "calling" =>
    \A c \in calls : c.turn < turn /\ ~c.nested => ResentName(context, c.item) = c.chat

(* A continuation changes nothing of what the conversation has: each tool   *)
(* stays where it was in the upstream's list, with its definition, and a    *)
(* call of it is classified as before (merge keeps what is registered).     *)
FirstDefinitionStands ==
  [][since' = since =>
       /\ \A k \in DOMAIN context.tools : /\ k \in DOMAIN context'.tools
                                          /\ context'.tools[k] = context.tools[k]
       /\ \A c \in DOMAIN context.specs : /\ c \in DOMAIN context'.specs
                                          /\ context'.specs[c] = context.specs[c]]_vars

(* handle_tool_call_item says that a namespaced call is flattened back to   *)
(* the Chat name the upstream saw, so that it matches the tool schema: here *)
(* for tools that are declared again and calls that are not in a stored     *)
(* history, which handle_tool_call_item does not skip.                      *)
EveryCallComesBack ==
  phase = "calling" =>
    \A c \in calls :
      c.turn < since /\ c.chat \in DOMAIN context.specs =>
        ResentName(context, c.item) = c.chat
=============================================================================
