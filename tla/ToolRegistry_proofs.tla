------------------------ MODULE ToolRegistry_proofs --------------------------
(***************************************************************************)
(* Proofs about the tool registry, for any tools, names and turns.         *)
(***************************************************************************)
EXTENDS ToolRegistryProperties, SequenceTheorems, TLAPS

(* The functions listed for upstream are the Chat names that have a spec,   *)
(* each once.                                                               *)
Listed(r) ==
  /\ (\E S : r.tools \in Seq(S)) /\ <<>> \notin DOMAIN r.specs
  /\ \A k \in DOMAIN r.tools : ~r.tools[k].hosted => r.tools[k].name \in DOMAIN r.specs
  /\ \A c \in DOMAIN r.specs :
       \E k \in DOMAIN r.tools : ~r.tools[k].hosted /\ r.tools[k].name = c
  /\ \A j, k \in DOMAIN r.tools :
       (/\ ~r.tools[j].hosted /\ ~r.tools[k].hosted
        /\ r.tools[j].name = r.tools[k].name) => j = k

(* The forward map says nothing but the flat join. *)
Joined(r) == \A p \in DOMAIN r.chatOf : r.chatOf[p] = Flatten(p[1], p[2])

Registry(r) ==
  /\ r = [specs |-> r.specs, chatOf |-> r.chatOf, tools |-> r.tools,
          namespaces |-> r.namespaces]
  /\ Listed(r) /\ Joined(r)

(* A spec under the Chat name its kind and names call for. *)
WellNamed(w) ==
  /\ w[2].kind \in {"function", "custom", "search", "nested"}
  /\ w[2].kind = "search" => w[1] = SearchName
  /\ w[2].kind = "custom" => w[1] = w[2].name
  /\ w[2].kind = "function" /\ w[2].ns = <<>> => w[1] = w[2].name
  /\ w[2].ns # <<>> => w[1] = Flatten(w[2].ns, w[2].name)

Keeps(r, q) ==
  /\ \A c \in DOMAIN r.specs : c \in DOMAIN q.specs /\ q.specs[c] = r.specs[c]
  /\ \A k \in DOMAIN r.tools : k \in DOMAIN q.tools /\ q.tools[k] = r.tools[k]

(* q is the registry r with what W asks for, and nothing else. *)
Grown(r, q, W) ==
  /\ Registry(q) /\ Keeps(r, q)
  /\ \A c \in DOMAIN q.specs : c \in DOMAIN r.specs \/ <<c, q.specs[c]>> \in W
  /\ \A w \in W : w[1] # <<>> => w[1] \in DOMAIN q.specs

-----------------------------------------------------------------------------
LEMMA GrownTransitive ==
  ASSUME NEW r, NEW q, NEW p, NEW V, NEW W, Grown(r, q, V), Grown(q, p, W)
  PROVE  Grown(r, p, V \cup W)
  BY DEF Grown, Keeps

LEMMA KeptAsIs == ASSUME NEW r, Registry(r) PROVE Grown(r, r, {})
  BY DEF Grown, Keeps

(* A tool that is put at the end. *)
LEMMA Appending ==
  ASSUME NEW s, NEW e, \E S : s \in Seq(S)
  PROVE  /\ \E S : Append(s, e) \in Seq(S)
         /\ DOMAIN Append(s, e) = DOMAIN s \cup {Len(s) + 1}
         /\ Len(s) + 1 \notin DOMAIN s
         /\ \A k \in DOMAIN s : Append(s, e)[k] = s[k]
         /\ Append(s, e)[Len(s) + 1] = e
<1>1. PICK S : s \in Seq(S) OBVIOUS
<1>2. s \in Seq(S \cup {e}) /\ e \in S \cup {e} BY <1>1, SeqMonotonic
<1>3. /\ Append(s, e) \in Seq(S \cup {e}) /\ Len(Append(s, e)) = Len(s) + 1
      /\ \A k \in 1..Len(s) : Append(s, e)[k] = s[k]
      /\ Append(s, e)[Len(s) + 1] = e
  BY <1>2, AppendProperties
<1>4. /\ DOMAIN s = 1..Len(s) /\ DOMAIN Append(s, e) = 1..(Len(s) + 1)
      /\ Len(s) \in Nat
  BY <1>2, <1>3, LenProperties
<1>5. QED BY <1>3, <1>4

(* register_chat_tool adds one function under its Chat name, or nothing.    *)
LEMMA RegisterGrows ==
  ASSUME NEW r, NEW chat, NEW spec, NEW def, Registry(r),
         spec.ns # <<>> => chat = Flatten(spec.ns, spec.name)
  PROVE  LET q == RegisterChatTool(r, chat, spec, def)
         IN  /\ Registry(q) /\ Keeps(r, q)
             /\ q.namespaces = r.namespaces
             /\ \A c \in DOMAIN q.specs :
                  c \in DOMAIN r.specs \/ (c = chat /\ q.specs[c] = spec)
             /\ chat # <<>> => chat \in DOMAIN q.specs
<1> DEFINE q == RegisterChatTool(r, chat, spec, def)
<1>1. CASE chat = <<>> \/ chat \in DOMAIN r.specs
  BY <1>1 DEF RegisterChatTool, Keeps
<1>2. CASE chat # <<>> /\ chat \notin DOMAIN r.specs
  <2> DEFINE entry == [hosted |-> FALSE, name |-> chat, def |-> def]
             n == Len(r.tools) + 1
  <2>1. q = [specs |-> Put(r.specs, chat, spec),
             chatOf |-> IF spec.ns = <<>> THEN r.chatOf
                        ELSE Put(r.chatOf, <<spec.ns, spec.name>>, chat),
             tools |-> Append(r.tools, entry), namespaces |-> r.namespaces]
    BY <1>2 DEF RegisterChatTool, Registry
  <2>2. /\ \E S : q.tools \in Seq(S)
        /\ DOMAIN q.tools = DOMAIN r.tools \cup {n} /\ n \notin DOMAIN r.tools
        /\ \A k \in DOMAIN r.tools : q.tools[k] = r.tools[k]
        /\ q.tools[n] = entry
    <3> DEFINE s == r.tools
    <3>1. \E S : s \in Seq(S) BY DEF Registry, Listed
    <3> HIDE DEF s
    <3>2. /\ \E S : Append(s, entry) \in Seq(S)
          /\ DOMAIN Append(s, entry) = DOMAIN s \cup {Len(s) + 1}
          /\ Len(s) + 1 \notin DOMAIN s
          /\ \A k \in DOMAIN s : Append(s, entry)[k] = s[k]
          /\ Append(s, entry)[Len(s) + 1] = entry
      BY <3>1, Appending
    <3>3. q.tools = Append(s, entry) /\ n = Len(s) + 1 /\ s = r.tools
      BY <2>1 DEF s
    <3> HIDE DEF q, n
    <3>4. QED BY <3>2, <3>3
  <2>3. /\ DOMAIN q.specs = DOMAIN r.specs \cup {chat}
        /\ \A c \in DOMAIN r.specs : q.specs[c] = r.specs[c]
        /\ q.specs[chat] = spec
    BY <1>2, <2>1 DEF Put
  <2>4. Listed(q)
    <3>1. \A k \in DOMAIN q.tools :
            ~q.tools[k].hosted => q.tools[k].name \in DOMAIN q.specs
      BY <2>2, <2>3 DEF Registry, Listed
    <3>2. \A c \in DOMAIN q.specs :
            \E k \in DOMAIN q.tools : ~q.tools[k].hosted /\ q.tools[k].name = c
      BY <2>2, <2>3 DEF Registry, Listed
    <3>3. \A j, k \in DOMAIN q.tools :
            (/\ ~q.tools[j].hosted /\ ~q.tools[k].hosted
             /\ q.tools[j].name = q.tools[k].name) => j = k
      BY <1>2, <2>2 DEF Registry, Listed
    <3>4. <<>> \notin DOMAIN q.specs BY <1>2, <2>3 DEF Registry, Listed
    <3>5. QED BY <2>2, <3>1, <3>2, <3>3, <3>4 DEF Listed
  <2>5. Joined(q)
    <3>1. CASE spec.ns = <<>> BY <3>1, <2>1 DEF Registry, Joined
    <3>2. CASE spec.ns # <<>>
      BY <3>2, <2>1 DEF Registry, Joined, Put
    <3>3. QED BY <3>1, <3>2
  <2>6. QED
    <3>1. Registry(q) BY <2>1, <2>4, <2>5 DEF Registry
    <3>2. QED BY <2>1, <2>2, <2>3, <3>1 DEF Keeps
<1>3. QED BY <1>1, <1>2

LEMMA HostedGrows ==
  ASSUME NEW r, NEW tool, Registry(r), tool.hosted
  PROVE  Grown(r, AddHostedTool(r, tool), {})
<1> DEFINE q == AddHostedTool(r, tool)
<1>1. CASE AlreadyListed(r, tool)
  BY <1>1, KeptAsIs DEF AddHostedTool
<1>2. CASE ~AlreadyListed(r, tool)
  <2> DEFINE n == Len(r.tools) + 1
  <2>1. q = [specs |-> r.specs, chatOf |-> r.chatOf,
             tools |-> Append(r.tools, tool), namespaces |-> r.namespaces]
    BY <1>2 DEF AddHostedTool, Registry
  <2>2. /\ \E S : q.tools \in Seq(S)
        /\ DOMAIN q.tools = DOMAIN r.tools \cup {n} /\ n \notin DOMAIN r.tools
        /\ \A k \in DOMAIN r.tools : q.tools[k] = r.tools[k]
        /\ q.tools[n] = tool
    <3> DEFINE s == r.tools
    <3>1. \E S : s \in Seq(S) BY DEF Registry, Listed
    <3> HIDE DEF s
    <3>2. /\ \E S : Append(s, tool) \in Seq(S)
          /\ DOMAIN Append(s, tool) = DOMAIN s \cup {Len(s) + 1}
          /\ Len(s) + 1 \notin DOMAIN s
          /\ \A k \in DOMAIN s : Append(s, tool)[k] = s[k]
          /\ Append(s, tool)[Len(s) + 1] = tool
      BY <3>1, Appending
    <3>3. q.tools = Append(s, tool) /\ n = Len(s) + 1 /\ s = r.tools
      BY <2>1 DEF s
    <3> HIDE DEF q, n
    <3>4. QED BY <3>2, <3>3
  <2>3. Listed(q)
    BY <2>1, <2>2 DEF Registry, Listed
  <2>4. Joined(q) BY <2>1 DEF Registry, Joined
  <2>5. QED BY <2>1, <2>2, <2>3, <2>4 DEF Registry, Grown, Keeps
<1>3. QED BY <1>1, <1>2

-----------------------------------------------------------------------------
(* What a function's declaration asks for. *)
FunctionOf(ns, name) ==
  IF name = <<>> THEN {}
  ELSE {<<IF ns = <<>> THEN name ELSE Flatten(ns, name),
          ToolSpec("function", ns, name, {})>>}

LEMMA FunctionGrows ==
  ASSUME NEW r, NEW ns, NEW name, NEW def, Registry(r)
  PROVE  Grown(r, AddFunctionTool(r, ns, name, def), FunctionOf(ns, name))
<1> DEFINE chat == IF ns = <<>> THEN name ELSE Flatten(ns, name)
           spec == ToolSpec("function", ns, name, {})
<1>1. CASE name = <<>>
  BY <1>1, KeptAsIs DEF AddFunctionTool, FunctionOf
<1>2. CASE name # <<>>
  <2>1. ChatNameForFunction(r, ns, name) = chat
    BY DEF ChatNameForFunction, Registry, Joined
  <2>2. AddFunctionTool(r, ns, name, def) = RegisterChatTool(r, chat, spec, def)
    BY <1>2, <2>1 DEF AddFunctionTool
  <2>3. FunctionOf(ns, name) = {<<chat, spec>>}
    BY <1>2 DEF FunctionOf
  <2>4. spec.ns # <<>> => chat = Flatten(spec.ns, spec.name)
    BY DEF ToolSpec
  <2> HIDE DEF chat, spec
  <2>5. QED BY <2>2, <2>3, <2>4, RegisterGrows DEF Grown
<1>3. QED BY <1>1, <1>2

LEMMA ChildrenGrow ==
  ASSUME NEW r, NEW t \in Offered, Registry(r), t.name # <<>>
  PROVE  Grown(r, AddChildren(r, t),
               {<<Flatten(t.name, c), ToolSpec("function", t.name, c, {})>> :
                  c \in Actions(t.children)})
<1> DEFINE kids == t.children
           add(q, k) == AddFunctionTool(q, t.name, kids[k], t.def)
           wish(k) == FunctionOf(t.name, kids[k])
           all == {<<Flatten(t.name, c), ToolSpec("function", t.name, c, {})>> :
                     c \in Actions(kids)}
           pair(c) == <<Flatten(t.name, c), ToolSpec("function", t.name, c, {})>>
<1>0. /\ kids \in Seq(Seq(STRING)) /\ Len(kids) \in Nat /\ Len(kids) <= 2
      /\ DOMAIN kids = 1..Len(kids)
  BY NamesAssumption, LenProperties DEF NamesAssumption
<1>1. \A k : wish(k) = IF kids[k] = <<>> THEN {} ELSE {pair(kids[k])}
  BY DEF FunctionOf
<1>a. all = {pair(c) : c \in Actions(kids)} OBVIOUS
<1>b. SUFFICES Grown(r, AddChildren(r, t), all) OBVIOUS
<1>c. \A k : Grown(r, add(r, k), wish(k)) BY FunctionGrows
<1>d. \A q, k : Registry(q) => Grown(q, add(q, k), wish(k)) BY FunctionGrows
<1>e. /\ Len(kids) = 0 => AddChildren(r, t) = r
      /\ Len(kids) = 1 => AddChildren(r, t) = add(r, 1)
      /\ Len(kids) = 2 => AddChildren(r, t) = add(add(r, 1), 2)
  BY DEF AddChildren
<1> HIDE DEF kids, add, wish, all, pair
<1>2. CASE Len(kids) = 0
  <2>1. Actions(kids) = {} BY <1>0, <1>2 DEF Actions
  <2>2. all = {} BY <2>1, <1>a
  <2>3. QED BY <1>2, <1>e, <2>2, KeptAsIs
<1>3. CASE Len(kids) = 1
  <2>1. Actions(kids) = {kids[1]} \ {<<>>} BY <1>0, <1>3 DEF Actions
  <2>2. all = wish(1) BY <2>1, <1>1, <1>a
  <2>3. QED BY <1>3, <1>c, <1>e, <2>2
<1>4. CASE Len(kids) = 2
  <2>1. Actions(kids) = {kids[1], kids[2]} \ {<<>>} BY <1>0, <1>4 DEF Actions
  <2>2. all = wish(1) \cup wish(2) BY <2>1, <1>1, <1>a
  <2>3. Registry(add(r, 1)) BY <1>c DEF Grown
  <2>4. Grown(r, add(add(r, 1), 2), wish(1) \cup wish(2))
    BY <2>3, <1>c, <1>d, GrownTransitive
  <2>5. QED BY <1>4, <1>e, <2>2, <2>4
<1>5. QED BY <1>0, <1>2, <1>3, <1>4

LEMMA NamespaceGrows ==
  ASSUME NEW r, NEW t \in Offered, Registry(r), t.type = "namespace"
  PROVE  Grown(r, AddNamespaceTool(r, t), Wanted(t))
<1> DEFINE known == [r EXCEPT !.namespaces = @ \cup {t.name}]
<1>1. CASE t.name = <<>>
  BY <1>1, KeptAsIs DEF AddNamespaceTool, Wanted
<1>2. known = [specs |-> r.specs, chatOf |-> r.chatOf, tools |-> r.tools,
               namespaces |-> r.namespaces \cup {t.name}]
  BY DEF Registry
<1>3. Registry(known) /\ known.specs = r.specs /\ known.tools = r.tools
  BY <1>2 DEF Registry, Listed, Joined
<1>4. ASSUME NEW q, NEW W, Grown(known, q, W) PROVE Grown(r, q, W)
  BY <1>3, <1>4 DEF Grown, Keeps
<1> HIDE DEF known
<1>5. CASE t.name # <<>> /\ ~t.nested
  <2>1. Wanted(t) = {<<Flatten(t.name, c), ToolSpec("function", t.name, c, {})>> :
                       c \in Actions(t.children)}
    BY <1>5 DEF Wanted
  <2>2. AddNamespaceTool(r, t) = AddChildren(known, t)
    BY <1>5 DEF AddNamespaceTool, known
  <2>3. QED BY <1>3, <1>4, <1>5, <2>1, <2>2, ChildrenGrow
<1>6. CASE t.name # <<>> /\ t.nested /\ Actions(t.children) = {}
  <2>1. Wanted(t) = {} BY <1>6 DEF Wanted
  <2>2. AddNamespaceTool(r, t) = known
    BY <1>6 DEF AddNamespaceTool, AddNestedNamespaceTool, known
  <2>3. QED BY <1>3, <1>4, <2>1, <2>2, KeptAsIs
<1>7. CASE t.name # <<>> /\ t.nested /\ Actions(t.children) # {}
  <2> DEFINE chat == Flatten(t.name, t.name)
             spec == ToolSpec("nested", t.name, t.name, Actions(t.children))
  <2>1. Wanted(t) = {<<chat, spec>>} BY <1>7 DEF Wanted
  <2>2. AddNamespaceTool(r, t) = RegisterChatTool(known, chat, spec, t.def)
    BY <1>7 DEF AddNamespaceTool, AddNestedNamespaceTool, known
  <2>3. spec.ns # <<>> => chat = Flatten(spec.ns, spec.name) BY DEF ToolSpec
  <2> HIDE DEF chat, spec
  <2>4. Grown(known, RegisterChatTool(known, chat, spec, t.def), {<<chat, spec>>})
    BY <1>3, <2>3, RegisterGrows DEF Grown
  <2>5. QED BY <1>4, <2>1, <2>2, <2>4
<1>8. QED BY <1>1, <1>5, <1>6, <1>7

(* A plain name that is registered as it is. *)
LEMMA PlainGrows ==
  ASSUME NEW r, NEW chat, NEW spec, NEW def, Registry(r), spec.ns = <<>>
  PROVE  Grown(r, RegisterChatTool(r, chat, spec, def), {<<chat, spec>>})
  BY RegisterGrows DEF Grown

(* add_response_tool adds to a registry what the tool asks for, no more.    *)
LEMMA DeclarationGrows ==
  ASSUME NEW r, NEW t \in Offered, Registry(r)
  PROVE  Grown(r, AddResponseTool(r, t), Wanted(t))
<1>1. CASE t.type = "function"
  <2>1. AddResponseTool(r, t) = AddFunctionTool(r, <<>>, t.name, t.def)
    BY <1>1 DEF AddResponseTool
  <2>2. Wanted(t) = {<<t.name, ToolSpec("function", <<>>, t.name, {})>>}
    BY <1>1 DEF Wanted
  <2>3. Grown(r, AddFunctionTool(r, <<>>, t.name, t.def), FunctionOf(<<>>, t.name))
    BY FunctionGrows
  <2>4. FunctionOf(<<>>, t.name) = IF t.name = <<>> THEN {}
                                   ELSE {<<t.name, ToolSpec("function", <<>>, t.name, {})>>}
    BY DEF FunctionOf
  <2> DEFINE q == AddFunctionTool(r, <<>>, t.name, t.def)
             w == <<t.name, ToolSpec("function", <<>>, t.name, {})>>
  <2>5. /\ w[1] = t.name /\ Wanted(t) = {w} /\ AddResponseTool(r, t) = q
        /\ Grown(r, q, IF t.name = <<>> THEN {} ELSE {w})
    BY <2>1, <2>2, <2>3, <2>4
  <2> HIDE DEF q, w
  <2>6. CASE t.name = <<>>
    BY <2>5, <2>6 DEF Grown
  <2>7. CASE t.name # <<>> BY <2>5, <2>7
  <2>8. QED BY <2>6, <2>7
<1>2. CASE t.type = "custom"
  <2>1. AddResponseTool(r, t) = AddCustomTool(r, t.name, t.def)
    BY <1>2 DEF AddResponseTool
  <2>2. Wanted(t) = {<<t.name, ToolSpec("custom", <<>>, t.name, {})>>}
    BY <1>2 DEF Wanted
  <2>3. ToolSpec("custom", <<>>, t.name, {}).ns = <<>> BY DEF ToolSpec
  <2>4. QED BY <2>1, <2>2, <2>3, PlainGrows DEF AddCustomTool
<1>3. CASE t.type = "tool_search"
  <2>1. AddResponseTool(r, t) = AddToolSearchTool(r) /\ Wanted(t) = {<<SearchName, SearchSpec>>}
    BY <1>3 DEF AddResponseTool, Wanted
  <2>2. SearchSpec.ns = <<>> BY DEF SearchSpec, ToolSpec
  <2>3. QED BY <2>1, <2>2, PlainGrows DEF AddToolSearchTool
<1>4. CASE t.type = "namespace"
  BY <1>4, NamespaceGrows DEF AddResponseTool
<1>5. CASE t.type = "hosted" /\ Policy = "passthrough"
  <2>1. Wanted(t) = {} BY <1>5 DEF Wanted
  <2>2. QED BY <1>5, <2>1, HostedGrows DEF AddResponseTool
<1>6. CASE /\ t.type \notin {"function", "custom", "tool_search", "namespace"}
           /\ ~(t.type = "hosted" /\ Policy = "passthrough")
  <2>1. Wanted(t) = {} /\ AddResponseTool(r, t) = r
    BY <1>6 DEF Wanted, AddResponseTool
  <2>2. QED BY <2>1, KeptAsIs
<1>7. QED BY <1>1, <1>2, <1>3, <1>4, <1>5, <1>6

LEMMA WantedIsWellNamed ==
  ASSUME NEW t \in Offered, NEW w \in Wanted(t)
  PROVE  WellNamed(w) /\ w = <<w[1], w[2]>>
  BY DEF Wanted, WellNamed, ToolSpec, SearchSpec

-----------------------------------------------------------------------------
(* A registry against what was declared from turn m to turn n: it has       *)
(* nothing else, and no Chat name is missing.                               *)
Sound(r, D, m, n) ==
  \A c \in DOMAIN r.specs :
    \E v \in D : m <= v[1] /\ v[1] <= n /\ v[2] = c /\ v[3] = r.specs[c]

Complete(r, D, m, n) ==
  \A v \in D : m <= v[1] /\ v[1] <= n /\ v[2] # <<>> => v[2] \in DOMAIN r.specs

Turns ==
  /\ turn \in Nat /\ since \in Nat /\ since <= turn /\ merged \in Nat
  /\ \A v \in declared : v[1] \in Nat /\ v[1] <= turn /\ WellNamed(<<v[2], v[3]>>)

FreshAgrees ==
  phase # "calling" =>
    Sound(fresh, declared, turn, turn) /\ Complete(fresh, declared, turn, turn)

ContextAgrees ==
  /\ phase \in {"declaring", "scanning"} =>
       /\ Sound(context, declared, since, turn - 1)
       /\ Complete(context, declared, since, turn - 1)
       /\ since < turn \/ context = Empty
  /\ phase = "merging" =>
       /\ Sound(context, declared, since, turn)
       /\ Complete(context, declared, since, turn - 1)
       /\ merged <= Len(fresh.tools)
       /\ \A k \in 1..merged :
            ~fresh.tools[k].hosted => fresh.tools[k].name \in DOMAIN context.specs
  /\ phase = "calling" =>
       Sound(context, declared, since, turn) /\ Complete(context, declared, since, turn)

(* A call is shown as an item that its names alone lead back from. *)
LeadsBack(item, chat) ==
  \/ item.kind = "search" /\ chat = SearchName
  \/ item.kind = "custom" /\ chat = item.name
  \/ /\ item.kind = "function"
     /\ chat = IF item.ns = <<>> THEN item.name ELSE Flatten(item.ns, item.name)

CallsLeadBack == \A c \in calls : ~c.nested => LeadsBack(c.item, c.chat)

IInv ==
  /\ phase \in {"declaring", "scanning", "merging", "calling"}
  /\ Turns /\ Registry(fresh) /\ Registry(context)
  /\ FreshAgrees /\ ContextAgrees /\ CallsLeadBack

LEMMA EmptyIsRegistry == Registry(Empty) /\ DOMAIN Empty.specs = {} /\ DOMAIN Empty.tools = {}
<1>1. /\ Empty.specs = <<>> /\ Empty.chatOf = <<>> /\ Empty.tools = <<>>
      /\ Empty.namespaces = {} /\ DOMAIN <<>> = {}
  BY DEF Empty
<1>2. <<>> \in Seq({}) OBVIOUS
<1>3. Empty = [specs |-> Empty.specs, chatOf |-> Empty.chatOf, tools |-> Empty.tools,
               namespaces |-> Empty.namespaces]
  BY DEF Empty
<1> HIDE DEF Empty
<1>4. QED BY <1>1, <1>2, <1>3 DEF Registry, Listed, Joined

LEMMA Initially == Init => IInv
<1> SUFFICES ASSUME Init PROVE IInv OBVIOUS
<1>1. Registry(fresh) /\ Registry(context) /\ DOMAIN context.specs = {} /\ DOMAIN fresh.specs = {}
  BY EmptyIsRegistry DEF Init
<1>2. Turns /\ CallsLeadBack BY DEF Init, Turns, CallsLeadBack
<1>3. FreshAgrees /\ ContextAgrees
  BY <1>1 DEF Init, FreshAgrees, ContextAgrees, Sound, Complete
<1>4. QED BY <1>1, <1>2, <1>3 DEF Init, IInv

(* A tool that a turn brings, in the three ways it can. *)
LEMMA BringingKeepsIInv ==
  ASSUME IInv, phase \in {"declaring", "scanning"}, phase' \in {"declaring", "scanning"},
         NEW t \in Offered, Grown(fresh, fresh', Wanted(t)),
         declared' = declared \cup Wished(t),
         UNCHANGED <<turn, context, since, merged, calls>>
  PROVE  IInv'
<1>0. turn \in Nat /\ \A v \in declared : v[1] \in Nat BY DEF IInv, Turns
<1>1. Turns'
  <2>1. \A v \in Wished(t) : /\ v[1] = turn /\ WellNamed(<<v[2], v[3]>>)
    BY WantedIsWellNamed DEF Wished
  <2>2. QED BY <2>1 DEF IInv, Turns
<1>2. \A v \in declared' : v \in declared \/ (v[1] = turn /\ <<v[2], v[3]>> \in Wanted(t))
  BY WantedIsWellNamed DEF Wished
<1>3. \A w \in Wanted(t) : \E v \in declared' : v[1] = turn /\ v[2] = w[1] /\ v[3] = w[2]
  <2> TAKE w \in Wanted(t)
  <2>1. <<turn, w[1], w[2]>> \in declared' BY DEF Wished
  <2> WITNESS <<turn, w[1], w[2]>> \in declared'
  <2>2. QED OBVIOUS
<1>4. declared \subseteq declared' OBVIOUS
<1>5. FreshAgrees'
  <2>1. ASSUME NEW c \in DOMAIN fresh'.specs
        PROVE  \E v \in declared' : v[1] = turn /\ v[2] = c /\ v[3] = fresh'.specs[c]
    <3>1. CASE c \in DOMAIN fresh.specs
      <4>1. fresh'.specs[c] = fresh.specs[c] BY <3>1 DEF Grown, Keeps
      <4>2. \E v \in declared : v[1] = turn /\ v[2] = c /\ v[3] = fresh.specs[c]
        BY <1>0, <3>1 DEF IInv, FreshAgrees, Sound
      <4>3. QED BY <4>1, <4>2
    <3>2. CASE <<c, fresh'.specs[c]>> \in Wanted(t)
      BY <1>3, <3>2
    <3>3. QED BY <3>1, <3>2 DEF Grown
  <2>a. Sound(fresh', declared', turn, turn) BY <1>0, <2>1 DEF Sound
  <2>2. Complete(fresh', declared', turn, turn)
    BY <1>2 DEF IInv, FreshAgrees, Complete, Grown, Keeps, Turns
  <2>3. QED BY <2>a, <2>2 DEF FreshAgrees
<1>6. ContextAgrees'
  <2>1. Sound(context, declared', since, turn - 1)
    BY <1>4 DEF IInv, ContextAgrees, Sound
  <2>2. Complete(context, declared', since, turn - 1)
    <3> SUFFICES ASSUME NEW v \in declared', since <= v[1], v[1] <= turn - 1, v[2] # <<>>
                 PROVE  v[2] \in DOMAIN context.specs
      BY DEF Complete
    <3>1. v[1] # turn BY <1>0
    <3>2. v \in declared BY <1>2, <3>1
    <3>3. QED BY <3>2 DEF IInv, ContextAgrees, Complete
  <2>3. QED BY <2>1, <2>2 DEF IInv, ContextAgrees
<1>7. QED BY <1>1, <1>5, <1>6 DEF IInv, Grown, CallsLeadBack

(* The calls leave what they were shown under alone: what each other action *)
(* has to show of a registry that grows under them.                         *)
LEMMA StartLineKeepsIInv == IInv /\ StartLine => IInv'
<1> SUFFICES ASSUME IInv, StartLine PROVE IInv' OBVIOUS
<1>1. Turns' BY DEF IInv, Turns, StartLine
<1>2. Sound(context', declared, since', turn) /\ Complete(context', declared, since', turn)
  BY DEF IInv, FreshAgrees, StartLine
<1>3. FreshAgrees' /\ ContextAgrees' BY <1>2 DEF StartLine, FreshAgrees, ContextAgrees
<1>4. QED BY <1>1, <1>3 DEF IInv, StartLine, CallsLeadBack

LEMMA ResolveSessionKeepsIInv == IInv /\ ResolveSession => IInv'
<1> SUFFICES ASSUME IInv, ResolveSession PROVE IInv' OBVIOUS
<1>1. Turns' BY DEF IInv, Turns, ResolveSession
<1>2. FreshAgrees' BY DEF IInv, FreshAgrees, ResolveSession
<1>3. Sound(context, declared, since, turn)
  BY DEF IInv, Turns, ContextAgrees, Sound, ResolveSession
<1>4. Len(fresh.tools) >= 0
  BY LenProperties DEF IInv, Registry, Listed
<1>5. ContextAgrees' BY <1>3, <1>4 DEF IInv, ContextAgrees, ResolveSession
<1>6. QED BY <1>1, <1>2, <1>5 DEF IInv, ResolveSession, CallsLeadBack

(* One tool of fresh is merged: context keeps all it has. *)
LEMMA MergingGrows ==
  ASSUME IInv, Merge
  PROVE  /\ Registry(context') /\ Keeps(context, context')
         /\ \A c \in DOMAIN context'.specs :
              \/ c \in DOMAIN context.specs
              \/ c \in DOMAIN fresh.specs /\ context'.specs[c] = fresh.specs[c]
         /\ ~fresh.tools[merged + 1].hosted =>
              fresh.tools[merged + 1].name \in DOMAIN context'.specs
<1> DEFINE tool == fresh.tools[merged + 1]
           spec == fresh.specs[tool.name]
<1>1. context' = MergeTool(context, fresh, tool) BY DEF Merge
<1>2. merged + 1 \in DOMAIN fresh.tools
  BY LenProperties DEF IInv, Turns, Merge, Registry, Listed
<1>3. Registry(context) BY DEF IInv
<1>4. CASE tool.hosted
  <2>1. context' = AddHostedTool(context, tool) BY <1>1, <1>4 DEF MergeTool
  <2>2. Grown(context, context', {}) BY <1>3, <1>4, <2>1, HostedGrows
  <2>3. QED BY <1>4, <2>2 DEF Grown
<1>5. CASE ~tool.hosted
  <2>1. context' = RegisterChatTool(context, tool.name, spec, tool.def)
    BY <1>1, <1>5 DEF MergeTool
  <2>2. tool.name \in DOMAIN fresh.specs
    BY <1>2, <1>5 DEF IInv, Registry, Listed
  <2>3. PICK v \in declared : v[2] = tool.name /\ v[3] = spec
    BY <2>2 DEF IInv, FreshAgrees, Sound, Merge
  <2>4. spec.ns # <<>> => tool.name = Flatten(spec.ns, spec.name)
    BY <2>3 DEF IInv, Turns, WellNamed
  <2>5. /\ Registry(context') /\ Keeps(context, context')
        /\ \A c \in DOMAIN context'.specs :
             c \in DOMAIN context.specs \/ (c = tool.name /\ context'.specs[c] = spec)
        /\ tool.name # <<>> => tool.name \in DOMAIN context'.specs
    <3> DEFINE chat == tool.name def == tool.def
    <3> HIDE DEF chat, def, spec
    <3>1. LET q == RegisterChatTool(context, chat, spec, def)
          IN  /\ Registry(q) /\ Keeps(context, q)
              /\ q.namespaces = context.namespaces
              /\ \A c \in DOMAIN q.specs :
                   c \in DOMAIN context.specs \/ (c = chat /\ q.specs[c] = spec)
              /\ chat # <<>> => chat \in DOMAIN q.specs
      BY <1>3, <2>4, RegisterGrows DEF chat
    <3>2. QED BY <2>1, <3>1 DEF chat, def
  <2>6. tool.name # <<>> BY <2>2 DEF IInv, Registry, Listed
  <2>7. QED BY <1>5, <2>2, <2>5, <2>6
<1>6. QED BY <1>4, <1>5


LEMMA MergeKeepsIInv == IInv /\ Merge => IInv'
<1> SUFFICES ASSUME IInv, Merge PROVE IInv' OBVIOUS
<1>1. Turns' /\ FreshAgrees' BY DEF IInv, Turns, FreshAgrees, Merge
<1>2. Sound(context', declared, since, turn)
  <2> SUFFICES ASSUME NEW c \in DOMAIN context'.specs
               PROVE  \E v \in declared : /\ since <= v[1] /\ v[1] <= turn
                                          /\ v[2] = c /\ v[3] = context'.specs[c]
    BY DEF Sound
  <2>1. CASE c \in DOMAIN context.specs
    BY <2>1, MergingGrows DEF IInv, ContextAgrees, Sound, Keeps, Merge
  <2>2. CASE c \in DOMAIN fresh.specs /\ context'.specs[c] = fresh.specs[c]
    <3>1. turn \in Nat /\ since \in Nat /\ since <= turn BY DEF IInv, Turns
    <3>2. \E v \in declared : turn <= v[1] /\ v[1] <= turn /\ v[2] = c /\ v[3] = fresh.specs[c]
      BY <2>2 DEF IInv, FreshAgrees, Sound, Merge
    <3>3. \A v \in declared : v[1] \in Nat BY DEF IInv, Turns
    <3>4. QED BY <2>2, <3>1, <3>2, <3>3
  <2>3. QED BY <2>1, <2>2, MergingGrows
<1>3. Complete(context', declared, since, turn - 1)
  BY MergingGrows DEF IInv, ContextAgrees, Complete, Keeps, Merge
<1>4. merged' <= Len(fresh.tools)
  BY LenProperties DEF IInv, Turns, Merge, Registry, Listed
<1>5. \A k \in 1..merged' :
        ~fresh.tools[k].hosted => fresh.tools[k].name \in DOMAIN context'.specs
  <2> SUFFICES ASSUME NEW k \in 1..merged', ~fresh.tools[k].hosted
               PROVE  fresh.tools[k].name \in DOMAIN context'.specs
    OBVIOUS
  <2>1. k \in 1..merged \/ k = merged + 1 BY DEF Merge, IInv, Turns
  <2>2. QED BY <2>1, MergingGrows DEF IInv, ContextAgrees, Keeps, Merge
<1>6. ContextAgrees' BY <1>2, <1>3, <1>4, <1>5 DEF Merge, ContextAgrees
<1>7. QED BY <1>1, <1>6, MergingGrows DEF IInv, Merge, CallsLeadBack

(* The search tool, when the turn brought one, goes in last. *)
LEMMA MergingSearchGrows ==
  ASSUME IInv, MergeSearch
  PROVE  /\ Registry(context') /\ Keeps(context, context')
         /\ \A c \in DOMAIN context'.specs :
              \/ c \in DOMAIN context.specs
              \/ c \in DOMAIN fresh.specs /\ context'.specs[c] = fresh.specs[c]
<1>1. CASE HasSearch(fresh)
  <2>1. context' = RegisterChatTool(context, SearchName, SearchSpec, 0)
    BY <1>1 DEF MergeSearch, AddToolSearchTool
  <2>2. SearchSpec.ns = <<>> BY DEF SearchSpec, ToolSpec
  <2>3. Grown(context, context', {<<SearchName, SearchSpec>>})
    BY <2>1, <2>2, PlainGrows DEF IInv
  <2>4. QED BY <1>1, <2>3 DEF Grown, HasSearch
<1>2. CASE ~HasSearch(fresh)
  BY <1>2 DEF MergeSearch, IInv, Keeps
<1>3. QED BY <1>1, <1>2

LEMMA MergeSearchKeepsIInv == IInv /\ MergeSearch => IInv'
<1> SUFFICES ASSUME IInv, MergeSearch PROVE IInv' OBVIOUS
<1>1. Turns' /\ FreshAgrees' BY DEF IInv, Turns, FreshAgrees, MergeSearch
<1>2. Sound(context', declared, since, turn)
  <2> SUFFICES ASSUME NEW c \in DOMAIN context'.specs
               PROVE  \E v \in declared : /\ since <= v[1] /\ v[1] <= turn
                                          /\ v[2] = c /\ v[3] = context'.specs[c]
    BY DEF Sound
  <2>1. CASE c \in DOMAIN context.specs
    BY <2>1, MergingSearchGrows DEF IInv, ContextAgrees, Sound, Keeps, MergeSearch
  <2>2. CASE c \in DOMAIN fresh.specs /\ context'.specs[c] = fresh.specs[c]
    <3>1. turn \in Nat /\ since \in Nat /\ since <= turn BY DEF IInv, Turns
    <3>2. \E v \in declared : turn <= v[1] /\ v[1] <= turn /\ v[2] = c /\ v[3] = fresh.specs[c]
      BY <2>2 DEF IInv, FreshAgrees, Sound, MergeSearch
    <3>3. \A v \in declared : v[1] \in Nat BY DEF IInv, Turns
    <3>4. QED BY <2>2, <3>1, <3>2, <3>3
  <2>3. QED BY <2>1, <2>2, MergingSearchGrows
<1>3. \A c \in DOMAIN fresh.specs : c \in DOMAIN context'.specs
  <2> TAKE c \in DOMAIN fresh.specs
  <2>1. PICK k \in DOMAIN fresh.tools : ~fresh.tools[k].hosted /\ fresh.tools[k].name = c
    BY DEF IInv, Registry, Listed
  <2>2. k \in 1..merged BY LenProperties DEF IInv, Registry, Listed, MergeSearch
  <2>3. QED BY <2>1, <2>2, MergingSearchGrows DEF IInv, ContextAgrees, Keeps, MergeSearch
<1>4. Complete(context', declared, since, turn)
  <2> SUFFICES ASSUME NEW v \in declared, since <= v[1], v[1] <= turn, v[2] # <<>>
               PROVE  v[2] \in DOMAIN context'.specs
    BY DEF Complete
  <2>0. turn \in Nat /\ v[1] \in Nat BY DEF IInv, Turns
  <2>1. v[1] = turn \/ v[1] <= turn - 1 BY <2>0
  <2>2. CASE v[1] = turn
    BY <1>3, <2>2 DEF IInv, Turns, FreshAgrees, Complete, MergeSearch
  <2>3. CASE v[1] <= turn - 1
    BY <2>3, MergingSearchGrows DEF IInv, ContextAgrees, Complete, Keeps, MergeSearch
  <2>4. QED BY <2>1, <2>2, <2>3
<1>5. ContextAgrees' BY <1>2, <1>4 DEF MergeSearch, ContextAgrees
<1>6. QED BY <1>1, <1>5, MergingSearchGrows DEF IInv, MergeSearch, CallsLeadBack


(* The item of a call by a name that nobody declared. *)
LEMMA UnknownLeadsBack ==
  ASSUME NEW chat \in Hallucinated, NEW r, chat \notin DOMAIN r.specs
  PROVE  LeadsBack(Restore(r, chat), chat)
<1> DEFINE n == Len(chat) front == SubSeq(chat, 1, n - 1) last == <<chat[n]>>
<1>1. chat \in Seq(STRING) /\ n \in Nat /\ n <= MaxParts
  BY NamesAssumption DEF NamesAssumption
<1>2. CASE n > 1 /\ front \in r.namespaces
  <2>1. front \in Seq(STRING) /\ Len(front) = n - 1 /\ chat[n] \in STRING
    BY <1>1, <1>2
  <2>2. \A i \in 1..(n - 1) : front[i] = chat[i] BY <1>1, <1>2
  <2>3. front \o last = chat /\ Len(front \o last) = n
    BY <1>1, <2>1, <2>2
  <2>4. front # <<>>
    <3>1. Len(front) > 0 BY <1>1, <1>2, <2>1
    <3> HIDE DEF front
    <3>2. QED BY <3>1
  <2>5. Restore(r, chat) = Item("function", front, last) BY <1>2 DEF Restore
  <2> HIDE DEF front, last
  <2>6. Flatten(front, last) = chat BY <1>1, <2>3 DEF Flatten
  <2>7. QED BY <2>4, <2>5, <2>6 DEF LeadsBack, Item
<1>3. CASE ~(n > 1 /\ front \in r.namespaces)
  <2>1. Restore(r, chat) = Item("function", <<>>, chat) BY <1>3 DEF Restore
  <2>2. QED BY <2>1 DEF LeadsBack, Item
<1>4. QED BY <1>2, <1>3

(* The item of a call by a name the registry knows. *)
LEMMA KnownLeadsBack ==
  ASSUME NEW r, NEW chat \in DOMAIN r.specs, NEW action, NEW streamed,
         WellNamed(<<chat, r.specs[chat]>>), r.specs[chat].kind # "nested"
  PROVE  LeadsBack(Shown(r, chat, action, streamed), chat)
<1> DEFINE spec == r.specs[chat]
<1>1. spec.kind \in {"function", "custom", "search"} BY DEF WellNamed
<1>2. CASE spec.kind = "search"
  <2>1. Shown(r, chat, action, streamed) = Item("search", <<>>, <<>>)
    BY <1>2 DEF Shown
  <2>2. QED BY <1>2, <2>1 DEF WellNamed, LeadsBack, Item
<1>3. CASE spec.kind = "custom"
  <2>1. Shown(r, chat, action, streamed) = Item("custom", <<>>, spec.name)
    BY <1>3 DEF Shown
  <2>2. QED BY <1>3, <2>1 DEF WellNamed, LeadsBack, Item
<1>4. CASE spec.kind = "function"
  <2>1. Shown(r, chat, action, streamed) = Item("function", spec.ns, spec.name)
    BY <1>4 DEF Shown, Restore
  <2>2. chat = IF spec.ns = <<>> THEN spec.name ELSE Flatten(spec.ns, spec.name)
    BY <1>4 DEF WellNamed
  <2> HIDE DEF spec
  <2>3. QED BY <2>1, <2>2 DEF LeadsBack, Item
<1>5. QED BY <1>1, <1>2, <1>3, <1>4

LEMMA CallKeepsIInv == IInv /\ Call => IInv'
<1> SUFFICES ASSUME IInv, Call PROVE IInv' OBVIOUS
<1>1. Turns' /\ FreshAgrees' /\ ContextAgrees'
  BY DEF IInv, Turns, FreshAgrees, ContextAgrees, Call
<1>2. PICK chat \in DOMAIN context.specs \cup Hallucinated, streamed \in BOOLEAN :
        \E action \in IF IsNested(context, chat)
                      THEN context.specs[chat].actions \cup {<<>>} ELSE {<<>>} :
          calls' = calls \cup
            {[turn |-> turn, chat |-> chat, nested |-> IsNested(context, chat),
              item |-> Shown(context, chat, action, streamed)]}
  BY DEF Call
<1>3. PICK action :
        calls' = calls \cup
          {[turn |-> turn, chat |-> chat, nested |-> IsNested(context, chat),
            item |-> Shown(context, chat, action, streamed)]}
  BY <1>2
<1>4. ASSUME ~IsNested(context, chat)
      PROVE  LeadsBack(Shown(context, chat, action, streamed), chat)
  <2>1. CASE chat \in DOMAIN context.specs
    <3>1. WellNamed(<<chat, context.specs[chat]>>)
      BY <2>1 DEF IInv, ContextAgrees, Sound, Turns, Call
    <3>2. context.specs[chat].kind # "nested" BY <1>4, <2>1 DEF IsNested
    <3>3. QED BY <2>1, <3>1, <3>2, KnownLeadsBack
  <2>2. CASE chat \notin DOMAIN context.specs
    <3>1. chat \in Hallucinated BY <2>2
    <3>2. CASE streamed
      BY <2>2, <3>1, <3>2, UnknownLeadsBack DEF Shown
    <3>3. CASE ~streamed
      <4>1. Shown(context, chat, action, streamed) = Item("function", <<>>, chat)
        BY <2>2, <3>3 DEF Shown
      <4>2. QED BY <4>1 DEF LeadsBack, Item
    <3>4. QED BY <3>2, <3>3
  <2>3. QED BY <2>1, <2>2
<1>5. CallsLeadBack'
  <2> DEFINE item == Shown(context, chat, action, streamed)
             nested == IsNested(context, chat)
  <2>1. calls' = calls \cup {[turn |-> turn, chat |-> chat, nested |-> nested, item |-> item]}
    BY <1>3
  <2>2. ~nested => LeadsBack(item, chat) BY <1>4
  <2> HIDE DEF item, nested
  <2>3. QED BY <2>1, <2>2 DEF CallsLeadBack, IInv
<1>6. QED BY <1>1, <1>5 DEF IInv, Call

LEMMA NextTurnKeepsIInv == IInv /\ NextTurn => IInv'
<1> SUFFICES ASSUME IInv, NextTurn PROVE IInv' OBVIOUS
<1>0. turn \in Nat /\ since \in Nat /\ since <= turn /\ turn' = turn + 1
  BY DEF IInv, Turns, NextTurn
<1>1. Turns' BY DEF IInv, Turns, NextTurn
<1>2. \A v \in declared : v[1] \in Nat /\ v[1] <= turn BY DEF IInv, Turns
<1>3. Registry(fresh') /\ FreshAgrees'
  <2>1. Registry(fresh') /\ DOMAIN fresh'.specs = {}
    BY EmptyIsRegistry DEF NextTurn
  <2>2. Sound(fresh', declared, turn', turn') BY <2>1 DEF Sound
  <2>3. Complete(fresh', declared, turn', turn') BY <1>0, <1>2 DEF Complete
  <2>4. QED BY <2>1, <2>2, <2>3 DEF FreshAgrees, NextTurn
<1>4. turn' - 1 = turn BY <1>0
<1>5. ContextAgrees' BY <1>0, <1>4 DEF IInv, ContextAgrees, NextTurn
<1>6. QED BY <1>1, <1>3, <1>5 DEF IInv, NextTurn, CallsLeadBack

LEMMA BringersKeepIInv == IInv /\ (DeclareTool \/ ScanCustomCall \/ ScanSearchOutput) => IInv'
<1> SUFFICES ASSUME IInv, DeclareTool \/ ScanCustomCall \/ ScanSearchOutput PROVE IInv' OBVIOUS
<1>1. Registry(fresh) BY DEF IInv
<1>2. CASE DeclareTool
  BY <1>1, <1>2, DeclarationGrows, BringingKeepsIInv DEF DeclareTool, Bring
<1>3. CASE ScanSearchOutput
  BY <1>1, <1>3, DeclarationGrows, BringingKeepsIInv DEF ScanSearchOutput, Bring
<1>4. CASE ScanCustomCall
  <2>1. PICK t \in Offered : /\ t.type = "custom" /\ fresh' = AddCustomTool(fresh, t.name, 0)
                             /\ declared' = declared \cup Wished(t)
    BY <1>4 DEF ScanCustomCall, Bring
  <2>2. Wanted(t) = {<<t.name, ToolSpec("custom", <<>>, t.name, {})>>}
    BY <2>1 DEF Wanted
  <2>3. ToolSpec("custom", <<>>, t.name, {}).ns = <<>> BY DEF ToolSpec
  <2>4. Grown(fresh, fresh', Wanted(t))
    BY <1>1, <2>1, <2>2, <2>3, PlainGrows DEF AddCustomTool
  <2>5. QED BY <1>4, <2>1, <2>4, BringingKeepsIInv DEF ScanCustomCall, Bring
<1>5. QED BY <1>2, <1>3, <1>4

LEMMA NextKeepsIInv == IInv /\ [Next]_vars => IInv'
<1>1. IInv /\ UNCHANGED vars => IInv'
  BY DEF IInv, vars, Turns, FreshAgrees, ContextAgrees, CallsLeadBack
<1>2. QED
  BY <1>1, BringersKeepIInv, StartLineKeepsIInv, ResolveSessionKeepsIInv,
     MergeKeepsIInv, MergeSearchKeepsIInv, CallKeepsIInv, NextTurnKeepsIInv
  DEF Next

LEMMA Invariance == Spec => []IInv
  BY Initially, NextKeepsIInv, PTL DEF Spec

-----------------------------------------------------------------------------
(* What the turns of the conversation declared can be called, each tool     *)
(* under its name and as what it is, unless two of them claim one name.     *)
LEMMA InvariantMakesCallable == IInv => DeclaredIsCallable
<1> SUFFICES ASSUME IInv, phase = "calling", NEW w \in InForce, Undisputed(w)
             PROVE  /\ w[1] \in DOMAIN context.specs /\ context.specs[w[1]] = w[2]
                    /\ \E k \in Functions :
                         \A j \in Functions : context.tools[j].name = w[1] <=> j = k
  BY DEF DeclaredIsCallable
<1>1. PICK v \in declared : v[1] >= since /\ w = <<v[2], v[3]>> BY DEF InForce
<1>2. \A u \in declared : u[1] \in Nat /\ u[1] <= turn BY DEF IInv, Turns
<1>3. since \in Nat BY DEF IInv, Turns
<1>4. w[1] # <<>> /\ w[1] = v[2] BY <1>1 DEF Undisputed
<1>5. w[1] \in DOMAIN context.specs
  BY <1>1, <1>2, <1>3, <1>4 DEF IInv, ContextAgrees, Complete
<1>6. PICK u \in declared :
        since <= u[1] /\ u[2] = w[1] /\ u[3] = context.specs[w[1]]
  BY <1>5 DEF IInv, ContextAgrees, Sound
<1>7. context.specs[w[1]] = w[2]
  <2>1. u[1] >= since BY <1>2, <1>3, <1>6
  <2>2. <<u[2], u[3]>> \in InForce BY <2>1 DEF InForce
  <2>3. <<u[2], u[3]>> = w BY <1>6, <2>2 DEF Undisputed
  <2>4. QED BY <1>6, <2>3
<1>8. PICK k \in DOMAIN context.tools : ~context.tools[k].hosted /\ context.tools[k].name = w[1]
  BY <1>5 DEF IInv, Registry, Listed
<1>9. \A j \in Functions : context.tools[j].name = w[1] <=> j = k
  BY <1>8 DEF IInv, Registry, Listed, Functions
<1>10. k \in Functions BY <1>8 DEF Functions
<1>11. QED BY <1>5, <1>7, <1>9, <1>10

THEOREM DeclaredToolsAreCallable == Spec => []DeclaredIsCallable
  BY Invariance, InvariantMakesCallable, PTL

(* A call comes back under the name that upstream called. *)
LEMMA InvariantBringsCallsBack == IInv => CallsComeBack
<1> SUFFICES ASSUME IInv, NEW c \in calls, ~c.nested
             PROVE  ResentName(context, c.item) = c.chat
  BY DEF CallsComeBack
<1>1. LeadsBack(c.item, c.chat) BY DEF IInv, CallsLeadBack
<1>2. \A p \in DOMAIN context.chatOf : context.chatOf[p] = Flatten(p[1], p[2])
  BY DEF IInv, Registry, Joined
<1>3. QED BY <1>1, <1>2 DEF LeadsBack, ResentName, ChatNameForFunction

THEOREM CallsReturn == Spec => []CallsComeBack
  BY Invariance, InvariantBringsCallsBack, PTL

(* A continuation leaves every tool of the conversation as it was. *)
THEOREM DefinitionsStand == Spec => FirstDefinitionStands
<1> DEFINE Stands == since' = since => Keeps(context, context')
<1>1. IInv /\ [Next]_vars => Stands
  <2> SUFFICES ASSUME IInv, [Next]_vars, since' = since PROVE Keeps(context, context')
    OBVIOUS
  <2>1. CASE context' = context BY <2>1 DEF Keeps
  <2>2. CASE StartLine
    <3>1. since = turn BY <2>2 DEF StartLine
    <3>2. context = Empty
      BY <2>2, <3>1 DEF IInv, ContextAgrees, Turns, StartLine
    <3>3. QED BY <3>2, EmptyIsRegistry DEF Keeps
  <2>3. CASE Merge BY <2>3, MergingGrows
  <2>4. CASE MergeSearch BY <2>4, MergingSearchGrows
  <2>5. QED
    BY <2>1, <2>2, <2>3, <2>4
    DEF Next, vars, DeclareTool, ScanCustomCall, ScanSearchOutput, ResolveSession, Call, NextTurn
<1>2. Stands <=>
        (since' = since =>
           /\ \A k \in DOMAIN context.tools : /\ k \in DOMAIN context'.tools
                                              /\ context'.tools[k] = context.tools[k]
           /\ \A c \in DOMAIN context.specs : /\ c \in DOMAIN context'.specs
                                              /\ context'.specs[c] = context.specs[c])
  BY DEF Keeps
<1>3. QED BY <1>1, <1>2, Invariance, PTL DEF Spec, FirstDefinitionStands
=============================================================================
