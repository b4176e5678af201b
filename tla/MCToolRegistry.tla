--------------------------- MODULE MCToolRegistry ----------------------------
(***************************************************************************)
(* An instance of ToolRegistry for TLC: tools chosen so that plain names,  *)
(* flat and nested namespaces and custom tools meet in one Chat name.      *)
(***************************************************************************)
EXTENDS ToolRegistryProperties, FiniteSets, SequencesExt

Tool(type, name) ==
  [type |-> type, name |-> name, nested |-> FALSE, children |-> <<>>, def |-> 1]

Namespace(name, nested, children) ==
  [Tool("namespace", name) EXCEPT !.nested = nested, !.children = children]

MCOffered ==
  {Tool("function", <<"a">>),
   [Tool("function", <<"a">>) EXCEPT !.def = 2],
   Tool("custom", <<"a">>),
   Tool("function", <<"a", "b">>),
   Tool("custom", <<"a", "a">>),
   Tool("function", SearchName),
   Tool("tool_search", <<>>),
   Tool("hosted", <<"web">>),
   Namespace(<<"a">>, FALSE, <<<<"b">>, <<"b", "c">>>>),
   Namespace(<<"a", "b">>, FALSE, <<<<"c">>, <<"c", "d">>>>),
   Namespace(<<"a">>, FALSE, <<<<"a">>>>),
   Namespace(<<"a">>, TRUE, <<<<"b">>, <<"c">>>>)}

MCHallucinated == {<<"a", "x">>, <<"x", "y">>}

MCDigest(name) == FoldLeft(LAMBDA h, piece : h \o piece, "#", name)
=============================================================================
