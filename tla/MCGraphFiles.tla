------------------------------ MODULE MCGraphFiles ------------------------------
(***************************************************************************)
(* GraphFiles with room for two types beside the six built in, and calls   *)
(* for two new types, one that contradicts a built-in one and one that R   *)
(* turns away.                                                             *)
(***************************************************************************)
EXTENDS GraphFiles

Reversed(g) ==
    [glyph |-> g, tail |-> "arrow", head |-> "tail", symmetric |-> FALSE, class |-> "directed"]

MCUserSpecs ==
    {Reversed("<--"),
     [UndirectedSpec EXCEPT !.glyph = "==="],
     [DirectedSpec EXCEPT !.head = "circle"],
     [UndirectedSpec EXCEPT !.symmetric = FALSE]}

MCPieces ==
    [g \in {"-->", "---", "<->", "o-o", "--o", "o->", "<--", "==="} |->
        CASE g = "-->" -> <<"--", ">">>
          [] g = "<--" -> <<"<", "--">>
          [] g = "<->" -> <<"<", "-", ">">>
          [] g = "o->" -> <<"o-", ">">>
          [] OTHER     -> <<g>>]

ABC == <<"A", "B", "C">>

CBA == <<"C", "B", "A">>

Simple(class, nodes, rows) == [simple |-> TRUE, class |-> class, nodes |-> nodes, rows |-> rows]

MCTables ==
    {Simple("AUTO", <<"B", "A">>, <<>>),
     Simple("AUTO", ABC, <<<<"A", "-->", "B">>, <<"C", "-->", "B">>>>),
     Simple("PDAG", CBA, <<<<"A", "-->", "B">>, <<"C", "---", "B">>>>),
     Simple("PDAG", <<"A", "B", "C", "D">>,
            <<<<"A", "-->", "C">>, <<"B", "-->", "C">>, <<"D", "---", "A">>>>),
     Simple("AUTO", <<"D", "A", "B", "C">>,
            <<<<"A", "-->", "C">>, <<"B", "-->", "C">>, <<"D", "-->", "A">>>>),
     Simple("UNKNOWN", ABC, <<<<"A", "<--", "B">>, <<"C", "===", "B">>>>),
     Simple("UNKNOWN", CBA, <<<<"A", "o->", "B">>, <<"B", "--o", "C">>, <<"C", "<->", "A">>>>),
     [simple |-> FALSE, class |-> "ADMG", nodes |-> ABC,
      rows |-> <<<<"A", "-->", "B">>, <<"B", "<->", "A">>>>]}

(* Files of a wrong format, of another major version, with an unknown node *)
(* or glyph, one that lists a node twice, and the edges of GraphML: typed, *)
(* untyped, typed twice, with a graph inside of a node, to such a node.    *)
Json(format, major, edges) ==
    <<"caugi", [format |-> format, major |-> major, class |-> "UNKNOWN",
                nodes |-> <<"A", "B", "A">>, edges |-> edges]>>

MCForeign ==
    {Json("dot", 1, <<>>), Json("caugi", 2, <<>>),
     Json("caugi", 1, <<<<"A", "-->", "Z">>>>),
     Json("caugi", 1, <<<<"A", "===", "B">>>>),
     <<"graphml",
       <<<<"node", "A">>, <<"edge", "A", "B", <<>>>>, <<"node", "B">>, <<"class", "DAG">>>>,
       "C",
       <<<<"class", "UG">>, <<"node", "D">>, <<"edge", "D", "D", <<"---">>>>>>, "directed">>,
     <<"graphml",
       <<<<"edge", "A", "B", <<"---", "o->">>>>, <<"edge", "C", "B", <<"===">>>>,
         <<"node", "A">>, <<"node", "B">>>>,
       "C", <<<<"edge", "A", "B", <<>>>>>>, "undirected">>,
     <<"graphml",
       <<<<"class", "UG">>, <<"edge", "A", "D", <<>>>>, <<"node", "A">>, <<"class", "PDAG">>>>,
       "C", <<<<"node", "D">>>>, "directed">>}
================================================================================
