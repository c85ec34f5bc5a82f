----------------------------- MODULE MCCaugiObjects -----------------------------
(***************************************************************************)
(* CaugiObjects with --> and --- built in and a bidirected glyph to        *)
(* register between two verbs.                                             *)
(***************************************************************************)
EXTENDS CaugiObjects

MCUserGlyphs == {"<=>"}

MCBuiltins == <<"-->", "---">>

MCSpecs ==
    [g \in ToSet(MCBuiltins) \cup MCUserGlyphs |->
        CASE g = "-->" -> DirectedSpec
          [] g = "---" -> UndirectedSpec
          [] g = "<=>" -> [BidirectedSpec EXCEPT !.glyph = g]]

(* No edge, one edge, an edge given twice, and two edges into one node.    *)
MCTables ==
    {<<>>, <<<<"A", "-->", "B">>, <<"A", "-->", "B">>>>}
        \cup {<<row>> : row \in {r \in Row : r[1] # r[3]}}
        \cup {<<<<"A", "-->", "B">>, <<"C", "-->", "B">>>>}

ThreeNames == {<<>>, <<"B", "A", "C">>}
================================================================================
