----------------------------- MODULE MCMeekClosure -----------------------------
(***************************************************************************)
(* Every simple PDAG over the nodes, and those on at most MixedPairs pairs *)
(* of nodes in which a pair may hold an arc and a line (class PDAG with    *)
(* simple = FALSE).                                                        *)
(***************************************************************************)
EXTENDS MeekClosure

CONSTANT MixedPairs

MCPdags ==
    {[arcs |-> A, lines |-> Symmetric(V, E)] :
        <<A, E>> \in UNION {Orientations(V, D) \X {E \in SUBSET kSubset(2, V) :
                                \/ D \cap E = {}
                                \/ Cardinality(D \cup E) <= MixedPairs} :
                                D \in SUBSET kSubset(2, V)}}
================================================================================
