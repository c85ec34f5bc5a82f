----------------------------- MODULE MCGraphBuilder -----------------------------
(***************************************************************************)
(* GraphBuilder with one edge type that has a direction and one that is    *)
(* symmetric.                                                              *)
(***************************************************************************)
EXTENDS GraphBuilder

MCSpecs == [c \in 0 .. 1 |-> IF c = 0 THEN DirectedSpec ELSE UndirectedSpec]
================================================================================
