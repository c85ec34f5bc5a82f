------------------------------- MODULE Adjustment -------------------------------
(***************************************************************************)
(* The adjustment algorithms: parents, backdoor and optimal sets in DAGs,  *)
(* Pearl's criterion and its enumeration, and the generalized adjustment   *)
(* criterion in ADMGs.                                                     *)
(***************************************************************************)
EXTENDS Separation

AllParents(g, X) == UNION {Parents(g.arcs, x) : x \in X}

(* Inclusion-minimal members. *)
PruneMinimal(sets) == {z \in sets : \A s \in sets : s \subseteq z => s = z}

SubsetsUpTo(U, max) == {z \in SUBSET U : Cardinality(z) <= max}

--------------------------------------------------------------------------------
(* DAGs *)

AdjustmentSetParents(g, X, Y) == AllParents(g, X) \ (X \cup Y)

(* The descendants of the nodes on causal paths from X to Y, and X. *)
ForbiddenSet(g, X, Y) ==
    DescendantsMask(g, (DescendantsMask(g, X) \cap AncestorsMask(g, Y)) \ Y) \cup X

(* drop_first_edge() of every arc from X into a node that reaches Y. *)
FirstEdges(g, X, Y) == {a \in g.arcs : a[1] \in X /\ a[2] \in AncestorsMask(g, Y)}

(* filter_edges(): both passes ask the same predicate of each half of an arc. *)
FilterEdges(g, dropped) == [g EXCEPT !.arcs = @ \ dropped]

ProperBackdoorGraph(g, X, Y) == FilterEdges(g, FirstEdges(g, X, Y))

(* A minimal separator in the proper backdoor graph among the nodes that    *)
(* may be adjusted for, the parents where there is none.                    *)
AdjustmentSetBackdoor(g, X, Y) ==
    LET restrict == Nodes(g) \ (ForbiddenSet(g, X, Y) \cup Y)
        sep == MinimalDSeparator(ProperBackdoorGraph(g, X, Y), X, Y, {}, restrict)
    IN  IF sep = None THEN AdjustmentSetParents(g, X, Y) ELSE UNION sep

(* Slip: the causal nodes themselves are not taken out. *)
AdjustmentSetOptimalWithNodes(g, x, y) ==
    AllParents(g, (DescendantsMask(g, {x}) \ {x}) \cap AncestorsMask(g, {y})) \ {x}

(* The parents of the causal nodes behind x that are not causal nodes.      *)
AdjustmentSetOptimal(g, x, y) ==
    LET cn == (DescendantsMask(g, {x}) \ {x}) \cap AncestorsMask(g, {y}) IN
    AllParents(g, cn) \ (cn \cup {x})

(* Slip: x itself is not conditioned on. *)
IsValidBackdoorSetWithoutX(g, x, y, Z) ==
    /\ Z \cap DescendantsMask(g, {x}) = {}
    /\ \A p \in Parents(g.arcs, x) : DSeparated(g, {p}, {y}, Z)

IsValidBackdoorSet(g, x, y, Z) ==
    /\ Z \cap DescendantsMask(g, {x}) = {}
    /\ \A p \in Parents(g.arcs, x) : DSeparated(g, {p}, {y}, Z \cup {x})

BackdoorUniverse(g, x, y) == Nodes(g) \ (DescendantsMask(g, {x}) \cup {y})

AllBackdoorSets(g, x, y, minimal, max) ==
    LET valid == {Z \in SubsetsUpTo(BackdoorUniverse(g, x, y), max) :
                    IsValidBackdoorSet(g, x, y, Z)} IN
    IF minimal THEN PruneMinimal(valid) ELSE valid

--------------------------------------------------------------------------------
(* ADMGs *)

(* m_separated_pbg(): the arcs into other nodes of X stay. *)
MSeparatedPbg(g, X, Y, Z) ==
    LET first == {a \in g.arcs : a[1] \in X /\ a[2] \in AncestorsMask(g, Y) \ X} IN
    MSeparatedAdmg([g EXCEPT !.arcs = @ \ first], X, Y, Z)

(* Slip: forbidden nodes are not looked for. *)
IsValidAdjustmentSetSeparating(g, X, Y, Z) == MSeparatedPbg(g, X, Y, Z)

IsValidAdjustmentSet(g, X, Y, Z) ==
    /\ Z \cap ForbiddenSet(g, X, Y) = {}
    /\ MSeparatedPbg(g, X, Y, Z)

AllAdjustmentSets(g, X, Y, minimal, max) ==
    LET valid == {Z \in SubsetsUpTo(Nodes(g) \ (ForbiddenSet(g, X, Y) \cup Y), max) :
                    IsValidAdjustmentSet(g, X, Y, Z)} IN
    IF minimal THEN PruneMinimal(valid) ELSE valid
================================================================================
