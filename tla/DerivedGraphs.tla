------------------------------ MODULE DerivedGraphs ------------------------------
(***************************************************************************)
(* The two graphs that R/operations.R derives by asking one graph          *)
(* questions: condition_marginalize(), which asks an ancestral graph which *)
(* nodes are never separated, and dag_from_pdag(), which takes a PDAG      *)
(* apart sink by sink (Dor and Tarsi).                                     *)
(*                                                                         *)
(* Here, too, the set of results is empty where the function stops.        *)
(***************************************************************************)
EXTENDS ViewTransforms

(* is_ag(): the class, or else the core is looked at. *)
CountsAsAg(v) == v.class = "AG" \/ IsAg(v.core)

(* a in anteriors of b and of the conditioning set *)
ComesBefore(v, cond, a, b) == a \in UNION {Anteriors(v, s) : s \in cond \cup {b}}

(* .not_m_separated_for_all_subsets(), the nodes conditioned on always in. *)
NeverSeparated(v, cond, others, a, b) ==
    \A S \in SUBSET others : ~ MSeparated(v, {a}, {b}, S \cup cond).value

Joined(v, cond, left) ==
    {p \in Pairs2(left) :
        p \in NeighborPairs(v) \/ NeverSeparated(v, cond, left \ {p[1], p[2]}, p[1], p[2])}

(* .edge_type_from_anteriors() *)
ArcsByAnteriors(v, cond, joined) ==
    {p \in joined : ComesBefore(v, cond, p[1], p[2]) /\ ~ ComesBefore(v, cond, p[2], p[1])}

LinesByAnteriors(v, cond, joined) ==
    {p \in joined : ComesBefore(v, cond, p[1], p[2]) /\ ComesBefore(v, cond, p[2], p[1])}

SpousesByAnteriors(v, cond, joined) ==
    {p \in joined : ~ ComesBefore(v, cond, p[1], p[2]) /\ ~ ComesBefore(v, cond, p[2], p[1])}

(* No table of edges comes of no edge at all: caugi() misses its columns.   *)
CondMarginalize(v, cond, marg) ==
    LET keep == SortedSeq(Nodes(v) \ (cond \cup marg))
        left == ToSet(keep)
        answered == /\ v.class \notin {"ADMG", "UG", "UNKNOWN"}
                    /\ v.class \in PdagFamily => Pairs2(left) \subseteq NeighborPairs(v)
        joined == Joined(v, cond, left)
    IN  IF ~ CountsAsAg(v) \/ cond \cup marg = {} \/ cond \cap marg # {} THEN {}
        ELSE IF Len(keep) < 2
             THEN {View("AG", Compile(Len(keep), TRUE, v.core.registry, NoEdges))}
        ELSE IF ~ answered \/ joined = {} THEN {}
        ELSE Wrapped("AG", CoreFrom(v.core.registry, TRUE, Len(keep),
                                    Renumbered(keep, ArcsByAnteriors(v, cond, joined)),
                                    Renumbered(keep, SpousesByAnteriors(v, cond, joined)),
                                    Renumbered(keep, LinesByAnteriors(v, cond, joined))))

--------------------------------------------------------------------------------
(* dag_from_pdag() *)

(* The edges among the nodes left; the others keep their place, unconnected. *)
Within(core, left) ==
    Compile(core.n, core.simple, core.registry,
            [e \in {d \in EdgeSet(core) : {d[1], d[2]} \subseteq left} |-> 1])

(* No child left, and the ends of its lines joined with each other. *)
IsSink(v, x) ==
    /\ Children(v.arcs, x) = {}
    /\ \A a, b \in Children(v.lines, x) : a # b => <<a, b>> \in NeighborPairs(v)

(* set_edges() from N to x resolves the class again, if it sets any.        *)
OrientedTowards(class, core, N, x) ==
    IF N = {} THEN {core}
    ELSE {c \in {Compile(core.n, core.simple, core.registry,
                        ReplacePairs(core.simple, core.links, [e \in N \X {x} \X {code} |-> 1])) :
                    code \in CodeFor(core.registry, "directed", "-->")} : InClass(c, class)}

(* remove_nodes() does, too, as long as an edge is left. *)
StaysInClass(class, core) == core.links = NoEdges \/ InClass(core, class)

(* One turn: the first sink goes, its lines turned towards it.              *)
TakeSink(class, core, s) ==
    LET t == View(class, Within(core, s.left))
        sinks == {x \in s.left : IsSink(t, x)}
        x == CHOOSE y \in sinks : \A z \in sinks : y <= z
    IN  IF s.left = {} THEN {s}
        ELSE IF sinks = {} \/ ~ StaysInClass(class, Within(core, s.left \ {x})) THEN {}
        ELSE {[left |-> s.left \ {x}, out |-> out] :
                 out \in OrientedTowards(class, s.out, Children(t.lines, x), x)}

DagFromPdag(v) ==
    LET turns[k \in 0 .. v.n] ==
            IF k = 0 THEN {[left |-> Nodes(v), out |-> v.core]}
            ELSE UNION {TakeSink(v.class, v.core, s) : s \in turns[k - 1]}
    IN  IF v.class \notin PdagFamily THEN {} ELSE Wrapped("DAG", {s.out : s \in turns[v.n]})
================================================================================
