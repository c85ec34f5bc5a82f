------------------------------ MODULE MixedGraphs ------------------------------
(***************************************************************************)
(* What a typed view shows of its graph, and paths in it.                  *)
(*                                                                         *)
(* A mixed graph is a record                                               *)
(*   n       : number of nodes, the nodes being 0 .. n-1                   *)
(*   arcs    : set of <<parent, child>>                                    *)
(*   spouses : bidirected edges, both orientations of each                 *)
(*   lines   : undirected edges, both orientations of each.                *)
(* The views pack each node's neighbours in sorted buckets of these kinds; *)
(* masks and sorted vectors of nodes are sets.                             *)
(***************************************************************************)
EXTENDS GraphClasses

(* The result of a question: Result<_, String>. *)
Err == [ok |-> FALSE, value |-> {}]
Ok(v) == [ok |-> TRUE, value |-> v]

Converse(R) == {<<e[2], e[1]>> : e \in R}

(* The least superset of S that R does not leave: the stack or queue loops. *)
Closure(S, R) ==
    LET all == S \cup {e[2] : e \in R}
        grow[T \in SUBSET all] ==
            LET next == T \cup {e[2] : e \in {r \in R : r[1] \in T}} IN
            IF next = T THEN T ELSE grow[next]
    IN  grow[S]

AncestorsMask(g, seeds) == Closure(seeds, Converse(g.arcs))

DescendantsMask(g, seeds) == Closure(seeds, g.arcs)

AnteriorsMask(g, seeds) == Closure(seeds, Converse(g.arcs) \cup g.lines)

NeighborPairs(g) == g.arcs \cup Converse(g.arcs) \cup g.spouses \cup g.lines

(* Every way to walk along an edge: from, mark there, to, mark there.       *)
Steps(g) ==
    {<<a[2], "Head", a[1], "Tail">> : a \in g.arcs}
    \cup {<<a[1], "Tail", a[2], "Head">> : a \in g.arcs}
    \cup {<<s[1], "Head", s[2], "Head">> : s \in g.spouses}
    \cup {<<l[1], "Undir", l[2], "Undir">> : l \in g.lines}

--------------------------------------------------------------------------------
(* The definitions the algorithms are checked against. *)

(* A mixed graph that Ag::try_new accepts. *)
IsAncestral(g) == Ancestral(Nodes(g), g.arcs, g.spouses, g.lines)

(* Two marks at a node of a path meet in a collider iff both are arrowheads. *)
Open(before, after, v, Z, opened) ==
    IF before = "Head" /\ after = "Head" THEN v \in opened ELSE v \notin Z

(* The simple paths from x that no inner node blocks given Z, as            *)
(* <<nodes on it, end, mark there, first mark, directed away from x>>.      *)
OpenPaths(g, x, Z) ==
    LET opened == AncestorsMask(g, Z)
        onward(p) ==
            {<<p[1] \cup {s[3]}, s[3], s[4], p[4], p[5] /\ s[2] = "Tail">> : s \in
                {t \in Steps(g) : /\ t[1] = p[2] /\ t[3] \notin p[1]
                                  /\ Open(p[3], t[2], p[2], Z, opened)}}
        paths[i \in 1 .. g.n] ==
            IF i = 1
            THEN {<<{x, s[3]}, s[3], s[4], s[2], s[2] = "Tail">> :
                     s \in {t \in Steps(g) : t[1] = x}}
            ELSE LET shorter == paths[i - 1] IN
                 shorter \cup UNION {onward(p) : p \in shorter}
    IN  paths[g.n]

(* d- and m-connection of disjoint X and Y given Z. *)
Connected(g, X, Y, Z) ==
    \E x \in X : \E p \in OpenPaths(g, x, Z) : p[2] \in Y

(* Pearl's criterion: no descendant of x, and every path into x blocked.    *)
Backdoor(g, x, y, Z) ==
    /\ Z \cap DescendantsMask(g, {x}) = {}
    /\ \A p \in OpenPaths(g, x, Z) : ~ (p[4] = "Head" /\ p[2] = y)

(* The adjustment criterion: Z has no descendant of a node on a proper      *)
(* causal path from X to Y and blocks every other proper path.              *)
AdjustmentCriterion(g, X, Y, Z) ==
    LET proper(x, W) == {p \in OpenPaths(g, x, W) : p[1] \cap X = {x} /\ p[2] \in Y}
        causal == UNION {UNION {p[1] : p \in {q \in proper(x, {}) : q[5]}} : x \in X} \ X
    IN  /\ Z \cap DescendantsMask(g, causal) = {}
        /\ \A x \in X : \A p \in proper(x, Z) : p[5]
================================================================================
