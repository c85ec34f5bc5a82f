------------------------------- MODULE Separation -------------------------------
(***************************************************************************)
(* The separation algorithms: moralization for DAGs and ADMGs, the         *)
(* augmented graph for AGs, Bayes ball for minimal separators in DAGs and  *)
(* its mixed-graph form for ADMGs and AGs.  A result of type Option is a   *)
(* set with at most one element.                                           *)
(***************************************************************************)
EXTENDS MixedGraphs

None == {}
Some(z) == {z}

(* reachable_to_any(): some source reaches some target off the blocked nodes. *)
ReachableToAny(adj, X, blocked, Y) ==
    Closure(X \ blocked, {e \in adj : e[2] \notin blocked}) \cap (Y \ blocked) # {}

--------------------------------------------------------------------------------
(* DAGs *)

(* Slip: parents are not married. *)
MoralAdjUnmarried(g, mask) ==
    {e \in mask \X mask : e \in g.arcs \cup Converse(g.arcs)}

(* moral_adj(): the arcs inside the mask, and parents with a child in it.   *)
MoralAdj(g, mask) ==
    {e \in mask \X mask :
        \/ e \in g.arcs \cup Converse(g.arcs)
        \/ e[1] # e[2] /\ \E c \in mask : {e[1], e[2]} \subseteq Parents(g.arcs, c)}

DSeparated(g, X, Y, Z) ==
    \/ X = {} \/ Y = {}
    \/ ~ ReachableToAny(MoralAdj(g, AncestorsMask(g, X \cup Y \cup Z)), X, Z, Y)

(* The moves of Bayes ball inside the mask, between states <<node, how it   *)
(* was entered>>: "Down" from a parent, "Up" from a child.                  *)
BayesBallMoves(g, Z, mask) ==
    {m \in (mask \X {"Up", "Down"}) \X (mask \X {"Up", "Down"}) :
        LET u == m[1][1]  v == m[2][1] IN
        IF m[2][2] = "Down"
        THEN <<u, v>> \in g.arcs /\ u \notin Z
        ELSE <<v, u>> \in g.arcs /\ (m[1][2] = "Up" <=> u \notin Z)}

(* d_connected_restricted(): start nodes do not count as reached. *)
DConnectedRestricted(g, X, Z, mask) ==
    {s[1] : s \in Closure(X \X {"Up", "Down"}, BayesBallMoves(g, Z, mask))} \ X

MinimalDSeparator(g, X, Y, include, restrict) ==
    IF X = {} \/ Y = {} \/ ~ include \subseteq restrict THEN None ELSE
    LET mask == AncestorsMask(g, X \cup Y \cup include)
        z0 == (restrict \cap mask) \ (X \cup Y)
        reachedX == DConnectedRestricted(g, X, z0, mask)
        zx == (z0 \cap reachedX) \cup include
        reachedY == DConnectedRestricted(g, Y, zx, mask)
    IN  IF reachedX \cap Y # {} THEN None ELSE Some((zx \cap reachedY) \cup include)

--------------------------------------------------------------------------------
(* ADMGs *)

(* moral_adj_admg_filtered(): marries the tails of all arrowheads at one    *)
(* node; g has lost the removed arcs.                                       *)
MoralAdjAdmg(g, mask) ==
    {e \in mask \X mask :
        \/ e \in g.arcs \cup Converse(g.arcs) \cup g.spouses
        \/ \E v \in mask : {e[1], e[2]} \subseteq Parents(g.arcs \cup g.spouses, v)}

MSeparatedAdmg(g, X, Y, Z) ==
    \/ X = {} \/ Y = {}
    \/ ~ ReachableToAny(MoralAdjAdmg(g, AncestorsMask(g, X \cup Y \cup Z)), X, Z, Y)

--------------------------------------------------------------------------------
(* AGs *)

(* augmented_adj_ag(): joins the ends of every collider path in the mask.   *)
(* A search state is the last edge <<prev, curr>>.                          *)
AugmentedAdj(g, mask) ==
    LET near == {e \in NeighborPairs(g) : {e[1], e[2]} \subseteq mask}
        heads == g.arcs \cup g.spouses
        moves == {m \in near \X near :
                    /\ m[1][2] = m[2][1] /\ m[2][2] # m[1][1]
                    /\ m[1] \in heads /\ <<m[2][2], m[2][1]>> \in heads}
        ends(s) == {p[2] : p \in Closure({e \in near : e[1] = s}, moves)} \ {s}
    IN  UNION {{e, <<e[2], e[1]>>} : e \in {d \in mask \X mask : d[2] \in ends(d[1])}}

MSeparatedAg(g, X, Y, Z) ==
    \/ X = {} \/ Y = {}
    \/ ~ ReachableToAny(AugmentedAdj(g, AnteriorsMask(g, X \cup Y \cup Z)), X, Z, Y)

(* search_separator() over all subsets of the other nodes. *)
HasSeparatingSet(g, u, v) ==
    \E Z \in SUBSET (Nodes(g) \ {u, v}) : MSeparatedAg(g, {u}, {v}, Z)

(* Slip: neighbours are looked up in one of the two directions of an arc. *)
IsMagOneWay(g) ==
    \A u, v \in Nodes(g) :
        u < v => <<v, u>> \in g.arcs \cup g.spouses \cup g.lines \/ HasSeparatingSet(g, u, v)

IsMag(g) ==
    \A u, v \in Nodes(g) : u < v => <<u, v>> \in NeighborPairs(g) \/ HasSeparatingSet(g, u, v)

--------------------------------------------------------------------------------
(* Minimal separators in mixed graphs *)

(* relax(): may the walk go on when it met v with one mark and leaves with  *)
(* the other?                                                               *)
Relax(before, after, v, Z) ==
    LET collider == before = "Head" /\ after = "Head"
        definite == "Tail" \in {before, after} \/ (before = "Undir" /\ after = "Undir")
    IN  (collider \/ definite) /\ (v \in Z <=> collider)

(* reachable_mixed(): states <<node, mark there>> inside the mask; a start  *)
(* node is entered with every mark.                                         *)
ReachableMixed(g, X, mask, Z) ==
    LET moves == UNION {{<<<<s[1], before>>, <<s[3], s[4]>>>> :
                            before \in {b \in {"Tail", "Head", "Undir"} : Relax(b, s[2], s[1], Z)}} :
                        s \in {t \in Steps(g) : t[3] \in mask}}
    IN  {s[1] : s \in Closure((X \cap mask) \X {"Tail", "Head", "Undir"}, moves)}

(* Slip: candidates are not confined to the anteriors. *)
FindNearestSepAnywhere(g, X, Y, include, restrict) ==
    IF X = {} \/ Y = {} \/ ~ include \subseteq restrict THEN None ELSE
    LET mask == AnteriorsMask(g, X \cup Y \cup include)
        z0 == restrict \ (X \cup Y)
        reached == ReachableMixed(g, X, Nodes(g), z0)
    IN  IF reached \cap Y # {} THEN None ELSE Some((z0 \cap reached) \cup include)

FindNearestSep(g, X, Y, include, restrict) ==
    IF X = {} \/ Y = {} \/ ~ include \subseteq restrict THEN None ELSE
    LET mask == AnteriorsMask(g, X \cup Y \cup include)
        z0 == (restrict \cap mask) \ (X \cup Y)
        reached == ReachableMixed(g, X, mask, z0)
    IN  IF reached \cap Y # {} THEN None ELSE Some((z0 \cap reached) \cup include)

FindMinMsep(g, X, Y, include, restrict) ==
    UNION {{(zy \cap zx) \cup include : zy \in FindNearestSep(g, Y, X, include, zx)} :
              zx \in FindNearestSep(g, X, Y, include, restrict)}

--------------------------------------------------------------------------------
(* GraphView: the algorithm for the class of the graph. *)

(* GraphView::m_separated() *)
MSeparated(g, X, Y, Z) ==
    CASE g.class = "ADMG" -> Ok(MSeparatedAdmg(g, X, Y, Z))
      [] g.class = "DAG"  -> Ok(DSeparated(g, X, Y, Z))
      [] g.class = "AG"   -> Ok(MSeparatedAg(g, X, Y, Z))
      [] OTHER            -> Err

(* GraphView::minimal_separator() *)
MinimalSeparator(g, X, Y, include, restrict) ==
    CASE g.class = "DAG"           -> Ok(MinimalDSeparator(g, X, Y, include, restrict))
      [] g.class \in {"ADMG", "AG"} -> Ok(FindMinMsep(g, X, Y, include, restrict))
      [] OTHER                     -> Err
================================================================================
