----------------------------- MODULE CausalQueries -----------------------------
(***************************************************************************)
(* The causal questions a session answers: separation, minimal separators, *)
(* maximality and adjustment sets.  Each action is one call from R through *)
(* lib.rs and session.rs to the view, which picks the algorithm by the     *)
(* class of the graph, or refuses.                                         *)
(***************************************************************************)
EXTENDS Adjustment

CONSTANTS
    Graphs,    \* mixed graphs with a field class
    MaxSize,   \* max_size of the enumerations
    MaxEnds    \* bound on the number of exposures and outcomes of a call

ASSUME BoundsAssumption == MaxSize \in Nat /\ MaxEnds \in Nat

VARIABLES
    graph,     \* the graph of the session's view
    call,      \* the question
    answer     \* Ok(value) or Err

vars == <<graph, call, answer>>

NoCall == [op |-> "none", X |-> {}, Y |-> {}, Z |-> {}, R |-> {}]

V == Nodes(graph)

Call(op, X, Y, Z, R) == [op |-> op, X |-> X, Y |-> Y, Z |-> Z, R |-> R]

(* A refused call is kept without its arguments. *)
Reply(c, a) ==
    /\ call = NoCall
    /\ call' = IF a.ok THEN c ELSE [NoCall EXCEPT !.op = c.op]
    /\ answer' = a
    /\ UNCHANGED graph

Init == graph \in Graphs /\ call = NoCall /\ answer = Err

--------------------------------------------------------------------------------
(* The questions only one class answers. *)
OnlyFor(class, v) == IF graph.class = class THEN Ok(v) ELSE Err

(* Some sessions calls take exactly one exposure and one outcome. *)
OnlyPairs(X, Y, a) == IF Cardinality(X) = 1 /\ Cardinality(Y) = 1 THEN a ELSE Err

The(S) == CHOOSE x \in S : TRUE

--------------------------------------------------------------------------------
AskDSeparated(X, Y, Z) ==
    Reply(Call("d_separated", X, Y, Z, {}), OnlyFor("DAG", DSeparated(graph, X, Y, Z)))

AskMSeparated(X, Y, Z) ==
    Reply(Call("m_separated", X, Y, Z, {}), MSeparated(graph, X, Y, Z))

(* rs_not_m_separated_for_all_subsets(): every set of the others R on top   *)
(* of the conditioning set Z, the largest first.                            *)
AskNeverSeparated(X, Y, Z, R) ==
    Reply(Call("never_separated", X, Y, Z, R),
          IF graph.class \notin {"ADMG", "AG", "DAG"} THEN Err
          ELSE Ok(\A S \in SUBSET R : ~ MSeparated(graph, X, Y, Z \cup S).value))

AskMinimalSeparator(X, Y, Z, R) ==
    Reply(Call("minimal_separator", X, Y, Z, R), MinimalSeparator(graph, X, Y, Z, R))

(* Any core is asked: one that makes no AG is no MAG. *)
AskIsMag ==
    Reply(Call("is_mag", {}, {}, {}, {}), Ok(IsAncestral(graph) /\ IsMag(graph)))

AskAdjustmentSetParents(X, Y) ==
    Reply(Call("adjustment_parents", X, Y, {}, {}),
          OnlyFor("DAG", AdjustmentSetParents(graph, X, Y)))

AskAdjustmentSetBackdoor(X, Y) ==
    Reply(Call("adjustment_backdoor", X, Y, {}, {}),
          OnlyFor("DAG", AdjustmentSetBackdoor(graph, X, Y)))

AskAdjustmentSetOptimal(X, Y) ==
    Reply(Call("adjustment_optimal", X, Y, {}, {}),
          OnlyPairs(X, Y, OnlyFor("DAG", AdjustmentSetOptimal(graph, The(X), The(Y)))))

AskIsValidBackdoorSet(X, Y, Z) ==
    Reply(Call("backdoor_valid", X, Y, Z, {}),
          OnlyPairs(X, Y, OnlyFor("DAG", IsValidBackdoorSet(graph, The(X), The(Y), Z))))

AskAllBackdoorSets(X, Y, minimal) ==
    Reply(Call(IF minimal THEN "backdoor_minimal" ELSE "backdoor_all", X, Y, {}, {}),
          OnlyPairs(X, Y, OnlyFor("DAG", AllBackdoorSets(graph, The(X), The(Y), minimal, MaxSize))))

AskIsValidAdjustmentSet(X, Y, Z) ==
    Reply(Call("admg_valid", X, Y, Z, {}),
          OnlyFor("ADMG", IsValidAdjustmentSet(graph, X, Y, Z)))

AskAllAdjustmentSets(X, Y, minimal) ==
    Reply(Call(IF minimal THEN "admg_minimal" ELSE "admg_all", X, Y, {}, {}),
          OnlyFor("ADMG", AllAdjustmentSets(graph, X, Y, minimal, MaxSize)))

(* Exposures and outcomes are disjoint and not empty. *)
Ends == {<<X, Y>> \in (SUBSET V) \X (SUBSET V) :
            X # {} /\ Y # {} /\ X \cap Y = {} /\ Cardinality(X \cup Y) <= MaxEnds}

Next ==
    \/ \E <<X, Y>> \in Ends :
        \/ \E Z \in SUBSET (V \ (X \cup Y)) :
            \/ AskDSeparated(X, Y, Z)
            \/ AskMSeparated(X, Y, Z)
            \/ AskIsValidBackdoorSet(X, Y, Z)
            \/ AskIsValidAdjustmentSet(X, Y, Z)
        \/ \E R \in SUBSET (V \ (X \cup Y)) : \E Z \in SUBSET R :
            \/ AskMinimalSeparator(X, Y, Z, R)
            \/ \E u, v \in V :
                u < v /\ X = {u} /\ Y = {v} /\ AskNeverSeparated(X, Y, Z, R \ Z)
        \/ AskAdjustmentSetParents(X, Y)
        \/ AskAdjustmentSetBackdoor(X, Y)
        \/ AskAdjustmentSetOptimal(X, Y)
        \/ \E minimal \in BOOLEAN : AskAllBackdoorSets(X, Y, minimal) \/ AskAllAdjustmentSets(X, Y, minimal)
    \/ AskIsMag

Spec == Init /\ [][Next]_vars

--------------------------------------------------------------------------------
(* What the answers must be, read off the paths of the graph. *)

Asked(ops) == call.op \in ops /\ answer.ok

(* Two arrowheads meet at either end of a bidirected edge. *)
ColliderChain(g) ==
    \E s \in g.spouses : \A i \in 1 .. 2 :
        Parents(g.arcs \cup g.spouses, s[i]) \ {s[3 - i]} # {}

(* Separated means that every path is blocked.  For ADMGs with a chain of   *)
(* colliders only one direction holds: what is connected is so by a path.   *)
SeparationIsPathBlocking ==
    /\ Asked({"d_separated", "m_separated"}) =>
        LET connected == Connected(graph, call.X, call.Y, call.Z) IN
        /\ ~ answer.value => connected
        /\ connected => ~ answer.value \/ (graph.class = "ADMG" /\ ColliderChain(graph))
    /\ (Asked({"never_separated"}) /\ graph.class # "ADMG") =>
        answer.value = \A S \in SUBSET call.R : Connected(graph, call.X, call.Y, call.Z \cup S)

(* "Returns `true` iff `xs _||_m ys | z`" (admg/msep.rs:206).               *)
AdmgSeparationIsSound ==
    (Asked({"m_separated"}) /\ answer.value) => ~ Connected(graph, call.X, call.Y, call.Z)

(* A minimal separator separates, keeps to include and restrict, and loses  *)
(* that with any node less; there is none only when none would do.          *)
MinimalSeparatorIsMinimal ==
    Asked({"minimal_separator"}) =>
        LET separates(W) == ~ Connected(graph, call.X, call.Y, W)
            between(S) == {W \in SUBSET S : call.Z \subseteq W} IN
        /\ \A W \in answer.value :
            W \in between(call.R) /\ separates(W) /\ \A U \in between(W) \ {W} : ~ separates(U)
        /\ answer.value = None => \A W \in between(call.R) : ~ separates(W)

(* A MAG is an ancestral graph in which any two nodes without an edge have  *)
(* a set that separates them.                                               *)
MagIsMaximal ==
    Asked({"is_mag"}) =>
        answer.value =
            (/\ IsAncestral(graph)
             /\ \A u, v \in V : (u # v /\ <<u, v>> \notin NeighborPairs(graph)) =>
                    \E Z \in SUBSET (V \ {u, v}) : ~ Connected(graph, {u}, {v}, Z))

(* The parents test of a backdoor set is Pearl's criterion, the listings    *)
(* miss no set up to the size asked for, and minimal ones are minimal.      *)
BackdoorSetsArePearls ==
    LET x == The(call.X)
        y == The(call.Y)
        pearls == {Z \in SubsetsUpTo(V \ {x, y}, MaxSize) : Backdoor(graph, x, y, Z)} IN
    /\ Asked({"backdoor_valid"}) => answer.value = Backdoor(graph, x, y, call.Z)
    /\ Asked({"backdoor_all"}) => answer.value = pearls
    /\ Asked({"backdoor_minimal"}) =>
        answer.value = {Z \in pearls : \A W \in SUBSET Z \ {Z} : ~ Backdoor(graph, x, y, W)}

(* The sets proposed for a DAG are adjustment sets.  For several exposures  *)
(* there may be none; parents are one unless the outcome is among them, and *)
(* the optimal set is one where there is an effect.                         *)
ProposedSetsAdjust ==
    LET X == call.X
        Y == call.Y
        valid(Z) == Z \cap (X \cup Y) = {} /\ AdjustmentCriterion(graph, X, Y, Z)
        effect == Y \cap DescendantsMask(graph, X) # {} IN
    /\ Asked({"adjustment_backdoor"}) =>
        /\ (\E W \in SUBSET (V \ DescendantsMask(graph, X)) : valid(W)) => valid(answer.value)
        /\ valid(answer.value) => \A W \in SUBSET answer.value \ {answer.value} : ~ valid(W)
    /\ (Asked({"adjustment_parents"}) /\ Cardinality(X) = 1 /\ Y \cap AllParents(graph, X) = {}) =>
        valid(answer.value)
    /\ (Asked({"adjustment_optimal"}) /\ effect) => valid(answer.value)

(* What the criterion for ADMGs accepts adjusts (no chain of colliders      *)
(* given), and it turns down no set without descendants of the exposures.   *)
AdmgCriterionIsSound ==
    LET X == call.X
        Y == call.Y
        exact == ~ ColliderChain(graph)
        valid(Z) == AdjustmentCriterion(graph, X, Y, Z)
        before == V \ (DescendantsMask(graph, X) \cup Y) IN
    /\ Asked({"admg_valid"}) =>
        /\ (exact /\ answer.value) => valid(call.Z)
        /\ (call.Z \subseteq before /\ valid(call.Z)) => answer.value
    /\ Asked({"admg_all", "admg_minimal"}) =>
        /\ exact => \A Z \in answer.value : valid(Z)
        /\ \A Z \in SubsetsUpTo(before, MaxSize) :
            valid(Z) => \E W \in answer.value : W \subseteq Z
================================================================================
