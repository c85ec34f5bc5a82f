---------------------------- MODULE ChordalityTest ----------------------------
(***************************************************************************)
(* The chordality test Pdag::components_are_chordal() runs on one          *)
(* undirected component before a PDAG may be called a CPDAG                *)
(* (src/rust/src/graph/pdag/cpdag.rs): a maximum cardinality search        *)
(* numbers the nodes one by one, then a clique test over that order        *)
(* decides.  Every connected graph over the nodes 0 .. ComponentSize-1 is  *)
(* an initial state.                                                       *)
(***************************************************************************)
EXTENDS GraphClasses, FiniteSetsExt

CONSTANT ComponentSize   \* number of nodes of the component

(* Components of one or two nodes are chordal and the code skips them. *)
ASSUME ComponentSizeAssumption == ComponentSize \in Nat /\ ComponentSize > 2

VARIABLES
    und,      \* the undirected edges of the component, both orientations
    order,    \* the nodes numbered so far, first numbered first
    verdict   \* "searching", then "chordal" or "not chordal"

searchVars == <<und, order, verdict>>

Component == 0 .. (ComponentSize - 1)

(* A component is connected: chain_components() found it by a search.      *)
UndirectedGraphs ==
    {{p \in Component \X Component : {p[1], p[2]} \in E} : E \in SUBSET kSubset(2, Component)}

Connected(U) == ComponentOf(Component, U, 0) = Component

SearchInit ==
    /\ und \in {U \in UndirectedGraphs : Connected(U)}
    /\ order = <<>>
    /\ verdict = "searching"

(* One round of the search. *)
Number ==
    /\ verdict = "searching"
    /\ Len(order) < ComponentSize
    /\ order' = Append(order, McsPick(Component, und, ToSet(order)))
    /\ UNCHANGED <<und, verdict>>

(* The clique test over the reversed order. *)
Test ==
    /\ verdict = "searching"
    /\ Len(order) = ComponentSize
    /\ verdict' = IF CliqueTest(und, order) THEN "chordal" ELSE "not chordal"
    /\ UNCHANGED <<und, order>>

SearchNext == Number \/ Test

SearchSpec == SearchInit /\ [][SearchNext]_searchVars

--------------------------------------------------------------------------------
(* The definition the test stands for, independent of any search: every    *)
(* set of four or more nodes that induces a cycle is excluded, i.e. no     *)
(* such set is connected with every member having two neighbours in it.    *)

Neighbours(U, S, v) == {w \in S : <<v, w>> \in U}

InducesCycle(U, S) ==
    /\ Cardinality(S) >= 4
    /\ \A v \in S : Cardinality(Neighbours(U, S, v)) = 2
    /\ \A v \in S : ComponentOf(S, U, v) = S

NoInducedCycle(C, U) == \A S \in SUBSET C : ~ InducesCycle(U, S)

Chordal(U) == NoInducedCycle(Component, U)

--------------------------------------------------------------------------------
(* The theorem the test rests on (Tarjan and Yannakakis): in a chordal     *)
(* graph the neighbours numbered before a node are pairwise adjacent, at   *)
(* every moment of the search.  Picking by the label and nothing else is   *)
(* what makes it true (cpdag.rs, the MCS loop).                            *)
EarlierNeighboursFormClique ==
    Chordal(und) =>
        \A i \in DOMAIN order : \A j, k \in EarlierNeighbours(und, order, i) :
            j # k => <<order[j], order[k]>> \in und

(* No chordal component is turned down: a graph that is a CPDAG is not     *)
(* refused the class for its undirected part.                              *)
ChordalIsAccepted == verdict = "not chordal" => ~ Chordal(und)

(* No component with a chordless cycle passes, so that every graph called  *)
(* CPDAG is one.  The test compares earlier neighbours with the first      *)
(* numbered of them, where the theorem asks for the last numbered: wheels  *)
(* pass (a cycle of four around a hub).                                    *)
AcceptedIsChordal == verdict = "chordal" => Chordal(und)
================================================================================
