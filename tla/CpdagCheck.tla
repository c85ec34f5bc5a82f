------------------------------ MODULE CpdagCheck ------------------------------
(***************************************************************************)
(* Pdag::is_cpdag() (src/rust/src/graph/pdag/cpdag.rs): five tests in a    *)
(* fixed order, the first that fails refusing the graph.  Every PDAG over  *)
(* the nodes 0 .. Size-1 is an initial state.                              *)
(***************************************************************************)
EXTENDS MarkovEquivalence

CONSTANT Size

ASSUME SizeAssumption == Size \in Nat /\ Size > 1

V == 0 .. (Size - 1)

VARIABLES
    arcs,    \* directed edges <<parent, child>>
    lines,   \* undirected edges, both orientations
    stage    \* the test to run next, or the verdict

vars == <<arcs, lines, stage>>

(* Pdag::try_new() on a simple graph. *)
Init ==
    /\ \E D \in SUBSET kSubset(2, V), E \in SUBSET kSubset(2, V) :
        /\ D \cap E = {}
        /\ arcs \in Orientations(V, D)
        /\ lines = Symmetric(V, E)
    /\ stage = "arrows"

(* One test of is_cpdag(): go on to the next one or return false. *)
Decide(here, passed, next) ==
    /\ stage = here
    /\ stage' = IF passed THEN next ELSE "not cpdag"
    /\ UNCHANGED <<arcs, lines>>

NoArrowsInComponents ==
    Decide("arrows", ~ HasIntraComponentArrows(V, arcs, lines), "components")

ComponentDag == Decide("components", ComponentDagIsAcyclic(V, arcs, lines), "chordal")

ChordalComponents == Decide("chordal", ComponentsAreChordal(V, lines), "meek")

NoRuleApplies == Decide("meek", MeekClosed(V, arcs, lines), "protected")

AllArrowsStronglyProtected ==
    Decide("protected",
           \A a \in arcs : StronglyProtected(arcs, lines, a[1], a[2]),
           "cpdag")

Next ==
    \/ NoArrowsInComponents
    \/ ComponentDag
    \/ ChordalComponents
    \/ NoRuleApplies
    \/ AllArrowsStronglyProtected

Spec == Init /\ [][Next]_vars

--------------------------------------------------------------------------------
Essentials == EssentialGraphs(V)

(* "Returns true iff self is a CPDAG", from left to right: what is_cpdag() *)
(* accepts is the essential graph of each DAG it can be completed to        *)
(* without a new collider.  No test asks whether there is one: with five    *)
(* nodes there need not be.                                                 *)
AcceptedIsEssentialOfItsDags ==
    stage = "cpdag" => \A D \in Extensions(V, arcs, lines) : <<arcs, lines>> = Essential(V, D)

(* From right to left: the essential graph of a DAG is refused by none of  *)
(* the five tests.                                                         *)
EssentialIsAccepted == stage = "not cpdag" => <<arcs, lines>> \notin Essentials
================================================================================
