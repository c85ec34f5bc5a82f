---------------------------- MODULE MCCausalQueries ----------------------------
(***************************************************************************)
(* Graphs of Size nodes up to renaming: the arcs go upwards, which loses no *)
(* acyclic graph.  DAGs with any arcs, simple ADMGs and ADMGs with bows of  *)
(* at most AdmgEdges edges, AGs of at most AgEdges edges, and one PDAG for  *)
(* the refusals.                                                            *)
(***************************************************************************)
EXTENDS CausalQueries

CONSTANTS Size, AdmgEdges, AgEdges

Up == {a \in (0 .. Size - 1) \X (0 .. Size - 1) : a[1] < a[2]}

Both(P) == P \cup Converse(P)

MCGraph(class, A, B, U) ==
    [class |-> class, n |-> Size, arcs |-> A, spouses |-> Both(B), lines |-> Both(U)]

MCDags == {MCGraph("DAG", A, {}, {}) : A \in SUBSET Up}

MCAdmgs ==
    {MCGraph("ADMG", A, B, {}) :
        <<A, B>> \in {p \in (SUBSET Up) \X (SUBSET Up) : Cardinality(p[1]) + Cardinality(p[2]) <= AdmgEdges}}

(* Every choice of a kind of edge for each pair of P. *)
MCAgs ==
    LET kinds(k, kind) == {p \in DOMAIN k : k[p] = kind}
        graphs(P) == {MCGraph("AG", kinds(k, "arc"), kinds(k, "spouse"), kinds(k, "line")) :
                        k \in [P -> {"arc", "spouse", "line"}]} IN
    {g \in UNION {graphs(P) : P \in {Q \in SUBSET Up : Cardinality(Q) \in AgEdges}} : IsAncestral(g)}

MCGraphs == MCDags \cup MCAdmgs \cup MCAgs \cup {MCGraph("PDAG", {}, {}, Up)}
================================================================================
