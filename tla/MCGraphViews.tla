------------------------------ MODULE MCGraphViews ------------------------------
(***************************************************************************)
(* Sessions to start from.  All DAGs on three nodes make two calls, the    *)
(* others one: subgraphs that renumber the nodes of these, DAGs on four    *)
(* nodes under two numberings, DAGs on five nodes with latents above       *)
(* latents, and small graphs of the other classes.                         *)
(* An arc from a larger to a smaller node is of a type with its arrow at   *)
(* the tail.                                                               *)
(***************************************************************************)
EXTENDS GraphViews

CONSTANTS DagArcs, OtherSize, AgEdges

ReversedSpec ==
    [glyph |-> "<--", tail |-> "arrow", head |-> "tail", symmetric |-> FALSE, class |-> "directed"]

MCRegistry ==
    [c \in 0 .. 4 |-> <<DirectedSpec, UndirectedSpec, BidirectedSpec, PartialSpec, ReversedSpec>>[c + 1]]

MCName == <<"c", "a", "e", "b", "d">>

(* Links of kind partial go by their code. *)
MCLink(p, kind) ==
    CASE kind = "arc"     -> IF p[1] < p[2] THEN {<<p[1], p[2], 0>>} ELSE {<<p[2], p[1], 4>>}
      [] kind = "line"    -> {<<p[1], p[2], 1>>}
      [] kind = "spouse"  -> {<<p[1], p[2], 2>>}
      [] kind = "partial" -> {<<p[1], p[2], 3>>}
      [] kind = "down"    -> {<<p[1], p[2], 4>>}
      [] kind = "bow"     -> {<<p[1], p[2], 0>>, <<p[1], p[2], 2>>}
      [] kind = "none"    -> {}

MCSession(class, n, simple, links) ==
    SessionOf(class, SubSeq(MCName, 1, n), Compile(n, simple, MCRegistry, [e \in links |-> 1]))

Opens(s) == s.view # {}

MCUp(n) == {p \in (0 .. n - 1) \X (0 .. n - 1) : p[1] < p[2]}

MCDag(n, A) == MCSession("DAG", n, TRUE, UNION {MCLink(a, "arc") : a \in A})

(* Every choice of a kind of edge for each pair. *)
MCMixed(class, n, kinds) ==
    {s \in {MCSession(class, n, \A p \in MCUp(n) : k[p] # "bow", UNION {MCLink(p, k[p]) : p \in MCUp(n)}) :
                k \in [MCUp(n) -> kinds]} : Opens(s)}

MCThree == {s \in {MCDag(3, A) : A \in SUBSET (MCUp(3) \cup Converse(MCUp(3)))} :
                Opens(s) /\ s.core.simple /\ \A a \in Arcs(s.core) : <<a[2], a[1]>> \notin Arcs(s.core)}

(* Subgraphs on all nodes, whose rows keep the order of the old numbers.   *)
MCCut(s, keep) == SessionOf(s.class, SelectNames(keep, s.names), InducedCore(keep, s.core))

MCCuts == {MCCut(s, keep) : s \in MCThree, keep \in {<<0, 2, 1>>, <<2, 1, 0>>, <<1, 2, 0>>}}

Numberings == {<<0, 1, 2, 3>>, <<2, 0, 3, 1>>}

MCFour == {MCDag(4, {<<o[a[1] + 1], o[a[2] + 1]>> : a \in A}) : o \in Numberings, A \in SUBSET MCUp(4)}

MCFive == {s \in {MCDag(5, A) : A \in SUBSET DagArcs} : Opens(s)}

MCLatentArcs == {<<1, 0>>, <<0, 2>>, <<0, 3>>, <<1, 3>>, <<1, 4>>, <<2, 1>>}

MCOthers ==
    MCMixed("PDAG", OtherSize, {"none", "arc", "down", "line"})
    \cup MCMixed("MPDAG", OtherSize, {"none", "arc", "down", "line"})
    \cup MCMixed("CPDAG", OtherSize, {"none", "arc", "down", "line"})
    \cup MCMixed("UG", OtherSize, {"none", "line"})
    \cup MCMixed("ADMG", OtherSize, {"none", "arc", "down", "spouse", "bow"})
    \cup MCMixed("AG", OtherSize, {"none", "arc", "down", "spouse", "line"})
    \cup MCMixed("UNKNOWN", OtherSize, {"none", "down", "partial", "bow"})

(* Ancestral graphs on four nodes with AgEdges edges. *)
MCAgs ==
    LET chosen(P) == {MCSession("AG", 4, TRUE, UNION {MCLink(p, k[p]) : p \in P}) :
                        k \in [P -> {"arc", "spouse", "line"}]} IN
    {s \in UNION {chosen(P) : P \in kSubset(AgEdges, MCUp(4))} : Opens(s)}

MCStarts ==
    (MCThree \X {2}) \cup ((MCCuts \cup MCFour \cup MCFive \cup MCOthers \cup MCAgs) \X {1})

MCPdags == MCMixed("PDAG", OtherSize, {"none", "arc", "line"}) \X {1}
================================================================================
