------------------------------ MODULE ViewQueries ------------------------------
(***************************************************************************)
(* The questions about single nodes that the typed views answer:           *)
(* neighbours by mode, the transitive relations, Markov blankets,          *)
(* districts, exogenous nodes and the topological order, with the argument *)
(* handling of lib.rs around them.                                         *)
(*                                                                         *)
(* A view is a mixed graph that keeps its class and its core.  A list of   *)
(* nodes that the code sorts, or of whose order nothing is promised, is    *)
(* the set of them: `all` neighbours joined by two edges are listed twice  *)
(* by the code.                                                            *)
(***************************************************************************)
EXTENDS MixedGraphs, CoreBuild

(* What the constructors pack: a raw view packs nothing and is only read    *)
(* through its core.                                                       *)
View(class, core) ==
    [class   |-> class, n |-> core.n, core |-> core,
     arcs    |-> Arcs(core),
     spouses |-> Spouses(core),
     lines   |-> Lines(core)]

PdagFamily == {"PDAG", "MPDAG", "CPDAG"}

--------------------------------------------------------------------------------
(* Neighbours *)

NeighborMode == {"all", "in", "out", "undirected", "bidirected", "partial"}

(* GraphView::neighbors_of(): the modes each class answers ... *)
ModesOf(class) ==
    CASE class = "DAG"          -> {"all", "in", "out"}
      [] class \in PdagFamily   -> {"all", "in", "out", "undirected"}
      [] class = "UG"           -> {"all", "undirected"}
      [] class = "ADMG"         -> {"all", "in", "out", "bidirected"}
      [] class = "AG"           -> {"all", "in", "out", "undirected", "bidirected"}
      [] class = "UNKNOWN"      -> NeighborMode

(* ... from the buckets of node i ... *)
Bucket(v, i, mode) ==
    CASE mode = "in"         -> Parents(v.arcs, i)
      [] mode = "out"        -> Children(v.arcs, i)
      [] mode = "undirected" -> Children(v.lines, i)
      [] mode = "bidirected" -> Children(v.spouses, i)
      [] mode = "all"        -> Children(NeighborPairs(v), i)

(* The half-edges of node i: an edge, and the position i has on it, 1 for   *)
(* the tail and 2 for the head.                                            *)
HalfEdges(core, i) == {h \in EdgeSet(core) \X {1, 2} : h[1][h[2]] = i}

MarkAt(core, h, position) ==
    IF position = 1 THEN SpecOf(core, h[1]).tail ELSE SpecOf(core, h[1]).head

MyMark(core, h) == MarkAt(core, h, h[2])

NbrMark(core, h) == MarkAt(core, h, 3 - h[2])

Nbr(h) == h[1][3 - h[2]]

(* ... or, in a raw view, by the marks of each half-edge. *)
RawNeighbors(core, i, mode) ==
    {Nbr(h) : h \in {k \in HalfEdges(core, i) :
        CASE mode = "all"     -> TRUE
          [] mode = "in"      -> MyMark(core, k) = "arrow"
          [] mode = "out"     -> NbrMark(core, k) = "arrow"
          [] mode = "partial" -> MyMark(core, k) = "circle"
          [] OTHER            -> SpecOf(core, k[1]).class = mode}}

NeighborsOf(v, i, mode) ==
    IF mode \notin ModesOf(v.class) THEN Err
    ELSE Ok(IF v.class = "UNKNOWN" THEN RawNeighbors(v.core, i, mode) ELSE Bucket(v, i, mode))

(* parents_of(), children_of(), spouses_of(): not for raw views. *)
TypedNeighborsOf(v, i, mode) == IF v.class = "UNKNOWN" THEN Err ELSE NeighborsOf(v, i, mode)

--------------------------------------------------------------------------------
(* Reachability *)

Ancestors(v, i) == Closure({i}, Converse(v.arcs)) \ {i}

Descendants(v, i) == Closure({i}, v.arcs) \ {i}

(* Slip: lines are followed from the node asked about only. *)
AnteriorsOneLine(v, i) == (Children(v.lines, i) \cup Ancestors(v, i)) \ {i}

Anteriors(v, i) == Closure({i}, Converse(v.arcs) \cup v.lines) \ {i}

Posteriors(v, i) == Closure({i}, v.arcs \cup v.lines) \ {i}

AncestorsOf(v, i) == IF v.class \in {"UG", "UNKNOWN"} THEN Err ELSE Ok(Ancestors(v, i))

DescendantsOf(v, i) == IF v.class \in {"UG", "UNKNOWN"} THEN Err ELSE Ok(Descendants(v, i))

AnteriorsOf(v, i) == IF v.class \in {"ADMG", "UG", "UNKNOWN"} THEN Err ELSE Ok(Anteriors(v, i))

PosteriorsOf(v, i) == IF v.class \in {"ADMG", "UG", "UNKNOWN"} THEN Err ELSE Ok(Posteriors(v, i))

--------------------------------------------------------------------------------
(* Districts *)

District(v, i) == Closure({i}, v.spouses)

(* Ag::districts(): a new district for each node not seen in an earlier one. *)
AgDistricts(v) ==
    LET found[k \in 0 .. v.n] ==
            IF k = 0 THEN {}
            ELSE LET before == found[k - 1] IN
                 IF k - 1 \in UNION before THEN before ELSE before \cup {District(v, k - 1)}
    IN  found[v.n]

(* Admg::districts(): every node gets the label of the node that found it. *)
AdmgDistricts(v) ==
    LET found(s) == District(v, s)
        start(i) == CHOOSE s \in Nodes(v) : i \in found(s) /\ \A t \in found(s) : s <= t
        comp == [i \in Nodes(v) |-> start(i)]
    IN  {{i \in Nodes(v) : comp[i] = c} : c \in {comp[i] : i \in Nodes(v)}}

DistrictsOf(v) ==
    CASE v.class = "ADMG" -> Ok(AdmgDistricts(v))
      [] v.class = "AG"   -> Ok(AgDistricts(v))
      [] OTHER            -> Err

DistrictOf(v, i) == IF v.class \in {"ADMG", "AG"} THEN Ok(District(v, i)) ELSE Err

--------------------------------------------------------------------------------
(* Markov blankets *)

(* Slip: the other parents of the children are left out. *)
BlanketWithoutCoParents(v, i) == Parents(v.arcs, i) \cup Children(v.arcs, i)

BlanketDag(v, i) ==
    (Parents(v.arcs, i) \cup Children(v.arcs, i)
        \cup UNION {Parents(v.arcs, c) : c \in Children(v.arcs, i)}) \ {i}

BlanketPdag(v, i) == BlanketDag(v, i) \cup Children(v.lines, i)

ParentsOfAll(v, S) == UNION {Parents(v.arcs, d) : d \in S}

BlanketAdmg(v, i) == (District(v, i) \cup ParentsOfAll(v, District(v, i))) \ {i}

BlanketAg(v, i) == (BlanketDag(v, i) \cup BlanketAdmg(v, i) \cup Children(v.lines, i)) \ {i}

MarkovBlanketOf(v, i) ==
    CASE v.class = "DAG"         -> Ok(BlanketDag(v, i))
      [] v.class \in PdagFamily  -> Ok(BlanketPdag(v, i))
      [] v.class = "UG"          -> Ok(Children(v.lines, i))
      [] v.class = "ADMG"        -> Ok(BlanketAdmg(v, i))
      [] v.class = "AG"          -> Ok(BlanketAg(v, i))
      [] v.class = "UNKNOWN"     -> Err

--------------------------------------------------------------------------------
(* exogenous_nodes() *)
ExogenousNodes(v, undirectedAsParents) ==
    LET rootless == {i \in Nodes(v) : Parents(v.arcs, i) = {}}
        lineless == {i \in Nodes(v) : Children(v.lines, i) = {}}
    IN  CASE v.class = "UNKNOWN" -> Err
          [] v.class = "UG"      -> Ok(lineless)
          [] v.class \in PdagFamily \cup {"AG"} ->
                Ok(IF undirectedAsParents THEN rootless \cap lineless ELSE rootless)
          [] OTHER               -> Ok(rootless)

SortedSeq(S) == InOrder(S, {p \in S \X S : p[1] < p[2]})

DirectedHalves(core, i) == {h \in HalfEdges(core, i) : SpecOf(core, h[1]).class = "directed"}

InDegree(core, v) ==
    Cardinality({h \in DirectedHalves(core, v) : MyMark(core, h) = "arrow"})

(* Slip: an arrow is taken to start at the tail position. *)
OutgoingByPosition(core, u, v) ==
    Cardinality({h \in DirectedHalves(core, u) : h[2] = 1 /\ Nbr(h) = v})

(* How often the row of u counts down the in-degree of v. *)
Outgoing(core, u, v) ==
    Cardinality({h \in DirectedHalves(core, u) : NbrMark(core, h) = "arrow" /\ Nbr(h) = v})

(* topological_sort(): Kahn's algorithm with a stack; of the nodes that     *)
(* become free together the one that the row lists last is on top.          *)
SortStart(core) ==
    [stack |-> SortedSeq({v \in Nodes(core) : InDegree(core, v) = 0}),
     indeg |-> [v \in Nodes(core) |-> InDegree(core, v)],
     order |-> <<>>]

SortPop(core, s) ==
    LET u    == Last(s.stack)
        fewer == [v \in Nodes(core) |-> s.indeg[v] - Outgoing(core, u, v)]
        free == {v \in Nodes(core) : Outgoing(core, u, v) > 0 /\ fewer[v] = 0}
    IN  [stack |-> Front(s.stack) \o InRowOrder(core, free),
         indeg |-> fewer,
         order |-> Append(s.order, u)]

SortTurn(core, s) == IF s.stack = <<>> THEN s ELSE SortPop(core, s)

TopologicalSort(core) ==
    LET run[k \in 0 .. core.n] == IF k = 0 THEN SortStart(core) ELSE SortTurn(core, run[k - 1])
    IN  run[core.n].order

(* GraphView::topological_sort() *)
TopologicalSortOf(v) == IF v.class = "DAG" THEN Ok(TopologicalSort(v.core)) ELSE Err

--------------------------------------------------------------------------------
(* lib.rs: the arguments `nodes` and `index` of a call, each {} if absent;  *)
(* as indices from 0, or {} for an error.                                  *)
NodesArg(xs) == [nodes |-> {xs}, index |-> {}]
IndexArg(is) == [nodes |-> {}, index |-> {is}]

ResolveQuery(names, arg) ==
    LET known == NameIndex(names) IN
    IF (arg.nodes = {}) = (arg.index = {}) THEN {}
    ELSE {[j \in DOMAIN is |-> is[j] - 1] : is \in arg.index}
         \cup {[j \in DOMAIN xs |-> known[xs[j]]] :
                   xs \in {ys \in arg.nodes : ToSet(ys) \subseteq DOMAIN known}}

ToNames(names, S) == {names[i + 1] : i \in S}

(* run_relation_query(): a row of names for each node asked about.          *)
RunRelationQuery(names, arg, query) ==
    LET n == Len(names)
        rows(idx) ==
            IF /\ idx # <<>>
               /\ \A j \in DOMAIN idx : idx[j] \in 0 .. (n - 1) /\ query[idx[j]].ok
            THEN {Ok([j \in DOMAIN idx |->
                        [node |-> names[idx[j] + 1], row |-> ToNames(names, query[idx[j]].value)]])}
            ELSE {}
        all == UNION {rows(idx) : idx \in ResolveQuery(names, arg)}
    IN  IF all = {} THEN Err ELSE CHOOSE a \in all : TRUE

(* ancestors() and its like: a query that is not open names the node too.   *)
Opened(open, i, a) == IF ~ a.ok \/ open THEN a ELSE Ok(a.value \cup {i})
================================================================================
