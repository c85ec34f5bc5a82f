------------------------------- MODULE GraphViews -------------------------------
(***************************************************************************)
(* Sessions asked about their nodes and turned into other sessions: the    *)
(* calls from R through lib.rs and session.rs to the typed view.  A        *)
(* session builds its view from its own inputs, so a graph that a view was *)
(* turned into is compiled and checked again before it answers; names are  *)
(* handed over beside the graph.                                           *)
(*                                                                         *)
(* A question leaves the session as it is: the behaviour ends with it.     *)
(***************************************************************************)
EXTENDS DerivedGraphs, PackedBuckets

CONSTANTS
    Starts,      \* pairs of a session to start from and the number of calls made
    MaxLatents,  \* bound on the nodes a projection or normalization is called with
    MaxSeeds,    \* bound on the seeds of a reduction
    MaxEssential \* bound on the nodes of a DAG that is turned into a CPDAG

ASSUME BoundsAssumption == {MaxLatents, MaxSeeds, MaxEssential} \subseteq Nat

(* A core that a builder compiles, or one cut down to a subgraph, which has  *)
(* its rows in some other order.  The registry would take a directed type   *)
(* with no arrow at either end, which has no parent end: left out here.    *)
IsCore(g) ==
    /\ g = Reordered(g.place, Compile(g.n, g.simple, g.registry, g.links))
    /\ g.n \in Nat
    /\ g.place \in RowOrders(g.n)
    /\ IsFiniteSet(DOMAIN g.registry)
    /\ EdgeSet(g) \subseteq Nodes(g) \X Nodes(g) \X DOMAIN g.registry
    /\ \A c \in DOMAIN g.registry :
           g.registry[c].class = "directed" => "arrow" \in {g.registry[c].tail, g.registry[c].head}

(* A session: a name of its own for each node, and the view of its core.    *)
IsSession(s) ==
    /\ s = SessionOf(s.class, s.names, s.core)
    /\ s.class \in GraphClass \ {"AUTO"}
    /\ IsCore(s.core)
    /\ s.names \in Seq(ToSet(s.names))
    /\ Len(s.names) = s.core.n
    /\ IsInjective(s.names)

ASSUME StartsAssumption ==
    \A start \in Starts : IsSession(start[1]) /\ start[2] \in Nat

VARIABLES
    session,     \* class, names, core and view of the session at hand
    source,      \* the session the last transformation started from
    call,        \* the last call: operation, mode and argument
    answer,      \* what the question was answered: Ok(value) or Err
    left         \* how many calls are still made

vars == <<session, source, call, answer, left>>

Call(op, how, arg) == [op |-> op, how |-> how, arg |-> arg]
NoCall == Call("none", {}, {})

Init ==
    /\ \E start \in Starts : session = start[1] /\ left = start[2]
    /\ source = session
    /\ call = NoCall
    /\ answer = Err

(* A call that is refused is the last one. *)
Refused ==
    /\ call' = Call("refused", {}, {})
    /\ answer' = Err
    /\ left' = 0
    /\ UNCHANGED <<session, source>>

(* A question: what the view replied. *)
Ask(op, how, arg, replies) ==
    LET answers == {a \in replies : a.ok} IN
    /\ left > 0
    /\ IF answers = {} THEN Refused
       ELSE /\ call' = Call(op, how, arg)
            /\ answer' \in answers
            /\ left' = 0
            /\ UNCHANGED <<session, source>>

(* A transformation: pairs of a view and the names of its nodes. *)
Turn(op, arg, derived) ==
    /\ left > 0
    /\ IF derived = {} THEN Refused
       ELSE /\ \E d \in derived : session' = SessionFromView(d[1], d[2])
            /\ source' = session
            /\ call' = Call(op, {}, arg)
            /\ left' = left - 1
            /\ UNCHANGED answer

Names == session.names

Indices(xs) == [j \in DOMAIN xs |-> NameIndex(Names)[xs[j]]]

IndexSet(S) == {NameIndex(Names)[x] : x \in S}

Remaining(v, gone) == SelectNames(SortedSeq(Nodes(v) \ gone), Names)

--------------------------------------------------------------------------------
(* Questions about nodes. *)

AskParents(arg) == Ask("parents", {}, arg,
    {RunRelationQuery(Names, arg, [i \in Nodes(v) |-> TypedNeighborsOf(v, i, "in")]) : v \in session.view})

AskChildren(arg) == Ask("children", {}, arg,
    {RunRelationQuery(Names, arg, [i \in Nodes(v) |-> TypedNeighborsOf(v, i, "out")]) : v \in session.view})

AskSpouses(arg) == Ask("spouses", {}, arg,
    {RunRelationQuery(Names, arg, [i \in Nodes(v) |-> TypedNeighborsOf(v, i, "bidirected")]) : v \in session.view})

AskNeighbors(arg, mode) == Ask("neighbors", mode, arg,
    {RunRelationQuery(Names, arg, [i \in Nodes(v) |-> NeighborsOf(v, i, mode)]) : v \in session.view})

AskAncestors(arg, open) == Ask("ancestors", open, arg,
    {RunRelationQuery(Names, arg, [i \in Nodes(v) |-> Opened(open, i, AncestorsOf(v, i))]) : v \in session.view})

AskDescendants(arg, open) == Ask("descendants", open, arg,
    {RunRelationQuery(Names, arg, [i \in Nodes(v) |-> Opened(open, i, DescendantsOf(v, i))]) : v \in session.view})

AskAnteriors(arg, open) == Ask("anteriors", open, arg,
    {RunRelationQuery(Names, arg, [i \in Nodes(v) |-> Opened(open, i, AnteriorsOf(v, i))]) : v \in session.view})

AskPosteriors(arg, open) == Ask("posteriors", open, arg,
    {RunRelationQuery(Names, arg, [i \in Nodes(v) |-> Opened(open, i, PosteriorsOf(v, i))]) : v \in session.view})

AskMarkovBlanket(arg) == Ask("markov_blanket", {}, arg,
    {RunRelationQuery(Names, arg, [i \in Nodes(v) |-> MarkovBlanketOf(v, i)]) : v \in session.view})

AskDistrictOf(arg) == Ask("district_of", {}, arg,
    {RunRelationQuery(Names, arg, [i \in Nodes(v) |-> DistrictOf(v, i)]) : v \in session.view})

AskDistricts == Ask("districts", {}, {},
    {IF DistrictsOf(v).ok THEN Ok({ToNames(Names, D) : D \in DistrictsOf(v).value}) ELSE Err :
        v \in session.view})

AskExogenous(asParents) == Ask("exogenous", asParents, {},
    {IF ExogenousNodes(v, asParents).ok
     THEN Ok(ToNames(Names, ExogenousNodes(v, asParents).value)) ELSE Err : v \in session.view})

AskTopologicalSort == Ask("topological_sort", {}, {},
    {IF TopologicalSortOf(v).ok
     THEN Ok(SelectNames(TopologicalSortOf(v).value, Names)) ELSE Err : v \in session.view})

Types == {"acyclic", "DAG", "PDAG", "MPDAG", "CPDAG", "UG", "ADMG", "AG"}

HasType(core, type) ==
    IF type = "acyclic" THEN Acyclic(Nodes(core), Arcs(core)) ELSE InClass(core, type)

(* The label answers for its own class unless the check is forced, which    *)
(* looks at the core.                                                       *)
AskIsType(type, forced) == Ask("is_type", type, forced,
    {Ok((~ forced /\ session.class = type) \/ HasType(session.core, type)) : v \in session.view})

(* Seeds of names; the answer is the view. *)
AskMoralOfAncestors(S) == Ask("moral_of_ancestors", {}, S,
    UNION {{Ok(m) : m \in MoralOfAncestors(v, IndexSet(S))} : v \in session.view})

AskAncestralReduction(S) == Ask("ancestral_reduction", {}, S,
    UNION {{Ok(r) : r \in AncestralReduction(v, IndexSet(S))} : v \in session.view})

--------------------------------------------------------------------------------
(* Transformations. *)

TurnToCpdag ==
    /\ session.core.n <= MaxEssential
    /\ Turn("to_cpdag", {}, UNION {ToCpdag(v) \X {Names} : v \in session.view})

TurnToMpdag ==
    /\ session.core.n <= MaxEssential
    /\ Turn("meek_closure", {}, UNION {ToMpdag(v) \X {Names} : v \in session.view})

TurnToSkeleton == Turn("skeleton", {}, UNION {SkeletonOf(v) \X {Names} : v \in session.view})

TurnToMoral == Turn("moralize", {}, UNION {Moralize(v) \X {Names} : v \in session.view})

TurnToProjection(L) ==
    Turn("latent_project", L,
         UNION {OnlyDags(v, LatentProject(v, IndexSet(L))) \X {Remaining(v, IndexSet(L))} : v \in session.view})

TurnExogenous(xs) ==
    Turn("exogenize", xs, UNION {OnlyDags(v, Exogenize(v, Indices(xs))) \X {Names} : v \in session.view})

TurnNormal(xs) ==
    Turn("normalize", xs,
         UNION {OnlyDags(v, Normalize(v, Indices(xs)))
                  \X {SelectNames(NormalizedKeep(v, Indices(xs)), Names)} : v \in session.view})

TurnConditional(C, M) ==
    Turn("condition_marginalize", <<C, M>>,
         UNION {CondMarginalize(v, IndexSet(C), IndexSet(M))
                  \X {Remaining(v, IndexSet(C \cup M))} : v \in session.view})

TurnToDag == Turn("dag_from_pdag", {}, UNION {DagFromPdag(v) \X {Names} : v \in session.view})

--------------------------------------------------------------------------------
(* All nodes by name and by index, one by name, and what is no argument.    *)
Queried ==
    LET n == Len(Names) IN
    {NodesArg(Names), IndexArg([i \in 1 .. n |-> i]), NodesArg(IF n = 0 THEN Names ELSE <<Last(Names)>>),
     NodesArg(<<"unknown">>), NodesArg(<<>>), IndexArg(<<0>>), IndexArg(<<1, n + 1>>),
     [nodes |-> {}, index |-> {}], [nodes |-> {Names}, index |-> {<<1>>}]}

NameSets(max) == {S \in SUBSET ToSet(Names) : S # {} /\ Cardinality(S) <= max}

Next ==
    \/ \E arg \in Queried :
        \/ AskParents(arg) \/ AskChildren(arg) \/ AskSpouses(arg)
        \/ \E mode \in NeighborMode : AskNeighbors(arg, mode)
        \/ \E open \in BOOLEAN :
            \/ AskAncestors(arg, open) \/ AskDescendants(arg, open)
            \/ AskAnteriors(arg, open) \/ AskPosteriors(arg, open)
        \/ AskMarkovBlanket(arg)
        \/ AskDistrictOf(arg)
    \/ AskDistricts
    \/ \E asParents \in BOOLEAN : AskExogenous(asParents)
    \/ AskTopologicalSort
    \/ \E type \in Types, forced \in BOOLEAN : AskIsType(type, forced)
    \/ \E S \in NameSets(MaxSeeds) : AskMoralOfAncestors(S) \/ AskAncestralReduction(S)
    \/ TurnToCpdag \/ TurnToMpdag \/ TurnToSkeleton \/ TurnToMoral
    \/ \E L \in NameSets(MaxLatents) :
        \/ TurnToProjection(L)
        \/ \E xs \in SetToSeqs(L) : TurnExogenous(xs) \/ TurnNormal(xs)
        \/ \E C \in SUBSET L : TurnConditional(C, L \ C)
    \/ TurnToDag

Spec == Init /\ [][Next]_vars
--------------------------------------------------------------------------------
(* What the answers and the derived sessions must be. *)

Asked(ops) == call.op \in ops /\ answer.ok

Turned(ops) == call.op \in ops

Here == View(session.class, session.core)
There == View(source.class, source.core)

IxOf(s, x) == NameIndex(s.names)[x]

(* The rows of an answer, as pairs of a node and the set told of it.        *)
Rows == {<<IxOf(session, r.node), {IxOf(session, x) : x \in r.row}>> : r \in ToSet(answer.value)}

(* Where an edge of the core has an arrowhead. *)
PointsAt(core, e, i) ==
    \/ e[1] = i /\ SpecOf(core, e).tail = "arrow"
    \/ e[2] = i /\ SpecOf(core, e).head = "arrow"

Joins(e, i, j) == {e[1], e[2]} = {i, j}

(* The nodes that R leads to from i, and the way each relation goes. *)
Along(g, R, i) == {j \in Nodes(g) : Reaches(Nodes(g), R, i, j)}

PathOf(g, op) ==
    CASE op = "ancestors"   -> Converse(g.arcs)
      [] op = "descendants" -> g.arcs
      [] op = "anteriors"   -> Converse(g.arcs) \cup g.lines
      [] op = "posteriors"  -> g.arcs \cup g.lines

TransitiveFollowPaths ==
    Asked({"ancestors", "descendants", "anteriors", "posteriors"}) =>
        \A r \in Rows :
            r[2] \cup (IF call.how THEN {r[1]} ELSE {}) = Along(Here, PathOf(Here, call.op), r[1])

NeighborsFollowMarks ==
    /\ (Asked({"neighbors"}) /\ session.class = "UNKNOWN" /\ call.how \in {"in", "out"}) =>
        \A r \in Rows : r[2] = {j \in Nodes(Here) : \E e \in EdgeSet(session.core) :
            Joins(e, r[1], j) /\ PointsAt(session.core, e, IF call.how = "in" THEN r[1] ELSE j)}
    /\ (Asked({"neighbors"}) /\ session.class # "UNKNOWN" /\ call.how = "all") =>
        \A r \in Rows : r[2] = {j \in Nodes(Here) : \E e \in EdgeSet(session.core) : Joins(e, r[1], j)}

DistrictsFollowPaths ==
    /\ Asked({"district_of"}) => \A r \in Rows : r[2] = Along(Here, Here.spouses, r[1])
    /\ Asked({"districts"}) =>
        answer.value = {ToNames(session.names, Along(Here, Here.spouses, i)) : i \in Nodes(Here)}

ExogenousHaveNoPathIn ==
    (Asked({"exogenous"}) /\ session.class # "UG") =>
        LET into == PathOf(Here, IF call.how /\ session.class # "ADMG" THEN "anteriors" ELSE "ancestors")
        IN  answer.value = ToNames(session.names,
                {i \in Nodes(Here) : Along(Here, into, i) = {i} /\ <<i, i>> \notin into})

(* The transitive relations are the paths of the graph, neighbours go by    *)
(* the marks at their ends, districts are the classes of the paths of       *)
(* bidirected edges, whichever way the edges were given, and no path leads  *)
(* to an exogenous node.                                                   *)
RelationsFollowPaths ==
    /\ TransitiveFollowPaths
    /\ NeighborsFollowMarks
    /\ DistrictsFollowPaths
    /\ ExogenousHaveNoPathIn

(* A topological order lists every node once, and every arc forward,        *)
(* whatever end of its edge type the arrow is on.                           *)
TopologicalOrder ==
    Asked({"topological_sort"}) =>
        /\ Len(answer.value) = session.core.n
        /\ \A a \in Here.arcs : \E i, j \in DOMAIN answer.value :
            i < j /\ answer.value[i] = session.names[a[1] + 1] /\ answer.value[j] = session.names[a[2] + 1]

(* The slices of the packed array are the sorted neighbours of each kind,   *)
(* one entry for each end of an edge, with nothing between or beside them;  *)
(* what the counting pass took for a parent the writing pass puts among the *)
(* parents.                                                                *)
BucketsPackNeighbors ==
    (session.view # {} /\ session.class # "UNKNOWN" /\ ~ answer.ok) =>
        LET packed == Packed(session.core, session.class)
            buckets == BucketsOf(session.class)
            slices(i) == [b \in DOMAIN buckets |-> BucketSlice(packed, i, b)]
        IN  \A i \in Nodes(session.core) :
                /\ \A b \in DOMAIN buckets :
                    /\ ToSet(slices(i)[b]) = Bucket(Here, i, buckets[b])
                    /\ \A j \in 2 .. Len(slices(i)[b]) : slices(i)[b][j - 1] <= slices(i)[b][j]
                /\ AllNeighbors(packed, i) = FlattenSeq(slices(i))
                /\ Len(AllNeighbors(packed, i)) =
                       Cardinality({e \in EdgeSet(session.core) : e[1] = i})
                       + Cardinality({e \in EdgeSet(session.core) : e[2] = i})

(* In DAGs and UGs the Markov blanket is what a node stays connected to     *)
(* given all the rest.  Equivalent DAGs have the blankets of their CPDAG.   *)
(* In ADMGs and AGs it shields a node from the rest if no child of the node *)
(* hides spouses of its own.                                                *)
BlanketShields ==
    LET g == Here
        N == Nodes(g)
        shields(i, B) == \A j \in N \ (B \cup {i}) : ~ Connected(g, {i}, {j}, B)
        exact(i, B) == B = {j \in N \ {i} : Connected(g, {i}, {j}, N \ {i, j})}
        plain(i) == \A c \in Children(g.arcs, i) : g.class = "AG" /\ Children(g.spouses, c) = {}
    IN
    Asked({"markov_blanket"}) => \A r \in Rows :
        /\ g.class \in {"DAG", "UG"} => exact(r[1], r[2]) /\ shields(r[1], r[2])
        /\ g.class \in {"MPDAG", "CPDAG"} =>
            \A D \in Extensions(N, g.arcs, g.lines) :
                r[2] = BlanketDag([arcs |-> D], r[1])
        /\ (g.class \in {"ADMG", "AG"} /\ plain(r[1])) => shields(r[1], r[2])

(* Two nodes are joined in the moral graph of a DAG, or of the ancestors of *)
(* some nodes, iff nothing among those nodes separates them.                *)
MoralGraphsShowSeparation ==
    LET joined(dag, A) == {p \in Pairs2(A) : Connected(dag, {p[1]}, {p[2]}, A \ {p[1], p[2]})} IN
    /\ Turned({"moralize"}) => Here.lines = joined(There, Nodes(There))
    /\ Asked({"moral_of_ancestors"}) =>
        LET S == {IxOf(session, x) : x \in call.arg}
            N == Nodes(Here)
        IN  answer.value.lines =
                joined(Here, {i \in N : \E s \in S : Reaches(N, Here.arcs, i, s)})

(* Two nodes are connected in a margin given some others iff they were in   *)
(* the whole graph, given these and what was conditioned on; under their    *)
(* names.  A reduction to ancestors keeps the connections of its seeds,     *)
(* where no undirected edge leads away from the ancestors.                  *)
MarginsKeepSeparation ==
    LET same(g, names, C) ==
            \A x, y \in ToSet(names) : x # y =>
                \A Z \in SUBSET (ToSet(names) \ {x, y}) :
                    Connected(g, {NameIndex(names)[x]}, {NameIndex(names)[y]},
                              {NameIndex(names)[z] : z \in Z})
                    = Connected(There, {IxOf(source, x)}, {IxOf(source, y)},
                                {IxOf(source, z) : z \in Z \cup C})
        seeds == {IxOf(session, x) : x \in call.arg}
        kept == SortedSeq(AncestorsMask(Here, seeds))
        at(i) == (CHOOSE k \in DOMAIN kept : kept[k] = i) - 1
    IN
    /\ Turned({"latent_project"}) =>
        /\ ToSet(session.names) = ToSet(source.names) \ call.arg
        /\ same(Here, session.names, {})
    /\ Turned({"condition_marginalize"}) =>
        /\ ToSet(session.names) = ToSet(source.names) \ (call.arg[1] \cup call.arg[2])
        /\ same(Here, session.names, call.arg[1])
    /\ (Asked({"ancestral_reduction"}) /\ session.class \in {"DAG", "ADMG"}) =>
        \A x, y \in seeds : x # y => \A Z \in SUBSET (seeds \ {x, y}) :
            Connected(answer.value, {at(x)}, {at(y)}, {at(z) : z \in Z})
            = Connected(Here, {x}, {y}, Z)

(* Exogenized and normalized latents leave the same projection.  Normalized *)
(* latents have no parents, and at least two children, of which no other    *)
(* latent has all and more.                                                 *)
LatentsCanBeNormalized ==
    LET there == {IxOf(source, x) : x \in ToSet(call.arg)}
        here == {IxOf(session, x) : x \in ToSet(call.arg) \cap ToSet(session.names)}
        named(R, names) == {<<names[p[1] + 1], names[p[2] + 1]>> : p \in R}
        before == Project(There, there)
        after == Project(Here, here)
        children(u) == Children(Here.arcs, u)
    IN
    /\ Turned({"exogenize", "normalize"}) =>
        /\ ToSet(source.names) \ ToSet(session.names) \subseteq ToSet(call.arg)
        /\ named(after.arcs, session.names) = named(before.arcs, source.names)
        /\ named(after.spouses, session.names) = named(before.spouses, source.names)
    /\ Turned({"normalize"}) => \A u \in here :
        /\ Parents(Here.arcs, u) = {}
        /\ Cardinality(children(u)) > 1
        /\ \A w \in here : children(u) \subseteq children(w) => children(u) = children(w)

(* "DAGs are valid ADMGs", "UGs are valid AGs" (R/queries.R) and so on. *)
ClassesWithin ==
    ((Types \ {"acyclic"}) \X {"acyclic"})
    \cup ({"DAG"} \X {"PDAG", "MPDAG", "ADMG", "AG"})
    \cup ({"UG"} \X {"PDAG", "MPDAG", "AG"})
    \cup {<<"CPDAG", "MPDAG">>, <<"MPDAG", "PDAG">>}

(* A derived session has a name for each node, edges that pass the checks   *)
(* of its builder, and a view that its class accepts: whatever could not be *)
(* compiled anew would fail only when it is first asked something.  A graph *)
(* found to be of a class passes the checks of every class around it.       *)
DerivedSessionsOpen ==
    /\ Len(session.names) = session.core.n
    /\ Cardinality(ToSet(session.names)) = session.core.n
    /\ ValidEdges(session.core.n, session.core.simple, session.core.registry, session.core.links)
    /\ session.view # {}
    /\ Turned({"dag_from_pdag"}) =>
        /\ NeighborPairs(Here) = NeighborPairs(There)
        /\ There.arcs \subseteq Here.arcs
    /\ Turned({"to_cpdag", "meek_closure"}) => NeighborPairs(Here) = NeighborPairs(There)
    /\ (Asked({"is_type"}) /\ answer.value) =>
        \A wider \in Types : <<call.how, wider>> \in ClassesWithin => HasType(session.core, wider)

(* "If the PDAG cannot be consistently extended to a DAG, the function will *)
(* raise an error" (R/operations.R:655).                                    *)
DagIsConsistentExtension ==
    (Turned({"dag_from_pdag"}) /\ There.n > 1) =>
        Here.arcs \in Extensions(Nodes(There), There.arcs, There.lines)
================================================================================
