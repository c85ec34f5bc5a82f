---------------------------- MODULE SessionContract ----------------------------
(***************************************************************************)
(* What a GraphSession promises: its inputs, and answers that are those of *)
(* a fresh build from the inputs of the moment, where a core, alone or in  *)
(* a view, may have its rows in another order.  Nothing is cached here;    *)
(* GraphSession.tla, with its validity flags, its trusted edges and its    *)
(* prebuilt cores, implements this, whatever the operators below are.      *)
(***************************************************************************)
EXTENDS Integers, Sequences

CONSTANTS
    MaxN,         \* bound on the number of nodes
    Name,         \* node names
    DefaultName,  \* DefaultName[i] is the name a new session gives node i
    NameLists,    \* the name vectors callers pass
    Buffers,      \* the edge buffers callers pass
    Registries,   \* the registry snapshots that exist
    Classes       \* the class labels callers pass

(* What the inputs mean; CoreBuild and GraphClasses say it for caugi.      *)
CONSTANTS
    CheckedCore(_, _, _, _),  \* n, simple, registry, edges to a core, or an error
    RowOrders(_),             \* n to the orders the rows of a core can be in
    Reordered(_, _),          \* order, core to the core with its rows in that order
    TypedView(_, _),          \* class, core to a view, or an error
    ResolveClass(_, _),       \* class, core to the class it has, or an error
    NameIndex(_),             \* names to the index by name
    IndexOf(_, _),            \* index, name to a node, or none
    NoEdges,                  \* the empty buffer
    ReplacePairs(_, _, _),    \* simple, old edges, new edges to the merged edges
    KeepIsOk(_, _),           \* node list, n: distinct nodes
    Induced(_, _),            \* node list, edges to the edges of the subgraph
    SelectNames(_, _),        \* node list, names to the names of the subgraph
    Quiet                     \* what a call without a result leaves

(* The node lists a subgraph is asked for, repeated nodes included. *)
KeepLists == UNION {[1 .. k -> 0 .. MaxN] : k \in 0 .. MaxN}

VARIABLES
    n, simple, graph_class, registry, edges, names,
    out           \* the last answer: <<operation, argument, result>>

inputs == <<n, simple, graph_class, registry, edges, names>>

vars == <<n, simple, graph_class, registry, edges, names, out>>

Init ==
    /\ n \in 0 .. MaxN
    /\ simple \in BOOLEAN
    /\ graph_class \in Classes
    /\ registry \in Registries
    /\ edges = NoEdges
    /\ names = [i \in 1 .. n |-> DefaultName[i - 1]]
    /\ out = Quiet

Change ==
    /\ n' \in 0 .. MaxN
    /\ simple' \in BOOLEAN
    /\ graph_class' \in Classes
    /\ registry' \in Registries
    /\ names' \in NameLists \cup {names}
    /\ edges' \in Buffers \cup {edges} \cup {ReplacePairs(simple, edges, b) : b \in Buffers}
    /\ out' = Quiet

(* The session is replaced by its subgraph on keep. *)
Subgraph(keep) ==
    /\ KeepIsOk(keep, n)
    /\ \A i \in DOMAIN keep : keep[i] < Len(names)
    /\ n' = Len(keep)
    /\ edges' = Induced(keep, edges)
    /\ names' = SelectNames(keep, names)
    /\ out' = Quiet
    /\ UNCHANGED <<simple, graph_class, registry>>

Answer(operation, argument, result) ==
    /\ out' = <<operation, argument, result>>
    /\ UNCHANGED inputs

FreshCore(order) == {Reordered(order, g) : g \in CheckedCore(n, simple, registry, edges)}

FreshView(order) == UNION {TypedView(graph_class, g) : g \in FreshCore(order)}

FreshClass(c) == UNION {ResolveClass(c, g) : g \in CheckedCore(n, simple, registry, edges)}

Next ==
    \/ Change
    \/ \E keep \in KeepLists : Subgraph(keep)
    \/ \E order \in RowOrders(n) :
        \/ Answer("core", "none", FreshCore(order))
        \/ Answer("view", "none", FreshView(order))
    \/ \E c \in Classes : Answer("resolve_class", c, FreshClass(c))
    \/ \E x \in Name : Answer("index_of", x, IndexOf(NameIndex(names), x))

Spec == Init /\ [][Next]_vars
================================================================================
