------------------------------ MODULE GraphSession ------------------------------
(***************************************************************************)
(* GraphSession (src/rust/src/graph/session.rs): one mutable graph with a  *)
(* compiled core and a typed view that are built when asked for and kept   *)
(* until an input they depend on changes.                                  *)
(*                                                                         *)
(* The actions are the public methods, called in any order.  CloneForCow   *)
(* and Subgraph return another session; the model goes on with the new one *)
(* (the old one is where it was, and every continuation of it is a         *)
(* behaviour of its own).                                                  *)
(***************************************************************************)
EXTENDS GraphMetrics

CONSTANTS
    MaxN,         \* bound on the number of nodes
    Name,         \* node names
    DefaultName,  \* DefaultName[i] is the name a new session gives node i
    NameLists,    \* the name vectors callers pass
    Buffers,      \* the edge buffers callers pass
    Registries,   \* the registry snapshots that exist
    Classes,      \* the class labels callers pass
    Batches       \* the argument lists replace_spec() is called with

(* The node lists a subgraph is asked for, repeated nodes included. *)
KeepLists == UNION {[1 .. k -> 0 .. MaxN] : k \in 0 .. MaxN}

ASSUME SessionAssumption ==
    /\ MaxN \in Nat
    /\ DefaultName \in [0 .. (MaxN - 1) -> Name]
    /\ NameLists \subseteq Seq(Name)
    /\ \A b \in Buffers : IsEdgeBuffer(b)
    /\ \A r \in Registries : IsRegistry(r)
    /\ Classes \subseteq GraphClass
    /\ Batches \subseteq (0 .. MaxN) \X BOOLEAN \X Classes \X Registries \X Buffers \X NameLists

VARIABLES
    n, simple, graph_class, registry, edges, names,  \* the mutable inputs
    name_to_index,                                   \* index of names
    core_valid, view_valid,                          \* validity flags
    edges_trusted,                                   \* skip validation in build_core
    core, view,                                      \* Option of a core, of a view
    out                                              \* what the last call returned

inputs == <<n, simple, graph_class, registry, edges, names>>

cache == <<core_valid, view_valid, edges_trusted, core, view>>

vars == <<inputs, name_to_index, cache, out>>

--------------------------------------------------------------------------------
(* Construction *)

(* GraphSession::new() and from_snapshot() *)
Init ==
    /\ n \in 0 .. MaxN
    /\ simple \in BOOLEAN
    /\ graph_class \in Classes
    /\ registry \in Registries
    /\ edges = NoEdges
    /\ names = [i \in 1 .. n |-> DefaultName[i - 1]]
    /\ name_to_index = NameIndex(names)
    /\ core_valid = FALSE
    /\ view_valid = FALSE
    /\ edges_trusted = FALSE
    /\ core = {}
    /\ view = {}
    /\ out = Quiet

--------------------------------------------------------------------------------
(* Invalidation *)

InvalidateView == view_valid' = FALSE /\ view' = {}

(* Slip: the trust of a subgraph survives an edit. *)
InvalidateCoreKeepTrust ==
    /\ core_valid' = FALSE
    /\ core' = {}
    /\ InvalidateView
    /\ UNCHANGED edges_trusted

InvalidateCore ==
    /\ core_valid' = FALSE
    /\ edges_trusted' = FALSE
    /\ core' = {}
    /\ InvalidateView

--------------------------------------------------------------------------------
(* Mutators *)

(* Slip: the argument is taken for the last node. *)
SetLastNode(m) ==
    /\ n' = m + 1
    /\ InvalidateCore
    /\ out' = Quiet
    /\ UNCHANGED <<simple, graph_class, registry, edges, names, name_to_index>>

SetN(m) ==
    /\ n' = m
    /\ IF n # m THEN InvalidateCore ELSE UNCHANGED cache
    /\ out' = Quiet
    /\ UNCHANGED <<simple, graph_class, registry, edges, names, name_to_index>>

(* Slip: simple is not counted among the inputs of the core. *)
SetSimpleOnly(s) ==
    /\ simple' = s
    /\ out' = Quiet
    /\ UNCHANGED <<n, graph_class, registry, edges, names, name_to_index, cache>>

SetSimple(s) ==
    /\ simple' = s
    /\ IF simple # s THEN InvalidateCore ELSE UNCHANGED cache
    /\ out' = Quiet
    /\ UNCHANGED <<n, graph_class, registry, edges, names, name_to_index>>

(* set_edges() and set_edges_from_vecs() *)
SetEdges(new) ==
    /\ edges' = new
    /\ InvalidateCore
    /\ out' = Quiet
    /\ UNCHANGED <<n, simple, graph_class, registry, names, name_to_index>>

ReplaceEdgesForPairs(new) ==
    /\ edges' = ReplacePairs(simple, edges, new)
    /\ InvalidateCore
    /\ out' = Quiet
    /\ UNCHANGED <<n, simple, graph_class, registry, names, name_to_index>>

(* Slip: the view of the old class stays. *)
SetClassOnly(c) ==
    /\ graph_class' = c
    /\ out' = Quiet
    /\ UNCHANGED <<n, simple, registry, edges, names, name_to_index, cache>>

SetClass(c) ==
    /\ graph_class' = c
    /\ IF graph_class # c
       THEN InvalidateView /\ UNCHANGED <<core_valid, edges_trusted, core>>
       ELSE UNCHANGED cache
    /\ out' = Quiet
    /\ UNCHANGED <<n, simple, registry, edges, names, name_to_index>>

SetNames(new) ==
    /\ names' = new
    /\ name_to_index' = NameIndex(new)
    /\ out' = Quiet
    /\ UNCHANGED <<n, simple, graph_class, registry, edges, cache>>

SetRegistry(r) ==
    /\ registry' = r
    /\ InvalidateCore
    /\ out' = Quiet
    /\ UNCHANGED <<n, simple, graph_class, edges, names, name_to_index>>

(* All inputs in one call: batch is <<n, simple, class, registry, edges, names>>. *)
ReplaceSpec(batch) ==
    /\ n' = batch[1]
    /\ simple' = batch[2]
    /\ graph_class' = batch[3]
    /\ registry' = batch[4]
    /\ edges' = batch[5]
    /\ names' = batch[6]
    /\ name_to_index' = NameIndex(batch[6])
    /\ InvalidateCore
    /\ out' = Quiet

--------------------------------------------------------------------------------
(* Accessors.  A failed build leaves the flags as they are. *)

BuildCore ==
    IF edges_trusted
    THEN TrustedCore(n, simple, registry, edges)
    ELSE CheckedCore(n, simple, registry, edges)

(* core(): the result is the cached core or the outcome of a build. *)
CoreResult == IF core_valid THEN core ELSE BuildCore

KeepCore ==
    /\ core' = IF core_valid \/ BuildCore = {} THEN core ELSE BuildCore
    /\ core_valid' = (core_valid \/ BuildCore # {})

ViewResult ==
    IF view_valid THEN view ELSE UNION {TypedView(graph_class, g) : g \in CoreResult}

GetCore ==
    /\ KeepCore
    /\ out' = <<"core", "none", CoreResult>>
    /\ UNCHANGED <<inputs, name_to_index, view_valid, edges_trusted, view>>

(* view(), and every query that starts from it.  The core built on the way *)
(* stays even when the class refuses it.                                   *)
GetView ==
    /\ IF view_valid THEN UNCHANGED <<core, core_valid>> ELSE KeepCore
    /\ view' = IF view_valid \/ ViewResult # {} THEN ViewResult ELSE view
    /\ view_valid' = (view_valid \/ ViewResult # {})
    /\ out' = <<"view", "none", ViewResult>>
    /\ UNCHANGED <<inputs, name_to_index, edges_trusted>>

(* resolve_class(); is_cpdag(), is_mpdag() ask the same of one class. *)
GetResolvedClass(c) ==
    /\ KeepCore
    /\ out' = <<"resolve_class", c, UNION {ResolveClass(c, g) : g \in CoreResult}>>
    /\ UNCHANGED <<inputs, name_to_index, view_valid, edges_trusted, view>>

GetIndexOf(x) ==
    /\ out' = <<"index_of", x, IndexOf(name_to_index, x)>>
    /\ UNCHANGED <<inputs, name_to_index, cache>>

--------------------------------------------------------------------------------
(* Derived sessions *)

CloneForCow ==
    /\ core_valid' = FALSE
    /\ core' = {}
    /\ InvalidateView
    /\ out' = Quiet
    /\ UNCHANGED <<inputs, name_to_index, edges_trusted>>

(* induced_subgraph_session_from_keep(): an index that is no node or has   *)
(* no name, or a repeated one, is an error and there is no new session.    *)
Selects(keep) ==
    /\ KeepIsOk(keep, n)
    /\ \A i \in DOMAIN keep : keep[i] < Len(names)

SubgraphOf(keep, keptEdges) ==
    /\ n' = Len(keep)
    /\ edges' = keptEdges
    /\ names' = SelectNames(keep, names)
    /\ name_to_index' = NameIndex(SelectNames(keep, names))
    /\ edges_trusted' = TRUE
    /\ InvalidateView
    /\ out' = Quiet
    /\ UNCHANGED <<simple, graph_class, registry>>

(* The core is there: cut it down, and read the edges off what is left     *)
(* (from_prebuilt_core).                                                   *)
SubgraphFromCore(keep) ==
    /\ Selects(keep)
    /\ core_valid
    /\ \E g \in core :
        /\ core' = {InducedCore(keep, g)}
        /\ core_valid' = TRUE
        /\ SubgraphOf(keep, InducedCore(keep, g).links)

(* No core: filter the edge buffer and trust what remains                  *)
(* (from_snapshot_with_data).                                              *)
SubgraphFromBuffer(keep) ==
    /\ Selects(keep)
    /\ ~ core_valid
    /\ core' = {}
    /\ core_valid' = FALSE
    /\ SubgraphOf(keep, Induced(keep, edges))

SubgraphRefused(keep) ==
    /\ ~ Selects(keep)
    /\ out' = Quiet
    /\ UNCHANGED <<inputs, name_to_index, cache>>

--------------------------------------------------------------------------------
Mutate ==
    \/ \E m \in 0 .. MaxN : SetN(m)
    \/ \E s \in BOOLEAN : SetSimple(s)
    \/ \E b \in Buffers : SetEdges(b)
    \/ \E b \in Buffers : ReplaceEdgesForPairs(b)
    \/ \E c \in Classes : SetClass(c)
    \/ \E new \in NameLists : SetNames(new)
    \/ \E r \in Registries : SetRegistry(r)
    \/ \E batch \in Batches : ReplaceSpec(batch)

Ask ==
    \/ GetCore
    \/ GetView
    \/ \E c \in Classes : GetResolvedClass(c)
    \/ \E x \in Name : GetIndexOf(x)

(* What may be trusted without a look: the buffer a build would accept.    *)
EdgesAreValid == ValidEdges(n, simple, registry, edges)

(* SubgraphFromBuffer takes the buffer on trust, so its callers must have   *)
(* seen it pass a build: the R verbs resolve the class of every object they *)
(* return, and CaugiObjects!ObjectsCompile says that this is enough.        *)
Derive ==
    \/ CloneForCow
    \/ \E keep \in KeepLists :
        \/ SubgraphFromCore(keep)
        \/ EdgesAreValid /\ SubgraphFromBuffer(keep)
        \/ SubgraphRefused(keep)

Next == Mutate \/ Ask \/ Derive

Spec == Init /\ [][Next]_vars

--------------------------------------------------------------------------------
(* Every variable has its type; a buffer may hold edges no build accepts. *)
TypeOK ==
    /\ n \in 0 .. MaxN
    /\ simple \in BOOLEAN
    /\ graph_class \in Classes
    /\ registry \in Registries
    /\ IsEdgeBuffer(edges)
    /\ names \in Seq(Name)
    /\ {core_valid, view_valid, edges_trusted} \subseteq BOOLEAN

(* The expect() of core() and view() never fires, and what they return     *)
(* without a build is what a build from the inputs of the moment would     *)
(* give, up to the order of the rows: the rule "edges, n, simple, registry *)
(* invalidate the core, the core and the class invalidate the view, names  *)
(* invalidate nothing" of session.rs leaves no stale core, view or name    *)
(* index behind.  Rows in another order than a build gives them are found  *)
(* in sessions whose edges are trusted, which a subgraph makes, and in no  *)
(* other.                                                                  *)
CoreCoherent ==
    /\ core_valid <=> core # {}
    /\ core_valid => \E order \in RowOrders(n) :
                       core = {Reordered(order, g) : g \in CheckedCore(n, simple, registry, edges)}
    /\ core_valid => edges_trusted \/ core = CheckedCore(n, simple, registry, edges)

ViewCoherent ==
    /\ view_valid <=> view # {}
    /\ view_valid => core_valid /\ view = UNION {TypedView(graph_class, g) : g \in core}

CacheCoherent ==
    /\ CoreCoherent
    /\ ViewCoherent
    /\ name_to_index = NameIndex(names)

(* edges_trusted lets build_core() skip every check, so it may be set only *)
(* while the checks would pass: "edges are known to be valid (e.g., subset *)
(* of an already-valid graph)".  It has to hold through renumbering by a   *)
(* subgraph, through clones that copy the flag, and to be lost by every    *)
(* mutation that could break it.                                           *)
TrustedEdgesAreValid == edges_trusted => EdgesAreValid

(* "identical_zero_shd" (metrics.rs): a core is at no distance from itself, *)
(* and neither is its skeleton.  Both distances look for the edges of the  *)
(* first graph with a cursor that needs sorted rows.                       *)
NoDistanceToItself ==
    \A g \in core :
        simple /\ Len(names) = n /\ Comparable(names, names) =>
            Shd(names, g, names, g) = 0 /\ Hd(names, g, names, g) = 0

(* Answers are those of a session without caches, flags and prebuilt       *)
(* cores, except that the rows of a core may be in any order: the inputs   *)
(* map to themselves, and what is cached to nothing.                       *)
Contract == INSTANCE SessionContract
    WITH n <- n, simple <- simple, graph_class <- graph_class, registry <- registry,
         edges <- edges, names <- names, out <- out

ImplementsContract == Contract!Spec
================================================================================
