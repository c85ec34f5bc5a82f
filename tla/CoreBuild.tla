------------------------------- MODULE CoreBuild -------------------------------
(***************************************************************************)
(* What compiling an edge buffer yields (src/rust/src/graph/builder.rs,    *)
(* session.rs, mod.rs), as functions of the inputs.                        *)
(*                                                                         *)
(* An edge buffer is a bag of edges <<u, v, code>>: a function from the    *)
(* edges it holds to how often it holds them.  Its order is abstracted: it *)
(* reaches nothing but the row order of a data frame that R sorts and the  *)
(* choice of the message when several edges are wrong.                     *)
(*                                                                         *)
(* A result that may be an error, and an Option, is a set: {} is Err or    *)
(* None, {x} is Ok(x) or Some(x).                                          *)
(***************************************************************************)
EXTENDS GraphClasses

(* The members of a set in the strict order R. *)
InOrder(S, R) ==
    [k \in 1 .. Cardinality(S) |->
        CHOOSE x \in S : Cardinality({y \in S : <<y, x>> \in R}) = k - 1]

(* The elements of a sequence at the given positions, in their order. *)
Picked(s, positions) ==
    LET at == InOrder(positions, {p \in positions \X positions : p[1] < p[2]})
    IN  [k \in DOMAIN at |-> s[at[k]]]

Edge == Nat \X Nat \X Nat

IsEdgeBuffer(edges) ==
    DOMAIN edges \subseteq Edge /\ edges \in [DOMAIN edges -> Nat \ {0}]

NoEdges == [e \in {} |-> 0]

IsRegistry(registry) ==
    registry \in [0 .. (Cardinality(DOMAIN registry) - 1) -> EdgeSpec]

--------------------------------------------------------------------------------
(* GraphBuilder::try_add_edge(): what makes one edge acceptable, ... *)
ValidEdge(n, simple, registry, e) ==
    /\ e[1] < n
    /\ e[2] < n
    /\ ~ (simple /\ e[1] = e[2])
    /\ e[3] \in DOMAIN registry

SamePair(e, f) == {e[1], e[2]} = {f[1], f[2]}

(* ... and what makes an edge clash with one added before.                 *)
SameKey(simple, registry, e, f) ==
    \/ simple /\ SamePair(e, f)
    \/ e[3] = f[3] /\ registry[e[3]].symmetric /\ SamePair(e, f)
    \/ e = f

ValidEdges(n, simple, registry, edges) ==
    /\ \A e \in DOMAIN edges : ValidEdge(n, simple, registry, e) /\ edges[e] = 1
    /\ \A e, f \in DOMAIN edges : e # f => ~ SameKey(simple, registry, e, f)

(* finalize_in_place() and build_from_edge_buffer() sort the rows.         *)
Compile(n, simple, registry, edges) ==
    [n |-> n, simple |-> simple, registry |-> registry, links |-> edges,
     place |-> [v \in 0 .. (n - 1) |-> v]]

(* The orders rows can be in, and a core with its rows in another order.   *)
RowOrders(n) == {p \in [0 .. (n - 1) -> 0 .. (n - 1)] : IsInjective(p)}

Reordered(place, g) == [g EXCEPT !.place = place]

(* Members of a set of nodes as the rows of g list them.                   *)
InRowOrder(g, S) == InOrder(S, {p \in S \X S : g.place[p[1]] < g.place[p[2]]})

(* The validating build, one add_edge after the other, then finalize. *)
CheckedCore(n, simple, registry, edges) ==
    IF ValidEdges(n, simple, registry, edges)
    THEN {Compile(n, simple, registry, edges)}
    ELSE {}

(* GraphBuilder::build_from_edge_buffer(): no validation, but indexing the *)
(* rows with an endpoint that is no node panics.                           *)
TrustedCore(n, simple, registry, edges) ==
    IF \A e \in DOMAIN edges : e[1] < n /\ e[2] < n
    THEN {Compile(n, simple, registry, edges)}
    ELSE {}

(* build_view() *)
TypedView(class, g) == IF InClass(g, class) THEN {<<class, g>>} ELSE {}

--------------------------------------------------------------------------------
(* GraphSession::build_name_to_index(): the last of equal names wins. *)
NameIndex(names) ==
    [x \in {names[i] : i \in DOMAIN names} |->
        (CHOOSE i \in DOMAIN names :
            names[i] = x /\ \A j \in DOMAIN names : names[j] = x => j <= i) - 1]

IndexOf(index, x) == IF x \in DOMAIN index THEN {index[x]} ELSE {}

--------------------------------------------------------------------------------
(* Slip: parallel edges are not told apart by direction. *)
DisplacedEitherWay(simple, new, e) == \E f \in DOMAIN new : SamePair(e, f)

(* GraphSession::replace_edges_for_pairs(): a simple graph loses every old *)
(* edge on the pairs of the new ones, another graph only the old edges     *)
(* with the same ordered pair; copies are dropped.                         *)
Displaced(simple, new, e) ==
    \E f \in DOMAIN new :
        IF simple THEN SamePair(e, f) ELSE e[1] = f[1] /\ e[2] = f[2]

ReplacePairs(simple, old, new) ==
    [e \in {d \in DOMAIN old : ~ Displaced(simple, new, d)} \cup DOMAIN new |-> 1]

--------------------------------------------------------------------------------
(* Node-induced subgraphs: node i of the result is node keep[i+1].         *)
KeepIsOk(keep, n) ==
    /\ \A i \in DOMAIN keep : keep[i] < n
    /\ \A i, j \in DOMAIN keep : keep[i] = keep[j] => i = j

Kept(keep) == 0 .. (Len(keep) - 1)

Original(keep, e) == <<keep[e[1] + 1], keep[e[2] + 1], e[3]>>

(* Both the scan of the edge buffer and the scan of the CSR rows keep an   *)
(* edge with both ends kept, under the new numbers.                        *)
Induced(keep, edges) ==
    [e \in {d \in Kept(keep) \X Kept(keep) \X {f[3] : f \in DOMAIN edges} :
                Original(keep, d) \in DOMAIN edges}
        |-> edges[Original(keep, e)]]

(* CaugiGraph::induced_subgraph() walks the old rows and writes the new    *)
(* numbers as it meets them: the neighbours stay in the order they had.    *)
KeptPlaces(keep, place) ==
    [i \in Kept(keep) |->
        Cardinality({j \in Kept(keep) : place[keep[j + 1]] < place[keep[i + 1]]})]

InducedCore(keep, g) ==
    Reordered(KeptPlaces(keep, g.place),
              Compile(Len(keep), g.simple, g.registry, Induced(keep, g.links)))

SelectNames(keep, names) == [i \in DOMAIN keep |-> names[keep[i] + 1]]

--------------------------------------------------------------------------------
(* What a call leaves for its caller: nothing, or the result of a question *)
(* as <<operation, argument, result>>.                                     *)
Quiet == <<"none">>
================================================================================
