------------------------------ MODULE GraphBuilder ------------------------------
(***************************************************************************)
(* GraphBuilder (src/rust/src/graph/builder.rs): edges are added one by    *)
(* one, each checked against two hash sets, and finalize turns the rows of *)
(* half-edges into the sorted rows of a CSR.                               *)
(*                                                                         *)
(* The calls are those of any client: GraphSession::build_core() adds a    *)
(* buffer and gives up at the first refusal; graph_builder_add_edges()     *)
(* (lib.rs) stops a batch at the first refusal and keeps what it added, so *)
(* a batch is the add_edge() calls up to there; graph_builder_resolve_     *)
(* class() finalizes in place and leaves the builder to its owner.         *)
(***************************************************************************)
EXTENDS CoreBuild

CONSTANTS
    MaxN,         \* bound on the number of nodes
    MaxOffered,   \* bound on the number of add_edge() calls
    Specs         \* the registry snapshot

ASSUME BuilderAssumption ==
    /\ MaxN \in Nat
    /\ MaxOffered \in Nat
    /\ IsRegistry(Specs)

VARIABLES
    n, simple,
    rows,        \* rows[u + 1]: the half-edges at u, in the order they came
    seen,        \* keys of the edges added
    pair_seen,   \* their node pairs, filled for simple graphs
    core,        \* Option of the core the last finalize returned
    result,      \* of the last call: "ok", "refused", "panic"
    offered,     \* history: the bag of edges add_edge() was called with
    accepted     \* history: the edges it took before the first finalize

vars == <<n, simple, rows, seen, pair_seen, core, result, offered, accepted>>

(* One node and one code too many, so that every check has work. *)
Offers == (0 .. MaxN) \X (0 .. MaxN) \X (0 .. Cardinality(DOMAIN Specs))

(* new_from_snapshot_with_capacity() *)
Init ==
    /\ n \in 0 .. MaxN
    /\ simple \in BOOLEAN
    /\ rows = [i \in 1 .. n |-> <<>>]
    /\ seen = {}
    /\ pair_seen = {}
    /\ core = {}
    /\ result = "ok"
    /\ offered = NoEdges
    /\ accepted = {}

--------------------------------------------------------------------------------
Pair(e) == IF e[1] <= e[2] THEN <<e[1], e[2]>> ELSE <<e[2], e[1]>>

(* Slip: every key is ordered. *)
OrderedKey(e) == <<<<e[1], e[2]>>, e[3], FALSE>>

(* The key of an edge in seen: its ends in order if it is symmetric. *)
Key(e) ==
    IF Specs[e[3]].symmetric THEN <<Pair(e), e[3], TRUE>> ELSE <<<<e[1], e[2]>>, e[3], FALSE>>

(* Slip: a simple graph is not asked for parallel edges of other types. *)
PassesParallel(e) ==
    /\ e[1] < n /\ e[2] < n
    /\ ~ (simple /\ e[1] = e[2])
    /\ e[3] \in DOMAIN Specs

(* try_add_edge(), check by check. *)
Passes(e) ==
    /\ e[1] < n /\ e[2] < n
    /\ ~ (simple /\ e[1] = e[2])
    /\ e[3] \in DOMAIN Specs
    /\ ~ (simple /\ Pair(e) \in pair_seen)

(* Half-edges are pushed at both ends; a self-loop pushes two at one.      *)
Halves(e) ==
    <<<<e[1], [nbr |-> e[2], etype |-> e[3], side |-> "tail"]>>,
      <<e[2], [nbr |-> e[1], etype |-> e[3], side |-> "head"]>>>>

PushHalf(rs, half) == [rs EXCEPT ![half[1] + 1] = Append(@, half[2])]

PushEdge(rs, e) == PushHalf(PushHalf(rs, Halves(e)[1]), Halves(e)[2])

Offer(e) ==
    offered' = [f \in DOMAIN offered \cup {e} |->
                   (IF f \in DOMAIN offered THEN offered[f] ELSE 0) + (IF f = e THEN 1 ELSE 0)]

(* A check fails before anything is stored, the last one (seen) after      *)
(* pair_seen has got the pair.                                             *)
RefuseEdge(e) ==
    /\ Offer(e)
    /\ Passes(e) => Key(e) \in seen
    /\ pair_seen' = IF simple /\ Passes(e) THEN pair_seen \cup {Pair(e)} ELSE pair_seen
    /\ result' = "refused"
    /\ UNCHANGED <<n, simple, rows, seen, core, accepted>>

(* The rows are there before the first finalize; after it push_half()      *)
(* indexes an empty vector.                                                *)
AddEdge(e) ==
    /\ Offer(e)
    /\ Passes(e) /\ Key(e) \notin seen
    /\ pair_seen' = IF simple THEN pair_seen \cup {Pair(e)} ELSE pair_seen
    /\ seen' = seen \cup {Key(e)}
    /\ IF Len(rows) = n
       THEN /\ rows' = PushEdge(rows, e)
            /\ result' = "ok"
            /\ accepted' = accepted \cup {e}
       ELSE /\ result' = "panic"
            /\ UNCHANGED <<rows, accepted>>
    /\ UNCHANGED <<n, simple, core>>

--------------------------------------------------------------------------------
(* HalfEdge::cmp(): neighbour, code, side. *)
Rank(h) == <<h.nbr, h.etype, IF h.side = "tail" THEN 0 ELSE 1>>

Before(g, h) ==
    \E i \in 1 .. 3 : Rank(g)[i] < Rank(h)[i] /\ \A j \in 1 .. (i - 1) : Rank(g)[j] = Rank(h)[j]

(* Equal half-edges stay in place. *)
SortRow(row) ==
    LET places == DOMAIN row
        at == InOrder(places, {p \in places \X places :
                                  \/ Before(row[p[1]], row[p[2]])
                                  \/ ~ Before(row[p[2]], row[p[1]]) /\ p[1] < p[2]})
    IN  [k \in DOMAIN at |-> row[at[k]]]

(* Slip: rows are left in the order of insertion. *)
CsrUnsorted(rs) == rs

Csr(rs) == [i \in DOMAIN rs |-> SortRow(rs[i])]

(* The check of build_from_rows(). *)
ParallelInRow(row) ==
    \E i \in 1 .. (Len(row) - 1) :
        SortRow(row)[i].nbr = SortRow(row)[i + 1].nbr
            /\ SortRow(row)[i].etype = SortRow(row)[i + 1].etype

(* take_and_build(): the builder is emptied, whatever comes of it. *)
Finalize ==
    /\ core' = IF simple /\ \E i \in DOMAIN rows : ParallelInRow(rows[i])
               THEN {} ELSE {Csr(rows)}
    /\ result' = IF core' = {} THEN "refused" ELSE "ok"
    /\ rows' = <<>>
    /\ seen' = {}
    /\ pair_seen' = {}
    /\ UNCHANGED <<n, simple, offered, accepted>>

(* The edges of a core, read off its tail halves: from_prebuilt_core(). *)
EdgesOf(csr) ==
    UNION {{<<i - 1, h.nbr, h.etype>> : h \in {g \in ToSet(csr[i]) : g.side = "tail"}} :
              i \in DOMAIN csr}

(* build_from_edge_buffer(): the rows of a buffer without any check; a row  *)
(* gets the half-edges at its node in the order of the buffer.              *)
BufferHalves(buffer) ==
    [k \in 1 .. 2 * Len(buffer) |-> Halves(buffer[(k + 1) \div 2])[2 - (k % 2)]]

TrustedCsr(buffer) ==
    LET halves == BufferHalves(buffer)
        at(u) == Picked(halves, {k \in DOMAIN halves : halves[k][1] = u})
    IN  Csr([i \in 1 .. n |-> [k \in DOMAIN at(i - 1) |-> at(i - 1)[k][2]]])

OfferedCount == FoldFunctionOnSet(+, 0, offered, DOMAIN offered)

Next ==
    \/ \E e \in Offers : OfferedCount < MaxOffered /\ (AddEdge(e) \/ RefuseEdge(e))
    \/ Finalize

Spec == Init /\ [][Next]_vars

--------------------------------------------------------------------------------
(* The builder is fresh until the first finalize takes the rows away.      *)
Fresh == Len(rows) = n /\ core = {}

(* The two hash sets, consulted edge by edge, decide what the declarative  *)
(* ValidEdges says of the whole buffer: an edge has been refused exactly   *)
(* if the buffer is not acceptable, in whatever order it came.             *)
AcceptedAsDeclared ==
    Fresh =>
        ((offered = [e \in accepted |-> 1]) <=> ValidEdges(n, simple, Specs, offered))

(* What was taken is acceptable whatever was refused on the way: a batch   *)
(* that fails half-way leaves a usable builder.                            *)
AcceptedIsValid == ValidEdges(n, simple, Specs, [e \in accepted |-> 1])

(* The first finalize never fails, and gives the CSR the unchecked bulk    *)
(* build gives for the accepted edges in any order, from whose tail halves *)
(* the same edges are read back.                                           *)
FirstCore ==
    [][Finalize /\ Fresh =>
        \E csr \in core' : csr = TrustedCsr(SetToSeq(accepted)) /\ EdgesOf(csr) = accepted]_vars
================================================================================
