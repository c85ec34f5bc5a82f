----------------------------- MODULE PackedBuckets -----------------------------
(***************************************************************************)
(* How a typed view stores its neighbours (graph/packed.rs and the two     *)
(* passes of each constructor): one array for all nodes, in which the      *)
(* buckets of a node lie side by side.  A first pass over the rows counts, *)
(* the bases of the buckets follow from the counts, and a second pass      *)
(* writes each neighbour where its bucket's cursor points.                 *)
(*                                                                         *)
(* The other modules read a view as relations on its nodes; what the       *)
(* slices of the array hold is compared with them in GraphViews.           *)
(***************************************************************************)
EXTENDS ViewQueries

DagBuckets == <<"in", "out">>
PdagBuckets == <<"in", "undirected", "out">>
UgBuckets == <<"undirected">>
AdmgBuckets == <<"in", "bidirected", "out">>
AgBuckets == <<"in", "undirected", "bidirected", "out">>

BucketsOf(class) ==
    CASE class = "DAG"         -> DagBuckets
      [] class \in PdagFamily  -> PdagBuckets
      [] class = "UG"          -> UgBuckets
      [] class = "ADMG"        -> AdmgBuckets
      [] class = "AG"          -> AgBuckets

(* Slip: the node at the tail position is taken for the parent. *)
KindByPosition(core, h) ==
    LET class == SpecOf(core, h[1]).class IN
    IF class # "directed" THEN class ELSE IF h[2] = 2 THEN "in" ELSE "out"

(* The kind of neighbour a half-edge leads to: is_incoming_arrow() decides. *)
KindOf(core, h) ==
    LET class == SpecOf(core, h[1]).class IN
    IF class # "directed" THEN class ELSE IF MyMark(core, h) = "arrow" THEN "in" ELSE "out"

(* First pass: inc_degree() *)
NodeDeg(core, buckets) ==
    [i \in Nodes(core) |-> [b \in DOMAIN buckets |->
        Cardinality({h \in HalfEdges(core, i) : KindOf(core, h) = buckets[b]})]]

(* finalize_degrees(): where the range of each node starts and ends ...    *)
NodeEdgeRanges(n, deg) ==
    LET starts[i \in 0 .. n] ==
            IF i = 0 THEN 0 ELSE starts[i - 1] + SumFunction(deg[i - 1])
    IN  starts

(* ... and where in it each bucket does. *)
BucketBases(deg, ranges) ==
    [i \in DOMAIN deg |-> [b \in DOMAIN deg[i] |-> ranges[i] + SumFunctionOnSet(deg[i], 1 .. (b - 1))]]

(* scatter() of half-edge h of node i: the cursor of its bucket moves on.   *)
Scatter(core, buckets, i, h, s) ==
    LET b == CHOOSE c \in DOMAIN buckets : buckets[c] = KindOf(core, h)
    IN  [neighborhoods |-> [s.neighborhoods EXCEPT ![s.cursors[i][b]] = Nbr(h)],
         cursors |-> [s.cursors EXCEPT ![i][b] = @ + 1]]

(* Second pass.  The buckets are sorted after it, so its order is not kept. *)
Scattered(core, buckets, bases, size) ==
    FoldSet(LAMBDA half, s : Scatter(core, buckets, half[1], half[2], s),
            [neighborhoods |-> [p \in 0 .. (size - 1) |-> 0], cursors |-> bases],
            UNION {{i} \X HalfEdges(core, i) : i \in Nodes(core)}).neighborhoods

Slice(neighborhoods, start, end) ==
    [k \in 1 .. (end - start) |-> neighborhoods[start + k - 1]]

(* The positions of a list of numbers, in the order sort_unstable() takes   *)
(* them, earlier ones first among equals.                                  *)
BySize(s) ==
    InOrder(DOMAIN s, {p \in (DOMAIN s) \X (DOMAIN s) :
                           s[p[1]] < s[p[2]] \/ (s[p[1]] = s[p[2]] /\ p[1] < p[2])})

(* sort_all() *)
SortAll(neighborhoods, deg, bases) ==
    LET segments == {<<bases[q[1]][q[2]], deg[q[1]][q[2]]>> :
                        q \in UNION {{i} \X DOMAIN deg[i] : i \in DOMAIN deg}}
    IN  [p \in DOMAIN neighborhoods |->
            LET seg   == CHOOSE q \in segments : q[1] <= p /\ p < q[1] + q[2]
                slice == Slice(neighborhoods, seg[1], seg[1] + seg[2])
            IN  slice[BySize(slice)[p - seg[1] + 1]]]

(* The two passes of try_new(), and build(). *)
Packed(core, class) ==
    LET buckets == BucketsOf(class)
        deg == NodeDeg(core, buckets)
        ranges == NodeEdgeRanges(core.n, deg)
        bases == BucketBases(deg, ranges)
    IN  [nodeEdgeRanges |-> ranges,
         nodeDeg |-> deg,
         neighborhoods |-> SortAll(Scattered(core, buckets, bases, ranges[core.n]), deg, bases)]

(* bucket_slice(): the base is computed again, from the counts. *)
BucketSlice(packed, i, b) ==
    LET start == packed.nodeEdgeRanges[i] + SumFunctionOnSet(packed.nodeDeg[i], 1 .. (b - 1))
    IN  Slice(packed.neighborhoods, start, start + packed.nodeDeg[i][b])

AllNeighbors(packed, i) ==
    Slice(packed.neighborhoods, packed.nodeEdgeRanges[i], packed.nodeEdgeRanges[i + 1])
================================================================================
