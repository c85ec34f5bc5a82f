------------------------------ MODULE GraphMetrics ------------------------------
(***************************************************************************)
(* Structural and skeleton Hamming distance (graph/metrics.rs, rs_shd()    *)
(* and rs_hd() of lib.rs), on compiled cores and their node names, and the *)
(* matrices the adjustment distances are computed from.                    *)
(***************************************************************************)
EXTENDS CoreBuild

(* The half-edges of a core, <<u, v, code, side>>: u sees v.               *)
Halves(g) ==
    {<<e[1], e[2], e[3], 0>> : e \in DOMAIN g.links}
    \cup {<<e[2], e[1], e[3], 1>> : e \in DOMAIN g.links}

(* EdgeKind: the class, and for a type with a direction whether the        *)
(* neighbour has the arrowhead.                                            *)
EdgeKind(g, h) ==
    LET spec == g.registry[h[3]] IN
    [class |-> spec.class,
     outgoing |-> IF spec.symmetric
                  THEN {}
                  ELSE {(IF h[4] = 0 THEN spec.head ELSE spec.tail) = "arrow"}]

(* The row of u as it is stored. *)
ListedBefore(g, h, k) ==
    \/ g.place[h[2]] < g.place[k[2]]
    \/ h[2] = k[2] /\ (h[3] < k[3] \/ (h[3] = k[3] /\ h[4] < k[4]))

Row(g, u) ==
    LET row == {h \in Halves(g) : h[1] = u} IN
    InOrder(row, {p \in row \X row : ListedBefore(g, p[1], p[2])})

(* The cursor in the row of the first graph: the search for v goes on where *)
(* the last one ended, skips smaller neighbours and gives up at a larger    *)
(* one, which a row sorted by neighbour makes right.                        *)
SearchEnds(row, v, from) ==
    CHOOSE k \in from .. (Len(row) + 1) :
        /\ k <= Len(row) => row[k][2] >= v
        /\ \A j \in from .. (k - 1) : row[j][2] < v

Hits(row, v, k) == k <= Len(row) /\ row[k][2] = v

(* Where the search for v starts, those for the nodes after u being over.   *)
CursorBefore(row, u, v) ==
    LET cursor[w \in (u + 1) .. v] ==
            IF w = u + 1 THEN 1
            ELSE LET k == SearchEnds(row, w - 1, cursor[w - 1]) IN
                 IF Hits(row, w - 1, k) THEN k + 1 ELSE k
    IN  cursor[v]

Found(g, u, v) ==
    LET row == Row(g, u)
        k == SearchEnds(row, v, CursorBefore(row, u, v))
    IN  IF Hits(row, v, k) THEN {row[k]} ELSE {}

(* find_edge_kind() and has_edge_to() *)
FindEdgeKind(g, u, v) == {EdgeKind(g, h) : h \in Found(g, u, v)}

HasEdgeTo(g, u, v) == Found(g, u, v) # {}

(* Of the other graph there is a map, which keeps the last half-edge to a   *)
(* neighbour, or a set.                                                     *)
Indexed(g, u, v) ==
    LET row == Row(g, u)
        hits == {k \in DOMAIN row : row[k][2] = v}
    IN  {row[k] : k \in {l \in hits : \A j \in hits : j <= l}}

IndexedKind(g, u, v) == {EdgeKind(g, h) : h \in Indexed(g, u, v)}

(* Slip: both graphs are taken to number their nodes alike. *)
SameOrder(names1, names2) == [i \in DOMAIN names1 |-> i - 1]

(* build_perm_from_string_slices(), for names that are distinct *)
Permutation(names1, names2) == [i \in DOMAIN names1 |-> NameIndex(names2)[names1[i]]]

(* The names match, or there is an error. *)
Comparable(names1, names2) ==
    /\ Len(names1) = Len(names2)
    /\ ToSet(names1) = ToSet(names2)
    /\ Cardinality(ToSet(names2)) = Len(names2)

AscendingPairs(n) == {p \in (0 .. (n - 1)) \X (0 .. (n - 1)) : p[1] < p[2]}

(* The first graph is searched in its rows, the second looked up.           *)
(* rs_shd() *)
Shd(names1, g1, names2, g2) ==
    LET perm == Permutation(names1, names2) IN
    Cardinality({p \in AscendingPairs(g1.n) :
        FindEdgeKind(g1, p[1], p[2]) # IndexedKind(g2, perm[p[1] + 1], perm[p[2] + 1])})

(* rs_hd() *)
Hd(names1, g1, names2, g2) ==
    LET perm == Permutation(names1, names2) IN
    Cardinality({p \in AscendingPairs(g1.n) :
        HasEdgeTo(g1, p[1], p[2]) # (Indexed(g2, perm[p[1] + 1], perm[p[2] + 1]) # {})})

--------------------------------------------------------------------------------
(* Adjustment identification distances: gadjid counts; it is handed two     *)
(* matrices that number the nodes alike.                                    *)

(* build_inv_from_string_slices(): from the nodes of the guess to the true. *)
InversePermutation(namesTrue, namesGuess) ==
    LET perm == Permutation(namesTrue, namesGuess) IN
    [j \in DOMAIN perm |-> (CHOOSE i \in DOMAIN perm : perm[i] = j - 1) - 1]

(* to_gadjid_pdag_with_map(): 1 for an arc from row to column, 2 for a line;*)
(* where[u + 1] is the row of node u.                                       *)
Matrix(g, where) ==
    LET moved(R) == {<<where[p[1] + 1], where[p[2] + 1]>> : p \in R}
        arcs == moved(Arcs(g))
        lines == moved(Lines(g))
    IN  [cell \in Nodes(g) \X Nodes(g) |->
            IF cell \in lines THEN 2 ELSE IF cell \in arcs THEN 1 ELSE 0]

(* to_aid_input(): a DAG, or a PDAG that is a CPDAG. *)
IsAidInput(class, g) == class = "DAG" \/ (class = "PDAG" /\ IsCpdag(g))

(* session_aid_impl(): what is compared, or an error. *)
AidMatrices(namesTrue, classTrue, gTrue, namesGuess, classGuess, gGuess) ==
    IF /\ Comparable(namesTrue, namesGuess)
       /\ IsAidInput(classTrue, gTrue) /\ IsAidInput(classGuess, gGuess)
    THEN {<<Matrix(gTrue, [i \in DOMAIN namesTrue |-> i - 1]),
            Matrix(gGuess, InversePermutation(namesTrue, namesGuess))>>}
    ELSE {}

--------------------------------------------------------------------------------
(* What the distances are to count. *)

(* The classes of the edges between x and y, each with the ends that have   *)
(* an arrowhead.                                                            *)
EdgesBetween(names, g, x, y) ==
    {[class |-> g.registry[e[3]].class,
      heads |-> (IF g.registry[e[3]].tail = "arrow" THEN {names[e[1] + 1]} ELSE {})
                \cup (IF g.registry[e[3]].head = "arrow" THEN {names[e[2] + 1]} ELSE {})] :
        e \in {d \in DOMAIN g.links : {names[d[1] + 1], names[d[2] + 1]} = {x, y}}}

NamePairs(names) == {{p[1], p[2]} : p \in {q \in ToSet(names) \X ToSet(names) : q[1] # q[2]}}

Differing(names1, g1, names2, g2) ==
    {p \in NamePairs(names1) :
        \E x, y \in p : x # y /\ EdgesBetween(names1, g1, x, y) # EdgesBetween(names2, g2, x, y)}

DifferingSkeletons(names1, g1, names2, g2) ==
    {p \in NamePairs(names1) :
        \E x, y \in p :
            /\ x # y
            /\ (EdgesBetween(names1, g1, x, y) = {}) # (EdgesBetween(names2, g2, x, y) = {})}

(* The two matrices say the same of a pair of names where the graphs do.    *)
SameCell(names1, g1, names2, g2, m, i, j) ==
    (m[1][<<i, j>>] = m[2][<<i, j>>] /\ m[1][<<j, i>>] = m[2][<<j, i>>])
    = (EdgesBetween(names1, g1, names1[i + 1], names1[j + 1])
       = EdgesBetween(names2, g2, names1[i + 1], names1[j + 1]))
================================================================================
