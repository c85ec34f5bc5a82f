----------------------------- MODULE ViewTransforms -----------------------------
(***************************************************************************)
(* The graphs the typed views turn into: CPDAG, skeleton, moral graph,     *)
(* latent projection, exogenized and normalized DAGs, induced subgraphs    *)
(* and ancestral reductions.                                               *)
(*                                                                         *)
(* A result is the set of the views a call returns: {} is an error.        *)
(***************************************************************************)
EXTENDS ViewQueries, Adjustment, MarkovEquivalence, MeekRules

--------------------------------------------------------------------------------
(* Building a core *)

(* The code of the usual glyph of a class, else the first of the class. *)
CodeFor(registry, class, glyph) ==
    LET codes == {c \in DOMAIN registry : registry[c].class = class}
        usual == {c \in codes : registry[c].glyph = glyph}
        first(S) == {c \in S : \A d \in S : c <= d}
    IN  IF usual # {} THEN usual ELSE first(codes)

Links(pairs, code) == {<<p[1], p[2], code>> : p \in pairs}

(* Each edge once, an edge without direction from its smaller end. *)
CoreFrom(registry, simple, n, arcs, spouses, lines) ==
    LET once(R) == {p \in R : p[1] < p[2]} IN
    {Compile(n, simple, registry,
        [e \in Links(arcs, d) \cup Links(once(spouses), b) \cup Links(once(lines), u) |-> 1]) :
            d \in CodeFor(registry, "directed", "-->"),
            b \in CodeFor(registry, "bidirected", "<->"),
            u \in CodeFor(registry, "undirected", "---")}

(* The constructor of the class wraps the core or refuses it. *)
Wrapped(class, cores) == {View(class, c) : c \in {d \in cores : InClass(d, class)}}

(* build_ug_core_from_adj() *)
UgView(v, adjacency) ==
    Wrapped("UG", CoreFrom(v.core.registry, v.core.simple, v.n, {}, {}, adjacency))

(* Node i of the result is node keep[i + 1]. *)
Renumbered(keep, R) ==
    {p \in Kept(keep) \X Kept(keep) : <<keep[p[1] + 1], keep[p[2] + 1]>> \in R}

--------------------------------------------------------------------------------
(* Equivalence class, skeleton and moral graphs *)

(* Dag::to_cpdag(): what Meek closure makes of the oriented v-structures of *)
(* a DAG.  The module MeekClosure has the algorithm, and shows this of it.  *)
DagToCpdag(v) ==
    LET essential == Essential(Nodes(v), v.arcs) IN
    {View("CPDAG", c) :
        c \in CoreFrom(v.core.registry, TRUE, v.n, essential[1], {}, essential[2])}

(* GraphView::to_cpdag() *)
ToCpdag(v) ==
    CASE v.class = "CPDAG" -> {v}
      [] v.class = "DAG"   -> DagToCpdag(v)
      [] OTHER             -> {}

(* What one successful try_orient() of any rule makes of g, with the guard  *)
(* against new colliders.                                                  *)
MeekOriented(n, g) ==
    LET N == 0 .. (n - 1)
        asked(a, b) == \/ R1Asks(g.arcs, g.lines, TRUE, a, b)
                       \/ R2Asks(g.arcs, a, b)
                       \/ R3Asks(g.arcs, g.lines, a, b)
                       \/ R4Asks(N, g.arcs, a, b)
    IN  {[arcs |-> g.arcs \cup {l}, lines |-> g.lines \ {l, <<l[2], l[1]>>}] : l \in
            {k \in g.lines :
                asked(k[1], k[2]) /\ MayOrient(N, g.arcs, g.lines, k[1], k[2])}}

(* The graphs that no rule orients further, after the rules have been       *)
(* applied in any order: the order of the sweeps is one of these.           *)
MeekOutcomes(v) ==
    LET reached[k \in 0 .. Cardinality(v.lines)] ==
            IF k = 0 THEN {[arcs |-> v.arcs, lines |-> v.lines]}
            ELSE reached[k - 1] \cup UNION {MeekOriented(v.n, g) : g \in reached[k - 1]}
    IN  {g \in reached[Cardinality(v.lines)] : MeekOriented(v.n, g) = {}}

(* Pdag::to_mpdag(): the result is an MPDAG without a check. *)
PdagToMpdag(v) ==
    {View("MPDAG", c) : c \in UNION
        {CoreFrom(v.core.registry, TRUE, v.n, g.arcs, {}, g.lines) : g \in MeekOutcomes(v)}}

(* GraphView::to_mpdag() *)
ToMpdag(v) ==
    CASE v.class = "MPDAG" -> {v}
      [] v.class = "CPDAG" -> {View("MPDAG", v.core)}
      [] v.class = "DAG"   -> {View("MPDAG", c.core) : c \in DagToCpdag(v)}
      [] v.class = "PDAG"  -> PdagToMpdag(v)
      [] OTHER             -> {}

(* What GraphView defines for DAGs only. *)
OnlyDags(v, results) == IF v.class = "DAG" THEN results ELSE {}

(* Dag::skeleton(), Pdag::skeleton(): the buckets of each node in one. *)
Skeletal(v) == UgView(v, NeighborPairs(v))

SkeletonOf(v) == IF v.class \in {"DAG"} \cup PdagFamily THEN Skeletal(v) ELSE {}

(* Dag::moralize() *)
Moral(v) == UgView(v, MoralAdj(v, Nodes(v)))

Moralize(v) == OnlyDags(v, Moral(v))

(* Slip: the graph is not cut down to the ancestors before parents marry. *)
MoralOfEverything(v, seeds) == OnlyDags(v, UgView(v, MoralAdj(v, Nodes(v))))

MoralOfAncestors(v, seeds) == OnlyDags(v, UgView(v, MoralAdj(v, AncestorsMask(v, seeds))))

--------------------------------------------------------------------------------
(* Latent projection *)

Pairs2(S) == {p \in S \X S : p[1] # p[2]}

(* Slip: the siblings of an eliminated node are dropped with it. *)
EliminateWithoutSiblings(g, x) ==
    LET off(R) == {p \in R : x \notin {p[1], p[2]}}
        pa == Parents(g.arcs, x)
        ch == Children(g.arcs, x)
    IN  [g EXCEPT !.arcs = off(@ \cup (pa \X ch)), !.spouses = off(@ \cup Pairs2(ch))]

(* One vertex elimination: what passed through x passes it by. *)
Eliminate(g, x) ==
    LET off(R) == {p \in R : x \notin {p[1], p[2]}}
        pa == Parents(g.arcs, x)
        ch == Children(g.arcs, x)
        sibling == Children(g.spouses, x) \X ch
    IN  [g EXCEPT !.arcs = off(@ \cup {a \in pa \X ch : a[1] # a[2]}),
                  !.spouses = off(@ \cup Pairs2(ch) \cup
                                  {p \in sibling \cup Converse(sibling) : p[1] # p[2]})]

(* The latents go in ascending order, whatever order they were given in.    *)
Project(g, L) == FoldLeft(Eliminate, [n |-> g.n, arcs |-> g.arcs, spouses |-> {}, lines |-> {}], SortedSeq(L))

(* Slip: the result always counts as simple. *)
NeverParallel(g) == TRUE

(* No arc and bidirected edge on one pair. *)
WithoutParallels(g) == (g.arcs \cup Converse(g.arcs)) \cap g.spouses = {}

LatentProject(v, L) ==
    IF ~ L \subseteq Nodes(v) THEN {} ELSE
    LET keep == SortedSeq(Nodes(v) \ L)
        left == Project(v, L)
    IN  Wrapped("ADMG",
            IF keep = <<>> THEN {Compile(0, TRUE, v.core.registry, NoEdges)}
            ELSE CoreFrom(v.core.registry, WithoutParallels(left), Len(keep),
                          Renumbered(keep, left.arcs), Renumbered(keep, left.spouses), {}))

--------------------------------------------------------------------------------
(* Exogenizing and normalizing latents *)

(* Slip: the new arcs leave from u's parents, and u keeps its own. *)
ExogenizeKeeping(A, u) == A \cup (Parents(A, u) \X Children(A, u))

(* The parents of u become parents of its children instead. *)
ExogenizeOne(A, u) ==
    (A \cup {a \in Parents(A, u) \X Children(A, u) : a[1] # a[2]}) \ (Parents(A, u) \X {u})

ExogenizeAll(A, order) == FoldLeft(ExogenizeOne, A, order)

Exogenize(v, order) ==
    IF ~ ToSet(order) \subseteq Nodes(v) THEN {} ELSE
    Wrapped("DAG", CoreFrom(v.core.registry, TRUE, v.n, ExogenizeAll(v.arcs, order), {}, {}))

Without(A, S) == {a \in A : a[1] \notin S /\ a[2] \notin S}

(* The places i < j of latents one of which has strictly fewer children     *)
(* than the other, all of them the other's; the first such pair counts.     *)
SubsetPairs(A, latents) ==
    {p \in (DOMAIN latents) \X (DOMAIN latents) :
        LET c == Children(A, latents[p[1]])
            d == Children(A, latents[p[2]])
        IN  p[1] < p[2] /\ c # d /\ (c \subseteq d \/ d \subseteq c)}

First(places) ==
    CHOOSE p \in places : \A q \in places : p[1] < q[1] \/ (p[1] = q[1] /\ p[2] <= q[2])

Redundant(A, latents) ==
    LET p == First(SubsetPairs(A, latents))
        c == latents[p[1]]
        d == latents[p[2]]
    IN  IF Children(A, c) \subseteq Children(A, d) THEN c ELSE d

(* One turn of the loop on the arcs left and the latents left: those with   *)
(* at most one child go, or else one redundant one.                         *)
NormalizeTurn(s) ==
    LET few == {u \in ToSet(s.latents) : Cardinality(Children(s.arcs, u)) <= 1}
        drop(S) == [arcs |-> Without(s.arcs, S),
                    latents |-> SelectSeq(s.latents, LAMBDA u : u \notin S)]
    IN  IF few # {} THEN drop(few)
        ELSE IF SubsetPairs(s.arcs, s.latents) # {} THEN drop({Redundant(s.arcs, s.latents)})
        ELSE s

(* Every turn but the last drops a latent. *)
Normalized(A, latents) ==
    LET turns[k \in 0 .. Len(latents)] ==
            IF k = 0 THEN [arcs |-> ExogenizeAll(A, latents), latents |-> latents]
            ELSE NormalizeTurn(turns[k - 1])
    IN  turns[Len(latents)]

(* The indices of the nodes that stay. *)
NormalizedKeep(v, latents) ==
    SortedSeq(Nodes(v) \ (ToSet(latents) \ ToSet(Normalized(v.arcs, latents).latents)))

Normalize(v, latents) ==
    IF ~ ToSet(latents) \subseteq Nodes(v) THEN {} ELSE
    LET keep == NormalizedKeep(v, latents)
    IN  Wrapped("DAG",
            CoreFrom(v.core.registry, TRUE, Len(keep),
                     Renumbered(keep, Normalized(v.arcs, latents).arcs), {}, {}))

--------------------------------------------------------------------------------
(* Subgraphs *)

(* An induced subgraph of a CPDAG or MPDAG may have lost what made it one.  *)
Downgraded(class, core) ==
    LET ladder == CASE class = "CPDAG" -> <<"CPDAG", "MPDAG", "PDAG">>
                    [] class = "MPDAG" -> <<"MPDAG", "PDAG">>
                    [] OTHER           -> <<class>>
        fits == {i \in DOMAIN ladder : InClass(core, ladder[i])}
    IN  {ladder[i] : i \in {j \in fits : \A k \in fits : j <= k}}

(* GraphView::induced_subgraph() *)
InducedView(v, keep) ==
    IF ~ KeepIsOk(keep, v.n) THEN {}
    ELSE LET core == InducedCore(keep, v.core) IN
         {View(c, core) : c \in Downgraded(v.class, core)}

AncestralReduction(v, seeds) ==
    IF v.class \in {"UG", "UNKNOWN"} THEN {}
    ELSE InducedView(v, SortedSeq(AncestorsMask(v, seeds)))

--------------------------------------------------------------------------------
(* session_from_view(): edges without direction from the smaller end, a     *)
(* loop among them lost; names are handed over beside the view.             *)
BufferFrom(core) ==
    LET upward(e) == IF e[1] < e[2] THEN e ELSE <<e[2], e[1], e[3]>>
        symmetric == {e \in EdgeSet(core) : SpecOf(core, e).symmetric}
    IN  [e \in (EdgeSet(core) \ symmetric) \cup {upward(e) : e \in {d \in symmetric : d[1] # d[2]}} |-> 1]

(* The session opens its view when it is first asked something: {view}, or  *)
(* {} if the constructor refuses.                                          *)
SessionOf(class, names, core) ==
    [class |-> class, names |-> names, core |-> core, view |-> Wrapped(class, {core})]

SessionFromView(v, names) ==
    SessionOf(v.class, names,
              Compile(v.core.n, v.core.simple, v.core.registry, BufferFrom(v.core)))
================================================================================
