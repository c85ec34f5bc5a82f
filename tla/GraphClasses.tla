----------------------------- MODULE GraphClasses -----------------------------
(***************************************************************************)
(* The graph classes of src/rust/src/graph: what a compiled core           *)
(* (CaugiGraph) is, and which cores each typed view (Dag, Ug, Pdag, Mpdag, *)
(* Cpdag, Admg, Ag) accepts.                                               *)
(*                                                                         *)
(* A core is a record                                                      *)
(*   n        : number of nodes, the nodes being 0 .. n-1                  *)
(*   simple   : whether parallel edges and self-loops are ruled out        *)
(*   registry : function from edge codes to edge specs (RegistrySnapshot)  *)
(*   links    : bag of edges <<u, v, code>>, u at the tail position and v  *)
(*              at the head position                                       *)
(*   place    : the order of the rows.                                     *)
(* The CSR arrays hold each edge as two half-edges, in the rows of its     *)
(* ends.  Every row lists its neighbours v by ascending place[v], parallel *)
(* edges by code and side: a compiled core numbers the places as the       *)
(* nodes, a subgraph cut from a core keeps the order it had there.  The    *)
(* typed views sort what they pack; distances and the topological sort     *)
(* read the rows as they are.                                              *)
(***************************************************************************)
EXTENDS Integers, Sequences, FiniteSets, SequencesExt

Mark == {"tail", "arrow", "circle", "other"}

EdgeClass ==
    {"directed", "undirected", "bidirected",
     "partial", "partially directed", "partially undirected"}

EdgeSpec ==
    [glyph : STRING, tail : Mark, head : Mark, symmetric : BOOLEAN, class : EdgeClass]

(* The spec and the four built-in glyphs the models use.                   *)
DirectedSpec ==
    [glyph |-> "-->", tail |-> "tail", head |-> "arrow", symmetric |-> FALSE, class |-> "directed"]

UndirectedSpec ==
    [glyph |-> "---", tail |-> "tail", head |-> "tail", symmetric |-> TRUE, class |-> "undirected"]

BidirectedSpec ==
    [glyph |-> "<->", tail |-> "arrow", head |-> "arrow", symmetric |-> TRUE, class |-> "bidirected"]

PartialSpec ==
    [glyph |-> "o-o", tail |-> "circle", head |-> "circle", symmetric |-> TRUE, class |-> "partial"]

--------------------------------------------------------------------------------
(* Reading a core. *)

Nodes(g) == 0 .. (g.n - 1)

EdgeSet(g) == DOMAIN g.links

SpecOf(g, e) == g.registry[e[3]]

OnlyClasses(g, classes) == \A e \in EdgeSet(g) : SpecOf(g, e).class \in classes

(* <<p, c>>: a directed edge has its arrow at c, so p is a parent of c.    *)
Arcs(g) ==
    {a \in Nodes(g) \X Nodes(g) :
        \E e \in EdgeSet(g) :
            /\ SpecOf(g, e).class = "directed"
            /\ \/ SpecOf(g, e).head = "arrow" /\ a = <<e[1], e[2]>>
               \/ SpecOf(g, e).tail = "arrow" /\ a = <<e[2], e[1]>>}

(* Both orientations of every edge of a class without direction. *)
Pairs(g, class) ==
    {a \in Nodes(g) \X Nodes(g) :
        \E e \in EdgeSet(g) :
            SpecOf(g, e).class = class /\ {a[1], a[2]} = {e[1], e[2]}}

Lines(g) == Pairs(g, "undirected")

Spouses(g) == Pairs(g, "bidirected")

--------------------------------------------------------------------------------
(* Relations on nodes, as sets of pairs.                                   *)

(* A finite relation has no cycle iff every non-empty set of nodes has a   *)
(* member without a predecessor in the set.                                *)
Acyclic(V, A) ==
    \A S \in (SUBSET V) \ {{}} : \E x \in S : \A y \in S : <<y, x>> \notin A

(* v is reachable from u in zero or more steps of R. *)
Reaches(V, R, u, v) ==
    \A S \in SUBSET V :
        (u \in S /\ \A x \in S, y \in V : <<x, y>> \in R => y \in S) => v \in S

Parents(A, v) == {a[1] : a \in {b \in A : b[2] = v}}

Children(A, v) == {a[2] : a \in {b \in A : b[1] = v}}

Adjacent(A, U, u, v) == <<u, v>> \in A \/ <<v, u>> \in A \/ <<u, v>> \in U

--------------------------------------------------------------------------------
(* Typed views without orientation rules. *)

IsDag(g) == Acyclic(Nodes(g), Arcs(g)) /\ OnlyClasses(g, {"directed"})

IsUg(g) == OnlyClasses(g, {"undirected"})

IsPdag(g) == Acyclic(Nodes(g), Arcs(g)) /\ OnlyClasses(g, {"directed", "undirected"})

IsAdmg(g) == Acyclic(Nodes(g), Arcs(g)) /\ OnlyClasses(g, {"directed", "bidirected"})

(* What Ag::try_new asks of arcs A, spouses B and lines U: no arrowhead     *)
(* where an undirected edge ends, and none at an anterior of the other end  *)
(* of its edge (a path of undirected and forward directed edges).           *)
Ancestral(V, A, B, U) ==
    LET AnteriorOf(u, v) == Reaches(V, A \cup U, u, v) IN
    /\ Acyclic(V, A)
    /\ \A v \in V : Children(U, v) # {} => Parents(A \cup B, v) = {}
    /\ \A a \in A : ~ AnteriorOf(a[2], a[1])
    /\ \A b \in B : b[1] # b[2] => ~ AnteriorOf(b[1], b[2])

IsAg(g) ==
    /\ OnlyClasses(g, {"directed", "undirected", "bidirected"})
    /\ Ancestral(Nodes(g), Arcs(g), Spouses(g), Lines(g))

--------------------------------------------------------------------------------
(* Meek's rules R1..R4 on directed edges A and undirected edges U over the *)
(* nodes V: meeks_rules_blocked() is TRUE when none of them applies.       *)

DirPath(V, A, u, v) == Reaches(V, A, u, v)

(* R1 with the safeguards of the closure: no cycle, no new collider at w.  *)
R1Blocked(V, A, U) ==
    \A v \in V : \A u \in Parents(A, v), w \in Children(U, v) :
        \/ Adjacent(A, U, u, w)
        \/ DirPath(V, A, w, v)
        \/ \E p \in Parents(A, w) : p # v /\ ~ Adjacent(A, U, v, p)

R2Blocked(V, A, U) ==
    \A a \in U : Children(A, a[1]) \cap Parents(A, a[2]) = {}

R3Blocked(V, A, U) ==
    \A a \in U : \A w, x \in Parents(A, a[2]) :
        (w # x /\ {<<a[1], w>>, <<a[1], x>>} \subseteq U) => Adjacent(A, U, w, x)

R4Blocked(V, A, U) ==
    \A a \in U : ~ DirPath(V, A, a[1], a[2]) /\ ~ DirPath(V, A, a[2], a[1])

MeekClosed(V, A, U) ==
    R1Blocked(V, A, U) /\ R2Blocked(V, A, U) /\ R3Blocked(V, A, U) /\ R4Blocked(V, A, U)

IsMpdag(g) == IsPdag(g) /\ MeekClosed(Nodes(g), Arcs(g), Lines(g))

--------------------------------------------------------------------------------
(* Maximum cardinality search over one undirected component C, and the     *)
(* clique test that reads its order: components_are_chordal().             *)

Label(U, numbered, v) == Cardinality({w \in numbered : <<v, w>> \in U})

(* Slip: the labels are not looked at. *)
McsPickById(C, U, numbered) ==
    CHOOSE v \in C \ numbered : \A w \in C \ numbered : v <= w

(* The unnumbered node of largest label, the smallest id among equals. *)
McsPick(C, U, numbered) ==
    CHOOSE v \in C \ numbered :
        \A w \in C \ numbered :
            \/ Label(U, numbered, w) < Label(U, numbered, v)
            \/ Label(U, numbered, w) = Label(U, numbered, v) /\ v <= w

McsOrder(C, U) ==
    LET order[i \in 0 .. Cardinality(C)] ==
            IF i = 0 THEN <<>>
            ELSE Append(order[i - 1], McsPick(C, U, ToSet(order[i - 1])))
    IN  order[Cardinality(C)]

(* Neighbours of order[i] numbered before it, and the pivot among them:    *)
(* the code sorts by elimination position and takes the last, which is the *)
(* neighbour numbered first.                                               *)
EarlierNeighbours(U, order, i) ==
    {j \in 1 .. (i - 1) : <<order[i], order[j]>> \in U}

Pivot(earlier) == CHOOSE j \in earlier : \A k \in earlier : j <= k

CliqueTest(U, order) ==
    \A i \in 1 .. Len(order) :
        LET earlier == EarlierNeighbours(U, order, i) IN
        \A j \in earlier : j # Pivot(earlier) => <<order[j], order[Pivot(earlier)]>> \in U

ComponentOf(V, U, v) == {w \in V : Reaches(V, U, v, w)}

ChainComponents(V, U) == {ComponentOf(V, U, v) : v \in V}

ComponentsAreChordal(V, U) ==
    \A C \in ChainComponents(V, U) :
        Cardinality(C) <= 2 \/ CliqueTest(U, McsOrder(C, U))

--------------------------------------------------------------------------------
(* The other parts of Pdag::is_cpdag(). *)

HasIntraComponentArrows(V, A, U) ==
    \E C \in ChainComponents(V, U) : \E a \in A : a[1] \in C /\ a[2] \in C

ComponentDagIsAcyclic(V, A, U) ==
    LET comps == ChainComponents(V, U) IN
    Acyclic(comps, {p \in comps \X comps :
                        p[1] # p[2] /\ \E a \in A : a[1] \in p[1] /\ a[2] \in p[2]})

(* Slip: a is not left out when another parent of b is looked for. *)
ProtectedByItself(A, U, a, b) ==
    \/ \E c \in Parents(A, b) : ~ Adjacent(A, U, c, a)
    \/ \E c \in Parents(A, a) : ~ Adjacent(A, U, c, b)

(* Slip: the fourth configuration is forgotten. *)
ProtectedThreeWays(A, U, a, b) ==
    \/ \E c \in Parents(A, b) : c # a /\ ~ Adjacent(A, U, c, a)
    \/ \E c \in Parents(A, a) : ~ Adjacent(A, U, c, b)
    \/ Children(A, a) \cap Parents(A, b) # {}

StronglyProtected(A, U, a, b) ==
    \/ \E c \in Parents(A, b) : c # a /\ ~ Adjacent(A, U, c, a)
    \/ \E c \in Parents(A, a) : ~ Adjacent(A, U, c, b)
    \/ Children(A, a) \cap Parents(A, b) # {}
    \/ \E c, d \in Parents(A, b) :
        c # d /\ ~ Adjacent(A, U, c, d) /\ {<<a, c>>, <<a, d>>} \subseteq U

CpdagRules(V, A, U) ==
    \/ Cardinality(V) <= 1
    \/ /\ ~ HasIntraComponentArrows(V, A, U)
       /\ ComponentDagIsAcyclic(V, A, U)
       /\ ComponentsAreChordal(V, U)
       /\ MeekClosed(V, A, U)
       /\ \A a \in A : StronglyProtected(A, U, a[1], a[2])

IsCpdag(g) == IsPdag(g) /\ CpdagRules(Nodes(g), Arcs(g), Lines(g))

--------------------------------------------------------------------------------
(* Which view a class name asks for, and the class Auto resolves to. *)

GraphClass ==
    {"DAG", "PDAG", "MPDAG", "CPDAG", "UG", "ADMG", "AG", "UNKNOWN", "AUTO"}

(* build_view(): the classes whose constructor accepts g. *)
InClass(g, class) ==
    CASE class = "DAG"   -> IsDag(g)
      [] class = "PDAG"  -> IsPdag(g)
      [] class = "MPDAG" -> IsMpdag(g)
      [] class = "CPDAG" -> IsCpdag(g)
      [] class = "UG"    -> IsUg(g)
      [] class = "ADMG"  -> IsAdmg(g)
      [] class = "AG"    -> IsAg(g)
      [] OTHER           -> TRUE

(* resolve_class(Auto) tries the classes in this order. *)
AutoOrder == <<"DAG", "UG", "MPDAG", "PDAG", "ADMG", "AG", "UNKNOWN">>

AutoClass(g) ==
    LET fits == {i \in DOMAIN AutoOrder : InClass(g, AutoOrder[i])} IN
    AutoOrder[CHOOSE i \in fits : \A j \in fits : i <= j]

ResolveClass(class, g) ==
    IF class = "AUTO" THEN {AutoClass(g)}
    ELSE IF InClass(g, class) THEN {class} ELSE {}
================================================================================
