--------------------------- MODULE GraphBuilder_proofs ---------------------------
(***************************************************************************)
(* For every number of nodes, registry and sequence of calls: the two hash *)
(* sets of a GraphBuilder decide exactly what ValidEdges says of the edges *)
(* as a whole, and the first finalize gives the CSR of the edges it took.  *)
(***************************************************************************)
EXTENDS GraphBuilder, SharedFacts_proofs

(* Every offer the bag counts, and the rows there are until a finalize.    *)
TypeOK ==
    /\ n \in 0 .. MaxN /\ simple \in BOOLEAN
    /\ DOMAIN offered \in SUBSET Offers
    /\ offered \in [DOMAIN offered -> Nat \ {0}]
    /\ accepted \in SUBSET DOMAIN offered
    /\ core # {} => rows = <<>>
    /\ rows = <<>> \/ DOMAIN rows = 1 .. n

(* What the two sets hold as long as there are rows. *)
SeenAreKeys ==
    Fresh =>
        /\ seen = {Key(e) : e \in accepted}
        /\ simple => pair_seen = {Pair(e) : e \in accepted}

(* An edge that was never taken is wrong or clashes with one that was.     *)
RefusedForCause ==
    Fresh =>
        \A e \in DOMAIN offered \ accepted :
            \/ ~ ValidEdge(n, simple, Specs, e)
            \/ \E f \in accepted : SameKey(simple, Specs, e, f)

BInv == TypeOK /\ AcceptedIsValid /\ SeenAreKeys /\ RefusedForCause

--------------------------------------------------------------------------------
(* The hash keys say what SameKey says. *)

LEMMA OfferFacts ==
    ASSUME NEW e \in Offers
    PROVE  /\ e[1] \in Nat /\ e[2] \in Nat /\ e[3] \in Nat
           /\ e = <<e[1], e[2], e[3]>>
  BY BuilderAssumption DEF Offers

LEMMA PairIsUnordered ==
    ASSUME NEW e \in Offers, NEW f \in Offers
    PROVE  Pair(e) = Pair(f) <=> SamePair(e, f)
<1>1. /\ e[1] \in Int /\ e[2] \in Int /\ f[1] \in Int /\ f[2] \in Int
  BY OfferFacts
<1>2. SamePair(e, f) <=> (e[1] = f[1] /\ e[2] = f[2]) \/ (e[1] = f[2] /\ e[2] = f[1])
  BY DEF SamePair
<1> QED
  BY <1>1, <1>2 DEF Pair

LEMMA KeysOfEdges ==
    ASSUME NEW e \in Offers, NEW f \in Offers
    PROVE  Key(e) = Key(f) <=>
             \/ e = f
             \/ e[3] = f[3] /\ Specs[e[3]].symmetric /\ SamePair(e, f)
<1>1. e = <<e[1], e[2], e[3]>> /\ f = <<f[1], f[2], f[3]>>
  BY OfferFacts
<1>2. CASE Specs[e[3]].symmetric /\ Specs[f[3]].symmetric
  BY <1>2, PairIsUnordered DEF Key, SamePair
<1>3. CASE Specs[e[3]].symmetric /\ ~ Specs[f[3]].symmetric
  BY <1>3 DEF Key
<1>4. CASE ~ Specs[e[3]].symmetric /\ Specs[f[3]].symmetric
  BY <1>4 DEF Key
<1>5. CASE ~ Specs[e[3]].symmetric /\ ~ Specs[f[3]].symmetric
  BY <1>1, <1>5 DEF Key
<1> QED
  BY <1>2, <1>3, <1>4, <1>5

LEMMA ClashIsKeyOrPair ==
    ASSUME NEW e \in Offers, NEW f \in Offers
    PROVE  SameKey(simple, Specs, e, f) <=> Key(e) = Key(f) \/ (simple /\ Pair(e) = Pair(f))
  BY KeysOfEdges, PairIsUnordered DEF SameKey

LEMMA SameKeySymmetric ==
    ASSUME NEW e, NEW f
    PROVE  SameKey(simple, Specs, e, f) <=> SameKey(simple, Specs, f, e)
<1>1. SamePair(e, f) <=> SamePair(f, e)
  BY DEF SamePair
<1> QED
  BY <1>1 DEF SameKey

LEMMA ValidAccepted ==
    AcceptedIsValid <=>
        /\ \A e \in accepted : ValidEdge(n, simple, Specs, e)
        /\ \A e, f \in accepted : e # f => ~ SameKey(simple, Specs, e, f)
  BY DEF AcceptedIsValid, ValidEdges

--------------------------------------------------------------------------------
LEMMA BuilderInit == Init => BInv
<1> SUFFICES ASSUME Init PROVE BInv
  OBVIOUS
<1>1. /\ n \in 0 .. MaxN /\ simple \in BOOLEAN /\ rows = [i \in 1 .. n |-> <<>>]
      /\ seen = {} /\ pair_seen = {} /\ core = {} /\ accepted = {} /\ DOMAIN offered = {}
      /\ offered = [e \in {} |-> 0]
  BY DEF Init, NoEdges
<1>2. TypeOK
  BY <1>1 DEF TypeOK
<1>3. AcceptedIsValid
  BY <1>1, ValidAccepted
<1>4. SeenAreKeys /\ RefusedForCause
  BY <1>1 DEF SeenAreKeys, RefusedForCause
<1> QED
  BY <1>2, <1>3, <1>4 DEF BInv

LEMMA OfferStep ==
    ASSUME TypeOK, NEW e \in Offers, Offer(e)
    PROVE  /\ DOMAIN offered' = DOMAIN offered \cup {e}
           /\ DOMAIN offered' \in SUBSET Offers
           /\ offered' \in [DOMAIN offered' -> Nat \ {0}]
<1> DEFINE count(f) ==
        (IF f \in DOMAIN offered THEN offered[f] ELSE 0) + (IF f = e THEN 1 ELSE 0)
<1>1. offered' = [f \in DOMAIN offered \cup {e} |-> count(f)]
  BY DEF Offer
<1>2. \A f \in DOMAIN offered \cup {e} : count(f) \in Nat \ {0}
  BY DEF TypeOK
<1> QED
  BY <1>1, <1>2 DEF TypeOK

LEMMA PushKeepsRows ==
    ASSUME NEW rs, NEW e
    PROVE  DOMAIN PushEdge(rs, e) = DOMAIN rs
  BY DEF PushEdge, PushHalf

(* The rows are gone for good after the first finalize. *)
LEMMA NoRowsNotFresh ==
    ASSUME TypeOK, NEW e \in Offers, Passes(e), Len(rows) = n
    PROVE  DOMAIN rows = 1 .. n /\ core = {}
<1>1. n # 0 /\ n \in Nat
  BY OfferFacts DEF Passes, TypeOK
<1>2. rows # <<>>
  BY <1>1
<1> QED
  BY <1>2 DEF TypeOK

LEMMA BuilderRefuse ==
    ASSUME BInv, NEW e \in Offers, RefuseEdge(e)
    PROVE  BInv'
<1>1. /\ Offer(e) /\ UNCHANGED <<n, simple, rows, seen, core, accepted>>
      /\ pair_seen' = IF simple /\ Passes(e) THEN pair_seen \cup {Pair(e)} ELSE pair_seen
      /\ Passes(e) => Key(e) \in seen
  BY DEF RefuseEdge
<1>2. TypeOK'
  BY <1>1, OfferStep DEF BInv, TypeOK
<1>3. AcceptedIsValid'
  BY <1>1 DEF BInv, AcceptedIsValid
<1>4. \A f \in accepted : f \in Offers
  BY DEF BInv, TypeOK
<1>5. ASSUME Fresh PROVE ~ (simple /\ Passes(e))
  <2> SUFFICES ASSUME simple, Passes(e) PROVE FALSE
    OBVIOUS
  <2>1. PICK f \in accepted : Key(e) = Key(f)
    BY <1>1, <1>5 DEF BInv, SeenAreKeys
  <2>2. Pair(e) = Pair(f)
    BY <1>4, <2>1, KeysOfEdges, PairIsUnordered
  <2>3. Pair(e) \in pair_seen
    BY <1>5, <2>2 DEF BInv, SeenAreKeys
  <2> QED
    BY <2>3 DEF Passes
<1>6. Fresh' <=> Fresh
  BY <1>1 DEF Fresh
<1>7. SeenAreKeys'
  <2>1. Fresh => pair_seen' = pair_seen
    BY <1>1, <1>5
  <2>2. \A f : Key(f)' = Key(f) /\ Pair(f)' = Pair(f)
    BY DEF Key, Pair
  <2> QED
    BY <1>1, <1>6, <2>1, <2>2 DEF BInv, SeenAreKeys
<1>8. RefusedForCause'
  <2> SUFFICES ASSUME Fresh, e \notin accepted
               PROVE  \/ ~ ValidEdge(n, simple, Specs, e)
                      \/ \E f \in accepted : SameKey(simple, Specs, e, f)
    <3>1. DOMAIN offered' = DOMAIN offered \cup {e}
      BY <1>1, OfferStep DEF BInv
    <3>2. Fresh => \A f \in DOMAIN offered \ accepted :
                       \/ ~ ValidEdge(n, simple, Specs, f)
                       \/ \E h \in accepted : SameKey(simple, Specs, f, h)
      BY DEF BInv, RefusedForCause
    <3>3. n' = n /\ simple' = simple /\ accepted' = accepted
      BY <1>1
    <3> QED
      BY <1>6, <3>1, <3>2, <3>3 DEF RefusedForCause
  <2>1. CASE Passes(e)
    <3>1. PICK f \in accepted : Key(e) = Key(f)
      BY <1>1, <2>1 DEF BInv, SeenAreKeys
    <3> QED
      BY <1>4, <3>1, ClashIsKeyOrPair
  <2>2. CASE ~ Passes(e) /\ ValidEdge(n, simple, Specs, e)
    <3>1. simple /\ Pair(e) \in pair_seen
      BY <2>2 DEF Passes, ValidEdge
    <3>2. PICK f \in accepted : Pair(e) = Pair(f)
      BY <3>1 DEF BInv, SeenAreKeys
    <3> QED
      BY <1>4, <3>1, <3>2, ClashIsKeyOrPair
  <2> QED
    BY <2>1, <2>2
<1> QED
  BY <1>2, <1>3, <1>7, <1>8 DEF BInv

LEMMA BuilderAdd ==
    ASSUME BInv, NEW e \in Offers, AddEdge(e)
    PROVE  BInv'
<1>1. /\ Offer(e) /\ Passes(e) /\ Key(e) \notin seen /\ UNCHANGED <<n, simple, core>>
      /\ pair_seen' = IF simple THEN pair_seen \cup {Pair(e)} ELSE pair_seen
      /\ seen' = seen \cup {Key(e)}
  BY DEF AddEdge
<1>2. \A f : Key(f)' = Key(f) /\ Pair(f)' = Pair(f)
  BY DEF Key, Pair
<1>3. \A f \in accepted : f \in Offers
  BY DEF BInv, TypeOK
<1>4. CASE Len(rows) = n
  <2>1. rows' = PushEdge(rows, e) /\ accepted' = accepted \cup {e}
    BY <1>4 DEF AddEdge
  <2>2. DOMAIN rows = 1 .. n /\ core = {} /\ Fresh
    BY <1>1, <1>4, NoRowsNotFresh DEF BInv, Fresh
  <2>3. TypeOK'
    <3>1. DOMAIN rows' = 1 .. n'
      BY <1>1, <2>1, <2>2, PushKeepsRows
    <3> QED
      BY <1>1, <2>1, <2>2, <3>1, OfferStep DEF BInv, TypeOK
  <2>4. ValidEdge(n, simple, Specs, e)
    BY <1>1 DEF Passes, ValidEdge
  <2>5. ASSUME NEW f \in accepted PROVE ~ SameKey(simple, Specs, e, f)
    <3>1. Key(e) # Key(f)
      BY <1>1, <2>2 DEF BInv, SeenAreKeys
    <3>2. simple => Pair(e) # Pair(f)
      BY <1>1, <2>2 DEF BInv, SeenAreKeys, Passes
    <3> QED
      BY <1>3, <3>1, <3>2, ClashIsKeyOrPair
  <2>6. AcceptedIsValid'
    <3>1. \A g \in accepted' : ValidEdge(n, simple, Specs, g)
      BY <2>1, <2>4, ValidAccepted DEF BInv
    <3>2. \A g, h \in accepted' : g # h => ~ SameKey(simple, Specs, g, h)
      BY <2>1, <2>5, ValidAccepted, SameKeySymmetric DEF BInv
    <3> QED
      BY <1>1, <3>1, <3>2 DEF AcceptedIsValid, ValidEdges
  <2>7. SeenAreKeys'
    BY <1>1, <1>2, <2>1, <2>2 DEF BInv, SeenAreKeys
  <2>8. RefusedForCause'
    <3>1. \A f \in DOMAIN offered \ accepted :
             \/ ~ ValidEdge(n, simple, Specs, f)
             \/ \E g \in accepted : SameKey(simple, Specs, f, g)
      BY <2>2 DEF BInv, RefusedForCause
    <3>2. DOMAIN offered' \ accepted' \subseteq DOMAIN offered \ accepted
      BY <1>1, <2>1, OfferStep DEF BInv
    <3> QED
      BY <1>1, <2>1, <3>1, <3>2 DEF RefusedForCause
  <2> QED
    BY <2>3, <2>6, <2>7, <2>8 DEF BInv
<1>5. CASE Len(rows) # n
  <2>1. UNCHANGED <<rows, accepted>>
    BY <1>5 DEF AddEdge
  <2>2. ~ Fresh'
    BY <1>1, <1>5, <2>1 DEF Fresh
  <2>3. TypeOK'
    BY <1>1, <2>1, OfferStep DEF BInv, TypeOK
  <2>4. AcceptedIsValid'
    BY <1>1, <2>1 DEF BInv, AcceptedIsValid
  <2> QED
    BY <2>2, <2>3, <2>4 DEF BInv, SeenAreKeys, RefusedForCause
<1> QED
  BY <1>4, <1>5

LEMMA BuilderFinalize ==
    ASSUME BInv, Finalize
    PROVE  BInv'
<1>1. /\ rows' = <<>> /\ UNCHANGED <<n, simple, offered, accepted>>
      /\ core' = IF simple /\ \E i \in DOMAIN rows : ParallelInRow(rows[i])
                 THEN {} ELSE {Csr(rows)}
  BY DEF Finalize
<1>2. ~ Fresh'
  <2> SUFFICES ASSUME n = 0, core' = {} PROVE FALSE
    BY <1>1 DEF Fresh
  <2>1. DOMAIN rows = {}
    BY DEF BInv, TypeOK
  <2> QED
    BY <1>1, <2>1
<1>3. TypeOK'
  BY <1>1 DEF BInv, TypeOK
<1>4. AcceptedIsValid'
  BY <1>1 DEF BInv, AcceptedIsValid
<1> QED
  BY <1>2, <1>3, <1>4 DEF BInv, SeenAreKeys, RefusedForCause

LEMMA BuilderStep == BInv /\ [Next]_vars => BInv'
<1> SUFFICES ASSUME BInv, [Next]_vars PROVE BInv'
  OBVIOUS
<1>1. CASE \E e \in Offers : OfferedCount < MaxOffered /\ (AddEdge(e) \/ RefuseEdge(e))
  BY <1>1, BuilderAdd, BuilderRefuse
<1>2. CASE Finalize
  BY <1>2, BuilderFinalize
<1>3. CASE UNCHANGED vars
  BY <1>3 DEF vars, BInv, TypeOK, AcceptedIsValid, SeenAreKeys, RefusedForCause, Fresh, Key, Pair
<1> QED
  BY <1>1, <1>2, <1>3 DEF Next

(* Types, and what the hash sets and the refusals have to do with the edges *)
(* that were taken.                                                         *)
THEOREM BuilderInvariant == Spec => []BInv
<1>1. Init => BInv
  BY BuilderInit
<1>2. BInv /\ [Next]_vars => BInv'
  BY BuilderStep
<1> QED
  BY <1>1, <1>2, PTL DEF Spec

(* try_add_edge() takes only edges that are acceptable together, whatever   *)
(* it refused in between and whatever was finalized.                        *)
THEOREM BuilderTakesValidEdges == Spec => []AcceptedIsValid
<1>1. BInv => AcceptedIsValid
  BY DEF BInv
<1> QED
  BY <1>1, BuilderInvariant, PTL

(* Edge by edge, the hash sets refuse something exactly if the whole buffer *)
(* is not acceptable.                                                       *)
THEOREM BuilderDecidesValidity == Spec => []AcceptedAsDeclared
<1>1. BInv => AcceptedAsDeclared
  <2> SUFFICES ASSUME BInv, Fresh
               PROVE  (offered = [e \in accepted |-> 1]) <=> ValidEdges(n, simple, Specs, offered)
    BY DEF AcceptedAsDeclared
  <2>1. ASSUME offered = [e \in accepted |-> 1] PROVE ValidEdges(n, simple, Specs, offered)
    BY <2>1 DEF BInv, AcceptedIsValid
  <2>2. ASSUME ValidEdges(n, simple, Specs, offered) PROVE offered = [e \in accepted |-> 1]
    <3>1. \A e \in DOMAIN offered \ accepted : FALSE
      BY <2>2 DEF BInv, RefusedForCause, ValidEdges, TypeOK
    <3>2. DOMAIN offered = accepted
      BY <3>1 DEF BInv, TypeOK
    <3>3. \A e \in accepted : offered[e] = 1
      BY <2>2, <3>2 DEF ValidEdges
    <3> QED
      BY <3>2, <3>3 DEF BInv, TypeOK
  <2> QED
    BY <2>1, <2>2
<1> QED
  BY <1>1, BuilderInvariant, PTL

--------------------------------------------------------------------------------
(* What a finalize makes of the rows.  A row holds distinct half-edges, so  *)
(* that sorting it is listing a set in order: two rows with the same        *)
(* half-edges are the same row of a CSR.                                    *)
HalfEdge == [nbr : Nat, etype : Nat, side : {"tail", "head"}]

HalvesAt(u, E) ==
    {Halves(e)[1][2] : e \in {d \in E : d[1] = u}}
        \cup {Halves(e)[2][2] : e \in {d \in E : d[2] = u}}

RowOf(row, S) == row \in Seq(HalfEdge) /\ IsInjective(row) /\ ToSet(row) = S

RowsHold == Fresh => \A i \in 1 .. n : RowOf(rows[i], HalvesAt(i - 1, accepted))

HalfOrder(S) == {p \in S \X S : Before(p[1], p[2])}

LEMMA HalvesFacts ==
    ASSUME NEW e
    PROVE  /\ Halves(e)[1] = <<e[1], [nbr |-> e[2], etype |-> e[3], side |-> "tail"]>>
           /\ Halves(e)[2] = <<e[2], [nbr |-> e[1], etype |-> e[3], side |-> "head"]>>
  BY DEF Halves

LEMMA InHalvesAt ==
    ASSUME NEW u, NEW E, NEW x
    PROVE  x \in HalvesAt(u, E) <=>
             \E f \in E : \/ f[1] = u /\ x = Halves(f)[1][2]
                          \/ f[2] = u /\ x = Halves(f)[2][2]
<1>1. x \in {Halves(f)[1][2] : f \in {d \in E : d[1] = u}} <=>
          \E f \in E : f[1] = u /\ x = Halves(f)[1][2]
  OBVIOUS
<1>2. x \in {Halves(f)[2][2] : f \in {d \in E : d[2] = u}} <=>
          \E f \in E : f[2] = u /\ x = Halves(f)[2][2]
  OBVIOUS
<1>3. x \in HalvesAt(u, E) <=>
          \/ x \in {Halves(f)[1][2] : f \in {d \in E : d[1] = u}}
          \/ x \in {Halves(f)[2][2] : f \in {d \in E : d[2] = u}}
  BY DEF HalvesAt
<1>4. (\E f \in E : \/ f[1] = u /\ x = Halves(f)[1][2]
                    \/ f[2] = u /\ x = Halves(f)[2][2]) <=>
          \/ \E f \in E : f[1] = u /\ x = Halves(f)[1][2]
          \/ \E f \in E : f[2] = u /\ x = Halves(f)[2][2]
  <2> DEFINE tail(f) == Halves(f)[1][2]
             head(f) == Halves(f)[2][2]
  <2> HIDE DEF tail, head
  <2>1. (\E f \in E : (f[1] = u /\ x = tail(f)) \/ (f[2] = u /\ x = head(f))) <=>
          (\E f \in E : f[1] = u /\ x = tail(f)) \/ (\E f \in E : f[2] = u /\ x = head(f))
    OBVIOUS
  <2> QED
    BY <2>1 DEF tail, head
<1> QED
  BY <1>1, <1>2, <1>3, <1>4

LEMMA BeforeFacts ==
    ASSUME NEW g, NEW h
    PROVE  Before(g, h) <=>
             \/ Rank(g)[1] < Rank(h)[1]
             \/ Rank(g)[1] = Rank(h)[1] /\ Rank(g)[2] < Rank(h)[2]
             \/ /\ Rank(g)[1] = Rank(h)[1] /\ Rank(g)[2] = Rank(h)[2]
                /\ Rank(g)[3] < Rank(h)[3]
<1>1. 1 .. (1 - 1) = {} /\ 1 .. (2 - 1) = {1} /\ 1 .. (3 - 1) = {1, 2} /\ 1 .. 3 = {1, 2, 3}
  OBVIOUS
<1> QED
  BY <1>1 DEF Before

LEMMA RankOfHalf ==
    ASSUME NEW h \in HalfEdge
    PROVE  /\ Rank(h)[1] = h.nbr /\ Rank(h)[2] = h.etype
           /\ Rank(h)[3] = IF h.side = "tail" THEN 0 ELSE 1
           /\ h.nbr \in Int /\ h.etype \in Int
  BY DEF Rank, HalfEdge

LEMMA HalfEqual ==
    ASSUME NEW g \in HalfEdge, NEW h \in HalfEdge,
           Rank(g)[1] = Rank(h)[1], Rank(g)[2] = Rank(h)[2], Rank(g)[3] = Rank(h)[3]
    PROVE  g = h
<1>1. g.nbr = h.nbr /\ g.etype = h.etype /\ g.side = h.side
  BY RankOfHalf DEF HalfEdge
<1> QED
  BY <1>1 DEF HalfEdge

LEMMA HalfOrderIsStrict ==
    ASSUME NEW S, S \subseteq HalfEdge
    PROVE  StrictOrder(S, HalfOrder(S))
<1>1. \A h \in S : Rank(h)[1] \in Int /\ Rank(h)[2] \in Int /\ Rank(h)[3] \in Int
  BY RankOfHalf
<1>2. \A x \in S : <<x, x>> \notin HalfOrder(S)
  BY <1>1, BeforeFacts DEF HalfOrder
<1>3. \A x, y, z \in S : Before(x, y) /\ Before(y, z) => Before(x, z)
  BY <1>1, BeforeFacts
<1>4. \A x, y \in S : x # y => Before(x, y) \/ Before(y, x)
  BY <1>1, BeforeFacts, HalfEqual
<1> QED
  BY <1>2, <1>3, <1>4 DEF StrictOrder, HalfOrder

LEMMA SortedRow ==
    ASSUME NEW S, NEW row, RowOf(row, S)
    PROVE  /\ IsFiniteSet(S) /\ S \subseteq HalfEdge
           /\ SortRow(row) = InOrder(S, HalfOrder(S))
<1> DEFINE P == DOMAIN row
           R == {p \in P \X P : \/ Before(row[p[1]], row[p[2]])
                                \/ ~ Before(row[p[2]], row[p[1]]) /\ p[1] < p[2]}
           at == InOrder(P, R)
           B == HalfOrder(S)
<1>1. /\ row \in [1 .. Len(row) -> HalfEdge] /\ P = 1 .. Len(row) /\ Len(row) \in Nat
      /\ \A i, j \in P : row[i] = row[j] => i = j
      /\ S = {row[i] : i \in P}
  BY LenProperties DEF RowOf, IsInjective, ToSet
<1>2. S \subseteq HalfEdge
  BY <1>1
<1>3. IsFiniteSet(P) /\ Cardinality(P) = Len(row)
  <2>1. Len(row) \in Nat
    BY <1>1
  <2>2. IsFiniteSet(1 .. Len(row)) /\ Cardinality(1 .. Len(row)) = Len(row)
    <3> DEFINE len == Len(row)
    <3> HIDE DEF len
    <3>1. len \in Nat
      BY <2>1 DEF len
    <3>2. IsFiniteSet(1 .. len) /\ Cardinality(1 .. len) = len
      BY <3>1, FS_Interval
    <3> QED
      BY <3>2 DEF len
  <2> QED
    BY <1>1, <2>2
<1>4. row \in Bijection(P, S)
  BY <1>1 DEF Bijection, Injection, Surjection, IsInjective
<1>5. IsFiniteSet(S) /\ Cardinality(S) = Len(row)
  BY <1>3, <1>4, FS_Bijection DEF ExistsBijection
<1>6. StrictOrder(S, B)
  BY <1>2, HalfOrderIsStrict
<1>7. \A i, j \in P : <<i, j>> \in R <=> <<row[i], row[j]>> \in B
  <2> SUFFICES ASSUME NEW i \in P, NEW j \in P
               PROVE  <<i, j>> \in R <=> <<row[i], row[j]>> \in B
    OBVIOUS
  <2>1. <<i, j>> \in R <=> Before(row[i], row[j]) \/ (~ Before(row[j], row[i]) /\ i < j)
    OBVIOUS
  <2>2. <<row[i], row[j]>> \in B <=> Before(row[i], row[j])
    BY <1>1 DEF HalfOrder
  <2>3. CASE i = j
    BY <1>1, <2>1, <2>2, <2>3
  <2>4. CASE i # j
    <3>1. row[i] # row[j] /\ row[i] \in S /\ row[j] \in S
      BY <1>1, <2>4
    <3>2. <<row[i], row[j]>> \in B \/ <<row[j], row[i]>> \in B
      BY <1>6, <3>1 DEF StrictOrder
    <3>3. Before(row[i], row[j]) \/ Before(row[j], row[i])
      BY <3>2 DEF HalfOrder
    <3> QED
      BY <2>1, <2>2, <3>3
  <2> QED
    BY <2>3, <2>4
<1> HIDE DEF P, R, B
<1>8. StrictOrder(P, R)
  <2>1. \A i \in P : row[i] \in S
    BY <1>1
  <2>2. \A i \in P : <<i, i>> \notin R
    BY <1>6, <1>7, <2>1 DEF StrictOrder
  <2>3. \A i, j, k \in P : <<i, j>> \in R /\ <<j, k>> \in R => <<i, k>> \in R
    BY <1>6, <1>7, <2>1 DEF StrictOrder
  <2>4. \A i, j \in P : i # j => <<i, j>> \in R \/ <<j, i>> \in R
    <3> SUFFICES ASSUME NEW i \in P, NEW j \in P, i # j
                 PROVE  <<i, j>> \in R \/ <<j, i>> \in R
      OBVIOUS
    <3>1. row[i] # row[j]
      BY <1>1
    <3>2. <<row[i], row[j]>> \in B \/ <<row[j], row[i]>> \in B
      BY <1>6, <2>1, <3>1 DEF StrictOrder
    <3> QED
      BY <1>7, <3>2
  <2> QED
    BY <2>2, <2>3, <2>4 DEF StrictOrder
<1>9. ASSUME NEW k \in 1 .. Len(row) PROVE row[at[k]] = InOrder(S, B)[k]
  <2>1. at[k] \in P /\ Cardinality({i \in P : <<i, at[k]>> \in R}) = k - 1
    <3>1. at \in [1 .. Cardinality(P) -> P]
      BY <1>3, <1>8, InOrderFacts
    <3> QED
      BY <1>3, <1>8, <3>1, InOrderFacts
  <2> DEFINE below == {i \in P : <<i, at[k]>> \in R}
             less == {x \in S : <<x, row[at[k]]>> \in B}
             f == [i \in below |-> row[i]]
  <2>2. row[at[k]] \in S
    BY <1>1, <2>1
  <2>3. f \in Bijection(below, less)
    <3>1. f \in [below -> less]
      BY <1>1, <1>7, <2>1
    <3>2. \A x \in less : \E i \in below : f[i] = x
      BY <1>1, <1>7, <2>1
    <3>3. \A i, j \in below : f[i] = f[j] => i = j
      BY <1>1
    <3> QED
      BY <3>1, <3>2, <3>3 DEF Bijection, Injection, Surjection, IsInjective
  <2>4. IsFiniteSet(below)
    BY <1>3, FS_Subset
  <2>5. Cardinality(less) = Cardinality(below)
    BY <2>3, <2>4, FS_Bijection DEF ExistsBijection
  <2> QED
    BY <1>5, <1>6, <2>1, <2>2, <2>5, InOrderByRank
<1>10. DOMAIN at = 1 .. Len(row) /\ DOMAIN InOrder(S, B) = 1 .. Len(row)
  BY <1>3, <1>5 DEF InOrder
<1>11. SortRow(row) = [k \in DOMAIN at |-> row[at[k]]]
  BY DEF SortRow, P, R
<1>12. InOrder(S, B) = [k \in 1 .. Len(row) |-> InOrder(S, B)[k]]
  <2>1. InOrder(S, B) \in [1 .. Len(row) -> S]
    BY <1>5, <1>6, InOrderFacts
  <2> QED
    BY <2>1
<1>13. SortRow(row) = InOrder(S, B)
  BY <1>9, <1>10, <1>11, <1>12
<1> QED
  BY <1>2, <1>5, <1>13 DEF B

--------------------------------------------------------------------------------
(* Rows while edges are added. *)

LEMMA HalvesTyped ==
    ASSUME NEW e \in Offers
    PROVE  /\ Halves(e)[1][2] \in HalfEdge /\ Halves(e)[2][2] \in HalfEdge
           /\ Halves(e)[1] \in Nat \X HalfEdge /\ Halves(e)[2] \in Nat \X HalfEdge
<1>1. e[1] \in Nat /\ e[2] \in Nat /\ e[3] \in Nat
  BY OfferFacts
<1> QED
  BY <1>1 DEF Halves, HalfEdge

(* The two half-edges of an edge say which edge it is. *)
LEMMA HalvesTell ==
    ASSUME NEW e \in Offers, NEW f \in Offers
    PROVE  /\ Halves(e)[1] = Halves(f)[1] => e = f
           /\ Halves(e)[2] = Halves(f)[2] => e = f
           /\ Halves(e)[1][2] # Halves(f)[2][2]
<1>1. e = <<e[1], e[2], e[3]>> /\ f = <<f[1], f[2], f[3]>>
  BY OfferFacts
<1>2. Halves(e)[1] = Halves(f)[1] => e = f
  BY <1>1 DEF Halves
<1>3. Halves(e)[2] = Halves(f)[2] => e = f
  BY <1>1 DEF Halves
<1>4. Halves(e)[1][2].side = "tail" /\ Halves(f)[2][2].side = "head"
  BY DEF Halves
<1> QED
  BY <1>2, <1>3, <1>4

LEMMA PushedRow ==
    ASSUME NEW rs, NEW e \in Offers, DOMAIN rs = 1 .. n, NEW i \in 1 .. n, n \in Nat
    PROVE  LET tailed == IF e[1] = i - 1 THEN Append(rs[i], Halves(e)[1][2]) ELSE rs[i]
           IN  PushEdge(rs, e)[i] =
                   IF e[2] = i - 1 THEN Append(tailed, Halves(e)[2][2]) ELSE tailed
<1>1. Halves(e)[1][1] = e[1] /\ Halves(e)[2][1] = e[2] /\ e[1] \in Nat /\ e[2] \in Nat
  BY OfferFacts DEF Halves
<1>2. (Halves(e)[1][1] + 1 = i <=> e[1] = i - 1) /\ (Halves(e)[2][1] + 1 = i <=> e[2] = i - 1)
  BY <1>1
<1>3. PushHalf(rs, Halves(e)[1])[i] =
          IF e[1] = i - 1 THEN Append(rs[i], Halves(e)[1][2]) ELSE rs[i]
  BY <1>2 DEF PushHalf
<1>4. DOMAIN PushHalf(rs, Halves(e)[1]) = 1 .. n
  BY DEF PushHalf
<1>5. PushEdge(rs, e)[i] =
          IF e[2] = i - 1 THEN Append(PushHalf(rs, Halves(e)[1])[i], Halves(e)[2][2])
                          ELSE PushHalf(rs, Halves(e)[1])[i]
  BY <1>2, <1>4 DEF PushEdge, PushHalf
<1> QED
  BY <1>3, <1>5

LEMMA AppendRow ==
    ASSUME NEW S, NEW row, RowOf(row, S), NEW h \in HalfEdge, h \notin S
    PROVE  RowOf(Append(row, h), S \cup {h})
  BY AppendFacts DEF RowOf

LEMMA RowsAfterAdd ==
    ASSUME BInv, RowsHold, NEW e \in Offers, AddEdge(e), Len(rows) = n
    PROVE  RowsHold'
<1>1. /\ DOMAIN rows = 1 .. n /\ core = {} /\ Passes(e) /\ Key(e) \notin seen
      /\ rows' = PushEdge(rows, e) /\ accepted' = accepted \cup {e} /\ n' = n /\ n \in Nat
  BY NoRowsNotFresh DEF AddEdge, BInv, TypeOK
<1>2. Fresh
  BY <1>1 DEF Fresh
<1>3. e \notin accepted /\ \A f \in accepted : f \in Offers
  BY <1>1, <1>2 DEF BInv, SeenAreKeys, TypeOK
<1> SUFFICES ASSUME NEW i \in 1 .. n
             PROVE  RowOf(rows'[i], HalvesAt(i - 1, accepted \cup {e}))
  BY <1>1 DEF RowsHold, HalvesAt, Halves
<1> DEFINE S == HalvesAt(i - 1, accepted)
           t == Halves(e)[1][2]
           h == Halves(e)[2][2]
           tailed == IF e[1] = i - 1 THEN Append(rows[i], t) ELSE rows[i]
           T == IF e[1] = i - 1 THEN S \cup {t} ELSE S
<1>4. RowOf(rows[i], S)
  BY <1>2 DEF RowsHold
<1>5. t \in HalfEdge /\ h \in HalfEdge
  BY HalvesTyped
<1>6. e[1] = i - 1 => t \notin S
  <2> SUFFICES ASSUME e[1] = i - 1, t \in S PROVE FALSE
    OBVIOUS
  <2>1. PICK f \in accepted : \/ f[1] = i - 1 /\ t = Halves(f)[1][2]
                              \/ f[2] = i - 1 /\ t = Halves(f)[2][2]
    BY InHalvesAt
  <2>2. f[1] = i - 1 /\ t = Halves(f)[1][2]
    BY <1>3, <2>1, HalvesTell
  <2>3. Halves(e)[1] = Halves(f)[1]
    <3>1. Halves(e)[1] = <<e[1], t>> /\ Halves(f)[1] = <<f[1], Halves(f)[1][2]>>
      BY DEF Halves
    <3> QED
      BY <2>2, <3>1
  <2> QED
    BY <1>3, <2>3, HalvesTell
<1>7. e[2] = i - 1 => h \notin T
  <2> SUFFICES ASSUME e[2] = i - 1, h \in S PROVE FALSE
    BY HalvesTell
  <2>1. PICK f \in accepted : \/ f[1] = i - 1 /\ h = Halves(f)[1][2]
                              \/ f[2] = i - 1 /\ h = Halves(f)[2][2]
    BY InHalvesAt
  <2>2. f[2] = i - 1 /\ h = Halves(f)[2][2]
    BY <1>3, <2>1, HalvesTell
  <2>3. Halves(e)[2] = Halves(f)[2]
    <3>1. Halves(e)[2] = <<e[2], h>> /\ Halves(f)[2] = <<f[2], Halves(f)[2][2]>>
      BY DEF Halves
    <3> QED
      BY <2>2, <3>1
  <2> QED
    BY <1>3, <2>3, HalvesTell
<1> HIDE DEF S, t, h
<1>8. RowOf(tailed, T)
  BY <1>4, <1>5, <1>6, AppendRow
<1>9. RowOf(IF e[2] = i - 1 THEN Append(tailed, h) ELSE tailed,
            IF e[2] = i - 1 THEN T \cup {h} ELSE T)
  <2> HIDE DEF tailed, T
  <2> QED
    BY <1>5, <1>7, <1>8, AppendRow
<1>10. HalvesAt(i - 1, accepted \cup {e}) = IF e[2] = i - 1 THEN T \cup {h} ELSE T
  <2>1. HalvesAt(i - 1, accepted \cup {e}) = S \cup HalvesAt(i - 1, {e})
    BY DEF HalvesAt, S
  <2>2. HalvesAt(i - 1, {e}) =
            (IF e[1] = i - 1 THEN {t} ELSE {}) \cup (IF e[2] = i - 1 THEN {h} ELSE {})
    BY DEF HalvesAt, t, h
  <2> QED
    BY <2>1, <2>2
<1>11. rows'[i] = IF e[2] = i - 1 THEN Append(tailed, h) ELSE tailed
  BY <1>1, PushedRow DEF t, h
<1> QED
  BY <1>9, <1>10, <1>11

LEMMA RowsInit == Init => RowsHold
<1> SUFFICES ASSUME Init, NEW i \in 1 .. n PROVE RowOf(rows[i], HalvesAt(i - 1, accepted))
  BY DEF RowsHold
<1>1. rows[i] = <<>> /\ accepted = {}
  BY DEF Init
<1>2. HalvesAt(i - 1, {}) = {}
  BY DEF HalvesAt
<1> QED
  BY <1>1, <1>2 DEF RowOf, ToSet, IsInjective

LEMMA RowsStep == BInv /\ RowsHold /\ [Next]_vars => RowsHold'
<1> SUFFICES ASSUME BInv, RowsHold, [Next]_vars PROVE RowsHold'
  OBVIOUS
<1>0. ASSUME UNCHANGED <<n, rows, core, accepted>> PROVE RowsHold'
  BY <1>0 DEF RowsHold, Fresh, HalvesAt, Halves, RowOf
<1>1. CASE \E e \in Offers : RefuseEdge(e)
  BY <1>0, <1>1 DEF RefuseEdge
<1>2. ASSUME NEW e \in Offers, AddEdge(e) PROVE RowsHold'
  <2>1. CASE Len(rows) = n
    BY <1>2, <2>1, RowsAfterAdd
  <2>2. CASE Len(rows) # n
    BY <1>0, <1>2, <2>2 DEF AddEdge
  <2> QED
    BY <2>1, <2>2
<1>3. CASE Finalize
  <2>1. rows' = <<>> /\ n' = n
    BY <1>3 DEF Finalize
  <2>2. Fresh' => n = 0
    BY <2>1 DEF Fresh
  <2> QED
    BY <2>1, <2>2 DEF RowsHold
<1>4. CASE UNCHANGED vars
  BY <1>0, <1>4 DEF vars
<1> QED
  BY <1>1, <1>2, <1>3, <1>4 DEF Next

--------------------------------------------------------------------------------
(* The first finalize. *)

Sorted(S) == InOrder(S, HalfOrder(S))

(* The bulk build puts the same half-edges into the rows. *)
LEMMA TrustedRows ==
    ASSUME BuilderAssumption, n \in Nat, NEW E, E \subseteq Offers, IsFiniteSet(E),
           NEW i \in 1 .. n
    PROVE  TrustedCsr(SetToSeq(E))[i] = Sorted(HalvesAt(i - 1, E))
<1> DEFINE b == SetToSeq(E)
           halves == BufferHalves(b)
           size == Len(b)
           Placed == Nat \X HalfEdge
           I == {k \in DOMAIN halves : halves[k][1] = i - 1}
           at == Picked(halves, I)
           row == [k \in DOMAIN at |-> at[k][2]]
<1>1. /\ b \in [1 .. size -> E] /\ size \in Nat /\ DOMAIN b = 1 .. size
      /\ \A k, m \in 1 .. size : b[k] = b[m] => k = m
      /\ \A e \in E : \E k \in 1 .. size : b[k] = e
  BY SetToSeqFacts, LenProperties DEF IsInjective, ToSet
<1>2. DOMAIN halves = 1 .. 2 * size
  BY DEF BufferHalves
<1>3. ASSUME NEW k \in 1 .. size
      PROVE  /\ 2 * k - 1 \in 1 .. 2 * size /\ halves[2 * k - 1] = Halves(b[k])[1]
             /\ 2 * k \in 1 .. 2 * size /\ halves[2 * k] = Halves(b[k])[2]
  <2>1. /\ 2 * k - 1 \in 1 .. 2 * size /\ 2 * k \in 1 .. 2 * size
        /\ (2 * k - 1 + 1) \div 2 = k /\ (2 * k + 1) \div 2 = k
        /\ 2 - ((2 * k - 1) % 2) = 1 /\ 2 - ((2 * k) % 2) = 2
    BY <1>1
  <2> QED
    BY <2>1 DEF BufferHalves
<1>4. ASSUME NEW m \in 1 .. 2 * size
      PROVE  \E k \in 1 .. size : m = 2 * k - 1 \/ m = 2 * k
  <2>1. (m + 1) \div 2 \in 1 .. size /\ (m = 2 * ((m + 1) \div 2) - 1 \/ m = 2 * ((m + 1) \div 2))
    BY <1>1
  <2> QED
    BY <2>1
<1> HIDE DEF b, halves, size
<1>5. ASSUME NEW m \in 1 .. 2 * size PROVE halves[m] \in Placed
  <2>1. PICK k \in 1 .. size : m = 2 * k - 1 \/ m = 2 * k
    BY <1>4
  <2>2. b[k] \in Offers
    BY <1>1
  <2>3. Halves(b[k])[1] \in Placed /\ Halves(b[k])[2] \in Placed
    BY <2>2, HalvesTyped
  <2> QED
    BY <1>3, <2>1, <2>3
<1>6. halves \in Seq(Placed)
  <2>1. halves = [m \in 1 .. 2 * size |-> halves[m]]
    BY DEF halves, BufferHalves, size
  <2>2. halves \in [1 .. 2 * size -> Placed]
    BY <1>5, <2>1
  <2>3. 2 * size \in Nat
    BY <1>1
  <2> QED
    BY <2>2, <2>3
<1>7. \A m, p \in I : halves[m] = halves[p] => m = p
  <2> SUFFICES ASSUME NEW m \in 1 .. 2 * size, NEW p \in 1 .. 2 * size, halves[m] = halves[p]
               PROVE  m = p
    BY <1>2
  <2>1. PICK k \in 1 .. size : m = 2 * k - 1 \/ m = 2 * k
    BY <1>4
  <2>2. PICK j \in 1 .. size : p = 2 * j - 1 \/ p = 2 * j
    BY <1>4
  <2>3. b[k] \in Offers /\ b[j] \in Offers
    BY <1>1
  <2>4. CASE m = 2 * k - 1 /\ p = 2 * j - 1
    <3>1. Halves(b[k])[1] = Halves(b[j])[1]
      BY <1>3, <2>4, <2>2
    <3> QED
      BY <1>1, <2>3, <2>4, <3>1, HalvesTell
  <2>5. CASE m = 2 * k /\ p = 2 * j
    <3>1. Halves(b[k])[2] = Halves(b[j])[2]
      BY <1>3, <2>5, <2>2
    <3> QED
      BY <1>1, <2>3, <2>5, <3>1, HalvesTell
  <2>6. CASE m = 2 * k - 1 /\ p = 2 * j
    <3>1. Halves(b[k])[1] = Halves(b[j])[2]
      BY <1>3, <2>6, <2>2
    <3> QED
      BY <2>3, <3>1, HalvesTell
  <2>7. CASE m = 2 * k /\ p = 2 * j - 1
    <3>1. Halves(b[k])[2] = Halves(b[j])[1]
      BY <1>3, <2>7, <2>2
    <3> QED
      BY <2>3, <3>1, HalvesTell
  <2> QED
    BY <2>1, <2>2, <2>4, <2>5, <2>6, <2>7
<1>8. at \in Seq(Placed) /\ ToSet(at) = {halves[k] : k \in I} /\ IsInjective(at)
  <2>1. I \in SUBSET DOMAIN halves
    OBVIOUS
  <2> HIDE DEF I
  <2>2. Picked(halves, I) \in Seq(Placed) /\ ToSet(Picked(halves, I)) = {halves[k] : k \in I}
    BY <1>6, <2>1, PickedFacts
  <2>3. IsInjective(Picked(halves, I))
    BY <1>6, <1>7, <2>1, PickedFacts
  <2> QED
    BY <2>2, <2>3
<1> HIDE DEF at
<1>9. /\ at \in [1 .. Len(at) -> Placed] /\ DOMAIN at = 1 .. Len(at) /\ Len(at) \in Nat
      /\ \A k, m \in 1 .. Len(at) : at[k] = at[m] => k = m
      /\ \A k \in 1 .. Len(at) : \E m \in I : at[k] = halves[m]
      /\ \A m \in I : \E k \in 1 .. Len(at) : at[k] = halves[m]
  <2>1. at \in [1 .. Len(at) -> Placed] /\ DOMAIN at = 1 .. Len(at) /\ Len(at) \in Nat
    BY <1>8, LenProperties
  <2>2. \A k, m \in 1 .. Len(at) : at[k] = at[m] => k = m
    BY <1>8, <2>1 DEF IsInjective
  <2>3. \A k \in 1 .. Len(at) : \E m \in I : at[k] = halves[m]
    <3> SUFFICES ASSUME NEW k \in 1 .. Len(at) PROVE \E m \in I : at[k] = halves[m]
      OBVIOUS
    <3>1. at[k] \in ToSet(at)
      BY <2>1 DEF ToSet
    <3> QED
      BY <1>8, <3>1
  <2>4. \A m \in I : \E k \in 1 .. Len(at) : at[k] = halves[m]
    <3> SUFFICES ASSUME NEW m \in I PROVE \E k \in 1 .. Len(at) : at[k] = halves[m]
      OBVIOUS
    <3>1. halves[m] \in ToSet(at)
      BY <1>8
    <3> QED
      BY <2>1, <3>1 DEF ToSet
  <2> QED
    BY <2>1, <2>2, <2>3, <2>4
<1>10. \A k \in 1 .. Len(at) : at[k] = <<i - 1, at[k][2]>> /\ at[k][2] \in HalfEdge
  <2> SUFFICES ASSUME NEW k \in 1 .. Len(at)
               PROVE  at[k] = <<i - 1, at[k][2]>> /\ at[k][2] \in HalfEdge
    OBVIOUS
  <2>1. at[k] \in Placed /\ at[k][1] = i - 1
    BY <1>9
  <2> QED
    BY <2>1
<1>11. DOMAIN row = 1 .. Len(at) /\ \A k \in 1 .. Len(at) : row[k] = at[k][2]
  BY <1>9
<1>12. row \in Seq(HalfEdge)
  <2>1. row \in [1 .. Len(at) -> HalfEdge]
    BY <1>9, <1>10
  <2> QED
    BY <1>9, <2>1
<1> HIDE DEF row
<1>13. IsInjective(row)
  BY <1>9, <1>10, <1>11 DEF IsInjective
<1>14. ToSet(row) = HalvesAt(i - 1, E)
  <2>1. ASSUME NEW x \in ToSet(row) PROVE x \in HalvesAt(i - 1, E)
    <3>1. PICK k \in 1 .. Len(at) : x = at[k][2]
      BY <1>11 DEF ToSet
    <3>2. PICK m \in I : at[k] = halves[m]
      BY <1>9
    <3>3. PICK j \in 1 .. size : m = 2 * j - 1 \/ m = 2 * j
      BY <1>2, <1>4
    <3>4. b[j] \in E /\ halves[m][1] = i - 1 /\ x = halves[m][2]
      BY <1>1, <3>1, <3>2
    <3>5. halves[m] = Halves(b[j])[1] \/ halves[m] = Halves(b[j])[2]
      BY <1>3, <3>3
    <3>6. Halves(b[j])[1][1] = b[j][1] /\ Halves(b[j])[2][1] = b[j][2]
      BY DEF Halves
    <3>7. \/ b[j][1] = i - 1 /\ x = Halves(b[j])[1][2]
          \/ b[j][2] = i - 1 /\ x = Halves(b[j])[2][2]
      BY <3>4, <3>5, <3>6
    <3>8. \E f \in E : \/ f[1] = i - 1 /\ x = Halves(f)[1][2]
                       \/ f[2] = i - 1 /\ x = Halves(f)[2][2]
      BY <3>4, <3>7
    <3> QED
      BY <3>8, InHalvesAt
  <2>2. ASSUME NEW x \in HalvesAt(i - 1, E) PROVE x \in ToSet(row)
    <3>1. PICK e \in E : \/ e[1] = i - 1 /\ x = Halves(e)[1][2]
                         \/ e[2] = i - 1 /\ x = Halves(e)[2][2]
      BY <2>2, InHalvesAt
    <3>2. PICK j \in 1 .. size : b[j] = e
      BY <1>1
    <3>3. Halves(e)[1][1] = e[1] /\ Halves(e)[2][1] = e[2]
      BY DEF Halves
    <3>4. \E m \in I : halves[m][2] = x
      <4>1. /\ 2 * j - 1 \in DOMAIN halves /\ halves[2 * j - 1] = Halves(e)[1]
            /\ 2 * j \in DOMAIN halves /\ halves[2 * j] = Halves(e)[2]
        BY <1>2, <1>3, <3>2
      <4> QED
        BY <3>1, <3>3, <4>1
    <3>5. PICK k \in 1 .. Len(at) : at[k][2] = x
      BY <1>9, <3>4
    <3> QED
      BY <1>11, <3>5 DEF ToSet
  <2> QED
    BY <2>1, <2>2
<1>15. SortRow(row) = Sorted(HalvesAt(i - 1, E))
  BY <1>12, <1>13, <1>14, SortedRow DEF RowOf, Sorted
<1>16. TrustedCsr(b)[i] = SortRow(row)
  BY DEF TrustedCsr, Csr, row, at, halves
<1> QED
  BY <1>15, <1>16 DEF b

LEMMA FirstRows ==
    ASSUME BInv, RowsHold, Fresh, NEW i \in 1 .. n
    PROVE  /\ RowOf(rows[i], HalvesAt(i - 1, accepted))
           /\ SortRow(rows[i]) = Sorted(HalvesAt(i - 1, accepted))
           /\ IsFiniteSet(HalvesAt(i - 1, accepted)) /\ HalvesAt(i - 1, accepted) \subseteq HalfEdge
  BY SortedRow DEF RowsHold, Sorted

LEMMA FreshRows == ASSUME BInv, Fresh PROVE DOMAIN rows = 1 .. n /\ n \in Nat
<1>1. n \in Nat
  BY BuilderAssumption DEF BInv, TypeOK
<1>2. CASE rows = <<>>
  <2>1. n = 0
    BY <1>2 DEF Fresh
  <2> QED
    BY <1>2, <2>1
<1>3. CASE rows # <<>>
  BY <1>1, <1>3 DEF BInv, TypeOK
<1> QED
  BY <1>2, <1>3

(* A tail half-edge in one row is a head half-edge in another. *)
LEMMA EdgeOfHalf ==
    ASSUME BInv, NEW u \in Nat, NEW h \in HalvesAt(u, accepted)
    PROVE  \E e \in accepted :
               /\ e \in Offers /\ h.etype = e[3]
               /\ \/ h.side = "tail" /\ e[1] = u /\ e[2] = h.nbr
                  \/ h.side = "head" /\ e[2] = u /\ e[1] = h.nbr
<1>1. PICK e \in accepted : \/ e[1] = u /\ h = Halves(e)[1][2]
                            \/ e[2] = u /\ h = Halves(e)[2][2]
  BY InHalvesAt
<1>2. e \in Offers
  BY DEF BInv, TypeOK
<1> QED
  BY <1>1, <1>2 DEF Halves

(* The check of build_from_rows() finds nothing. *)
LEMMA NoParallels ==
    ASSUME BInv, RowsHold, Fresh, simple, NEW i \in 1 .. n
    PROVE  ~ ParallelInRow(rows[i])
<1> DEFINE S == HalvesAt(i - 1, accepted)
           row == SortRow(rows[i])
<1>1. /\ row = Sorted(S) /\ IsFiniteSet(S) /\ S \subseteq HalfEdge
      /\ RowOf(rows[i], S)
  BY FirstRows
<1>2. Len(rows[i]) = Cardinality(S)
  <2>1. rows[i] \in Bijection(1 .. Len(rows[i]), S) /\ Len(rows[i]) \in Nat
    BY <1>1, LenProperties DEF RowOf, ToSet, IsInjective, Bijection, Injection, Surjection
  <2>2. ExistsBijection(1 .. Len(rows[i]), S)
    BY <2>1 DEF ExistsBijection
  <2> QED
    BY <2>1, <2>2, FS_CountingElements
<1> SUFFICES ASSUME NEW k \in 1 .. (Len(rows[i]) - 1),
                    row[k].nbr = row[k + 1].nbr, row[k].etype = row[k + 1].etype
             PROVE  FALSE
  BY DEF ParallelInRow
<1>3. /\ k \in 1 .. Cardinality(S) /\ k + 1 \in 1 .. Cardinality(S) /\ k # k + 1
  <2>1. Cardinality(S) \in Nat
    BY <1>1, FS_CardinalityType
  <2> QED
    BY <1>2, <2>1
<1>4. StrictOrder(S, HalfOrder(S))
  BY <1>1, HalfOrderIsStrict
<1>5. row \in [1 .. Cardinality(S) -> S]
  BY <1>1, <1>4, InOrderFacts DEF Sorted
<1>6. row[k] # row[k + 1]
  BY <1>1, <1>3, <1>4, InOrderIsInjective DEF Sorted
<1> DEFINE g == row[k]
           h == row[k + 1]
<1>7. g \in S /\ h \in S /\ g # h /\ g.nbr = h.nbr /\ g.etype = h.etype
  BY <1>3, <1>5, <1>6
<1> HIDE DEF g, h
<1>8. g.side # h.side
  BY <1>1, <1>7 DEF HalfEdge
<1>9. i - 1 \in Nat
  OBVIOUS
<1>10. PICK e \in accepted :
           /\ e \in Offers /\ g.etype = e[3]
           /\ \/ g.side = "tail" /\ e[1] = i - 1 /\ e[2] = g.nbr
              \/ g.side = "head" /\ e[2] = i - 1 /\ e[1] = g.nbr
  BY <1>7, <1>9, EdgeOfHalf
<1>11. PICK f \in accepted :
           /\ f \in Offers /\ h.etype = f[3]
           /\ \/ h.side = "tail" /\ f[1] = i - 1 /\ f[2] = h.nbr
              \/ h.side = "head" /\ f[2] = i - 1 /\ f[1] = h.nbr
  BY <1>7, <1>9, EdgeOfHalf
<1>12. SamePair(e, f)
  BY <1>7, <1>8, <1>10, <1>11 DEF SamePair
<1>13. e = f => e[1] = e[2]
  BY <1>7, <1>8, <1>10, <1>11
<1>14. e[1] # e[2]
  BY ValidAccepted DEF BInv, ValidEdge
<1>15. ~ SameKey(simple, Specs, e, f)
  BY <1>13, <1>14, ValidAccepted DEF BInv
<1> QED
  BY <1>12, <1>15 DEF SameKey

LEMMA CsrOfAccepted ==
    ASSUME BInv, RowsHold, Fresh
    PROVE  EdgesOf(Csr(rows)) = accepted
<1> DEFINE csr == Csr(rows)
<1>1. DOMAIN rows = 1 .. n /\ n \in Nat /\ DOMAIN csr = 1 .. n
  BY FreshRows DEF Csr
<1>2. \A i \in 1 .. n : ToSet(csr[i]) = HalvesAt(i - 1, accepted)
  <2> SUFFICES ASSUME NEW i \in 1 .. n PROVE ToSet(csr[i]) = HalvesAt(i - 1, accepted)
    OBVIOUS
  <2> DEFINE S == HalvesAt(i - 1, accepted)
  <2>1. csr[i] = Sorted(S) /\ IsFiniteSet(S) /\ S \subseteq HalfEdge
    BY <1>1, FirstRows DEF Csr
  <2>2. /\ csr[i] \in [1 .. Cardinality(S) -> S]
        /\ \A x \in S : \E k \in 1 .. Cardinality(S) : csr[i][k] = x
    BY <2>1, HalfOrderIsStrict, InOrderFacts DEF Sorted
  <2> QED
    BY <2>2 DEF ToSet
<1> HIDE DEF csr
<1>3. ASSUME NEW x \in EdgesOf(csr) PROVE x \in accepted
  <2>0. PICK i \in 1 .. n :
            x \in {<<i - 1, h.nbr, h.etype>> : h \in {g \in ToSet(csr[i]) : g.side = "tail"}}
    BY <1>1 DEF EdgesOf
  <2>1. PICK h \in ToSet(csr[i]) : h.side = "tail" /\ x = <<i - 1, h.nbr, h.etype>>
    BY <2>0
  <2>2. h \in HalvesAt(i - 1, accepted) /\ i - 1 \in Nat
    BY <1>2, <2>1
  <2>3. PICK e \in accepted : e \in Offers /\ h.etype = e[3] /\ e[1] = i - 1 /\ e[2] = h.nbr
    BY <2>1, <2>2, EdgeOfHalf
  <2> QED
    BY <2>1, <2>3, OfferFacts
<1>4. ASSUME NEW e \in accepted PROVE e \in EdgesOf(csr)
  <2>1. e \in Offers /\ ValidEdge(n, simple, Specs, e)
    BY ValidAccepted DEF BInv, TypeOK
  <2>2. e[1] + 1 \in 1 .. n /\ e = <<e[1], e[2], e[3]>> /\ (e[1] + 1) - 1 = e[1]
    BY <1>1, <2>1, OfferFacts DEF ValidEdge
  <2>3. Halves(e)[1][2] \in HalvesAt(e[1], accepted)
    BY InHalvesAt
  <2> DEFINE i == e[1] + 1
             h == Halves(e)[1][2]
  <2>4. i \in DOMAIN csr /\ h \in ToSet(csr[i])
    BY <1>1, <1>2, <2>2, <2>3
  <2>5. h.side = "tail" /\ <<i - 1, h.nbr, h.etype>> = e
    BY <2>2 DEF Halves
  <2> HIDE DEF i, h
  <2>6. e \in {<<i - 1, g.nbr, g.etype>> : g \in {f \in ToSet(csr[i]) : f.side = "tail"}}
    BY <2>4, <2>5
  <2> QED
    BY <2>4, <2>6 DEF EdgesOf
<1> QED
  BY <1>3, <1>4 DEF csr

RInv == RowsHold /\ IsFiniteSet(accepted)

LEMMA FiniteStep == IsFiniteSet(accepted) /\ [Next]_vars => IsFiniteSet(accepted')
<1> SUFFICES ASSUME IsFiniteSet(accepted), [Next]_vars PROVE IsFiniteSet(accepted')
  OBVIOUS
<1>1. (\E e : accepted' = accepted \cup {e}) \/ accepted' = accepted
  BY DEF Next, AddEdge, RefuseEdge, Finalize, vars
<1> QED
  BY <1>1, FS_AddElement

LEMMA FirstFinalize ==
    ASSUME BInv, RInv, Finalize, Fresh
    PROVE  \E csr \in core' : csr = TrustedCsr(SetToSeq(accepted)) /\ EdgesOf(csr) = accepted
<1>1. DOMAIN rows = 1 .. n /\ n \in Nat
  BY FreshRows
<1>2. core' = {Csr(rows)}
  <2>1. simple => \A i \in DOMAIN rows : ~ ParallelInRow(rows[i])
    BY <1>1, NoParallels DEF RInv
  <2> QED
    BY <2>1 DEF Finalize
<1>3. accepted \subseteq Offers /\ IsFiniteSet(accepted)
  BY DEF BInv, TypeOK, RInv
<1>4. \A i \in 1 .. n : Csr(rows)[i] = TrustedCsr(SetToSeq(accepted))[i]
  <2> SUFFICES ASSUME NEW i \in 1 .. n PROVE Csr(rows)[i] = TrustedCsr(SetToSeq(accepted))[i]
    OBVIOUS
  <2>1. Csr(rows)[i] = Sorted(HalvesAt(i - 1, accepted))
    BY <1>1, FirstRows DEF Csr, RInv
  <2>2. TrustedCsr(SetToSeq(accepted))[i] = Sorted(HalvesAt(i - 1, accepted))
    BY <1>1, <1>3, TrustedRows, BuilderAssumption
  <2> QED
    BY <2>1, <2>2
<1>5. Csr(rows) = TrustedCsr(SetToSeq(accepted))
  <2>1. Csr(rows) = [i \in 1 .. n |-> Csr(rows)[i]]
    BY <1>1 DEF Csr
  <2>2. TrustedCsr(SetToSeq(accepted)) = [i \in 1 .. n |-> TrustedCsr(SetToSeq(accepted))[i]]
    BY DEF TrustedCsr, Csr
  <2> QED
    BY <1>4, <2>1, <2>2
<1> QED
  BY <1>2, <1>5, CsrOfAccepted DEF RInv

(* The rows hold the half-edges of the accepted edges, each once.           *)
THEOREM RowsHoldTheHalves == Spec => []RInv
<1>1. Init => RInv
  <2>1. Init => IsFiniteSet(accepted)
    BY FS_EmptySet DEF Init
  <2> QED
    BY <2>1, RowsInit DEF RInv
<1>2. BInv /\ RInv /\ [Next]_vars => RInv'
  BY RowsStep, FiniteStep DEF RInv
<1> QED
  BY <1>1, <1>2, BuilderInvariant, PTL DEF Spec

(* The first finalize never fails, and its CSR is the one the unchecked     *)
(* bulk build gives for the accepted edges, whatever order they came in.    *)
THEOREM FirstCoreIsTrusted == Spec => FirstCore
<1>1. BInv /\ RInv /\ [Next]_vars =>
        [Finalize /\ Fresh =>
            \E csr \in core' : csr = TrustedCsr(SetToSeq(accepted)) /\ EdgesOf(csr) = accepted]_vars
  BY FirstFinalize
<1> QED
  BY <1>1, BuilderInvariant, RowsHoldTheHalves, PTL DEF Spec, FirstCore
================================================================================
