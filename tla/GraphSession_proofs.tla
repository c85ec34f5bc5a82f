-------------------------- MODULE GraphSession_proofs --------------------------
(***************************************************************************)
(* For every bound, buffer, registry and class: the caches of GraphSession *)
(* are never stale, what is trusted is valid, and the session implements   *)
(* its contract.  A core cut from a cached one keeps its rows in the order *)
(* they had, which a build would sort: what is proved of cores holds up to *)
(* that order.  The three invariants of the run hold together, so one      *)
(* inductive invariant, their conjunction, carries everything.             *)
(***************************************************************************)
EXTENDS GraphSession, SharedFacts_proofs

IInv == TypeOK /\ CacheCoherent /\ TrustedEdgesAreValid

--------------------------------------------------------------------------------
(* Lemmas about buffers and node lists. *)

LEMMA KeepListFacts ==
    ASSUME SessionAssumption, NEW keep \in KeepLists
    PROVE  /\ keep \in Seq(0 .. MaxN)
           /\ Len(keep) \in 0 .. MaxN
           /\ DOMAIN keep = 1 .. Len(keep)
<1> USE DEF SessionAssumption
<1>1. PICK k \in 0 .. MaxN : keep \in [1 .. k -> 0 .. MaxN]
  BY DEF KeepLists
<1>2. k \in Nat /\ keep \in Seq(0 .. MaxN)
  BY <1>1
<1>3. Len(keep) = k
  BY <1>1, <1>2
<1> QED
  BY <1>1, <1>2, <1>3

(* A subgraph's buffer is a buffer over the kept nodes. *)
LEMMA InducedIsBuffer ==
    ASSUME SessionAssumption, NEW keep \in KeepLists, NEW buffer, IsEdgeBuffer(buffer)
    PROVE  IsEdgeBuffer(Induced(keep, buffer))
<1> DEFINE sub == Induced(keep, buffer)
<1>1. DOMAIN sub = {d \in Kept(keep) \X Kept(keep) \X {f[3] : f \in DOMAIN buffer} :
                        Original(keep, d) \in DOMAIN buffer}
  BY DEF Induced
<1>2. Kept(keep) \subseteq Nat
  BY KeepListFacts DEF Kept
<1>3. {f[3] : f \in DOMAIN buffer} \subseteq Nat
  BY DEF IsEdgeBuffer, Edge
<1>4. DOMAIN sub \subseteq Edge
  BY <1>1, <1>2, <1>3 DEF Edge
<1>5. \A d \in DOMAIN sub : sub[d] = buffer[Original(keep, d)] /\ sub[d] \in Nat \ {0}
  BY <1>1 DEF Induced, IsEdgeBuffer
<1>6. sub \in [DOMAIN sub -> Nat \ {0}]
  BY <1>5 DEF Induced
<1> QED
  BY <1>4, <1>6 DEF IsEdgeBuffer

(* Renumbering with distinct kept nodes keeps a valid buffer valid: this   *)
(* is why a subgraph may trust its edges.                                  *)
LEMMA InducedIsValid ==
    ASSUME SessionAssumption, NEW keep \in KeepLists, NEW m \in Nat, NEW s \in BOOLEAN,
           NEW r, NEW buffer, IsEdgeBuffer(buffer), KeepIsOk(keep, m),
           ValidEdges(m, s, r, buffer)
    PROVE  ValidEdges(Len(keep), s, r, Induced(keep, buffer))
<1> DEFINE sub == Induced(keep, buffer)
<1>1. DOMAIN sub = {d \in Kept(keep) \X Kept(keep) \X {f[3] : f \in DOMAIN buffer} :
                        Original(keep, d) \in DOMAIN buffer}
  BY DEF Induced
<1>2. ASSUME NEW d \in DOMAIN sub
      PROVE  /\ d[1] \in Kept(keep) /\ d[2] \in Kept(keep)
             /\ d = <<d[1], d[2], d[3]>>
             /\ Original(keep, d) \in DOMAIN buffer
             /\ Original(keep, d)[1] = keep[d[1] + 1]
             /\ Original(keep, d)[2] = keep[d[2] + 1]
             /\ Original(keep, d)[3] = d[3]
             /\ sub[d] = buffer[Original(keep, d)]
  BY <1>1, <1>2 DEF Original, Induced
<1>3. ASSUME NEW i \in Kept(keep), NEW j \in Kept(keep), keep[i + 1] = keep[j + 1]
      PROVE  i = j
  <2>1. Len(keep) \in Nat /\ DOMAIN keep = 1 .. Len(keep)
    BY KeepListFacts DEF SessionAssumption
  <2>2. i \in Int /\ j \in Int /\ i + 1 \in DOMAIN keep /\ j + 1 \in DOMAIN keep
    BY <2>1 DEF Kept
  <2> QED
    BY <1>3, <2>2 DEF KeepIsOk
<1>4. ASSUME NEW d \in DOMAIN sub
      PROVE  ValidEdge(Len(keep), s, r, d) /\ sub[d] = 1
  <2>1. d[1] < Len(keep) /\ d[2] < Len(keep)
    BY <1>2, KeepListFacts DEF Kept
  <2>2. ValidEdge(m, s, r, Original(keep, d)) /\ buffer[Original(keep, d)] = 1
    BY <1>2 DEF ValidEdges
  <2>3. ~ (s /\ d[1] = d[2])
    BY <1>2, <2>2 DEF ValidEdge
  <2> QED
    BY <1>2, <2>1, <2>2, <2>3 DEF ValidEdge
<1>5. ASSUME NEW d \in DOMAIN sub, NEW e \in DOMAIN sub, d # e
      PROVE  ~ SameKey(s, r, d, e)
  <2> DEFINE od == Original(keep, d)
             oe == Original(keep, e)
  <2>1. od # oe
    <3>1. CASE d[3] # e[3]
      BY <3>1, <1>2
    <3>2. CASE d[1] # e[1]
      BY <3>2, <1>2, <1>3
    <3>3. CASE d[2] # e[2]
      BY <3>3, <1>2, <1>3
    <3> QED
      BY <3>1, <3>2, <3>3, <1>2, <1>5
  <2>2. ~ SameKey(s, r, od, oe)
    BY <2>1, <1>2 DEF ValidEdges
  <2>3. SamePair(d, e) => SamePair(od, oe)
    <3>1. CASE d[1] = e[1] /\ d[2] = e[2]
      BY <3>1, <1>2 DEF SamePair
    <3>2. CASE d[1] = e[2] /\ d[2] = e[1]
      BY <3>2, <1>2 DEF SamePair
    <3> QED
      BY <3>1, <3>2 DEF SamePair
  <2>4. od[3] = d[3] /\ oe[3] = e[3]
    BY <1>2
  <2> QED
    BY <2>2, <2>3, <2>4, <1>5 DEF SameKey
<1> QED
  BY <1>4, <1>5 DEF ValidEdges

LEMMA ReplacePairsIsBuffer ==
    ASSUME NEW s, NEW old, NEW new, IsEdgeBuffer(old), IsEdgeBuffer(new)
    PROVE  IsEdgeBuffer(ReplacePairs(s, old, new))
BY DEF ReplacePairs, IsEdgeBuffer

--------------------------------------------------------------------------------
(* What an accessor finds when the invariant holds. *)

(* A trusted build returns what a checked one would. *)
LEMMA BuildIsChecked ==
    ASSUME TrustedEdgesAreValid
    PROVE  BuildCore = CheckedCore(n, simple, registry, edges)
<1>1. CASE ~ edges_trusted
  BY <1>1 DEF BuildCore
<1>2. CASE edges_trusted
  <2>1. ValidEdges(n, simple, registry, edges)
    BY <1>2 DEF TrustedEdgesAreValid, EdgesAreValid
  <2>2. \A e \in DOMAIN edges : e[1] < n /\ e[2] < n
    BY <2>1 DEF ValidEdges, ValidEdge
  <2> QED
    BY <1>2, <2>1, <2>2 DEF BuildCore, TrustedCore, CheckedCore
<1> QED
  BY <1>1, <1>2

(* A build has its rows in an order, and so has what was cut from one.     *)
LEMMA BuildIsOrdered ==
    ASSUME NEW m \in Nat, NEW s, NEW r, NEW buffer
    PROVE  \E order \in RowOrders(m) :
               CheckedCore(m, s, r, buffer)
               = {Reordered(order, g) : g \in CheckedCore(m, s, r, buffer)}
<1> DEFINE sorted == [v \in 0 .. (m - 1) |-> v]
<1>1. sorted \in RowOrders(m)
  BY SortedIsOrder
<1>2. \A g \in CheckedCore(m, s, r, buffer) : Reordered(sorted, g) = g
  BY DEF CheckedCore, Compile, Reordered
<1>3. CheckedCore(m, s, r, buffer)
      = {Reordered(sorted, g) : g \in CheckedCore(m, s, r, buffer)}
  BY <1>2
<1> QED
  BY <1>1, <1>3

(* core() returns what a checked build would, with the rows in some order. *)
LEMMA CoreIsFresh ==
    ASSUME SessionAssumption, IInv
    PROVE  \E order \in RowOrders(n) :
               CoreResult = {Reordered(order, g) : g \in CheckedCore(n, simple, registry, edges)}
<1>1. CASE core_valid
  BY <1>1 DEF IInv, CacheCoherent, CoreCoherent, CoreResult
<1>2. CASE ~ core_valid
  <2>1. CoreResult = CheckedCore(n, simple, registry, edges)
    BY <1>2, BuildIsChecked DEF IInv, CoreResult
  <2>2. n \in Nat
    BY DEF SessionAssumption, IInv, TypeOK
  <2> QED
    BY <2>1, <2>2, BuildIsOrdered
<1> QED
  BY <1>1, <1>2

(* view() returns a fresh view of the core. *)
LEMMA ViewIsFresh ==
    ASSUME IInv
    PROVE  ViewResult = UNION {TypedView(graph_class, g) : g \in CoreResult}
BY DEF IInv, CacheCoherent, ViewCoherent, ViewResult, CoreResult

(* A core that is there was built from the inputs of the moment.           *)
LEMMA CachedCore ==
    ASSUME IInv, core_valid, NEW g \in core
    PROVE  /\ EdgesAreValid
           /\ \E order \in RowOrders(n) : g = Reordered(order, Compile(n, simple, registry, edges))
BY DEF IInv, CacheCoherent, CoreCoherent, CheckedCore, EdgesAreValid

(* KeepCore, the step every accessor takes, keeps the core coherent. *)
LEMMA KeepCoreIsCoherent ==
    ASSUME SessionAssumption, IInv, KeepCore,
           UNCHANGED <<n, simple, registry, edges, edges_trusted>>
    PROVE  /\ CoreCoherent'
           /\ core_valid => core_valid' /\ core' = core
           /\ core_valid' => core' = CoreResult
           /\ core_valid' \in BOOLEAN
           /\ CoreResult # {} => core_valid'
<1>1. core_valid \in BOOLEAN /\ CoreCoherent
  BY DEF IInv, TypeOK, CacheCoherent
<1>2. BuildCore = CheckedCore(n, simple, registry, edges)
  BY BuildIsChecked DEF IInv
<1>3. CASE core_valid
  BY <1>1, <1>3 DEF KeepCore, CoreCoherent, CoreResult
<1>4. CASE ~ core_valid
  <2>1. core = {}
    BY <1>1, <1>4 DEF CoreCoherent
  <2>2. CASE BuildCore = {}
    BY <1>1, <1>4, <2>1, <2>2 DEF KeepCore, CoreCoherent, CoreResult
  <2>3. CASE BuildCore # {}
    <3>1. n \in Nat
      BY DEF SessionAssumption, IInv, TypeOK
    <3>2. core' = CheckedCore(n, simple, registry, edges) /\ core_valid' = TRUE
      BY <1>1, <1>2, <1>4, <2>3 DEF KeepCore
    <3>3. CoreCoherent'
      BY <1>2, <2>3, <3>1, <3>2, BuildIsOrdered DEF CoreCoherent
    <3> QED
      BY <1>2, <1>4, <3>2, <3>3 DEF CoreResult
  <2> QED
    BY <2>2, <2>3
<1> QED
  BY <1>3, <1>4

--------------------------------------------------------------------------------
(* The inductive invariant: every action, and under it every conjunct the  *)
(* action can disturb.                                                     *)

LEMMA InitIInv ==
    ASSUME SessionAssumption, Init
    PROVE  IInv
<1>1. names \in Seq(Name)
  <2>1. n \in Nat /\ \A i \in 1 .. n : DefaultName[i - 1] \in Name
    BY DEF SessionAssumption, Init
  <2> QED
    BY <2>1 DEF Init
<1>2. IsEdgeBuffer(edges)
  BY DEF Init, IsEdgeBuffer, NoEdges
<1>3. TypeOK
  BY <1>1, <1>2 DEF Init, TypeOK
<1>4. CacheCoherent /\ TrustedEdgesAreValid
  BY DEF Init, CacheCoherent, CoreCoherent, ViewCoherent, TrustedEdgesAreValid
<1> QED
  BY <1>3, <1>4 DEF IInv

(* After an invalidation nothing is cached and nothing is trusted. *)
LEMMA InvalidatedIsCoherent ==
    ASSUME InvalidateCore, name_to_index' = NameIndex(names')
    PROVE  /\ CacheCoherent'
           /\ TrustedEdgesAreValid'
           /\ {core_valid', view_valid', edges_trusted'} \subseteq BOOLEAN
BY DEF InvalidateCore, InvalidateView, CacheCoherent, CoreCoherent, ViewCoherent,
       TrustedEdgesAreValid

LEMMA MutateKeepsIInv ==
    ASSUME SessionAssumption, IInv, Mutate
    PROVE  IInv'
<1> USE DEF IInv, SessionAssumption
<1>1. ASSUME NEW m \in 0 .. MaxN, SetN(m)
      PROVE  IInv'
  <2>1. CASE n # m
    BY <1>1, <2>1, InvalidatedIsCoherent DEF SetN, TypeOK, CacheCoherent
  <2>2. CASE n = m
    BY <1>1, <2>2 DEF SetN, cache, TypeOK, CacheCoherent, CoreCoherent, ViewCoherent,
                      TrustedEdgesAreValid, EdgesAreValid
  <2> QED
    BY <2>1, <2>2
<1>2. ASSUME NEW s \in BOOLEAN, SetSimple(s)
      PROVE  IInv'
  <2>1. CASE simple # s
    BY <1>2, <2>1, InvalidatedIsCoherent DEF SetSimple, TypeOK, CacheCoherent
  <2>2. CASE simple = s
    BY <1>2, <2>2 DEF SetSimple, cache, TypeOK, CacheCoherent, CoreCoherent, ViewCoherent,
                      TrustedEdgesAreValid, EdgesAreValid
  <2> QED
    BY <2>1, <2>2
<1>3. ASSUME NEW b \in Buffers, SetEdges(b)
      PROVE  IInv'
  BY <1>3, InvalidatedIsCoherent DEF SetEdges, TypeOK, CacheCoherent
<1>4. ASSUME NEW b \in Buffers, ReplaceEdgesForPairs(b)
      PROVE  IInv'
  <2>1. IsEdgeBuffer(ReplacePairs(simple, edges, b))
    BY ReplacePairsIsBuffer DEF TypeOK
  <2> QED
    BY <1>4, <2>1, InvalidatedIsCoherent DEF ReplaceEdgesForPairs, TypeOK, CacheCoherent
<1>5. ASSUME NEW c \in Classes, SetClass(c)
      PROVE  IInv'
  <2>1. CASE graph_class # c
    BY <1>5, <2>1 DEF SetClass, InvalidateView, TypeOK, CacheCoherent, CoreCoherent,
                      ViewCoherent, TrustedEdgesAreValid, EdgesAreValid
  <2>2. CASE graph_class = c
    BY <1>5, <2>2 DEF SetClass, cache, TypeOK, CacheCoherent, CoreCoherent, ViewCoherent,
                      TrustedEdgesAreValid, EdgesAreValid
  <2> QED
    BY <2>1, <2>2
<1>6. ASSUME NEW new \in NameLists, SetNames(new)
      PROVE  IInv'
  BY <1>6 DEF SetNames, cache, TypeOK, CacheCoherent, CoreCoherent, ViewCoherent,
              TrustedEdgesAreValid, EdgesAreValid
<1>7. ASSUME NEW r \in Registries, SetRegistry(r)
      PROVE  IInv'
  BY <1>7, InvalidatedIsCoherent DEF SetRegistry, TypeOK, CacheCoherent
<1>8. ASSUME NEW batch \in Batches, ReplaceSpec(batch)
      PROVE  IInv'
  BY <1>8, InvalidatedIsCoherent DEF ReplaceSpec, TypeOK
<1> QED
  BY <1>1, <1>2, <1>3, <1>4, <1>5, <1>6, <1>7, <1>8 DEF Mutate

LEMMA AskKeepsIInv ==
    ASSUME SessionAssumption, IInv, Ask
    PROVE  IInv'
<1> USE DEF IInv
<1>1. CASE GetCore
  <2>1. KeepCore /\ UNCHANGED <<inputs, name_to_index, view_valid, edges_trusted, view>>
    BY <1>1 DEF GetCore
  <2>2. /\ CoreCoherent' /\ core_valid' \in BOOLEAN
        /\ core_valid => core_valid' /\ core' = core
    BY <2>1, KeepCoreIsCoherent DEF inputs
  <2>3. ViewCoherent'
    BY <2>1, <2>2 DEF inputs, CacheCoherent, ViewCoherent
  <2> QED
    BY <2>1, <2>2, <2>3 DEF inputs, TypeOK, CacheCoherent, TrustedEdgesAreValid, EdgesAreValid
<1>2. CASE GetView
  <2>1. UNCHANGED <<inputs, name_to_index, edges_trusted>>
    BY <1>2 DEF GetView
  <2>2. CASE view_valid
    <3>1. view # {} /\ core_valid /\ ViewResult = view
      BY <2>2 DEF CacheCoherent, ViewCoherent, ViewResult
    <3>2. core' = core /\ core_valid' = core_valid /\ view' = view /\ view_valid' = TRUE
      BY <1>2, <2>2, <3>1 DEF GetView
    <3>3. view_valid = TRUE
      BY <2>2 DEF TypeOK
    <3> QED
      BY <2>1, <3>2, <3>3
      DEF inputs, TypeOK, CacheCoherent, CoreCoherent, ViewCoherent,
          TrustedEdgesAreValid, EdgesAreValid
  <2>3. CASE ~ view_valid
    <3>1. KeepCore
      BY <1>2, <2>3 DEF GetView
    <3>2. /\ CoreCoherent' /\ core_valid' \in BOOLEAN
          /\ core_valid' => core' = CoreResult
          /\ CoreResult # {} => core_valid'
      BY <2>1, <3>1, KeepCoreIsCoherent DEF inputs
    <3>3. view = {}
      BY <2>3 DEF CacheCoherent, ViewCoherent
    <3>4. ViewResult = UNION {TypedView(graph_class, g) : g \in CoreResult}
      BY <2>3 DEF ViewResult
    <3>5. view_valid' = (ViewResult # {}) /\ view' = ViewResult
      BY <1>2, <2>3, <3>3 DEF GetView
    <3>6. ViewResult # {} => core_valid' /\ core' = CoreResult
      BY <3>2, <3>4
    <3>7. ViewCoherent'
      <4>1. graph_class' = graph_class
        BY <2>1 DEF inputs
      <4>2. CASE ViewResult = {}
        BY <3>5, <4>2 DEF ViewCoherent
      <4>3. CASE ViewResult # {}
        <5>1. view' = UNION {TypedView(graph_class', g) : g \in core'}
          BY <3>4, <3>5, <3>6, <4>1, <4>3
        <5> QED
          BY <3>5, <3>6, <4>3, <5>1 DEF ViewCoherent
      <4> QED
        BY <4>2, <4>3
    <3>8. view_valid' \in BOOLEAN
      BY <3>5
    <3> QED
      BY <2>1, <3>2, <3>7, <3>8
      DEF inputs, TypeOK, CacheCoherent, TrustedEdgesAreValid, EdgesAreValid
  <2> QED
    BY <2>2, <2>3
<1>3. ASSUME NEW c \in Classes, GetResolvedClass(c)
      PROVE  IInv'
  <2>1. KeepCore /\ UNCHANGED <<inputs, name_to_index, view_valid, edges_trusted, view>>
    BY <1>3 DEF GetResolvedClass
  <2>2. /\ CoreCoherent' /\ core_valid' \in BOOLEAN
        /\ core_valid => core_valid' /\ core' = core
    BY <2>1, KeepCoreIsCoherent DEF inputs
  <2>3. ViewCoherent'
    BY <2>1, <2>2 DEF inputs, CacheCoherent, ViewCoherent
  <2> QED
    BY <2>1, <2>2, <2>3 DEF inputs, TypeOK, CacheCoherent, TrustedEdgesAreValid, EdgesAreValid
<1>4. ASSUME NEW x \in Name, GetIndexOf(x)
      PROVE  IInv'
  BY <1>4 DEF GetIndexOf, inputs, cache, TypeOK, CacheCoherent, CoreCoherent, ViewCoherent,
              TrustedEdgesAreValid, EdgesAreValid
<1> QED
  BY <1>1, <1>2, <1>3, <1>4 DEF Ask

(* The step of a subgraph on its way: the new buffer is valid, and so is   *)
(* everything the new session starts with.                                 *)
LEMMA DeriveKeepsIInv ==
    ASSUME SessionAssumption, IInv, Derive
    PROVE  IInv'
<1> USE DEF IInv
<1>1. CASE CloneForCow
  BY <1>1 DEF CloneForCow, InvalidateView, inputs, TypeOK, CacheCoherent, CoreCoherent,
              ViewCoherent, TrustedEdgesAreValid, EdgesAreValid
<1>2. ASSUME NEW keep \in KeepLists, NEW sub, Selects(keep), EdgesAreValid,
             sub = Induced(keep, edges), SubgraphOf(keep, sub), core_valid' \in BOOLEAN
      PROVE  /\ TypeOK' /\ ViewCoherent' /\ TrustedEdgesAreValid'
             /\ name_to_index' = NameIndex(names')
  <2>1. keep \in Seq(0 .. MaxN) /\ Len(keep) \in 0 .. MaxN /\ DOMAIN keep = 1 .. Len(keep)
    BY KeepListFacts
  <2>2. n \in Nat /\ IsEdgeBuffer(edges)
    BY DEF TypeOK, SessionAssumption
  <2>3. IsEdgeBuffer(sub)
    BY <1>2, <2>2, InducedIsBuffer
  <2>4. ValidEdges(Len(keep), simple, registry, sub)
    BY <1>2, <2>2, InducedIsValid DEF EdgesAreValid, Selects, TypeOK
  <2>5. SelectNames(keep, names) \in Seq(Name)
    <3>1. \A i \in DOMAIN keep : keep[i] + 1 \in 1 .. Len(names)
      BY <1>2, <2>1 DEF Selects, TypeOK
    <3>2. \A i \in DOMAIN keep : names[keep[i] + 1] \in Name
      BY <3>1 DEF TypeOK
    <3> QED
      BY <2>1, <3>2 DEF SelectNames
  <2>6. TypeOK'
    BY <1>2, <2>1, <2>3, <2>5 DEF SubgraphOf, InvalidateView, TypeOK
  <2>7. ViewCoherent'
    BY <1>2 DEF SubgraphOf, InvalidateView, ViewCoherent
  <2>8. TrustedEdgesAreValid'
    BY <1>2, <2>4 DEF SubgraphOf, TrustedEdgesAreValid, EdgesAreValid
  <2> QED
    BY <1>2, <2>6, <2>7, <2>8 DEF SubgraphOf
<1>3. ASSUME NEW keep \in KeepLists, SubgraphFromCore(keep)
      PROVE  IInv'
  <2>1. PICK g \in core : /\ core' = {InducedCore(keep, g)}
                          /\ SubgraphOf(keep, InducedCore(keep, g).links)
    BY <1>3 DEF SubgraphFromCore
  <2>2. Selects(keep) /\ core_valid /\ core_valid' = TRUE
    BY <1>3 DEF SubgraphFromCore
  <2>3. PICK order \in RowOrders(n) :
            EdgesAreValid /\ g = Reordered(order, Compile(n, simple, registry, edges))
    BY <2>1, <2>2, CachedCore
  <2> DEFINE kept == KeptPlaces(keep, order)
             h == Compile(Len(keep), simple, registry, Induced(keep, edges))
  <2>4. InducedCore(keep, g) = Reordered(kept, h)
    BY <2>3 DEF InducedCore, Reordered, Compile
  <2>5. InducedCore(keep, g).links = Induced(keep, edges)
    BY <2>4 DEF Reordered, Compile
  <2>6. /\ TypeOK' /\ ViewCoherent' /\ TrustedEdgesAreValid'
        /\ name_to_index' = NameIndex(names')
    BY <1>2, <2>1, <2>2, <2>3, <2>5
  <2>7. /\ n' = Len(keep) /\ edges' = Induced(keep, edges)
        /\ simple' = simple /\ registry' = registry /\ edges_trusted' = TRUE
    BY <2>1, <2>5 DEF SubgraphOf
  <2>8. ValidEdges(n', simple', registry', edges')
    BY <2>6, <2>7 DEF TrustedEdgesAreValid, EdgesAreValid
  <2>9. CoreCoherent'
    <3>1. kept \in RowOrders(n')
      <4>1. n \in Nat /\ keep \in Seq(Nat) /\ KeepIsOk(keep, n)
        BY <2>2, KeepListFacts DEF TypeOK, SessionAssumption, Selects
      <4> QED
        BY <2>7, <4>1, KeptPlacesIsOrder
    <3> HIDE DEF kept
    <3>2. CheckedCore(n', simple', registry', edges') = {h}
      BY <2>7, <2>8 DEF CheckedCore
    <3>3. core' = {Reordered(kept, c) : c \in CheckedCore(n', simple', registry', edges')}
      BY <2>1, <2>4, <3>2
    <3> QED
      BY <2>1, <2>2, <2>7, <3>1, <3>3 DEF CoreCoherent
  <2> QED
    BY <2>6, <2>9 DEF CacheCoherent
<1>4. ASSUME NEW keep \in KeepLists, EdgesAreValid, SubgraphFromBuffer(keep)
      PROVE  IInv'
  <2>1. Selects(keep) /\ SubgraphOf(keep, Induced(keep, edges))
    BY <1>4 DEF SubgraphFromBuffer
  <2>2. core' = {} /\ core_valid' = FALSE
    BY <1>4 DEF SubgraphFromBuffer
  <2> QED
    BY <1>2, <1>4, <2>1, <2>2 DEF CacheCoherent, CoreCoherent
<1>5. ASSUME NEW keep \in KeepLists, SubgraphRefused(keep)
      PROVE  IInv'
  BY <1>5 DEF SubgraphRefused, inputs, cache, TypeOK, CacheCoherent, CoreCoherent,
              ViewCoherent, TrustedEdgesAreValid, EdgesAreValid
<1> QED
  BY <1>1, <1>3, <1>4, <1>5 DEF Derive

LEMMA StutterKeepsIInv ==
    ASSUME IInv, UNCHANGED vars
    PROVE  IInv'
BY DEF IInv, vars, inputs, cache, TypeOK, CacheCoherent, CoreCoherent, ViewCoherent,
       TrustedEdgesAreValid, EdgesAreValid

LEMMA StepKeepsIInv ==
    ASSUME SessionAssumption, IInv, [Next]_vars
    PROVE  IInv'
BY MutateKeepsIInv, AskKeepsIInv, DeriveKeepsIInv, StutterKeepsIInv DEF Next

--------------------------------------------------------------------------------
(* All three invariants hold of every session the disciplined callers      *)
(* drive (session.rs, the rules above struct GraphSession).                *)
THEOREM SessionInvariant == Spec => []IInv
<1>1. Init => IInv
  BY InitIInv, SessionAssumption
<1>2. IInv /\ [Next]_vars => IInv'
  BY StepKeepsIInv, SessionAssumption
<1> QED
  BY <1>1, <1>2, PTL DEF Spec

(* Every variable keeps its type, edge buffers being bags of edges. *)
THEOREM TypeCorrect == Spec => []TypeOK
BY SessionInvariant, PTL DEF IInv

(* No core, view or name index is ever stale, whatever the bounds, the     *)
(* buffers, the registries and the order of calls.  A core differs from    *)
(* the one a build would give in the order of its rows at most, and only   *)
(* while its edges are trusted (induced_subgraph() of mod.rs).             *)
THEOREM CachesAreCoherent == Spec => []CacheCoherent
BY SessionInvariant, PTL DEF IInv

(* edges_trusted is set only while the validating build would succeed.     *)
THEOREM TrustIsJustified == Spec => []TrustedEdgesAreValid
BY SessionInvariant, PTL DEF IInv

--------------------------------------------------------------------------------
(* Refinement.  The mapping is the identity: the contract has the inputs   *)
(* and the answer and none of the cache variables.                         *)

LEMMA InitImplements ==
    ASSUME Init
    PROVE  Contract!Init
BY DEF Init, Contract!Init

(* A mutation changes the inputs as a Change of the contract may. *)
LEMMA MutateImplements ==
    ASSUME SessionAssumption, IInv, Mutate
    PROVE  Contract!Change
<1> USE DEF IInv, TypeOK, SessionAssumption, Contract!Change
<1>1. ASSUME NEW m \in 0 .. MaxN, SetN(m)
      PROVE  Contract!Change
  BY <1>1 DEF SetN
<1>2. ASSUME NEW s \in BOOLEAN, SetSimple(s)
      PROVE  Contract!Change
  BY <1>2 DEF SetSimple
<1>3. ASSUME NEW b \in Buffers, SetEdges(b)
      PROVE  Contract!Change
  BY <1>3 DEF SetEdges
<1>4. ASSUME NEW b \in Buffers, ReplaceEdgesForPairs(b)
      PROVE  Contract!Change
  BY <1>4 DEF ReplaceEdgesForPairs
<1>5. ASSUME NEW c \in Classes, SetClass(c)
      PROVE  Contract!Change
  BY <1>5 DEF SetClass
<1>6. ASSUME NEW new \in NameLists, SetNames(new)
      PROVE  Contract!Change
  BY <1>6 DEF SetNames
<1>7. ASSUME NEW r \in Registries, SetRegistry(r)
      PROVE  Contract!Change
  BY <1>7 DEF SetRegistry
<1>8. ASSUME NEW batch \in Batches, ReplaceSpec(batch)
      PROVE  Contract!Change
  BY <1>8 DEF ReplaceSpec
<1> QED
  BY <1>1, <1>2, <1>3, <1>4, <1>5, <1>6, <1>7, <1>8 DEF Mutate

(* An accessor answers as a session that caches nothing: the order of the  *)
(* rows is that of the core it found, and no class depends on it.          *)
LEMMA AskImplements ==
    ASSUME SessionAssumption, IInv, Ask
    PROVE  Contract!Next
<1> DEFINE build == CheckedCore(n, simple, registry, edges)
<1>0. PICK order \in RowOrders(n) : CoreResult = Contract!FreshCore(order)
  BY CoreIsFresh DEF Contract!FreshCore
<1>1. CASE GetCore
  <2>1. out' = <<"core", "none", Contract!FreshCore(order)>>
    BY <1>0, <1>1 DEF GetCore
  <2>2. Contract!Answer("core", "none", Contract!FreshCore(order))
    BY <1>1, <2>1 DEF GetCore, Contract!Answer, inputs, Contract!inputs
  <2> QED
    BY <2>2 DEF Contract!Next
<1>2. CASE GetView
  <2>1. out' = <<"view", "none", Contract!FreshView(order)>>
    BY <1>0, <1>2, ViewIsFresh DEF GetView, Contract!FreshView
  <2>2. Contract!Answer("view", "none", Contract!FreshView(order))
    BY <1>2, <2>1 DEF GetView, Contract!Answer, inputs, Contract!inputs
  <2> QED
    BY <2>2 DEF Contract!Next
<1>3. ASSUME NEW c \in Classes, GetResolvedClass(c)
      PROVE  Contract!Next
  <2>1. \A g \in build : ResolveClass(c, Reordered(order, g)) = ResolveClass(c, g)
    <3> SUFFICES ASSUME NEW g \in build
                 PROVE  ResolveClass(c, Reordered(order, g)) = ResolveClass(c, g)
      OBVIOUS
    <3> DEFINE h == Reordered(order, g)
    <3>1. h.n = g.n /\ h.registry = g.registry /\ h.links = g.links
      BY DEF Reordered, CheckedCore, Compile
    <3> HIDE DEF h, build
    <3>2. ResolveClass(c, h) = ResolveClass(c, g)
      BY <3>1, SameButForRows
    <3> QED
      BY <3>2 DEF h
  <2>2. UNION {ResolveClass(c, g) : g \in CoreResult} = Contract!FreshClass(c)
    <3> HIDE DEF build
    <3>1. CoreResult = {Reordered(order, g) : g \in build}
      BY <1>0 DEF Contract!FreshCore, build
    <3>2. UNION {ResolveClass(c, g) : g \in CoreResult} = UNION {ResolveClass(c, g) : g \in build}
      BY <2>1, <3>1
    <3> QED
      BY <3>2 DEF Contract!FreshClass, build
  <2>3. out' = <<"resolve_class", c, Contract!FreshClass(c)>>
    BY <1>3, <2>2 DEF GetResolvedClass
  <2>4. Contract!Answer("resolve_class", c, Contract!FreshClass(c))
    BY <1>3, <2>3 DEF GetResolvedClass, Contract!Answer, inputs, Contract!inputs
  <2> QED
    BY <2>4 DEF Contract!Next
<1>4. ASSUME NEW x \in Name, GetIndexOf(x)
      PROVE  Contract!Next
  <2>1. out' = <<"index_of", x, IndexOf(NameIndex(names), x)>>
    BY <1>4 DEF GetIndexOf, IInv, CacheCoherent
  <2>2. Contract!Answer("index_of", x, IndexOf(NameIndex(names), x))
    BY <1>4, <2>1 DEF GetIndexOf, Contract!Answer, inputs, Contract!inputs
  <2> QED
    BY <2>2 DEF Contract!Next
<1> QED
  BY <1>1, <1>2, <1>3, <1>4 DEF Ask

(* A subgraph, cut from the core or from the buffer, is a Subgraph of the  *)
(* contract; a clone and a refusal change nothing the contract can see.    *)
LEMMA DeriveImplements ==
    ASSUME SessionAssumption, IInv, Derive
    PROVE  Contract!Next
<1>1. ASSUME UNCHANGED inputs, out' = Quiet
      PROVE  Contract!Change
  BY <1>1 DEF IInv, TypeOK, inputs, Contract!Change
<1>2. ASSUME NEW keep \in KeepLists, Selects(keep), SubgraphOf(keep, Induced(keep, edges))
      PROVE  Contract!Next
  <2>1. Contract!Subgraph(keep)
    BY <1>2 DEF Selects, SubgraphOf, Contract!Subgraph
  <2> QED
    BY <2>1 DEF Contract!Next, KeepLists, Contract!KeepLists
<1>3. CASE CloneForCow
  BY <1>1, <1>3 DEF CloneForCow, Contract!Next
<1>4. ASSUME NEW keep \in KeepLists, SubgraphFromCore(keep)
      PROVE  Contract!Next
  <2>1. PICK g \in core : SubgraphOf(keep, InducedCore(keep, g).links)
    BY <1>4 DEF SubgraphFromCore
  <2>2. Selects(keep) /\ core_valid
    BY <1>4 DEF SubgraphFromCore
  <2>3. PICK order \in RowOrders(n) : g = Reordered(order, Compile(n, simple, registry, edges))
    BY <2>1, <2>2, CachedCore
  <2>4. InducedCore(keep, g).links = Induced(keep, edges)
    BY <2>3 DEF InducedCore, Reordered, Compile
  <2> QED
    BY <1>2, <2>1, <2>2, <2>4
<1>5. ASSUME NEW keep \in KeepLists, SubgraphFromBuffer(keep)
      PROVE  Contract!Next
  BY <1>2, <1>5 DEF SubgraphFromBuffer
<1>6. ASSUME NEW keep \in KeepLists, SubgraphRefused(keep)
      PROVE  Contract!Next
  BY <1>1, <1>6 DEF SubgraphRefused, Contract!Next
<1> QED
  BY <1>3, <1>4, <1>5, <1>6 DEF Derive

(* GraphSession implements SessionContract: no order of mutations, reads,  *)
(* clones and subgraphs lets a caller see that anything is cached, but for *)
(* the order of rows, which the contract leaves open.                      *)
THEOREM SessionImplementsContract == Spec => ImplementsContract
<1>1. Init => Contract!Init
  BY InitImplements
<1>2. IInv /\ [Next]_vars => [Contract!Next]_Contract!vars
  <2> SUFFICES ASSUME IInv, [Next]_vars
               PROVE  [Contract!Next]_Contract!vars
    OBVIOUS
  <2>1. CASE Mutate
    BY <2>1, MutateImplements, SessionAssumption DEF Contract!Next
  <2>2. CASE Ask
    BY <2>2, AskImplements, SessionAssumption
  <2>3. CASE Derive
    BY <2>3, DeriveImplements, SessionAssumption
  <2>4. CASE UNCHANGED vars
    BY <2>4 DEF vars, inputs, Contract!vars
  <2> QED
    BY <2>1, <2>2, <2>3, <2>4 DEF Next
<1> QED
  BY <1>1, <1>2, SessionInvariant, PTL DEF Spec, ImplementsContract, Contract!Spec
================================================================================
