---------------------------- MODULE GraphViews_proofs ----------------------------
(***************************************************************************)
(* Sessions asked questions and turned into other sessions, for every      *)
(* choice of the graphs to start from, of any size and class and with any  *)
(* registry whose directed types have an arrow.                            *)
(*                                                                         *)
(* The searches grow a set until it stays the same.  The set of what it    *)
(* reaches solves their equation, and a second solution would differ first *)
(* at a largest set, where it cannot (GrowsOnce).  The other loops run a    *)
(* number of times: there is a function of the turns (IterationExists,     *)
(* RunsExist), and what every turn keeps holds to the end (LoopsStay).  The *)
(* sort keeps SortInv of its stack, its counters and its order, and is not *)
(* stuck, since some node left over waits for none (NeverStuck).           *)
(*                                                                         *)
(* What a session is turned into is a session (IsSession), one lemma for   *)
(* each transformation; so what holds of the answers to any session holds  *)
(* after any calls (IInv).                                                 *)
(*                                                                         *)
(* The packed array: the half-edges of each bucket are a pile, the base of  *)
(* a bucket is how many lie in the piles before it (Base), so the ranges do *)
(* not overlap; scattering keeps ScatterInv, whatever the order; sorting a  *)
(* range keeps what is in it, and slices side by side make one.             *)
(***************************************************************************)
EXTENDS GraphViews, SharedFacts_proofs

--------------------------------------------------------------------------------
(* What the stack and queue loops find: the nodes that can be reached.      *)

ReachedFrom(N, R, T) == {j \in N : \E i \in T : Reaches(N, R, i, j)}

(* The nodes of T and where R leads from them, and when a function is the   *)
(* one that Closure defines.                                               *)
NextOf(R, T) == T \cup {e[2] : e \in {r \in R : r[1] \in T}}

Grows(R, all, g) ==
    g = [T \in SUBSET all |-> IF NextOf(R, T) = T THEN T ELSE g[NextOf(R, T)]]

LEMMA NextStays ==
    ASSUME NEW R, NEW S, NEW T \in SUBSET (S \cup {e[2] : e \in R})
    PROVE  NextOf(R, T) \in SUBSET (S \cup {e[2] : e \in R}) /\ T \subseteq NextOf(R, T)
  BY DEF NextOf

LEMMA ReachedIsStable ==
    ASSUME NEW N, NEW R, NEW T \in SUBSET N, NextOf(R, T) = T
    PROVE  ReachedFrom(N, R, T) = T
<1>1. \A x \in T, y \in N : <<x, y>> \in R => y \in T
  <2> SUFFICES ASSUME NEW x \in T, NEW y \in N, <<x, y>> \in R PROVE y \in T
    OBVIOUS
  <2>1. <<x, y>> \in {r \in R : r[1] \in T}
    OBVIOUS
  <2> QED
    BY <2>1 DEF NextOf
<1>2. ASSUME NEW j \in ReachedFrom(N, R, T) PROVE j \in T
  BY <1>1 DEF ReachedFrom, Reaches
<1>3. ASSUME NEW j \in T PROVE j \in ReachedFrom(N, R, T)
  BY ReachesItself DEF ReachedFrom
<1> QED
  BY <1>2, <1>3

LEMMA ReachedFromNext ==
    ASSUME NEW N, NEW R \in SUBSET (N \X N), NEW T \in SUBSET N
    PROVE  ReachedFrom(N, R, NextOf(R, T)) = ReachedFrom(N, R, T)
<1>1. ASSUME NEW j \in ReachedFrom(N, R, NextOf(R, T)) PROVE j \in ReachedFrom(N, R, T)
  <2>1. PICK i \in NextOf(R, T) : Reaches(N, R, i, j)
    BY <1>1 DEF ReachedFrom
  <2>2. CASE i \in T
    BY <2>1, <2>2 DEF ReachedFrom
  <2>3. CASE i \notin T
    <3>1. PICK e \in R : e[1] \in T /\ e[2] = i
      BY <2>3 DEF NextOf
    <3>2. e = <<e[1], e[2]>> /\ e[2] \in N
      OBVIOUS
    <3>3. Reaches(N, R, e[1], i)
      BY <3>1, <3>2, ArcReaches
    <3>4. Reaches(N, R, e[1], j)
      BY <2>1, <3>3, ReachesTransitive
    <3> QED
      BY <3>1, <3>4 DEF ReachedFrom
  <2> QED
    BY <2>2, <2>3
<1>2. ASSUME NEW j \in ReachedFrom(N, R, T) PROVE j \in ReachedFrom(N, R, NextOf(R, T))
  BY DEF ReachedFrom, NextOf
<1> QED
  BY <1>1, <1>2

(* The function exists, and is the set of what is reached.                  *)
LEMMA GrowsExists ==
    ASSUME NEW N, NEW R \in SUBSET (N \X N), NEW S \in SUBSET N
    PROVE  Grows(R, S \cup {e[2] : e \in R},
                 [T \in SUBSET (S \cup {e[2] : e \in R}) |-> ReachedFrom(N, R, T)])
<1> DEFINE all == S \cup {e[2] : e \in R}
           f == [T \in SUBSET all |-> ReachedFrom(N, R, T)]
<1>1. all \in SUBSET N
  OBVIOUS
<1>2. ASSUME NEW T \in SUBSET all
      PROVE  ReachedFrom(N, R, T) = IF NextOf(R, T) = T THEN T ELSE f[NextOf(R, T)]
  <2>1. NextOf(R, T) \in SUBSET all
    BY NextStays
  <2>2. T \in SUBSET N
    BY <1>1
  <2> HIDE DEF all
  <2>3. f[NextOf(R, T)] = ReachedFrom(N, R, T)
    BY <2>1, <2>2, ReachedFromNext
  <2> HIDE DEF f
  <2> QED
    BY <2>2, <2>3, ReachedIsStable
<1> HIDE DEF all
<1> QED
  <2>1. f = [T \in SUBSET all |-> IF NextOf(R, T) = T THEN T ELSE f[NextOf(R, T)]]
    BY <1>2
  <2> QED
    BY <2>1 DEF Grows, all

(* No other function is one that grows: the smallest change it could make   *)
(* is at a set from which only larger ones are asked for.                  *)
LEMMA GrowsOnce ==
    ASSUME NEW N, IsFiniteSet(N), NEW R \in SUBSET (N \X N), NEW S \in SUBSET N,
           NEW g, Grows(R, S \cup {e[2] : e \in R}, g)
    PROVE  \A T \in SUBSET (S \cup {e[2] : e \in R}) : g[T] = ReachedFrom(N, R, T)
<1> DEFINE all == S \cup {e[2] : e \in R}
           bad == {T \in SUBSET all : g[T] # ReachedFrom(N, R, T)}
           rest == [T \in bad |-> Cardinality(all \ T)]
<1>1. all \in SUBSET N /\ IsFiniteSet(all)
  <2>1. all \in SUBSET N
    OBVIOUS
  <2> QED
    BY <2>1, FS_Subset
<1>2. \A T \in SUBSET all : g[T] = IF NextOf(R, T) = T THEN T ELSE g[NextOf(R, T)]
  BY DEF Grows
<1>3. \A T \in SUBSET all : NextOf(R, T) \in SUBSET all /\ T \subseteq NextOf(R, T)
  BY NextStays
<1> HIDE DEF all
<1> SUFFICES ASSUME bad # {} PROVE FALSE
  BY DEF all
<1>4. IsFiniteSet(bad)
  <2>1. IsFiniteSet(SUBSET all)
    BY <1>1, FS_SUBSET
  <2>2. bad \subseteq SUBSET all
    OBVIOUS
  <2> QED
    BY <2>1, <2>2, FS_Subset
<1>5. \A T \in SUBSET all : IsFiniteSet(all \ T) /\ Cardinality(all \ T) \in Nat
  <2> SUFFICES ASSUME NEW T \in SUBSET all PROVE IsFiniteSet(all \ T) /\ Cardinality(all \ T) \in Nat
    OBVIOUS
  <2>1. all \ T \subseteq all
    OBVIOUS
  <2> QED
    BY <1>1, <2>1, FS_Subset, FS_CardinalityType
<1>6. rest \in [bad -> Nat]
  BY <1>5
<1>7. PICK T \in bad : \A U \in bad : rest[T] <= rest[U]
  <2> HIDE DEF rest, bad
  <2> QED
    BY <1>4, <1>6, SmallestValue
<1>8. T \in SUBSET all /\ T \in SUBSET N /\ g[T] # ReachedFrom(N, R, T)
  BY <1>1
<1>9. NextOf(R, T) # T
  BY <1>2, <1>8, ReachedIsStable
<1>10. NextOf(R, T) \in SUBSET all /\ T \subseteq NextOf(R, T)
  BY <1>3, <1>8
<1>11. NextOf(R, T) \in bad
  <2>1. g[T] = g[NextOf(R, T)]
    BY <1>2, <1>8, <1>9
  <2> QED
    BY <1>8, <1>10, <2>1, ReachedFromNext
<1>12. Cardinality(all \ NextOf(R, T)) < Cardinality(all \ T)
  <2>1. all \ NextOf(R, T) \subseteq all \ T /\ all \ NextOf(R, T) # all \ T
    BY <1>8, <1>9, <1>10
  <2>2. Cardinality(all \ NextOf(R, T)) <= Cardinality(all \ T)
    BY <1>5, <1>8, <2>1, FS_Subset
  <2>3. Cardinality(all \ NextOf(R, T)) # Cardinality(all \ T)
    BY <1>5, <1>8, <2>1, FS_Subset
  <2> QED
    BY <1>5, <1>8, <1>10, <2>2, <2>3
<1>13. rest[T] <= rest[NextOf(R, T)]
  BY <1>7, <1>11
<1>14. rest[T] = Cardinality(all \ T) /\ rest[NextOf(R, T)] = Cardinality(all \ NextOf(R, T))
  BY <1>11
<1>15. Cardinality(all \ T) \in Nat /\ Cardinality(all \ NextOf(R, T)) \in Nat
  BY <1>5, <1>8, <1>10
<1> HIDE DEF rest, bad
<1> QED
  BY <1>12, <1>13, <1>14, <1>15

LEMMA ClosureIs ==
    ASSUME NEW N, IsFiniteSet(N), NEW R \in SUBSET (N \X N), NEW S \in SUBSET N
    PROVE  Closure(S, R) = ReachedFrom(N, R, S)
<1> DEFINE all == S \cup {e[2] : e \in R}
           grow == CHOOSE g : Grows(R, all, g)
<1>1. Closure(S, R) = grow[S]
  BY DEF Closure, Grows, NextOf
<1>2. Grows(R, all, grow)
  BY GrowsExists
<1>3. S \in SUBSET all
  OBVIOUS
<1> HIDE DEF grow
<1> QED
  BY <1>1, <1>2, <1>3, GrowsOnce

--------------------------------------------------------------------------------
(* Names, and the rows of an answer.                                        *)

Naming(names, n) == names \in Seq(ToSet(names)) /\ Len(names) = n /\ IsInjective(names)

LEMMA NamesAre ==
    ASSUME NEW n \in Nat, NEW names, Naming(names, n), NEW i \in 0 .. (n - 1)
    PROVE  /\ i + 1 \in DOMAIN names /\ names[i + 1] \in ToSet(names)
           /\ NameIndex(names)[names[i + 1]] = i
<1>1. DOMAIN names = 1 .. n
  BY DEF Naming
<1>2. i + 1 \in DOMAIN names
  BY <1>1
<1>3. names[i + 1] \in {names[k] : k \in DOMAIN names}
  BY <1>2
<1> DEFINE last(x) == CHOOSE k \in DOMAIN names :
                          names[k] = x /\ \A j \in DOMAIN names : names[j] = x => j <= k
<1>4. NameIndex(names)[names[i + 1]] = last(names[i + 1]) - 1
  BY <1>3 DEF NameIndex
<1>5. \A k \in DOMAIN names : names[k] = names[i + 1] => k = i + 1
  BY <1>2 DEF Naming, IsInjective
<1>6. last(names[i + 1]) = i + 1
  <2>1. \A j \in DOMAIN names : names[j] = names[i + 1] => j <= i + 1
    BY <1>2, <1>5
  <2> QED
    BY <1>2, <1>5, <2>1
<1>7. NameIndex(names)[names[i + 1]] = i
  <2> HIDE DEF last
  <2>1. NameIndex(names)[names[i + 1]] = (i + 1) - 1
    BY <1>4, <1>6
  <2> QED
    BY <2>1
<1>8. names[i + 1] \in ToSet(names)
  BY <1>2 DEF ToSet
<1> QED
  BY <1>2, <1>7, <1>8

LEMMA IndicesOfNames ==
    ASSUME NEW n \in Nat, NEW names, Naming(names, n), NEW S \in SUBSET (0 .. (n - 1))
    PROVE  {NameIndex(names)[x] : x \in ToNames(names, S)} = S
<1>1. \A i \in S : NameIndex(names)[names[i + 1]] = i
  BY NamesAre
<1> QED
  BY <1>1 DEF ToNames

LEMMA NamesHaveIndices ==
    ASSUME NEW n \in Nat, NEW names, Naming(names, n), NEW x \in ToSet(names)
    PROVE  NameIndex(names)[x] \in 0 .. (n - 1) /\ names[NameIndex(names)[x] + 1] = x
<1>1. DOMAIN names = 1 .. n
  BY DEF Naming
<1>2. PICK k \in 1 .. n : x = names[k]
  BY <1>1 DEF ToSet
<1>3. k - 1 \in 0 .. (n - 1) /\ (k - 1) + 1 = k
  OBVIOUS
<1> QED
  BY <1>2, <1>3, NamesAre

(* A list of rows for nodes of a graph of n nodes, as the query has them.   *)
RowsFrom(names, n, query, value) ==
    \E idx : /\ \A j \in DOMAIN idx : idx[j] \in 0 .. (n - 1) /\ query[idx[j]].ok
             /\ value = [j \in DOMAIN idx |->
                            [node |-> names[idx[j] + 1], row |-> ToNames(names, query[idx[j]].value)]]

LEMMA QueryRows ==
    ASSUME NEW names, NEW arg, NEW query, RunRelationQuery(names, arg, query).ok
    PROVE  RowsFrom(names, Len(names), query, RunRelationQuery(names, arg, query).value)
<1> DEFINE n == Len(names)
           rows(idx) ==
               IF /\ idx # <<>>
                  /\ \A j \in DOMAIN idx : idx[j] \in 0 .. (n - 1) /\ query[idx[j]].ok
               THEN {Ok([j \in DOMAIN idx |->
                           [node |-> names[idx[j] + 1], row |-> ToNames(names, query[idx[j]].value)]])}
               ELSE {}
           all == UNION {rows(idx) : idx \in ResolveQuery(names, arg)}
           reply == RunRelationQuery(names, arg, query)
<1>1. reply = IF all = {} THEN Err ELSE CHOOSE a \in all : TRUE
  BY DEF RunRelationQuery
<1>2. ~ Err.ok
  BY DEF Err
<1> HIDE DEF all, reply
<1>3. reply \in all
  BY <1>1, <1>2 DEF reply
<1>4. PICK idx : reply \in rows(idx)
  BY <1>3 DEF all
<1>5. \A j \in DOMAIN idx : idx[j] \in 0 .. (n - 1) /\ query[idx[j]].ok
  BY <1>4
<1>6. reply = Ok([j \in DOMAIN idx |->
                    [node |-> names[idx[j] + 1], row |-> ToNames(names, query[idx[j]].value)]])
  BY <1>4
<1>7. reply.value = [j \in DOMAIN idx |->
                       [node |-> names[idx[j] + 1], row |-> ToNames(names, query[idx[j]].value)]]
  BY <1>6 DEF Ok
<1> QED
  BY <1>5, <1>7 DEF RowsFrom, reply

(* What Rows makes of such a list. *)
LEMMA RowsAre ==
    ASSUME NEW n \in Nat, NEW names, Naming(names, n), NEW query, NEW value,
           RowsFrom(names, n, query, value),
           \A i \in 0 .. (n - 1) : query[i].ok => query[i].value \in SUBSET (0 .. (n - 1)),
           NEW r \in {<<NameIndex(names)[q.node], {NameIndex(names)[x] : x \in q.row}>> : q \in ToSet(value)}
    PROVE  r[1] \in 0 .. (n - 1) /\ query[r[1]].ok /\ r[2] = query[r[1]].value
<1>1. PICK idx : /\ \A j \in DOMAIN idx : idx[j] \in 0 .. (n - 1) /\ query[idx[j]].ok
                 /\ value = [j \in DOMAIN idx |->
                               [node |-> names[idx[j] + 1], row |-> ToNames(names, query[idx[j]].value)]]
  BY DEF RowsFrom
<1>2. PICK q \in ToSet(value) : r = <<NameIndex(names)[q.node], {NameIndex(names)[x] : x \in q.row}>>
  OBVIOUS
<1>3. PICK j \in DOMAIN value : q = value[j]
  BY DEF ToSet
<1>4. DOMAIN value = DOMAIN idx
  BY <1>1
<1>5. q.node = names[idx[j] + 1] /\ q.row = ToNames(names, query[idx[j]].value)
  BY <1>1, <1>3, <1>4
<1>6. idx[j] \in 0 .. (n - 1) /\ query[idx[j]].ok
  BY <1>1, <1>3, <1>4
<1>7. NameIndex(names)[q.node] = idx[j]
  BY <1>5, <1>6, NamesAre
<1>8. {NameIndex(names)[x] : x \in q.row} = query[idx[j]].value
  BY <1>5, <1>6, IndicesOfNames
<1> QED
  BY <1>2, <1>6, <1>7, <1>8

--------------------------------------------------------------------------------
(* What a view shows of its core. *)

LEMMA ViewRelations ==
    ASSUME NEW class, NEW g, IsCore(g)
    PROVE  LET v == View(class, g) IN
           /\ Nodes(v) = Nodes(g) /\ Nodes(g) = 0 .. (g.n - 1) /\ IsFiniteSet(Nodes(g)) /\ g.n \in Nat
           /\ v.class = class /\ v.core = g /\ v.n = g.n
           /\ v.arcs = Arcs(g) /\ v.lines = Lines(g) /\ v.spouses = Spouses(g)
           /\ Arcs(g) \in SUBSET (Nodes(g) \X Nodes(g))
           /\ Lines(g) \in SUBSET (Nodes(g) \X Nodes(g))
           /\ Spouses(g) \in SUBSET (Nodes(g) \X Nodes(g))
           /\ Converse(Arcs(g)) \in SUBSET (Nodes(g) \X Nodes(g))
<1>1. g.n \in Nat /\ Nodes(g) = 0 .. (g.n - 1)
  BY DEF IsCore, Nodes
<1>2. IsFiniteSet(Nodes(g))
  BY <1>1, FS_Interval
<1>3. /\ Arcs(g) \in SUBSET (Nodes(g) \X Nodes(g))
      /\ Lines(g) \in SUBSET (Nodes(g) \X Nodes(g))
      /\ Spouses(g) \in SUBSET (Nodes(g) \X Nodes(g))
  BY DEF Arcs, Lines, Spouses, Pairs
<1>4. Converse(Arcs(g)) \in SUBSET (Nodes(g) \X Nodes(g))
  BY <1>3 DEF Converse
<1> QED
  BY <1>1, <1>2, <1>3, <1>4 DEF View, Nodes

LEMMA ClosureIsAlong ==
    ASSUME NEW g, IsFiniteSet(Nodes(g)), NEW R \in SUBSET (Nodes(g) \X Nodes(g)), NEW i \in Nodes(g)
    PROVE  Closure({i}, R) = Along(g, R, i) /\ i \in Along(g, R, i) /\ Along(g, R, i) \in SUBSET Nodes(g)
<1>1. Closure({i}, R) = ReachedFrom(Nodes(g), R, {i})
  BY ClosureIs
<1>2. ReachedFrom(Nodes(g), R, {i}) = Along(g, R, i)
  BY DEF ReachedFrom, Along
<1>3. i \in Along(g, R, i)
  BY ReachesItself DEF Along
<1> QED
  BY <1>1, <1>2, <1>3 DEF Along

(* The answers about one node. *)
TransitiveQuery(op, v, i) ==
    CASE op = "ancestors"   -> AncestorsOf(v, i)
      [] op = "descendants" -> DescendantsOf(v, i)
      [] op = "anteriors"   -> AnteriorsOf(v, i)
      [] op = "posteriors"  -> PosteriorsOf(v, i)

TransitiveOps == {"ancestors", "descendants", "anteriors", "posteriors"}

LEMMA OpenedFacts ==
    ASSUME NEW open \in BOOLEAN, NEW i, NEW S, i \in S, NEW a, a = Err \/ a = Ok(S \ {i}), Opened(open, i, a).ok
    PROVE  /\ Opened(open, i, a).value \in SUBSET S
           /\ Opened(open, i, a).value \cup (IF open THEN {i} ELSE {}) = S
<1>1. CASE a = Err
  BY <1>1 DEF Opened, Err
<1>2. CASE a = Ok(S \ {i})
  BY <1>2 DEF Opened, Ok
<1> QED
  BY <1>1, <1>2

LEMMA TransitiveAnswers ==
    ASSUME NEW op \in TransitiveOps, NEW class, NEW g, IsCore(g), NEW i \in Nodes(g)
    PROVE  LET v == View(class, g) IN
           \/ TransitiveQuery(op, v, i) = Err
           \/ TransitiveQuery(op, v, i) = Ok(Along(v, PathOf(v, op), i) \ {i})
<1> DEFINE v == View(class, g)
<1>1. /\ IsFiniteSet(Nodes(v)) /\ i \in Nodes(v)
      /\ v.arcs \in SUBSET (Nodes(v) \X Nodes(v)) /\ v.lines \in SUBSET (Nodes(v) \X Nodes(v))
      /\ Converse(v.arcs) \in SUBSET (Nodes(v) \X Nodes(v))
  BY ViewRelations
<1> HIDE DEF v
<1>2. CASE op = "ancestors"
  <2>1. Closure({i}, Converse(v.arcs)) = Along(v, Converse(v.arcs), i)
    BY <1>1, ClosureIsAlong
  <2>2. PathOf(v, op) = Converse(v.arcs)
    BY <1>2 DEF PathOf
  <2>3. TransitiveQuery(op, v, i) = AncestorsOf(v, i)
    BY <1>2 DEF TransitiveQuery
  <2> QED
    BY <2>1, <2>2, <2>3 DEF AncestorsOf, Ancestors, v
<1>3. CASE op = "descendants"
  <2>1. Closure({i}, v.arcs) = Along(v, v.arcs, i)
    BY <1>1, ClosureIsAlong
  <2>2. PathOf(v, op) = v.arcs
    BY <1>3 DEF PathOf
  <2>3. TransitiveQuery(op, v, i) = DescendantsOf(v, i)
    BY <1>3 DEF TransitiveQuery
  <2> QED
    BY <2>1, <2>2, <2>3 DEF DescendantsOf, Descendants, v
<1>4. CASE op = "anteriors"
  <2>1. Converse(v.arcs) \cup v.lines \in SUBSET (Nodes(v) \X Nodes(v))
    BY <1>1
  <2>2. Closure({i}, Converse(v.arcs) \cup v.lines) = Along(v, Converse(v.arcs) \cup v.lines, i)
    BY <1>1, <2>1, ClosureIsAlong
  <2>3. PathOf(v, op) = Converse(v.arcs) \cup v.lines
    BY <1>4 DEF PathOf
  <2>4. TransitiveQuery(op, v, i) = AnteriorsOf(v, i)
    BY <1>4 DEF TransitiveQuery
  <2> QED
    BY <2>2, <2>3, <2>4 DEF AnteriorsOf, Anteriors, v
<1>5. CASE op = "posteriors"
  <2>1. v.arcs \cup v.lines \in SUBSET (Nodes(v) \X Nodes(v))
    BY <1>1
  <2>2. Closure({i}, v.arcs \cup v.lines) = Along(v, v.arcs \cup v.lines, i)
    BY <1>1, <2>1, ClosureIsAlong
  <2>3. PathOf(v, op) = v.arcs \cup v.lines
    BY <1>5 DEF PathOf
  <2>4. TransitiveQuery(op, v, i) = PosteriorsOf(v, i)
    BY <1>5 DEF TransitiveQuery
  <2> QED
    BY <2>2, <2>3, <2>4 DEF PosteriorsOf, Posteriors, v
<1> QED
  BY <1>2, <1>3, <1>4, <1>5 DEF TransitiveOps, v

--------------------------------------------------------------------------------
(* Districts *)

SymmetricRelation(R) == \A e \in R : <<e[2], e[1]>> \in R

LEMMA ReachesBack ==
    ASSUME NEW N, NEW R \in SUBSET (N \X N), SymmetricRelation(R),
           NEW u \in N, NEW v \in N, Reaches(N, R, u, v)
    PROVE  Reaches(N, R, v, u)
<1> DEFINE S == {x \in N : Reaches(N, R, x, u)}
<1>1. u \in S
  BY ReachesItself
<1>2. ASSUME NEW x \in S, NEW y \in N, <<x, y>> \in R PROVE y \in S
  <2>1. <<y, x>> \in R
    BY <1>2 DEF SymmetricRelation
  <2>2. Reaches(N, R, y, x)
    BY <2>1, ArcReaches
  <2> QED
    BY <2>2, ReachesTransitive
<1>3. S \in SUBSET N
  OBVIOUS
<1> HIDE DEF S
<1>4. v \in S
  BY <1>1, <1>2, <1>3 DEF Reaches
<1> QED
  BY <1>4 DEF S

(* Districts as classes: D says of each node which nodes are with it.       *)
Classes(N, D) ==
    /\ \A i \in N : i \in D[i] /\ D[i] \in SUBSET N
    /\ \A i, j \in N : j \in D[i] => D[j] = D[i]

LEMMA DistrictClasses ==
    ASSUME NEW class, NEW g, IsCore(g)
    PROVE  LET v == View(class, g) IN
           /\ Classes(Nodes(v), [i \in Nodes(v) |-> District(v, i)])
           /\ \A i \in Nodes(v) : District(v, i) = Along(v, v.spouses, i)
<1> DEFINE v == View(class, g)
<1>1. IsFiniteSet(Nodes(v)) /\ v.spouses \in SUBSET (Nodes(v) \X Nodes(v))
  BY ViewRelations
<1>2. SymmetricRelation(v.spouses)
  <2> SUFFICES ASSUME NEW e \in Spouses(g) PROVE <<e[2], e[1]>> \in Spouses(g)
    <3>1. v.spouses = Spouses(g)
      BY ViewRelations
    <3> HIDE DEF v
    <3> QED
      BY <3>1 DEF SymmetricRelation
  <2> QED
    BY DEF Spouses, Pairs
<1> HIDE DEF v
<1>3. ASSUME NEW i \in Nodes(v)
      PROVE  /\ District(v, i) = Along(v, v.spouses, i)
             /\ i \in District(v, i) /\ District(v, i) \in SUBSET Nodes(v)
  <2>1. /\ Closure({i}, v.spouses) = Along(v, v.spouses, i)
        /\ i \in Along(v, v.spouses, i) /\ Along(v, v.spouses, i) \in SUBSET Nodes(v)
    BY <1>1, ClosureIsAlong
  <2> QED
    BY <2>1 DEF District
<1>4. ASSUME NEW i \in Nodes(v), NEW j \in Nodes(v), NEW k \in Nodes(v),
             Reaches(Nodes(v), v.spouses, i, j), Reaches(Nodes(v), v.spouses, i, k)
      PROVE  Reaches(Nodes(v), v.spouses, j, k)
  <2>1. Reaches(Nodes(v), v.spouses, j, i)
    BY <1>1, <1>2, <1>4, ReachesBack
  <2> QED
    BY <1>4, <2>1, ReachesTransitive
<1>5. ASSUME NEW i \in Nodes(v), NEW j \in Nodes(v), j \in District(v, i)
      PROVE  District(v, j) = District(v, i)
  <2>1. Reaches(Nodes(v), v.spouses, i, j)
    BY <1>3, <1>5 DEF Along
  <2>2. \A k \in Nodes(v) : Reaches(Nodes(v), v.spouses, i, k) <=> Reaches(Nodes(v), v.spouses, j, k)
    BY <1>4, <2>1, ReachesTransitive
  <2> QED
    BY <1>3, <2>2 DEF Along
<1> QED
  BY <1>3, <1>5 DEF Classes, v

LEMMA AdmgDistrictsAre ==
    ASSUME NEW v, NEW n \in Nat, Nodes(v) = 0 .. (n - 1),
           Classes(Nodes(v), [i \in Nodes(v) |-> District(v, i)])
    PROVE  AdmgDistricts(v) = {District(v, i) : i \in Nodes(v)}
<1> DEFINE N == Nodes(v)
           D(i) == District(v, i)
           first(i, s) == i \in D(s) /\ \A t \in D(s) : s <= t
           start(i) == CHOOSE s \in N : first(i, s)
           comp == [i \in N |-> start(i)]
<1>1. AdmgDistricts(v) = {{i \in N : comp[i] = c} : c \in {comp[i] : i \in N}}
  BY DEF AdmgDistricts
<1>2. /\ \A i \in N : i \in D(i) /\ D(i) \in SUBSET N
      /\ \A i, j \in N : j \in D(i) => D(j) = D(i)
  BY DEF Classes
<1>4. N \in SUBSET Nat /\ IsFiniteSet(N)
  BY FS_Interval
<1> HIDE DEF D, N
<1>5. ASSUME NEW i \in N PROVE \E s \in N : first(i, s)
  <2>1. D(i) \in SUBSET Nat /\ D(i) # {} /\ IsFiniteSet(D(i)) /\ D(i) \in SUBSET N
    BY <1>2, <1>4, FS_Subset
  <2>2. PICK s \in D(i) : \A t \in D(i) : s <= t
    BY <2>1, Least
  <2>3. s \in N /\ D(s) = D(i)
    BY <1>2, <2>1
  <2>4. i \in D(s)
    BY <1>2, <2>3
  <2> QED
    BY <2>2, <2>3, <2>4
<1>6. ASSUME NEW i \in N PROVE start(i) \in N /\ first(i, start(i))
  BY <1>5
<1> HIDE DEF start
<1>7. \A i \in N : comp[i] \in N /\ first(i, comp[i]) /\ D(comp[i]) = D(i)
  <2> SUFFICES ASSUME NEW i \in N PROVE comp[i] \in N /\ first(i, comp[i]) /\ D(comp[i]) = D(i)
    OBVIOUS
  <2>1. comp[i] = start(i)
    OBVIOUS
  <2>2. comp[i] \in N /\ first(i, comp[i])
    BY <1>6, <2>1
  <2> HIDE DEF comp
  <2> QED
    BY <1>2, <2>2
<1> HIDE DEF comp
<1>8. ASSUME NEW i \in N, NEW j \in N PROVE comp[i] = comp[j] <=> i \in D(j)
  <2>1. comp[i] = comp[j] => i \in D(j)
    BY <1>2, <1>7
  <2>2. ASSUME i \in D(j) PROVE comp[i] = comp[j]
    <3>1. D(i) = D(j)
      BY <1>2, <2>2
    <3>2. comp[i] \in D(comp[j]) /\ comp[j] \in D(comp[i])
      BY <1>2, <1>7, <3>1
    <3>3. comp[i] <= comp[j] /\ comp[j] <= comp[i]
      BY <1>7, <3>2
    <3>4. comp[i] \in Nat /\ comp[j] \in Nat
      BY <1>4, <1>7
    <3> QED
      BY <3>3, <3>4
  <2> QED
    BY <2>1, <2>2
<1> DEFINE K(c) == {i \in N : comp[i] = c}
<1>9. \A j \in N : K(comp[j]) = D(j)
  BY <1>2, <1>8
<1>10. AdmgDistricts(v) = {K(c) : c \in {comp[i] : i \in N}}
  BY <1>1
<1> HIDE DEF K, D, N
<1>11. {K(c) : c \in {comp[i] : i \in N}} = {D(j) : j \in N}
  <2>1. \A x \in {K(c) : c \in {comp[i] : i \in N}} : \E j \in N : x = K(comp[j])
    OBVIOUS
  <2>2. \A j \in N : K(comp[j]) \in {K(c) : c \in {comp[i] : i \in N}}
    OBVIOUS
  <2> QED
    BY <1>9, <2>1, <2>2
<1> QED
  BY <1>10, <1>11 DEF D, N

(* The loop of Ag::districts(): a function of how many nodes it has seen. *)
Finds(v, f) ==
    f = [k \in 0 .. v.n |->
            IF k = 0 THEN {}
            ELSE LET before == f[k - 1] IN
                 IF k - 1 \in UNION before THEN before ELSE before \cup {District(v, k - 1)}]

OfSize(v, n) ==
    /\ v.n = n /\ Nodes(v) = 0 .. (n - 1)
    /\ Classes(Nodes(v), [i \in Nodes(v) |-> District(v, i)])

FoundAt(v, k) == {District(v, i) : i \in 0 .. (k - 1)}

LEMMA FoundOneMore ==
    ASSUME NEW n \in Nat, NEW v, OfSize(v, n), NEW k \in 1 .. n
    PROVE  FoundAt(v, k) = IF k - 1 \in UNION FoundAt(v, k - 1)
                           THEN FoundAt(v, k - 1) ELSE FoundAt(v, k - 1) \cup {District(v, k - 1)}
<1>1. k - 1 \in 0 .. (n - 1) /\ 0 .. (k - 1) = (0 .. ((k - 1) - 1)) \cup {k - 1}
  OBVIOUS
<1>2. FoundAt(v, k) = FoundAt(v, k - 1) \cup {District(v, k - 1)}
  BY <1>1 DEF FoundAt
<1>3. ASSUME k - 1 \in UNION FoundAt(v, k - 1) PROVE District(v, k - 1) \in FoundAt(v, k - 1)
  <2>1. PICK i \in 0 .. ((k - 1) - 1) : k - 1 \in District(v, i)
    BY <1>3 DEF FoundAt
  <2>2. District(v, k - 1) = District(v, i)
    BY <1>1, <2>1 DEF OfSize, Classes
  <2> QED
    BY <2>1, <2>2 DEF FoundAt
<1> QED
  BY <1>2, <1>3

LEMMA FindsExists ==
    ASSUME NEW n \in Nat, NEW v, OfSize(v, n)
    PROVE  Finds(v, [k \in 0 .. n |-> FoundAt(v, k)])
<1> DEFINE f == [k \in 0 .. n |-> FoundAt(v, k)]
<1>0. v.n = n
  BY DEF OfSize
<1>1. ASSUME NEW k \in 0 .. n
      PROVE  FoundAt(v, k) = IF k = 0 THEN {}
                             ELSE IF k - 1 \in UNION f[k - 1] THEN f[k - 1] ELSE f[k - 1] \cup {District(v, k - 1)}
  <2>1. CASE k = 0
    BY <2>1 DEF FoundAt
  <2>2. CASE k # 0
    <3>1. k \in 1 .. n /\ f[k - 1] = FoundAt(v, k - 1)
      BY <2>2
    <3> HIDE DEF f
    <3> QED
      BY <2>2, <3>1, FoundOneMore
  <2> QED
    BY <2>1, <2>2
<1> QED
  BY <1>0, <1>1, Zenon DEF Finds

LEMMA FindsOnce ==
    ASSUME NEW n \in Nat, NEW v, OfSize(v, n), NEW f, Finds(v, f)
    PROVE  f[n] = FoundAt(v, n)
<1> DEFINE bad == {k \in 0 .. n : f[k] # FoundAt(v, k)}
<1> SUFFICES ASSUME bad # {} PROVE FALSE
  OBVIOUS
<1>1. PICK k \in bad : \A j \in bad : k <= j
  <2>1. bad \in SUBSET Nat /\ IsFiniteSet(bad)
    <3>1. IsFiniteSet(0 .. n) /\ bad \in SUBSET (0 .. n)
      BY FS_Interval
    <3> QED
      BY <3>1, FS_Subset
  <2> HIDE DEF bad
  <2> QED
    BY <2>1, Least
<1>2. k \in 0 .. n /\ f[k] # FoundAt(v, k)
  OBVIOUS
<1>3. f[k] = IF k = 0 THEN {}
             ELSE IF k - 1 \in UNION f[k - 1] THEN f[k - 1] ELSE f[k - 1] \cup {District(v, k - 1)}
  BY <1>2 DEF Finds, OfSize
<1>4. k # 0
  BY <1>2, <1>3 DEF FoundAt
<1>5. k \in 1 .. n /\ k - 1 \in 0 .. n
  BY <1>2, <1>4
<1>6. f[k - 1] = FoundAt(v, k - 1)
  BY <1>1, <1>5
<1> QED
  BY <1>2, <1>3, <1>4, <1>5, <1>6, FoundOneMore

LEMMA AgDistrictsAre ==
    ASSUME NEW v, NEW n \in Nat, OfSize(v, n)
    PROVE  AgDistricts(v) = {District(v, i) : i \in Nodes(v)}
<1> DEFINE found == CHOOSE f : Finds(v, f)
<1>1. AgDistricts(v) = found[v.n]
  BY DEF AgDistricts, Finds
<1>2. Finds(v, found)
  BY FindsExists
<1>3. v.n = n /\ Nodes(v) = 0 .. (n - 1)
  BY DEF OfSize
<1> HIDE DEF found
<1>4. found[n] = FoundAt(v, n)
  BY <1>2, FindsOnce
<1> QED
  BY <1>1, <1>3, <1>4 DEF FoundAt

--------------------------------------------------------------------------------
(* Neighbours *)

LEMMA EdgeFacts ==
    ASSUME NEW g, IsCore(g), NEW e \in EdgeSet(g)
    PROVE  /\ e \in Nodes(g) \X Nodes(g) \X DOMAIN g.registry
           /\ e = <<e[1], e[2], e[3]>> /\ e[1] \in Nodes(g) /\ e[2] \in Nodes(g)
           /\ SpecOf(g, e).class = "directed" => "arrow" \in {SpecOf(g, e).tail, SpecOf(g, e).head}
<1>1. e \in Nodes(g) \X Nodes(g) \X DOMAIN g.registry
  BY DEF IsCore
<1>2. e = <<e[1], e[2], e[3]>> /\ e[1] \in Nodes(g) /\ e[2] \in Nodes(g) /\ e[3] \in DOMAIN g.registry
  BY <1>1
<1> QED
  BY <1>1, <1>2 DEF IsCore, SpecOf

LEMMA HalfEdgeFacts ==
    ASSUME NEW g, IsCore(g), NEW i, NEW e \in EdgeSet(g)
    PROVE  /\ <<e, 1>> \in HalfEdges(g, i) <=> e[1] = i
           /\ <<e, 2>> \in HalfEdges(g, i) <=> e[2] = i
           /\ Nbr(<<e, 1>>) = e[2] /\ Nbr(<<e, 2>>) = e[1]
           /\ MyMark(g, <<e, 1>>) = SpecOf(g, e).tail /\ MyMark(g, <<e, 2>>) = SpecOf(g, e).head
           /\ NbrMark(g, <<e, 1>>) = SpecOf(g, e).head /\ NbrMark(g, <<e, 2>>) = SpecOf(g, e).tail
<1>1. (<<e, 1>> \in HalfEdges(g, i) <=> e[1] = i) /\ (<<e, 2>> \in HalfEdges(g, i) <=> e[2] = i)
  BY DEF HalfEdges
<1>2. Nbr(<<e, 1>>) = e[2] /\ Nbr(<<e, 2>>) = e[1]
  <2>1. 3 - 1 = 2 /\ 3 - 2 = 1
    OBVIOUS
  <2> QED
    BY <2>1 DEF Nbr
<1>3. /\ MyMark(g, <<e, 1>>) = SpecOf(g, e).tail /\ MyMark(g, <<e, 2>>) = SpecOf(g, e).head
      /\ NbrMark(g, <<e, 1>>) = SpecOf(g, e).head /\ NbrMark(g, <<e, 2>>) = SpecOf(g, e).tail
  BY DEF MyMark, NbrMark, MarkAt
<1> QED
  BY <1>1, <1>2, <1>3

LEMMA HalfEdgeIs ==
    ASSUME NEW g, NEW i, NEW h \in HalfEdges(g, i)
    PROVE  \E e \in EdgeSet(g) : h = <<e, 1>> \/ h = <<e, 2>>
  BY DEF HalfEdges

LEMMA RawNeighborsAre ==
    ASSUME NEW g, IsCore(g), NEW i \in Nodes(g), NEW mode \in {"in", "out"}
    PROVE  RawNeighbors(g, i, mode) =
               {j \in Nodes(g) : \E e \in EdgeSet(g) :
                   Joins(e, i, j) /\ PointsAt(g, e, IF mode = "in" THEN i ELSE j)}
<1> DEFINE told == {j \in Nodes(g) : \E e \in EdgeSet(g) :
                       Joins(e, i, j) /\ PointsAt(g, e, IF mode = "in" THEN i ELSE j)}
           asks(h) == IF mode = "in" THEN MyMark(g, h) = "arrow" ELSE NbrMark(g, h) = "arrow"
<1>1. RawNeighbors(g, i, mode) = {Nbr(h) : h \in {k \in HalfEdges(g, i) : asks(k)}}
  <2>1. CASE mode = "in"
    BY <2>1 DEF RawNeighbors
  <2>2. CASE mode = "out"
    BY <2>2 DEF RawNeighbors
  <2> QED
    BY <2>1, <2>2
<1>2. ASSUME NEW h \in HalfEdges(g, i), asks(h) PROVE Nbr(h) \in told
  <2>1. PICK e \in EdgeSet(g) : h = <<e, 1>> \/ h = <<e, 2>>
    BY HalfEdgeIs
  <2>2. e[1] \in Nodes(g) /\ e[2] \in Nodes(g)
    BY EdgeFacts
  <2>3. CASE h = <<e, 1>>
    <3>1. /\ <<e, 1>> \in HalfEdges(g, i) <=> e[1] = i
          /\ <<e, 2>> \in HalfEdges(g, i) <=> e[2] = i
          /\ Nbr(<<e, 1>>) = e[2] /\ Nbr(<<e, 2>>) = e[1]
          /\ MyMark(g, <<e, 1>>) = SpecOf(g, e).tail /\ MyMark(g, <<e, 2>>) = SpecOf(g, e).head
          /\ NbrMark(g, <<e, 1>>) = SpecOf(g, e).head /\ NbrMark(g, <<e, 2>>) = SpecOf(g, e).tail
      BY HalfEdgeFacts
    <3>2. e[1] = i /\ Nbr(h) = e[2] /\ (IF mode = "in" THEN SpecOf(g, e).tail ELSE SpecOf(g, e).head) = "arrow"
      BY <1>2, <2>3, <3>1
    <3> QED
      BY <2>2, <3>2 DEF Joins, PointsAt
  <2>4. CASE h = <<e, 2>>
    <3>1. /\ <<e, 1>> \in HalfEdges(g, i) <=> e[1] = i
          /\ <<e, 2>> \in HalfEdges(g, i) <=> e[2] = i
          /\ Nbr(<<e, 1>>) = e[2] /\ Nbr(<<e, 2>>) = e[1]
          /\ MyMark(g, <<e, 1>>) = SpecOf(g, e).tail /\ MyMark(g, <<e, 2>>) = SpecOf(g, e).head
          /\ NbrMark(g, <<e, 1>>) = SpecOf(g, e).head /\ NbrMark(g, <<e, 2>>) = SpecOf(g, e).tail
      BY HalfEdgeFacts
    <3>2. e[2] = i /\ Nbr(h) = e[1] /\ (IF mode = "in" THEN SpecOf(g, e).head ELSE SpecOf(g, e).tail) = "arrow"
      BY <1>2, <2>4, <3>1
    <3> QED
      BY <2>2, <3>2 DEF Joins, PointsAt
  <2> QED
    BY <2>1, <2>3, <2>4
<1>3. ASSUME NEW j \in told PROVE \E h \in HalfEdges(g, i) : asks(h) /\ j = Nbr(h)
  <2>1. PICK e \in EdgeSet(g) : Joins(e, i, j) /\ PointsAt(g, e, IF mode = "in" THEN i ELSE j)
    OBVIOUS
  <2>2. /\ (e[1] = i /\ e[2] = j) \/ (e[1] = j /\ e[2] = i)
        /\ \/ e[1] = (IF mode = "in" THEN i ELSE j) /\ SpecOf(g, e).tail = "arrow"
           \/ e[2] = (IF mode = "in" THEN i ELSE j) /\ SpecOf(g, e).head = "arrow"
    BY <2>1 DEF Joins, PointsAt
  <2>3. \/ e[1] = i /\ e[2] = j /\ (IF mode = "in" THEN SpecOf(g, e).tail ELSE SpecOf(g, e).head) = "arrow"
        \/ e[2] = i /\ e[1] = j /\ (IF mode = "in" THEN SpecOf(g, e).head ELSE SpecOf(g, e).tail) = "arrow"
    BY <2>2
  <2>4. CASE e[1] = i /\ e[2] = j /\ (IF mode = "in" THEN SpecOf(g, e).tail ELSE SpecOf(g, e).head) = "arrow"
    <3>1. /\ <<e, 1>> \in HalfEdges(g, i) <=> e[1] = i
          /\ <<e, 2>> \in HalfEdges(g, i) <=> e[2] = i
          /\ Nbr(<<e, 1>>) = e[2] /\ Nbr(<<e, 2>>) = e[1]
          /\ MyMark(g, <<e, 1>>) = SpecOf(g, e).tail /\ MyMark(g, <<e, 2>>) = SpecOf(g, e).head
          /\ NbrMark(g, <<e, 1>>) = SpecOf(g, e).head /\ NbrMark(g, <<e, 2>>) = SpecOf(g, e).tail
      BY HalfEdgeFacts
    <3>2. <<e, 1>> \in HalfEdges(g, i) /\ asks(<<e, 1>>) /\ j = Nbr(<<e, 1>>)
      BY <3>1, <2>4
    <3> QED
      BY <3>2
  <2>5. CASE e[2] = i /\ e[1] = j /\ (IF mode = "in" THEN SpecOf(g, e).head ELSE SpecOf(g, e).tail) = "arrow"
    <3>1. /\ <<e, 1>> \in HalfEdges(g, i) <=> e[1] = i
          /\ <<e, 2>> \in HalfEdges(g, i) <=> e[2] = i
          /\ Nbr(<<e, 1>>) = e[2] /\ Nbr(<<e, 2>>) = e[1]
          /\ MyMark(g, <<e, 1>>) = SpecOf(g, e).tail /\ MyMark(g, <<e, 2>>) = SpecOf(g, e).head
          /\ NbrMark(g, <<e, 1>>) = SpecOf(g, e).head /\ NbrMark(g, <<e, 2>>) = SpecOf(g, e).tail
      BY HalfEdgeFacts
    <3>2. <<e, 2>> \in HalfEdges(g, i) /\ asks(<<e, 2>>) /\ j = Nbr(<<e, 2>>)
      BY <3>1, <2>5
    <3> QED
      BY <3>2
  <2> QED
    BY <2>3, <2>4, <2>5
<1> HIDE DEF told, asks
<1> QED
  BY <1>1, <1>2, <1>3 DEF told

Typed == GraphClass \ {"AUTO", "UNKNOWN"}

LEMMA TypedClasses ==
    ASSUME NEW g, NEW class \in Typed, InClass(g, class)
    PROVE  OnlyClasses(g, {"directed", "undirected", "bidirected"})
<1>1. CASE class \in {"DAG", "UG", "PDAG", "ADMG", "AG"}
  BY <1>1 DEF InClass, IsDag, IsUg, IsPdag, IsAdmg, IsAg, OnlyClasses
<1>2. CASE class \in {"MPDAG", "CPDAG"}
  BY <1>2 DEF InClass, IsMpdag, IsCpdag, IsPdag, OnlyClasses
<1> QED
  BY <1>1, <1>2 DEF Typed, GraphClass

LEMMA BucketsJoin ==
    ASSUME NEW g, IsCore(g), NEW class \in Typed, InClass(g, class), NEW i \in Nodes(g)
    PROVE  Bucket(View(class, g), i, "all") = {j \in Nodes(g) : \E e \in EdgeSet(g) : Joins(e, i, j)}
<1> DEFINE v == View(class, g)
<1>1. Bucket(v, i, "all") = Children(NeighborPairs(v), i)
  BY DEF Bucket
<1>2. NeighborPairs(v) = Arcs(g) \cup Converse(Arcs(g)) \cup Spouses(g) \cup Lines(g)
  BY ViewRelations DEF NeighborPairs
<1>3. /\ Arcs(g) \in SUBSET (Nodes(g) \X Nodes(g)) /\ Lines(g) \in SUBSET (Nodes(g) \X Nodes(g))
      /\ Spouses(g) \in SUBSET (Nodes(g) \X Nodes(g)) /\ Converse(Arcs(g)) \in SUBSET (Nodes(g) \X Nodes(g))
  BY ViewRelations
<1> HIDE DEF v
<1>4. ASSUME NEW j \in Nodes(g), <<i, j>> \in NeighborPairs(v)
      PROVE  \E e \in EdgeSet(g) : Joins(e, i, j)
  <2>1. CASE <<i, j>> \in Arcs(g) \/ <<j, i>> \in Arcs(g)
    BY <2>1 DEF Arcs, Joins
  <2>2. CASE <<i, j>> \in Spouses(g) \/ <<i, j>> \in Lines(g)
    BY <2>2 DEF Spouses, Lines, Pairs, Joins
  <2>3. <<i, j>> \in Converse(Arcs(g)) => <<j, i>> \in Arcs(g)
    BY <1>3 DEF Converse
  <2> QED
    BY <1>2, <1>4, <2>1, <2>2, <2>3
<1>5. ASSUME NEW j \in Nodes(g), NEW e \in EdgeSet(g), Joins(e, i, j)
      PROVE  <<i, j>> \in NeighborPairs(v)
  <2>1. /\ (e[1] = i /\ e[2] = j) \/ (e[1] = j /\ e[2] = i)
        /\ {i, j} = {e[1], e[2]}
    BY <1>5 DEF Joins
  <2>2. SpecOf(g, e).class \in {"directed", "undirected", "bidirected"}
    BY TypedClasses DEF OnlyClasses
  <2>3. CASE SpecOf(g, e).class = "directed"
    <3>1. "arrow" \in {SpecOf(g, e).tail, SpecOf(g, e).head}
      BY <2>3, EdgeFacts
    <3>2. <<i, j>> \in Arcs(g) \/ <<j, i>> \in Arcs(g)
      BY <2>1, <2>3, <3>1 DEF Arcs
    <3>3. <<j, i>> \in Arcs(g) => <<i, j>> \in Converse(Arcs(g))
      BY DEF Converse
    <3> QED
      BY <1>2, <3>2, <3>3
  <2>4. CASE SpecOf(g, e).class = "undirected"
    <3>1. <<i, j>> \in Lines(g)
      BY <2>1, <2>4 DEF Lines, Pairs
    <3> QED
      BY <1>2, <3>1
  <2>5. CASE SpecOf(g, e).class = "bidirected"
    <3>1. <<i, j>> \in Spouses(g)
      BY <2>1, <2>5 DEF Spouses, Pairs
    <3> QED
      BY <1>2, <3>1
  <2> QED
    BY <2>2, <2>3, <2>4, <2>5
<1>6. NeighborPairs(v) \in SUBSET (Nodes(g) \X Nodes(g))
  BY <1>2, <1>3
<1>7. \A j : j \in Children(NeighborPairs(v), i) <=> <<i, j>> \in NeighborPairs(v)
  BY <1>6, ParentsAre
<1>8. \A j : j \in Children(NeighborPairs(v), i) => j \in Nodes(g)
  <2> SUFFICES ASSUME NEW j, j \in Children(NeighborPairs(v), i) PROVE j \in Nodes(g)
    OBVIOUS
  <2>1. <<i, j>> \in Nodes(g) \X Nodes(g)
    BY <1>6, <1>7
  <2> QED
    BY <2>1
<1>9. Children(NeighborPairs(v), i) = {j \in Nodes(g) : \E e \in EdgeSet(g) : Joins(e, i, j)}
  BY <1>4, <1>5, <1>7, <1>8
<1> QED
  BY <1>1, <1>9 DEF v

--------------------------------------------------------------------------------
(* Exogenous nodes *)

LEMMA AloneIffNoStep ==
    ASSUME NEW g, NEW R \in SUBSET (Nodes(g) \X Nodes(g)), NEW i \in Nodes(g)
    PROVE  Along(g, R, i) = {i} /\ <<i, i>> \notin R <=> \A j \in Nodes(g) : <<i, j>> \notin R
<1>1. ASSUME Along(g, R, i) = {i}, <<i, i>> \notin R, NEW j \in Nodes(g), <<i, j>> \in R PROVE FALSE
  <2>1. Reaches(Nodes(g), R, i, j)
    BY <1>1, ArcReaches
  <2>2. j \in Along(g, R, i)
    BY <2>1 DEF Along
  <2> QED
    BY <1>1, <2>2
<1>2. ASSUME \A j \in Nodes(g) : <<i, j>> \notin R, NEW j \in Along(g, R, i) PROVE j = i
  <2>1. {i} \in SUBSET Nodes(g) /\ \A x \in {i}, y \in Nodes(g) : <<x, y>> \in R => y \in {i}
    BY <1>2
  <2>2. Reaches(Nodes(g), R, i, j)
    BY DEF Along
  <2> QED
    BY <2>1, <2>2 DEF Reaches
<1>3. i \in Along(g, R, i)
  BY ReachesItself DEF Along
<1> QED
  BY <1>1, <1>2, <1>3

LEMMA DagHasNoLines ==
    ASSUME NEW g, InClass(g, "DAG")
    PROVE  Lines(g) = {}
<1>1. \A e \in EdgeSet(g) : SpecOf(g, e).class = "directed"
  BY DEF InClass, IsDag, OnlyClasses
<1> QED
  BY <1>1 DEF Lines, Pairs

LEMMA ExogenousAre ==
    ASSUME NEW class \in Typed, class # "UG", NEW g, IsCore(g), InClass(g, class), NEW how \in BOOLEAN
    PROVE  LET v == View(class, g)
               into == PathOf(v, IF how /\ class # "ADMG" THEN "anteriors" ELSE "ancestors")
           IN  ExogenousNodes(v, how) =
                   Ok({i \in Nodes(v) : Along(v, into, i) = {i} /\ <<i, i>> \notin into})
<1> DEFINE v == View(class, g)
           into == PathOf(v, IF how /\ class # "ADMG" THEN "anteriors" ELSE "ancestors")
           N == Nodes(v)
           rootless == {i \in N : Parents(v.arcs, i) = {}}
           lineless == {i \in N : Children(v.lines, i) = {}}
<1>1. /\ v.arcs \in SUBSET (N \X N) /\ v.lines \in SUBSET (N \X N)
      /\ Converse(v.arcs) \in SUBSET (N \X N) /\ v.class = class /\ v.lines = Lines(g)
  BY ViewRelations
<1>2. class = "DAG" => v.lines = {}
  BY <1>1, DagHasNoLines
<1>3. into = IF how /\ class # "ADMG" THEN Converse(v.arcs) \cup v.lines ELSE Converse(v.arcs)
  BY DEF PathOf
<1>4. ExogenousNodes(v, how) = Ok(IF how /\ class \notin {"DAG", "ADMG"} THEN rootless \cap lineless ELSE rootless)
  <2> HIDE DEF v
  <2> QED
    BY <1>1 DEF ExogenousNodes, Typed, GraphClass, PdagFamily
<1> HIDE DEF v, into
<1>5. \A i \in N : Along(v, into, i) = {i} /\ <<i, i>> \notin into <=> \A j \in N : <<i, j>> \notin into
  <2>1. into \in SUBSET (N \X N)
    BY <1>1, <1>3
  <2> QED
    BY <2>1, AloneIffNoStep
<1>6. ASSUME NEW i \in N
      PROVE  /\ i \in rootless <=> \A j \in N : <<i, j>> \notin Converse(v.arcs)
             /\ i \in lineless <=> \A j \in N : <<i, j>> \notin v.lines
  <2>1. \A j \in N : <<i, j>> \in Converse(v.arcs) <=> <<j, i>> \in v.arcs
    BY <1>1 DEF Converse
  <2>2. \A j : j \in Parents(v.arcs, i) <=> <<j, i>> \in v.arcs
    BY <1>1, ParentsAre
  <2>3. \A j : j \in Children(v.lines, i) <=> <<i, j>> \in v.lines
    BY <1>1, ParentsAre
  <2>4. \A j : <<j, i>> \in v.arcs => j \in N
    BY <1>1
  <2>5. \A j : <<i, j>> \in v.lines => j \in N
    BY <1>1
  <2> QED
    BY <2>1, <2>2, <2>3, <2>4, <2>5
<1>7. ASSUME NEW i \in N
      PROVE  i \in (IF how /\ class \notin {"DAG", "ADMG"} THEN rootless \cap lineless ELSE rootless)
             <=> \A j \in N : <<i, j>> \notin into
  <2> HIDE DEF N, rootless, lineless
  <2>1. CASE how /\ class \notin {"DAG", "ADMG"}
    BY <1>3, <1>6, <2>1
  <2>2. CASE class = "DAG"
    BY <1>2, <1>3, <1>6, <2>2
  <2>3. CASE ~ how \/ class = "ADMG"
    BY <1>3, <1>6, <2>3
  <2> QED
    BY <2>1, <2>2, <2>3
<1>8. (IF how /\ class \notin {"DAG", "ADMG"} THEN rootless \cap lineless ELSE rootless)
          = {i \in N : Along(v, into, i) = {i} /\ <<i, i>> \notin into}
  BY <1>5, <1>7
<1> QED
  BY <1>4, <1>8 DEF into, v

--------------------------------------------------------------------------------
(* One question *)

LEMMA SessionFacts ==
    ASSUME NEW s, IsSession(s)
    PROVE  /\ IsCore(s.core) /\ s.core.n \in Nat /\ Naming(s.names, s.core.n)
           /\ Len(s.names) = s.core.n
           /\ s.class \in GraphClass /\ s.class # "AUTO"
           /\ \A v \in s.view : v = View(s.class, s.core) /\ InClass(s.core, s.class)
<1>1. IsCore(s.core) /\ s.core.n \in Nat
  BY DEF IsSession, IsCore
<1>2. Naming(s.names, s.core.n) /\ s.class \in GraphClass /\ s.class # "AUTO"
  BY DEF IsSession, Naming
<1>3. s.view = Wrapped(s.class, {s.core})
  BY DEF IsSession, SessionOf
<1>4. \A v \in Wrapped(s.class, {s.core}) : v = View(s.class, s.core) /\ InClass(s.core, s.class)
  BY DEF Wrapped
<1> QED
  BY <1>1, <1>2, <1>3, <1>4 DEF Naming

Answered(op, how, arg, replies) ==
    /\ session' = session /\ source' = source
    /\ call' = Call(op, how, arg)
    /\ answer' \in replies /\ answer'.ok

LEMMA AskLeads ==
    ASSUME NEW op, NEW how, NEW arg, NEW replies, Ask(op, how, arg, replies)
    PROVE  /\ left > 0 /\ left' = 0 /\ session' = session /\ source' = source
           /\ ~ answer'.ok \/ Answered(op, how, arg, replies)
<1>1. CASE Refused
  BY <1>1 DEF Ask, Refused, Err
<1>2. CASE ~ Refused
  BY <1>2 DEF Ask, Answered
<1> QED
  BY <1>1, <1>2

PathOps == TransitiveOps \cup {"neighbors", "district_of", "districts", "exogenous"}

LEMMA NothingAsked ==
    ASSUME ~ answer'.ok \/ call'.op \notin PathOps
    PROVE  RelationsFollowPaths'
  BY DEF PathOps, TransitiveOps, RelationsFollowPaths, TransitiveFollowPaths, NeighborsFollowMarks,
         DistrictsFollowPaths, ExogenousHaveNoPathIn, Asked

(* What a query told of each node is in the rows of the answer. *)
LEMMA AnsweredRows ==
    ASSUME IsSession(session), NEW op, NEW how, NEW arg, NEW query,
           Answered(op, how, arg, {RunRelationQuery(Names, arg, query)}),
           \A i \in Nodes(Here) : query[i].ok => query[i].value \in SUBSET Nodes(Here),
           NEW r \in Rows'
    PROVE  r[1] \in Nodes(Here) /\ query[r[1]].ok /\ r[2] = query[r[1]].value
<1> DEFINE n == session.core.n
<1>1. n \in Nat /\ Naming(session.names, n) /\ Len(session.names) = n /\ Nodes(Here) = 0 .. (n - 1)
  BY SessionFacts, ViewRelations DEF Here
<1>2. session' = session /\ answer' = RunRelationQuery(session.names, arg, query) /\ answer'.ok
  BY DEF Answered, Names
<1>3. RowsFrom(session.names, n, query, answer'.value)
  BY <1>1, <1>2, QueryRows
<1>4. r \in {<<NameIndex(session.names)[q.node], {NameIndex(session.names)[x] : x \in q.row}>> :
                q \in ToSet(answer'.value)}
  BY <1>2 DEF Rows, IxOf
<1> HIDE DEF n
<1> QED
  BY <1>1, <1>3, <1>4, RowsAre

LEMMA OneView ==
    ASSUME IsSession(session), NEW op, NEW how, NEW arg, NEW replies,
           \A a \in replies : session.view # {},
           Answered(op, how, arg, replies)
    PROVE  session.view = {Here} /\ InClass(session.core, session.class)
<1>1. session.view # {}
  BY DEF Answered
<1> QED
  BY <1>1, SessionFacts DEF Here

LEMMA TransitiveStep ==
    ASSUME IsSession(session), NEW op \in TransitiveOps, NEW open \in BOOLEAN, NEW arg,
           Answered(op, open, arg,
               {RunRelationQuery(Names, arg, [i \in Nodes(v) |-> Opened(open, i, TransitiveQuery(op, v, i))]) :
                   v \in session.view})
    PROVE  RelationsFollowPaths'
<1> DEFINE query == [i \in Nodes(Here) |-> Opened(open, i, TransitiveQuery(op, Here, i))]
<1>1. session.view = {Here} /\ IsCore(session.core)
  BY OneView, SessionFacts
<1>2. Answered(op, open, arg, {RunRelationQuery(Names, arg, query)})
  BY <1>1
<1>3. session' = session /\ call' = Call(op, open, arg) /\ Here' = Here
  BY <1>2 DEF Answered, Here
<1>4. ASSUME NEW i \in Nodes(Here)
      PROVE  LET S == Along(Here, PathOf(Here, op), i) IN
             query[i].ok => /\ query[i].value \in SUBSET S /\ S \in SUBSET Nodes(Here)
                            /\ query[i].value \cup (IF open THEN {i} ELSE {}) = S
  <2> DEFINE S == Along(Here, PathOf(Here, op), i)
             a == TransitiveQuery(op, Here, i)
  <2>1. query[i] = Opened(open, i, a)
    OBVIOUS
  <2>2. a = Err \/ a = Ok(S \ {i})
    <3>1. i \in Nodes(session.core)
      BY <1>1, ViewRelations DEF Here
    <3> QED
      BY <1>1, <3>1, TransitiveAnswers DEF Here
  <2>3. i \in S /\ S \in SUBSET Nodes(Here)
    BY ReachesItself DEF Along
  <2> HIDE DEF S, a, query
  <2>4. query[i].ok => /\ query[i].value \in SUBSET S
                       /\ query[i].value \cup (IF open THEN {i} ELSE {}) = S
    <3> SUFFICES ASSUME Opened(open, i, a).ok
                 PROVE  /\ Opened(open, i, a).value \in SUBSET S
                        /\ Opened(open, i, a).value \cup (IF open THEN {i} ELSE {}) = S
      BY <2>1
    <3> QED
      BY <2>2, <2>3, OpenedFacts
  <2> QED
    BY <2>3, <2>4 DEF S
<1>5. \A i \in Nodes(Here) : query[i].ok => query[i].value \in SUBSET Nodes(Here)
  BY <1>4
<1> HIDE DEF query
<1>6. ASSUME NEW r \in Rows'
      PROVE  r[2] \cup (IF open THEN {r[1]} ELSE {}) = Along(Here, PathOf(Here, op), r[1])
  <2>1. r[1] \in Nodes(Here) /\ query[r[1]].ok /\ r[2] = query[r[1]].value
    BY <1>2, <1>5, AnsweredRows
  <2> QED
    BY <1>4, <2>1
<1>7. call'.op = op /\ call'.how = open
  BY <1>3 DEF Call
<1>8. TransitiveFollowPaths'
  BY <1>3, <1>6, <1>7 DEF TransitiveFollowPaths
<1> QED
  BY <1>7, <1>8 DEF RelationsFollowPaths, NeighborsFollowMarks, DistrictsFollowPaths,
                    ExogenousHaveNoPathIn, Asked, TransitiveOps

LEMMA NeighborsStep ==
    ASSUME IsSession(session), NEW mode \in NeighborMode, NEW arg,
           Answered("neighbors", mode, arg,
               {RunRelationQuery(Names, arg, [i \in Nodes(v) |-> NeighborsOf(v, i, mode)]) : v \in session.view})
    PROVE  RelationsFollowPaths'
<1> DEFINE query == [i \in Nodes(Here) |-> NeighborsOf(Here, i, mode)]
           raw == session.class = "UNKNOWN" /\ mode \in {"in", "out"}
           typed == session.class # "UNKNOWN" /\ mode = "all"
           N == Nodes(Here)
<1>1. session.view = {Here} /\ IsCore(session.core) /\ InClass(session.core, session.class)
  BY OneView, SessionFacts
<1>2. Answered("neighbors", mode, arg, {RunRelationQuery(Names, arg, query)})
  BY <1>1
<1>3. session' = session /\ call' = Call("neighbors", mode, arg) /\ Here' = Here
  BY <1>2 DEF Answered, Here
<1>4. N = Nodes(session.core) /\ Here.core = session.core /\ Here.class = session.class
  BY <1>1, ViewRelations DEF Here
<1>5. ASSUME NEW i \in N, query[i].ok
      PROVE  /\ raw => query[i].value = {j \in N : \E e \in EdgeSet(session.core) :
                           Joins(e, i, j) /\ PointsAt(session.core, e, IF mode = "in" THEN i ELSE j)}
             /\ typed => query[i].value = {j \in N : \E e \in EdgeSet(session.core) : Joins(e, i, j)}
  <2>1. query[i] = NeighborsOf(Here, i, mode)
    OBVIOUS
  <2>2. query[i].value = IF session.class = "UNKNOWN" THEN RawNeighbors(session.core, i, mode)
                         ELSE Bucket(Here, i, mode)
    <3> HIDE DEF query
    <3> QED
      BY <1>4, <1>5, <2>1 DEF NeighborsOf, Ok, Err
  <2> HIDE DEF query
  <2>3. ASSUME raw
        PROVE  query[i].value = {j \in N : \E e \in EdgeSet(session.core) :
                   Joins(e, i, j) /\ PointsAt(session.core, e, IF mode = "in" THEN i ELSE j)}
    <3>1. query[i].value = RawNeighbors(session.core, i, mode)
      BY <2>2, <2>3
    <3>2. i \in Nodes(session.core)
      BY <1>4
    <3> QED
      BY <1>1, <1>4, <2>3, <3>1, <3>2, RawNeighborsAre
  <2>4. ASSUME typed
        PROVE  query[i].value = {j \in N : \E e \in EdgeSet(session.core) : Joins(e, i, j)}
    <3>1. query[i].value = Bucket(Here, i, "all")
      BY <2>2, <2>4
    <3>2. i \in Nodes(session.core)
      BY <1>4
    <3>3. session.class \in Typed
      BY <2>4, SessionFacts DEF Typed
    <3> QED
      BY <1>1, <1>4, <3>1, <3>2, <3>3, BucketsJoin DEF Here
  <2> QED
    BY <2>3, <2>4
<1> HIDE DEF query
<1>6. (raw \/ typed) => \A i \in N : query[i].ok => query[i].value \in SUBSET N
  BY <1>5
<1>7. ASSUME raw \/ typed, NEW r \in Rows'
      PROVE  r[1] \in N /\ query[r[1]].ok /\ r[2] = query[r[1]].value
  BY <1>2, <1>6, <1>7, AnsweredRows
<1>8. raw => \A r \in Rows' :
          r[2] = {j \in N : \E e \in EdgeSet(session.core) :
                     Joins(e, r[1], j) /\ PointsAt(session.core, e, IF mode = "in" THEN r[1] ELSE j)}
  BY <1>5, <1>7
<1>9. typed => \A r \in Rows' :
          r[2] = {j \in N : \E e \in EdgeSet(session.core) : Joins(e, r[1], j)}
  BY <1>5, <1>7
<1>10. call'.op = "neighbors" /\ call'.how = mode
  BY <1>3 DEF Call
<1>11. NeighborsFollowMarks'
  BY <1>3, <1>8, <1>9, <1>10 DEF NeighborsFollowMarks
<1> QED
  BY <1>10, <1>11 DEF RelationsFollowPaths, TransitiveFollowPaths, DistrictsFollowPaths,
                      ExogenousHaveNoPathIn, Asked

LEMMA DistrictOfStep ==
    ASSUME IsSession(session), NEW arg,
           Answered("district_of", {}, arg,
               {RunRelationQuery(Names, arg, [i \in Nodes(v) |-> DistrictOf(v, i)]) : v \in session.view})
    PROVE  RelationsFollowPaths'
<1> DEFINE query == [i \in Nodes(Here) |-> DistrictOf(Here, i)]
<1>1. session.view = {Here} /\ IsCore(session.core)
  BY OneView, SessionFacts
<1>2. Answered("district_of", {}, arg, {RunRelationQuery(Names, arg, query)})
  BY <1>1
<1>3. session' = session /\ call' = Call("district_of", {}, arg) /\ Here' = Here
  BY <1>2 DEF Answered, Here
<1>4. ASSUME NEW i \in Nodes(Here), query[i].ok
      PROVE  query[i].value = Along(Here, Here.spouses, i)
  <2>1. query[i] = DistrictOf(Here, i)
    OBVIOUS
  <2>2. District(Here, i) = Along(Here, Here.spouses, i)
    BY <1>1, DistrictClasses DEF Here
  <2> HIDE DEF query
  <2> QED
    BY <1>4, <2>1, <2>2 DEF DistrictOf, Ok, Err
<1>5. \A i \in Nodes(Here) : query[i].ok => query[i].value \in SUBSET Nodes(Here)
  BY <1>4 DEF Along
<1> HIDE DEF query
<1>6. \A r \in Rows' : r[2] = Along(Here, Here.spouses, r[1])
  BY <1>2, <1>4, <1>5, AnsweredRows
<1>7. call'.op = "district_of"
  BY <1>3 DEF Call
<1>8. DistrictsFollowPaths'
  BY <1>3, <1>6, <1>7 DEF DistrictsFollowPaths, Asked
<1> QED
  BY <1>7, <1>8 DEF RelationsFollowPaths, TransitiveFollowPaths, NeighborsFollowMarks,
                    ExogenousHaveNoPathIn, Asked

LEMMA DistrictsStep ==
    ASSUME IsSession(session),
           Answered("districts", {}, {},
               {IF DistrictsOf(v).ok THEN Ok({ToNames(Names, D) : D \in DistrictsOf(v).value}) ELSE Err :
                   v \in session.view})
    PROVE  RelationsFollowPaths'
<1>1. session.view = {Here} /\ IsCore(session.core)
  BY OneView, SessionFacts
<1>2. /\ session' = session /\ call' = Call("districts", {}, {}) /\ Here' = Here /\ answer'.ok
      /\ answer' = IF DistrictsOf(Here).ok
                   THEN Ok({ToNames(Names, D) : D \in DistrictsOf(Here).value}) ELSE Err
  BY <1>1 DEF Answered, Here
<1>3. DistrictsOf(Here).ok /\ answer'.value = {ToNames(session.names, D) : D \in DistrictsOf(Here).value}
  BY <1>2 DEF Ok, Err, Names
<1>4. /\ Here.n \in Nat /\ Nodes(Here) = 0 .. (Here.n - 1)
      /\ Classes(Nodes(Here), [i \in Nodes(Here) |-> District(Here, i)])
      /\ \A i \in Nodes(Here) : District(Here, i) = Along(Here, Here.spouses, i)
  BY <1>1, ViewRelations, DistrictClasses DEF Here
<1>5. DistrictsOf(Here).value \in {AdmgDistricts(Here), AgDistricts(Here)}
  BY <1>3 DEF DistrictsOf, Ok, Err
<1>6. DistrictsOf(Here).value = {District(Here, i) : i \in Nodes(Here)}
  BY <1>4, <1>5, AdmgDistrictsAre, AgDistrictsAre DEF OfSize
<1>7. answer'.value = {ToNames(session.names, Along(Here, Here.spouses, i)) : i \in Nodes(Here)}
  BY <1>3, <1>4, <1>6
<1>8. call'.op = "districts"
  BY <1>2 DEF Call
<1>9. DistrictsFollowPaths'
  BY <1>2, <1>7, <1>8 DEF DistrictsFollowPaths, Asked
<1> QED
  BY <1>8, <1>9 DEF RelationsFollowPaths, TransitiveFollowPaths, NeighborsFollowMarks,
                    ExogenousHaveNoPathIn, Asked

LEMMA ExogenousStep ==
    ASSUME IsSession(session), NEW how \in BOOLEAN,
           Answered("exogenous", how, {},
               {IF ExogenousNodes(v, how).ok
                THEN Ok(ToNames(Names, ExogenousNodes(v, how).value)) ELSE Err : v \in session.view})
    PROVE  RelationsFollowPaths'
<1> DEFINE into == PathOf(Here, IF how /\ session.class # "ADMG" THEN "anteriors" ELSE "ancestors")
<1>1. session.view = {Here} /\ IsCore(session.core) /\ InClass(session.core, session.class)
  BY OneView, SessionFacts
<1>2. /\ session' = session /\ call' = Call("exogenous", how, {}) /\ Here' = Here /\ answer'.ok
      /\ answer' = IF ExogenousNodes(Here, how).ok
                   THEN Ok(ToNames(Names, ExogenousNodes(Here, how).value)) ELSE Err
  BY <1>1 DEF Answered, Here
<1>3. ExogenousNodes(Here, how).ok /\ answer'.value = ToNames(session.names, ExogenousNodes(Here, how).value)
  BY <1>2 DEF Ok, Err, Names
<1>4. Here.class = session.class
  BY <1>1, ViewRelations DEF Here
<1>5. session.class # "UNKNOWN"
  <2>1. ASSUME Here.class = "UNKNOWN" PROVE ExogenousNodes(Here, how) = Err
    BY <2>1 DEF ExogenousNodes, PdagFamily
  <2> QED
    BY <1>3, <1>4, <2>1 DEF Err
<1>6. session.class \in Typed
  BY <1>5, SessionFacts DEF Typed
<1>7. ASSUME session.class # "UG"
      PROVE  ExogenousNodes(Here, how).value =
                 {i \in Nodes(Here) : Along(Here, into, i) = {i} /\ <<i, i>> \notin into}
  <2>1. ExogenousNodes(Here, how) =
            Ok({i \in Nodes(Here) : Along(Here, into, i) = {i} /\ <<i, i>> \notin into})
    BY <1>1, <1>6, <1>7, ExogenousAre DEF Here
  <2> HIDE DEF into
  <2> QED
    BY <2>1 DEF Ok
<1>8. call'.op = "exogenous" /\ call'.how = how
  BY <1>2 DEF Call
<1>9. ExogenousHaveNoPathIn'
  BY <1>2, <1>3, <1>7, <1>8 DEF ExogenousHaveNoPathIn, Asked
<1> QED
  BY <1>8, <1>9 DEF RelationsFollowPaths, TransitiveFollowPaths, NeighborsFollowMarks,
                    DistrictsFollowPaths, Asked

--------------------------------------------------------------------------------
(* Sequences, and loops that run a number of times. *)

LEMMA ListFacts ==
    ASSUME NEW S, IsFiniteSet(S), NEW R, StrictOrder(S, R)
    PROVE  /\ InOrder(S, R) \in Seq(S) /\ Len(InOrder(S, R)) = Cardinality(S)
           /\ IsInjective(InOrder(S, R)) /\ ToSet(InOrder(S, R)) = S
<1> DEFINE c == Cardinality(S)
           s == InOrder(S, R)
<1>2. StrictOrder(S, R)
  OBVIOUS
<1>3. c \in Nat
  BY FS_CardinalityType
<1> HIDE DEF c
<1>4. s \in [1 .. c -> S] /\ \A x \in S : \E k \in 1 .. c : s[k] = x
  BY <1>2, InOrderFacts DEF c
<1>5. \A i, j \in 1 .. c : s[i] = s[j] => i = j
  BY <1>2, InOrderIsInjective DEF c
<1> HIDE DEF s
<1>6. s \in Seq(S) /\ DOMAIN s = 1 .. c /\ Len(s) = c
  BY <1>3, <1>4
<1>7. IsInjective(s)
  BY <1>5, <1>6 DEF IsInjective
<1>8. ToSet(s) = S
  <2>1. ToSet(s) = {s[k] : k \in 1 .. c}
    BY <1>6 DEF ToSet
  <2>2. \A k \in 1 .. c : s[k] \in S
    BY <1>4
  <2> QED
    BY <1>4, <2>1, <2>2
<1> QED
  BY <1>6, <1>7, <1>8 DEF c, s

LEMMA SortedSeqFacts ==
    ASSUME NEW S \in SUBSET Nat, IsFiniteSet(S)
    PROVE  /\ SortedSeq(S) \in Seq(S) /\ Len(SortedSeq(S)) = Cardinality(S)
           /\ IsInjective(SortedSeq(S)) /\ ToSet(SortedSeq(S)) = S
BY NumbersAreOrdered, ListFacts DEF SortedSeq

LEMMA InRowOrderFacts ==
    ASSUME NEW g, IsCore(g), NEW S \in SUBSET Nodes(g), IsFiniteSet(S)
    PROVE  /\ InRowOrder(g, S) \in Seq(S)
           /\ IsInjective(InRowOrder(g, S)) /\ ToSet(InRowOrder(g, S)) = S
<1> DEFINE R == {p \in S \X S : g.place[p[1]] < g.place[p[2]]}
<1>1. /\ \A x \in S : g.place[x] \in Int
      /\ \A x, y \in S : g.place[x] = g.place[y] => x = y
  BY DEF IsCore, RowOrders, IsInjective, Nodes
<1>2. \A x, y \in S : <<x, y>> \in R <=> g.place[x] < g.place[y]
  OBVIOUS
<1> HIDE DEF R
<1>3. StrictOrder(S, R)
  BY <1>1, <1>2 DEF StrictOrder
<1> QED
  BY <1>3, ListFacts DEF InRowOrder, R

LEMMA ConcatInjective ==
    ASSUME NEW T, NEW s \in Seq(T), NEW t \in Seq(T), IsInjective(s), IsInjective(t),
           ToSet(s) \cap ToSet(t) = {}
    PROVE  IsInjective(s \o t)
<1>1. DOMAIN (s \o t) = 1 .. (Len(s) + Len(t)) /\ DOMAIN s = 1 .. Len(s) /\ DOMAIN t = 1 .. Len(t)
      /\ Len(s) \in Nat /\ Len(t) \in Nat
  OBVIOUS
<1>2. \A i \in DOMAIN (s \o t) :
          \/ i \in DOMAIN s /\ (s \o t)[i] = s[i]
          \/ i \notin DOMAIN s /\ i - Len(s) \in DOMAIN t /\ (s \o t)[i] = t[i - Len(s)]
  BY <1>1
<1>3. \A i \in DOMAIN s, j \in DOMAIN t : s[i] # t[j]
  BY DEF ToSet
<1>4. ASSUME NEW i \in DOMAIN (s \o t), NEW j \in DOMAIN (s \o t), (s \o t)[i] = (s \o t)[j] PROVE i = j
  <2>1. CASE i \in DOMAIN s /\ j \in DOMAIN s
    <3>1. s[i] = s[j]
      BY <1>2, <1>4, <2>1
    <3> QED
      BY <2>1, <3>1 DEF IsInjective
  <2>2. CASE i \notin DOMAIN s /\ j \notin DOMAIN s
    <3>1. t[i - Len(s)] = t[j - Len(s)] /\ i - Len(s) \in DOMAIN t /\ j - Len(s) \in DOMAIN t
      BY <1>2, <1>4, <2>2
    <3>2. i - Len(s) = j - Len(s)
      BY <3>1 DEF IsInjective
    <3> QED
      BY <1>1, <3>2
  <2>3. CASE (i \in DOMAIN s) # (j \in DOMAIN s)
    BY <1>2, <1>3, <1>4, <2>3
  <2> QED
    BY <2>1, <2>2, <2>3
<1> QED
  BY <1>4 DEF IsInjective

LEMMA PopFacts ==
    ASSUME NEW T, NEW s \in Seq(T), s # <<>>, IsInjective(s)
    PROVE  /\ Last(s) \in T /\ Last(s) \in ToSet(s)
           /\ Front(s) \in Seq(T) /\ IsInjective(Front(s))
           /\ ToSet(Front(s)) = ToSet(s) \ {Last(s)}
<1> DEFINE n == Len(s)
<1>1. n \in Nat /\ n >= 1 /\ DOMAIN s = 1 .. n
  OBVIOUS
<1>2. Last(s) = s[n] /\ n \in DOMAIN s
  BY <1>1 DEF Last
<1>3. Front(s) = SubSeq(s, 1, n - 1)
  BY DEF Front
<1>4. Front(s) \in Seq(T) /\ DOMAIN Front(s) = 1 .. (n - 1) /\ \A i \in 1 .. (n - 1) : Front(s)[i] = s[i]
  BY <1>1, <1>3
<1> HIDE DEF n
<1>5. 1 .. (n - 1) = (1 .. n) \ {n}
  BY <1>1
<1>6. \A i \in 1 .. (n - 1) : i \in DOMAIN s /\ s[i] # s[n]
  BY <1>1, <1>2, <1>5 DEF IsInjective
<1>7. IsInjective(Front(s))
  BY <1>4, <1>6 DEF IsInjective
<1>8. ToSet(Front(s)) = ToSet(s) \ {Last(s)}
  BY <1>1, <1>2, <1>4, <1>5, <1>6 DEF ToSet
<1>9. Last(s) \in T /\ Last(s) \in ToSet(s)
  BY <1>2 DEF ToSet
<1> QED
  BY <1>4, <1>7, <1>8, <1>9

LEMMA InjectiveLength ==
    ASSUME NEW T, IsFiniteSet(T), NEW s \in Seq(T), IsInjective(s), ToSet(s) = T
    PROVE  Len(s) = Cardinality(T)
<1>1. Len(s) \in Nat /\ DOMAIN s = 1 .. Len(s) /\ s \in [1 .. Len(s) -> T]
  OBVIOUS
<1>2. \A y \in T : \E i \in 1 .. Len(s) : s[i] = y
  BY <1>1 DEF ToSet
<1>3. s \in Surjection(1 .. Len(s), T) /\ s \in Injection(1 .. Len(s), T)
  BY <1>1, <1>2 DEF Surjection, Injection, IsInjective
<1>4. IsFiniteSet(1 .. Len(s)) /\ Cardinality(1 .. Len(s)) = Len(s)
  BY <1>1, UpTo
<1> QED
  BY <1>3, <1>4, FS_Surjection

Iterates(S, F, x, n, f) ==
    f \in [0 .. n -> S] /\ f[0] = x /\ \A k \in 1 .. n : f[k] = F[f[k - 1]]

LEMMA IterationExists ==
    ASSUME NEW S, NEW F \in [S -> S], NEW x \in S, NEW n \in Nat
    PROVE  \E f : Iterates(S, F, x, n, f)
<1> DEFINE runs(m, f) == f \in [0 .. m -> S] /\ f[0] = x /\ \A k \in 1 .. m : f[k] = F[f[k - 1]]
           bad == {m \in 0 .. n : ~ \E f : runs(m, f)}
<1> SUFFICES ASSUME bad # {} PROVE FALSE
  <2>1. n \in 0 .. n
    OBVIOUS
  <2> QED
    BY <2>1 DEF Iterates
<1>1. PICK m \in bad : \A j \in bad : m <= j
  <2>1. bad \in SUBSET Nat /\ IsFiniteSet(bad)
    <3>1. IsFiniteSet(0 .. n) /\ bad \in SUBSET (0 .. n)
      BY FS_Interval
    <3> QED
      BY <3>1, FS_Subset
  <2> HIDE DEF bad
  <2> QED
    BY <2>1, Least
<1>2. m \in 0 .. n /\ ~ \E f : runs(m, f)
  OBVIOUS
<1>3. CASE m = 0
  <2> DEFINE f == [k \in 0 .. 0 |-> x]
  <2>1. runs(0, f)
    OBVIOUS
  <2> QED
    BY <1>2, <1>3, <2>1
<1>4. CASE m # 0
  <2>1. m - 1 \in 0 .. n /\ m \in Nat /\ m >= 1
    BY <1>2, <1>4
  <2>2. m - 1 \notin bad
    <3> HIDE DEF bad
    <3> QED
      BY <1>1, <2>1
  <2>3. PICK g : runs(m - 1, g)
    BY <2>1, <2>2
  <2> DEFINE f == [k \in 0 .. m |-> IF k = m THEN F[g[m - 1]] ELSE g[k]]
  <2>4. g[m - 1] \in S
    BY <2>1, <2>3
  <2>5. f \in [0 .. m -> S]
    BY <2>1, <2>3, <2>4
  <2>6. f[0] = x
    BY <2>1, <2>3
  <2>7. ASSUME NEW k \in 1 .. m PROVE f[k] = F[f[k - 1]]
    <3>1. k - 1 \in 0 .. m /\ k - 1 # m /\ f[k - 1] = g[k - 1]
      BY <2>1
    <3>2. CASE k = m
      BY <3>1, <3>2
    <3>3. CASE k # m
      <4>1. k \in 1 .. (m - 1) /\ f[k] = g[k]
        BY <2>1, <3>3
      <4> QED
        BY <2>3, <3>1, <4>1
    <3> QED
      BY <3>2, <3>3
  <2>8. runs(m, f)
    <3> HIDE DEF f
    <3> QED
      BY <2>5, <2>6, <2>7
  <2> QED
    BY <1>2, <2>8
<1> QED
  BY <1>3, <1>4

--------------------------------------------------------------------------------
(* The topological order *)

(* The half-edges that bring an arc to v: all, those from u, and those from *)
(* nodes that are not yet in the order.                                     *)
Into(g, v) == {h \in DirectedHalves(g, v) : MyMark(g, h) = "arrow"}
From(g, u, v) == {h \in Into(g, v) : Nbr(h) = u}
Waiting(g, O, v) == {h \in Into(g, v) : Nbr(h) \notin O}

LEMMA IntoArcs ==
    ASSUME NEW g, IsCore(g), NEW u \in Nodes(g), NEW v \in Nodes(g)
    PROVE  From(g, u, v) # {} <=> <<u, v>> \in Arcs(g)
<1>1. ASSUME NEW h \in From(g, u, v) PROVE <<u, v>> \in Arcs(g)
  <2>1. /\ h \in HalfEdges(g, v) /\ SpecOf(g, h[1]).class = "directed"
        /\ MyMark(g, h) = "arrow" /\ Nbr(h) = u
    BY DEF From, Into, DirectedHalves
  <2>2. PICK e \in EdgeSet(g) : h = <<e, 1>> \/ h = <<e, 2>>
    BY <2>1, HalfEdgeIs
  <2>3. SpecOf(g, e).class = "directed"
    BY <2>1, <2>2
  <2>6. /\ <<e, 1>> \in HalfEdges(g, v) <=> e[1] = v
        /\ <<e, 2>> \in HalfEdges(g, v) <=> e[2] = v
        /\ Nbr(<<e, 1>>) = e[2] /\ Nbr(<<e, 2>>) = e[1]
        /\ MyMark(g, <<e, 1>>) = SpecOf(g, e).tail /\ MyMark(g, <<e, 2>>) = SpecOf(g, e).head
    BY HalfEdgeFacts
  <2>4. CASE h = <<e, 1>>
    <3>1. e[1] = v /\ e[2] = u /\ SpecOf(g, e).tail = "arrow"
      BY <2>1, <2>4, <2>6
    <3> QED
      BY <2>3, <3>1 DEF Arcs
  <2>5. CASE h = <<e, 2>>
    <3>1. e[2] = v /\ e[1] = u /\ SpecOf(g, e).head = "arrow"
      BY <2>1, <2>5, <2>6
    <3> QED
      BY <2>3, <3>1 DEF Arcs
  <2> QED
    BY <2>2, <2>4, <2>5
<1>2. ASSUME <<u, v>> \in Arcs(g) PROVE From(g, u, v) # {}
  <2>1. PICK e \in EdgeSet(g) :
            /\ SpecOf(g, e).class = "directed"
            /\ \/ SpecOf(g, e).head = "arrow" /\ <<u, v>> = <<e[1], e[2]>>
               \/ SpecOf(g, e).tail = "arrow" /\ <<u, v>> = <<e[2], e[1]>>
    BY <1>2 DEF Arcs
  <2>2. CASE SpecOf(g, e).head = "arrow" /\ <<u, v>> = <<e[1], e[2]>>
    <3>1. <<e, 2>> \in HalfEdges(g, v) /\ MyMark(g, <<e, 2>>) = "arrow" /\ Nbr(<<e, 2>>) = u
      BY <2>2, HalfEdgeFacts
    <3>2. <<e, 2>> \in From(g, u, v)
      BY <2>1, <3>1 DEF From, Into, DirectedHalves
    <3> QED
      BY <3>2
  <2>3. CASE SpecOf(g, e).tail = "arrow" /\ <<u, v>> = <<e[2], e[1]>>
    <3>1. <<e, 1>> \in HalfEdges(g, v) /\ MyMark(g, <<e, 1>>) = "arrow" /\ Nbr(<<e, 1>>) = u
      BY <2>3, HalfEdgeFacts
    <3>2. <<e, 1>> \in From(g, u, v)
      BY <2>1, <3>1 DEF From, Into, DirectedHalves
    <3> QED
      BY <3>2
  <2> QED
    BY <2>1, <2>2, <2>3
<1> QED
  BY <1>1, <1>2

LEMMA EdgesAreFinite ==
    ASSUME NEW g, IsCore(g)
    PROVE  IsFiniteSet(EdgeSet(g))
<1>1. IsFiniteSet(Nodes(g)) /\ IsFiniteSet(DOMAIN g.registry)
  BY ViewRelations DEF IsCore
<1>2. IsFiniteSet((Nodes(g) \X Nodes(g)) \X DOMAIN g.registry)
  <2>1. IsFiniteSet(Nodes(g) \X Nodes(g))
    BY <1>1, FS_Product
  <2> QED
    BY <1>1, <2>1, FS_Product
<1> DEFINE f == [e \in EdgeSet(g) |-> <<<<e[1], e[2]>>, e[3]>>]
<1>3. \A e \in EdgeSet(g) : /\ e \in Nodes(g) \X Nodes(g) \X DOMAIN g.registry
                            /\ e = <<e[1], e[2], e[3]>>
  BY EdgeFacts
<1>4. f \in [EdgeSet(g) -> (Nodes(g) \X Nodes(g)) \X DOMAIN g.registry]
  BY <1>3
<1>5. ASSUME NEW d \in EdgeSet(g), NEW e \in EdgeSet(g), f[d] = f[e] PROVE d = e
  <2>1. <<<<d[1], d[2]>>, d[3]>> = <<<<e[1], e[2]>>, e[3]>>
    BY <1>5
  <2>2. d[1] = e[1] /\ d[2] = e[2] /\ d[3] = e[3]
    BY <2>1
  <2> QED
    BY <1>3, <2>2
<1>6. f \in Injection(EdgeSet(g), (Nodes(g) \X Nodes(g)) \X DOMAIN g.registry)
  BY <1>4, <1>5 DEF Injection, IsInjective
<1> QED
  BY <1>2, <1>6, FS_Injection

LEMMA HalvesAreFinite ==
    ASSUME NEW g, IsCore(g), NEW v
    PROVE  IsFiniteSet(HalfEdges(g, v)) /\ IsFiniteSet(Into(g, v)) /\ \A h \in Into(g, v) : Nbr(h) \in Nodes(g)
<1>2. IsFiniteSet(EdgeSet(g))
  BY EdgesAreFinite
<1>3. IsFiniteSet({1, 2})
  <2>1. IsFiniteSet({1}) /\ {1} \cup {2} = {1, 2}
    BY FS_Singleton
  <2>2. IsFiniteSet({1} \cup {2})
    BY <2>1, FS_AddElement
  <2> QED
    BY <2>1, <2>2
<1>4. IsFiniteSet(EdgeSet(g) \X {1, 2})
  BY <1>2, <1>3, FS_Product
<1>5. HalfEdges(g, v) \in SUBSET (EdgeSet(g) \X {1, 2}) /\ Into(g, v) \in SUBSET HalfEdges(g, v)
  BY DEF HalfEdges, Into, DirectedHalves
<1>6. IsFiniteSet(HalfEdges(g, v)) /\ IsFiniteSet(Into(g, v))
  BY <1>4, <1>5, FS_Subset
<1>7. ASSUME NEW h \in Into(g, v) PROVE Nbr(h) \in Nodes(g)
  <2>1. PICK e \in EdgeSet(g) : h = <<e, 1>> \/ h = <<e, 2>>
    BY <1>5, HalfEdgeIs
  <2>2. Nbr(<<e, 1>>) = e[2] /\ Nbr(<<e, 2>>) = e[1]
    BY HalfEdgeFacts
  <2>3. e[1] \in Nodes(g) /\ e[2] \in Nodes(g)
    BY EdgeFacts
  <2> QED
    BY <2>1, <2>2, <2>3
<1> QED
  BY <1>6, <1>7

LEMMA OutgoingIs ==
    ASSUME NEW g, IsCore(g), NEW u, NEW v
    PROVE  Outgoing(g, u, v) = Cardinality(From(g, u, v))
<1> DEFINE out == {h \in DirectedHalves(g, u) : NbrMark(g, h) = "arrow" /\ Nbr(h) = v}
           flip(h) == <<h[1], 3 - h[2]>>
           f == [h \in From(g, u, v) |-> flip(h)]
<1>1. Outgoing(g, u, v) = Cardinality(out)
  BY DEF Outgoing
<1>2. ASSUME NEW e \in EdgeSet(g)
      PROVE  /\ flip(<<e, 1>>) = <<e, 2>> /\ flip(<<e, 2>>) = <<e, 1>>
             /\ <<e, 1>> \in out <=> /\ SpecOf(g, e).class = "directed" /\ SpecOf(g, e).head = "arrow"
                                     /\ e[1] = u /\ e[2] = v
             /\ <<e, 2>> \in out <=> /\ SpecOf(g, e).class = "directed" /\ SpecOf(g, e).tail = "arrow"
                                     /\ e[2] = u /\ e[1] = v
             /\ <<e, 1>> \in From(g, u, v) <=> /\ SpecOf(g, e).class = "directed"
                                               /\ SpecOf(g, e).tail = "arrow" /\ e[1] = v /\ e[2] = u
             /\ <<e, 2>> \in From(g, u, v) <=> /\ SpecOf(g, e).class = "directed"
                                               /\ SpecOf(g, e).head = "arrow" /\ e[2] = v /\ e[1] = u
  <2>1. flip(<<e, 1>>) = <<e, 2>> /\ flip(<<e, 2>>) = <<e, 1>>
    OBVIOUS
  <2>2. /\ <<e, 1>> \in HalfEdges(g, u) <=> e[1] = u
        /\ <<e, 2>> \in HalfEdges(g, u) <=> e[2] = u
        /\ <<e, 1>> \in HalfEdges(g, v) <=> e[1] = v
        /\ <<e, 2>> \in HalfEdges(g, v) <=> e[2] = v
        /\ Nbr(<<e, 1>>) = e[2] /\ Nbr(<<e, 2>>) = e[1]
        /\ MyMark(g, <<e, 1>>) = SpecOf(g, e).tail /\ MyMark(g, <<e, 2>>) = SpecOf(g, e).head
        /\ NbrMark(g, <<e, 1>>) = SpecOf(g, e).head /\ NbrMark(g, <<e, 2>>) = SpecOf(g, e).tail
    BY HalfEdgeFacts
  <2>3. <<e, 1>>[1] = e /\ <<e, 2>>[1] = e
    OBVIOUS
  <2> HIDE DEF flip
  <2> QED
    BY <2>1, <2>2, <2>3 DEF From, Into, DirectedHalves
<1>3. \A h \in From(g, u, v) \cup out : \E e \in EdgeSet(g) : h = <<e, 1>> \/ h = <<e, 2>>
  BY HalfEdgeIs DEF From, Into, DirectedHalves
<1> HIDE DEF flip, out
<1>4. ASSUME NEW h \in From(g, u, v) PROVE flip(h) \in out /\ flip(flip(h)) = h
  <2>1. PICK e \in EdgeSet(g) : h = <<e, 1>> \/ h = <<e, 2>>
    BY <1>3
  <2> QED
    BY <1>2, <2>1
<1>5. ASSUME NEW h \in out PROVE flip(h) \in From(g, u, v) /\ flip(flip(h)) = h
  <2>1. PICK e \in EdgeSet(g) : h = <<e, 1>> \/ h = <<e, 2>>
    BY <1>3
  <2> QED
    BY <1>2, <2>1
<1>6. f \in Surjection(From(g, u, v), out)
  BY <1>4, <1>5 DEF Surjection
<1>7. f \in Injection(From(g, u, v), out)
  <2>1. \A a, b \in From(g, u, v) : f[a] = f[b] => a = b
    BY <1>4
  <2> QED
    BY <1>4, <2>1 DEF Injection, IsInjective
<1>8. IsFiniteSet(From(g, u, v))
  <2>1. From(g, u, v) \in SUBSET Into(g, v)
    BY DEF From
  <2> QED
    BY <2>1, HalvesAreFinite, FS_Subset
<1> QED
  BY <1>1, <1>6, <1>7, <1>8, FS_Surjection

(* What every turn of the sort keeps: the stack holds the nodes that wait   *)
(* for none but those in the order, and in the order parents come first.    *)
SortStates(g) == [stack : Seq(Nodes(g)), indeg : [Nodes(g) -> Int], order : Seq(Nodes(g))]

ParentsFirst(g, order) ==
    \A j \in DOMAIN order, p \in Nodes(g) :
        <<p, order[j]>> \in Arcs(g) => \E i \in DOMAIN order : i < j /\ order[i] = p

SortInv(g, s) ==
    /\ s \in SortStates(g)
    /\ IsInjective(s.order) /\ IsInjective(s.stack)
    /\ ToSet(s.stack) = {v \in Nodes(g) \ ToSet(s.order) : Waiting(g, ToSet(s.order), v) = {}}
    /\ \A v \in Nodes(g) : s.indeg[v] = Cardinality(Waiting(g, ToSet(s.order), v))
    /\ ParentsFirst(g, s.order)

LEMMA WaitingFacts ==
    ASSUME NEW g, IsCore(g), NEW O, NEW u \in Nodes(g), u \notin O, NEW v \in Nodes(g)
    PROVE  /\ IsFiniteSet(Waiting(g, O, v)) /\ Cardinality(Waiting(g, O, v)) \in Nat
           /\ Cardinality(Waiting(g, O, v)) = 0 <=> Waiting(g, O, v) = {}
           /\ Outgoing(g, u, v) \in Nat /\ (Outgoing(g, u, v) = 0 <=> From(g, u, v) = {})
           /\ Waiting(g, O \cup {u}, v) = Waiting(g, O, v) \ From(g, u, v)
           /\ From(g, u, v) \subseteq Waiting(g, O, v)
           /\ Cardinality(Waiting(g, O \cup {u}, v)) = Cardinality(Waiting(g, O, v)) - Outgoing(g, u, v)
<1>1. IsFiniteSet(Into(g, v))
  BY HalvesAreFinite
<1>2. Waiting(g, O, v) \in SUBSET Into(g, v) /\ From(g, u, v) \in SUBSET Into(g, v)
  BY DEF Waiting, From
<1>3. IsFiniteSet(Waiting(g, O, v)) /\ IsFiniteSet(From(g, u, v))
  BY <1>1, <1>2, FS_Subset
<1>4. /\ Cardinality(Waiting(g, O, v)) \in Nat /\ Cardinality(From(g, u, v)) \in Nat
      /\ Cardinality(Waiting(g, O, v)) = 0 <=> Waiting(g, O, v) = {}
      /\ Cardinality(From(g, u, v)) = 0 <=> From(g, u, v) = {}
  BY <1>3, FS_CardinalityType, FS_EmptySet
<1>5. Outgoing(g, u, v) = Cardinality(From(g, u, v))
  BY OutgoingIs
<1>6. Waiting(g, O \cup {u}, v) = Waiting(g, O, v) \ From(g, u, v)
  BY DEF Waiting, From
<1>7. From(g, u, v) \subseteq Waiting(g, O, v)
  BY DEF Waiting, From
<1>8. Waiting(g, O, v) \cap From(g, u, v) = From(g, u, v)
  BY <1>7
<1>9. Cardinality(Waiting(g, O \cup {u}, v)) = Cardinality(Waiting(g, O, v)) - Cardinality(From(g, u, v))
  BY <1>3, <1>6, <1>8, FS_Difference
<1> QED
  BY <1>3, <1>4, <1>5, <1>6, <1>7, <1>9

LEMMA SortStarts ==
    ASSUME NEW g, IsCore(g)
    PROVE  SortInv(g, SortStart(g))
<1> DEFINE N == Nodes(g)
           free == {v \in N : InDegree(g, v) = 0}
           s == SortStart(g)
<1>1. N \in SUBSET Nat /\ IsFiniteSet(N)
  <2>1. N = 0 .. (g.n - 1) /\ IsFiniteSet(N) /\ g.n \in Nat
    BY ViewRelations
  <2> QED
    BY <2>1
<1>2. free \in SUBSET Nat /\ IsFiniteSet(free) /\ free \in SUBSET N
  BY <1>1, FS_Subset
<1>3. ASSUME NEW v \in N
      PROVE  /\ Waiting(g, {}, v) = Into(g, v)
             /\ InDegree(g, v) = Cardinality(Waiting(g, {}, v)) /\ InDegree(g, v) \in Nat
             /\ InDegree(g, v) = 0 <=> Waiting(g, {}, v) = {}
  <2>1. Waiting(g, {}, v) = Into(g, v)
    BY DEF Waiting
  <2>2. InDegree(g, v) = Cardinality(Into(g, v))
    BY DEF InDegree, Into
  <2>3. Cardinality(Waiting(g, {}, v)) \in Nat /\ (Cardinality(Waiting(g, {}, v)) = 0 <=> Waiting(g, {}, v) = {})
    BY WaitingFacts
  <2> QED
    BY <2>1, <2>2, <2>3
<1>4. SortedSeq(free) \in Seq(free) /\ IsInjective(SortedSeq(free)) /\ ToSet(SortedSeq(free)) = free
  <2> HIDE DEF free
  <2> QED
    BY <1>2, SortedSeqFacts
<1>5. s = [stack |-> SortedSeq(free), indeg |-> [v \in N |-> InDegree(g, v)], order |-> <<>>]
  BY DEF SortStart
<1>6. ToSet(<<>>) = {} /\ IsInjective(<<>>) /\ ParentsFirst(g, <<>>) /\ <<>> \in Seq(N)
  BY DEF ToSet, IsInjective, ParentsFirst
<1>7. free = {v \in N \ {} : Waiting(g, {}, v) = {}}
  BY <1>3
<1>8. [v \in N |-> InDegree(g, v)] \in [N -> Int]
  BY <1>3
<1> DEFINE q == SortedSeq(free)
<1>9. q \in Seq(N)
  BY <1>2, <1>4
<1> HIDE DEF s, q, free, N
<1>10. s \in [stack : Seq(N), indeg : [N -> Int], order : Seq(N)]
  BY <1>5, <1>6, <1>8, <1>9 DEF q
<1>11. s.stack = q /\ s.order = <<>> /\ s.indeg = [v \in N |-> InDegree(g, v)]
  BY <1>5 DEF q
<1> QED
  BY <1>3, <1>4, <1>6, <1>7, <1>10, <1>11 DEF SortInv, SortStates, s, q, N

(* As long as a node is missing in the order, one waits on the stack.       *)
LEMMA NeverStuck ==
    ASSUME NEW g, IsCore(g), Acyclic(Nodes(g), Arcs(g)), NEW s, SortInv(g, s), s.stack = <<>>
    PROVE  ToSet(s.order) = Nodes(g)
<1> DEFINE N == Nodes(g)
           O == ToSet(s.order)
           rest == N \ O
<1>1. s.order \in Seq(N)
  BY DEF SortInv, SortStates
<1>2. O \in SUBSET N
  BY <1>1 DEF ToSet
<1> SUFFICES ASSUME rest # {} PROVE FALSE
  BY <1>2
<1>3. PICK x \in rest : \A y \in rest : <<y, x>> \notin Arcs(g)
  BY DEF Acyclic
<1>4. Waiting(g, O, x) = {}
  <2> SUFFICES ASSUME NEW h \in Waiting(g, O, x) PROVE FALSE
    OBVIOUS
  <2>1. h \in Into(g, x) /\ Nbr(h) \notin O
    BY DEF Waiting
  <2>2. Nbr(h) \in N
    BY <2>1, HalvesAreFinite
  <2>3. h \in From(g, Nbr(h), x)
    BY <2>1 DEF From
  <2>4. <<Nbr(h), x>> \in Arcs(g)
    BY <1>3, <2>2, <2>3, IntoArcs
  <2> QED
    BY <1>3, <2>1, <2>2, <2>4
<1>5. x \in ToSet(s.stack)
  BY <1>3, <1>4 DEF SortInv
<1> QED
  BY <1>5 DEF ToSet

LEMMA AppendedParentsFirst ==
    ASSUME NEW g, IsCore(g), NEW order \in Seq(Nodes(g)), ParentsFirst(g, order), NEW u \in Nodes(g),
           \A p \in Nodes(g) : <<p, u>> \in Arcs(g) => p \in ToSet(order)
    PROVE  ParentsFirst(g, Append(order, u))
<1> DEFINE longer == Append(order, u)
           n == Len(order)
<1>1. /\ n \in Nat /\ DOMAIN order = 1 .. n /\ DOMAIN longer = 1 .. (n + 1)
      /\ longer[n + 1] = u /\ \A i \in 1 .. n : longer[i] = order[i]
  OBVIOUS
<1> HIDE DEF longer, n
<1>2. ASSUME NEW j \in DOMAIN longer, NEW p \in Nodes(g), <<p, longer[j]>> \in Arcs(g)
      PROVE  \E i \in DOMAIN longer : i < j /\ longer[i] = p
  <2>1. CASE j = n + 1
    <3>1. PICK i \in 1 .. n : order[i] = p
      BY <1>1, <1>2, <2>1 DEF ToSet
    <3> QED
      BY <1>1, <2>1, <3>1
  <2>2. CASE j # n + 1
    <3>1. j \in 1 .. n /\ longer[j] = order[j]
      BY <1>1, <2>2
    <3>2. PICK i \in 1 .. n : i < j /\ order[i] = p
      BY <1>1, <1>2, <3>1 DEF ParentsFirst
    <3> QED
      BY <1>1, <3>2
  <2> QED
    BY <2>1, <2>2
<1> QED
  BY <1>2 DEF ParentsFirst, longer

(* Nodes in the order wait for nobody. *)
LEMMA OrderedWaitForNone ==
    ASSUME NEW g, IsCore(g), NEW s, SortInv(g, s), NEW v \in ToSet(s.order)
    PROVE  Waiting(g, ToSet(s.order), v) = {} /\ v \in Nodes(g)
<1>1. s.order \in Seq(Nodes(g)) /\ ParentsFirst(g, s.order)
  BY DEF SortInv, SortStates
<1>2. PICK j \in DOMAIN s.order : v = s.order[j]
  BY DEF ToSet
<1>3. v \in Nodes(g)
  BY <1>1, <1>2
<1>4. ASSUME NEW h \in Waiting(g, ToSet(s.order), v) PROVE FALSE
  <2>1. h \in Into(g, v) /\ Nbr(h) \notin ToSet(s.order)
    BY DEF Waiting
  <2>2. Nbr(h) \in Nodes(g)
    BY <2>1, HalvesAreFinite
  <2>3. h \in From(g, Nbr(h), v)
    BY <2>1 DEF From
  <2>4. <<Nbr(h), v>> \in Arcs(g)
    BY <1>3, <2>2, <2>3, IntoArcs
  <2>5. \E i \in DOMAIN s.order : s.order[i] = Nbr(h)
    BY <1>1, <1>2, <2>2, <2>4 DEF ParentsFirst
  <2> QED
    BY <2>1, <2>5 DEF ToSet
<1> QED
  BY <1>3, <1>4

LEMMA SortPops ==
    ASSUME NEW g, IsCore(g), Acyclic(Nodes(g), Arcs(g)), NEW s, SortInv(g, s), s.stack # <<>>
    PROVE  SortInv(g, SortPop(g, s)) /\ Len(SortPop(g, s).order) = Len(s.order) + 1
<1> DEFINE N == Nodes(g)
           O == ToSet(s.order)
           u == Last(s.stack)
           P == O \cup {u}
           fewer == [v \in N |-> s.indeg[v] - Outgoing(g, u, v)]
           free == {v \in N : Outgoing(g, u, v) > 0 /\ fewer[v] = 0}
           stack == Front(s.stack) \o InRowOrder(g, free)
           order == Append(s.order, u)
           t == SortPop(g, s)
<1>1. t = [stack |-> stack, indeg |-> fewer, order |-> order]
  BY DEF SortPop
<1>2. /\ s.stack \in Seq(N) /\ s.order \in Seq(N) /\ s.indeg \in [N -> Int]
      /\ IsInjective(s.order) /\ IsInjective(s.stack)
      /\ ToSet(s.stack) = {v \in N \ O : Waiting(g, O, v) = {}}
      /\ \A v \in N : s.indeg[v] = Cardinality(Waiting(g, O, v))
      /\ ParentsFirst(g, s.order)
  BY DEF SortInv, SortStates
<1>3. /\ u \in N /\ u \in ToSet(s.stack) /\ Front(s.stack) \in Seq(N) /\ IsInjective(Front(s.stack))
      /\ ToSet(Front(s.stack)) = ToSet(s.stack) \ {u}
  BY <1>2, PopFacts
<1>4. u \notin O /\ Waiting(g, O, u) = {}
  BY <1>2, <1>3
<1>5. order \in Seq(N) /\ ToSet(order) = P /\ IsInjective(order) /\ Len(order) = Len(s.order) + 1
  BY <1>2, <1>3, <1>4, AppendFacts
<1>6. N \in SUBSET Nat /\ IsFiniteSet(N)
  <2>1. N = 0 .. (g.n - 1) /\ IsFiniteSet(N) /\ g.n \in Nat
    BY ViewRelations
  <2> QED
    BY <2>1
<1> HIDE DEF N, O, u, order, t
<1>7. ASSUME NEW v \in N
      PROVE  /\ Outgoing(g, u, v) \in Nat /\ (Outgoing(g, u, v) = 0 <=> From(g, u, v) = {})
             /\ Waiting(g, P, v) = Waiting(g, O, v) \ From(g, u, v)
             /\ From(g, u, v) \subseteq Waiting(g, O, v)
             /\ fewer[v] = Cardinality(Waiting(g, P, v)) /\ fewer[v] \in Int
             /\ fewer[v] = 0 <=> Waiting(g, P, v) = {}
  <2>1. /\ Outgoing(g, u, v) \in Nat /\ (Outgoing(g, u, v) = 0 <=> From(g, u, v) = {})
        /\ Waiting(g, P, v) = Waiting(g, O, v) \ From(g, u, v)
        /\ From(g, u, v) \subseteq Waiting(g, O, v)
        /\ Cardinality(Waiting(g, P, v)) = Cardinality(Waiting(g, O, v)) - Outgoing(g, u, v)
        /\ Cardinality(Waiting(g, O, v)) \in Nat
    BY <1>3, <1>4, WaitingFacts DEF N
  <2>2. fewer[v] = Cardinality(Waiting(g, P, v)) /\ fewer[v] \in Int
    BY <1>2, <2>1
  <2>3. Cardinality(Waiting(g, P, v)) = 0 <=> Waiting(g, P, v) = {}
    <3>1. IsFiniteSet(Waiting(g, O, v))
      BY <1>3, <1>4, WaitingFacts DEF N
    <3>2. Waiting(g, P, v) \in SUBSET Waiting(g, O, v)
      BY <2>1
    <3>3. IsFiniteSet(Waiting(g, P, v))
      BY <3>1, <3>2, FS_Subset
    <3> QED
      BY <3>3, FS_EmptySet
  <2> HIDE DEF fewer, P
  <2> QED
    BY <2>1, <2>2, <2>3
<1>8. From(g, u, u) = {}
  BY <1>3, <1>4, <1>7
<1> HIDE DEF P
<1>9. ASSUME NEW v \in N
      PROVE  v \in free <=> v \notin P /\ Waiting(g, P, v) = {} /\ Waiting(g, O, v) # {}
  <2>1. v \in free <=> From(g, u, v) # {} /\ Waiting(g, P, v) = {}
    <3> HIDE DEF fewer
    <3> QED
      BY <1>7
  <2>2. v \in O => Waiting(g, O, v) = {}
    BY OrderedWaitForNone DEF O
  <2>3. From(g, u, v) # {} => Waiting(g, O, v) # {} /\ v # u
    BY <1>7, <1>8
  <2>4. Waiting(g, P, v) = {} /\ Waiting(g, O, v) # {} => From(g, u, v) # {}
    BY <1>7
  <2> QED
    BY <2>1, <2>2, <2>3, <2>4 DEF P
<1> HIDE DEF fewer
<1>10. free \in SUBSET N
  OBVIOUS
<1> HIDE DEF free
<1>11. InRowOrder(g, free) \in Seq(N) /\ IsInjective(InRowOrder(g, free)) /\ ToSet(InRowOrder(g, free)) = free
  <2>1. free \in SUBSET Nodes(g) /\ IsFiniteSet(free)
    BY <1>6, <1>10, FS_Subset DEF N
  <2>2. InRowOrder(g, free) \in Seq(free) /\ IsInjective(InRowOrder(g, free)) /\ ToSet(InRowOrder(g, free)) = free
    BY <2>1, InRowOrderFacts
  <2> QED
    BY <1>10, <2>2
<1>12. stack \in Seq(N) /\ ToSet(stack) = ToSet(Front(s.stack)) \cup free
  BY <1>3, <1>11, ConcatSet
<1>13. ToSet(Front(s.stack)) \cap free = {}
  BY <1>2, <1>3, <1>9, <1>10
<1>14. IsInjective(stack)
  BY <1>3, <1>11, <1>13, ConcatInjective
<1>15. ToSet(stack) = {v \in N \ P : Waiting(g, P, v) = {}}
  <2>1. ASSUME NEW v \in N \ P, Waiting(g, P, v) = {} PROVE v \in ToSet(stack)
    <3>1. CASE Waiting(g, O, v) = {}
      BY <1>2, <1>3, <1>12, <2>1, <3>1 DEF P
    <3>2. CASE Waiting(g, O, v) # {}
      BY <1>9, <1>12, <2>1, <3>2
    <3> QED
      BY <3>1, <3>2
  <2>2. ASSUME NEW v \in ToSet(stack) PROVE v \in N \ P /\ Waiting(g, P, v) = {}
    <3>1. CASE v \in free
      BY <1>9, <1>10, <3>1
    <3>2. CASE v \in ToSet(Front(s.stack))
      <4>1. v \in N \ O /\ Waiting(g, O, v) = {} /\ v # u
        BY <1>2, <1>3, <3>2
      <4> QED
        BY <1>7, <4>1 DEF P
    <3> QED
      BY <1>12, <2>2, <3>1, <3>2
  <2> HIDE DEF stack
  <2> QED
    BY <2>1, <2>2
<1>16. ParentsFirst(g, order)
  <2>1. ASSUME NEW p \in N, <<p, u>> \in Arcs(g) PROVE p \in O
    <3>1. PICK h \in Into(g, u) : Nbr(h) = p
      BY <1>3, <2>1, IntoArcs DEF N, From
    <3> QED
      BY <1>4, <3>1 DEF Waiting
  <2> QED
    BY <1>2, <1>3, <2>1, AppendedParentsFirst DEF N, O, order
<1> HIDE DEF stack
<1>17. fewer \in [N -> Int]
  BY <1>7 DEF fewer
<1>18. t.stack = stack /\ t.indeg = fewer /\ t.order = order /\ t \in [stack : Seq(N), indeg : [N -> Int], order : Seq(N)]
  BY <1>1, <1>5, <1>12, <1>17
<1> QED
  BY <1>5, <1>7, <1>14, <1>15, <1>16, <1>18 DEF SortInv, SortStates, N, t

LEMMA CoreNodes ==
    ASSUME NEW g, IsCore(g)
    PROVE  /\ g.n \in Nat /\ Nodes(g) = 0 .. (g.n - 1) /\ Nodes(g) \in SUBSET Nat
           /\ IsFiniteSet(Nodes(g)) /\ Cardinality(Nodes(g)) = g.n
<1>1. g.n \in Nat /\ Nodes(g) = 0 .. (g.n - 1)
  BY DEF IsCore, Nodes
<1> DEFINE n == g.n
<1> HIDE DEF n
<1>2. n \in Nat /\ 0 \in Int /\ n - 1 \in Int
  BY <1>1 DEF n
<1>3. IsFiniteSet(0 .. (n - 1)) /\ Cardinality(0 .. (n - 1)) = n
  <2>1. /\ IsFiniteSet(0 .. (n - 1))
        /\ Cardinality(0 .. (n - 1)) = IF 0 > n - 1 THEN 0 ELSE (n - 1) - 0 + 1
    BY <1>2, FS_Interval
  <2> QED
    BY <1>2, <2>1
<1>4. 0 .. (n - 1) \in SUBSET Nat
  BY <1>2
<1> QED
  BY <1>1, <1>3, <1>4 DEF n

(* The loop: a function of how many nodes it has taken off the stack.       *)
Runs(g, f) ==
    f = [k \in 0 .. g.n |-> IF k = 0 THEN SortStart(g) ELSE SortTurn(g, f[k - 1])]

LEMMA TurnsKeepInv ==
    ASSUME NEW g, IsCore(g), Acyclic(Nodes(g), Arcs(g)), NEW s, SortInv(g, s)
    PROVE  SortInv(g, SortTurn(g, s))
<1>1. CASE s.stack = <<>>
  BY <1>1 DEF SortTurn
<1>2. CASE s.stack # <<>>
  BY <1>2, SortPops DEF SortTurn
<1> QED
  BY <1>1, <1>2

LEMMA RunsExist ==
    ASSUME NEW g, IsCore(g), Acyclic(Nodes(g), Arcs(g))
    PROVE  \E f : Runs(g, f)
<1> DEFINE S == {s \in SortStates(g) : SortInv(g, s)}
           F == [s \in S |-> SortTurn(g, s)]
           x == SortStart(g)
<1>1. g.n \in Nat
  BY CoreNodes
<1>2. \A s : s \in S <=> SortInv(g, s)
  BY DEF SortInv
<1> HIDE DEF S
<1>3. F \in [S -> S]
  BY <1>2, TurnsKeepInv
<1>4. x \in S
  BY <1>2, SortStarts
<1> HIDE DEF F, x
<1>5. PICK f \in [0 .. g.n -> S] : f[0] = x /\ \A k \in 1 .. g.n : f[k] = F[f[k - 1]]
  <2>1. \E f : Iterates(S, F, x, g.n, f)
    BY <1>1, <1>3, <1>4, IterationExists
  <2> QED
    BY <2>1 DEF Iterates
<1>6. ASSUME NEW k \in 0 .. g.n
      PROVE  f[k] = IF k = 0 THEN SortStart(g) ELSE SortTurn(g, f[k - 1])
  <2>1. CASE k = 0
    BY <1>5, <2>1 DEF x
  <2>2. CASE k # 0
    <3>1. k \in 1 .. g.n /\ k - 1 \in 0 .. g.n
      BY <1>1, <2>2
    <3>2. f[k] = F[f[k - 1]] /\ f[k - 1] \in S
      BY <1>5, <3>1
    <3> QED
      BY <2>2, <3>2 DEF F
  <2> QED
    BY <2>1, <2>2
<1>7. f = [k \in 0 .. g.n |-> f[k]]
  BY <1>5
<1> QED
  BY <1>6, <1>7, Zenon DEF Runs

LEMMA RunsTakeOne ==
    ASSUME NEW g, IsCore(g), Acyclic(Nodes(g), Arcs(g)), NEW f, Runs(g, f)
    PROVE  \A k \in 0 .. g.n : SortInv(g, f[k]) /\ Len(f[k].order) = k
<1> DEFINE n == g.n
           good(k) == SortInv(g, f[k]) /\ Len(f[k].order) = k
           bad == {k \in 0 .. n : ~ good(k)}
<1>1. n \in Nat /\ Nodes(g) = 0 .. (n - 1)
  BY CoreNodes
<1> SUFFICES ASSUME bad # {} PROVE FALSE
  OBVIOUS
<1>2. PICK k \in bad : \A j \in bad : k <= j
  <2>1. bad \in SUBSET Nat /\ IsFiniteSet(bad)
    <3>1. IsFiniteSet(0 .. n)
      <4> HIDE DEF n
      <4>1. 0 \in Int /\ n \in Int
        BY <1>1
      <4> QED
        BY <4>1, FS_Interval
    <3>2. bad \in SUBSET (0 .. n) /\ 0 .. n \in SUBSET Nat
      <4> HIDE DEF n, good
      <4> QED
        BY <1>1
    <3> HIDE DEF bad
    <3> QED
      BY <3>1, <3>2, FS_Subset
  <2> HIDE DEF bad
  <2> QED
    BY <2>1, Least
<1>3. k \in 0 .. n /\ ~ good(k)
  OBVIOUS
<1>4. f[k] = IF k = 0 THEN SortStart(g) ELSE SortTurn(g, f[k - 1])
  BY <1>3, Zenon DEF Runs
<1>5. CASE k = 0
  <2>1. SortStart(g).order = <<>>
    BY DEF SortStart
  <2> QED
    BY <1>3, <1>4, <1>5, <2>1, SortStarts
<1>6. CASE k # 0
  <2>1. k - 1 \in 0 .. n /\ k \in 1 .. n
    BY <1>1, <1>3, <1>6
  <2>2. k - 1 \notin bad
    <3> HIDE DEF bad
    <3> QED
      BY <1>1, <1>2, <2>1
  <2> DEFINE s == f[k - 1]
  <2>3. SortInv(g, s) /\ Len(s.order) = k - 1
    BY <2>1, <2>2
  <2>4. s.stack # <<>>
    <3> SUFFICES ASSUME s.stack = <<>> PROVE FALSE
      OBVIOUS
    <3>1. ToSet(s.order) = Nodes(g) /\ s.order \in Seq(Nodes(g)) /\ IsInjective(s.order)
      BY <2>3, NeverStuck DEF SortInv, SortStates
    <3>2. IsFiniteSet(Nodes(g)) /\ Cardinality(Nodes(g)) = n
      BY CoreNodes
    <3>3. Len(s.order) = n
      BY <3>1, <3>2, InjectiveLength
    <3> QED
      BY <1>1, <2>1, <2>3, <3>3
  <2>5. f[k] = SortPop(g, s)
    BY <1>4, <1>6, <2>4 DEF SortTurn
  <2>6. SortInv(g, f[k]) /\ Len(f[k].order) = (k - 1) + 1
    BY <2>3, <2>4, <2>5, SortPops
  <2> QED
    BY <1>3, <2>1, <2>6
<1> QED
  BY <1>5, <1>6

LEMMA TopologicalSortIs ==
    ASSUME NEW g, IsCore(g), Acyclic(Nodes(g), Arcs(g))
    PROVE  LET order == TopologicalSort(g) IN
           /\ order \in Seq(Nodes(g)) /\ Len(order) = g.n /\ IsInjective(order)
           /\ ToSet(order) = Nodes(g) /\ ParentsFirst(g, order)
<1> DEFINE run == CHOOSE f : Runs(g, f)
           order == TopologicalSort(g)
<1>1. order = run[g.n].order
  BY DEF TopologicalSort, Runs
<1>2. Runs(g, run)
  BY RunsExist
<1>0. g.n \in Nat /\ IsFiniteSet(Nodes(g)) /\ Cardinality(Nodes(g)) = g.n
  BY CoreNodes
<1>3. g.n \in 0 .. g.n
  BY <1>0
<1> HIDE DEF run, order
<1>4. SortInv(g, run[g.n]) /\ Len(run[g.n].order) = g.n
  BY <1>2, <1>3, RunsTakeOne
<1>5. order \in Seq(Nodes(g)) /\ Len(order) = g.n /\ IsInjective(order) /\ ParentsFirst(g, order)
  BY <1>1, <1>4 DEF SortInv, SortStates
<1>6. ToSet(order) = Nodes(g)
  <2>2. order \in [1 .. g.n -> Nodes(g)] /\ DOMAIN order = 1 .. g.n
    BY <1>5
  <2>3. order \in Injection(1 .. g.n, Nodes(g))
    BY <1>5, <2>2 DEF Injection, IsInjective
  <2>4. IsFiniteSet(1 .. g.n) /\ Cardinality(1 .. g.n) = g.n
    BY <1>0, UpTo
  <2>5. order \in Surjection(1 .. g.n, Nodes(g))
    BY <1>0, <2>3, <2>4, FS_Injection
  <2> QED
    BY <2>2, <2>5 DEF ToSet, Surjection
<1> QED
  BY <1>5, <1>6 DEF order

LEMMA NothingSorted ==
    ASSUME ~ answer'.ok \/ call'.op # "topological_sort"
    PROVE  TopologicalOrder'
  BY DEF TopologicalOrder, Asked

LEMMA SelectedNames ==
    ASSUME NEW n \in Nat, NEW names, Naming(names, n),
           NEW keep \in Seq(0 .. (n - 1)), IsInjective(keep)
    PROVE  /\ Naming(SelectNames(keep, names), Len(keep))
           /\ \A i \in DOMAIN keep : SelectNames(keep, names)[i] = names[keep[i] + 1]
<1> DEFINE t == SelectNames(keep, names)
           m == Len(keep)
<1>1. m \in Nat /\ DOMAIN keep = 1 .. m /\ \A i \in 1 .. m : keep[i] \in 0 .. (n - 1)
  OBVIOUS
<1>2. t = [i \in 1 .. m |-> names[keep[i] + 1]]
  BY <1>1 DEF SelectNames
<1> HIDE DEF t, m
<1>3. DOMAIN t = 1 .. m /\ \A i \in 1 .. m : t[i] = names[keep[i] + 1]
  BY <1>2
<1>4. ToSet(t) = {t[i] : i \in 1 .. m}
  BY <1>3 DEF ToSet
<1>5. t \in [1 .. m -> ToSet(t)]
  BY <1>2, <1>3, <1>4
<1>6. t \in Seq(ToSet(t)) /\ Len(t) = m
  BY <1>1, <1>5
<1>7. IsInjective(t)
  <2> SUFFICES ASSUME NEW i \in 1 .. m, NEW j \in 1 .. m, t[i] = t[j] PROVE i = j
    BY <1>3 DEF IsInjective
  <2>1. keep[i] + 1 \in DOMAIN names /\ keep[j] + 1 \in DOMAIN names
    BY <1>1, NamesAre
  <2>2. keep[i] + 1 = keep[j] + 1
    BY <1>3, <2>1 DEF Naming, IsInjective
  <2>3. keep[i] = keep[j]
    BY <1>1, <2>2
  <2> QED
    BY <1>1, <2>3 DEF IsInjective
<1> QED
  BY <1>1, <1>3, <1>6, <1>7 DEF Naming, t, m

LEMMA TopologicalStep ==
    ASSUME IsSession(session), AskTopologicalSort
    PROVE  TopologicalOrder'
<1> DEFINE replies == {IF TopologicalSortOf(v).ok
                       THEN Ok(SelectNames(TopologicalSortOf(v).value, Names)) ELSE Err : v \in session.view}
           g == session.core
<1>1. ~ answer'.ok \/ Answered("topological_sort", {}, {}, replies)
  BY AskLeads DEF AskTopologicalSort
<1>2. CASE ~ answer'.ok
  BY <1>2, NothingSorted
<1>3. CASE Answered("topological_sort", {}, {}, replies)
  <2>1. session.view = {Here} /\ InClass(g, session.class) /\ IsCore(g)
    BY <1>3, OneView, SessionFacts
  <2>2. /\ session' = session /\ Here' = Here /\ answer'.ok
        /\ answer' = IF TopologicalSortOf(Here).ok
                     THEN Ok(SelectNames(TopologicalSortOf(Here).value, Names)) ELSE Err
    BY <1>3, <2>1 DEF Answered, Here
  <2>3. Here.class = session.class /\ Here.core = g /\ Here.arcs = Arcs(g)
    BY <2>1, ViewRelations DEF Here
  <2>4. TopologicalSortOf(Here).ok /\ answer'.value = SelectNames(TopologicalSortOf(Here).value, session.names)
    BY <2>2 DEF Ok, Err, Names
  <2>5. session.class = "DAG" /\ TopologicalSortOf(Here).value = TopologicalSort(g)
    BY <2>3, <2>4 DEF TopologicalSortOf, Ok, Err
  <2>6. Acyclic(Nodes(g), Arcs(g))
    BY <2>1, <2>5 DEF InClass, IsDag
  <2> DEFINE order == TopologicalSort(g)
             names == session.names
             n == g.n
  <2>7. /\ order \in Seq(Nodes(g)) /\ Len(order) = n /\ IsInjective(order)
        /\ ToSet(order) = Nodes(g) /\ ParentsFirst(g, order)
    BY <2>1, <2>6, TopologicalSortIs
  <2>8. n \in Nat /\ Nodes(g) = 0 .. (n - 1) /\ Naming(names, n)
    BY <2>1, CoreNodes, SessionFacts
  <2> DEFINE v == SelectNames(order, names)
  <2> HIDE DEF order, names, n
  <2>9. Naming(v, Len(order)) /\ \A i \in DOMAIN order : v[i] = names[order[i] + 1]
    BY <2>7, <2>8, SelectedNames
  <2>10. Len(v) = n /\ DOMAIN v = DOMAIN order
    BY <2>7, <2>9 DEF Naming
  <2> HIDE DEF v
  <2>11. ASSUME NEW a \in Arcs(g)
         PROVE  \E i, j \in DOMAIN v : i < j /\ v[i] = names[a[1] + 1] /\ v[j] = names[a[2] + 1]
    <3>1. a = <<a[1], a[2]>> /\ a[1] \in Nodes(g) /\ a[2] \in Nodes(g)
      BY DEF Arcs
    <3>2. PICK j \in DOMAIN order : order[j] = a[2]
      BY <2>7, <3>1 DEF ToSet
    <3>3. PICK i \in DOMAIN order : i < j /\ order[i] = a[1]
      BY <2>7, <3>1, <3>2 DEF ParentsFirst
    <3> QED
      BY <2>9, <2>10, <3>2, <3>3
  <2>12. answer'.value = v
    BY <2>4, <2>5 DEF v, order, names
  <2> QED
    BY <2>2, <2>3, <2>10, <2>11, <2>12 DEF TopologicalOrder, names, n
<1> QED
  BY <1>1, <1>2, <1>3

--------------------------------------------------------------------------------
(* Sessions made of views *)

(* A view of a core with a name for each node. *)
ViewOfSession(v, names) ==
    \E class \in GraphClass \ {"AUTO"} : \E g :
        IsCore(g) /\ v = View(class, g) /\ Naming(names, g.n)

Over(n, R) == R \in SUBSET ((0 .. (n - 1)) \X (0 .. (n - 1)))

EdgesOver(n, registry) == (0 .. (n - 1)) \X (0 .. (n - 1)) \X DOMAIN registry

LinksOver(n, registry, links) == DOMAIN links \in SUBSET EdgesOver(n, registry)

LEMMA SmallerCore ==
    ASSUME NEW g, IsCore(g), NEW simple, NEW n \in Nat, NEW links,
           LinksOver(n, g.registry, links)
    PROVE  IsCore(Compile(n, simple, g.registry, links))
<1> DEFINE c == Compile(n, simple, g.registry, links)
<1>1. c.n = n /\ c.simple = simple /\ c.registry = g.registry /\ c.links = links
  BY DEF Compile
<1>2. c = Reordered(c.place, Compile(c.n, c.simple, c.registry, c.links))
      /\ c.place \in RowOrders(c.n)
  <2>1. c.place = [v \in 0 .. (n - 1) |-> v]
    BY DEF Compile
  <2>2. c.place \in RowOrders(n)
    BY <2>1, SortedIsOrder
  <2>3. c = Reordered(c.place, c)
    BY DEF Compile, Reordered
  <2> QED
    BY <1>1, <2>2, <2>3
<1> HIDE DEF c
<1>3. Nodes(c) = 0 .. (n - 1) /\ EdgeSet(c) = DOMAIN links
  BY <1>1 DEF Nodes, EdgeSet
<1>4. IsCore(c)
  BY <1>1, <1>2, <1>3 DEF IsCore, EdgesOver, LinksOver
<1> QED
  BY <1>1, <1>3, <1>4 DEF c

CoreOfSize(c, n) == IsCore(c) /\ c.n = n

LEMMA CoreFromIs ==
    ASSUME NEW g, IsCore(g), NEW simple, NEW n \in Nat,
           NEW arcs, NEW spouses, NEW lines, Over(n, arcs), Over(n, spouses), Over(n, lines),
           NEW c \in CoreFrom(g.registry, simple, n, arcs, spouses, lines)
    PROVE  CoreOfSize(c, n)
<1> DEFINE N == 0 .. (n - 1)
           D == DOMAIN g.registry
           once(R) == {p \in R : p[1] < p[2]}
<1> DEFINE X == CodeFor(g.registry, "directed", "-->")
           Y == CodeFor(g.registry, "bidirected", "<->")
           Z == CodeFor(g.registry, "undirected", "---")
           core(d, b, u) ==
               Compile(n, simple, g.registry,
                   [e \in Links(arcs, d) \cup Links(once(spouses), b) \cup Links(once(lines), u) |-> 1])
<1>0. CoreFrom(g.registry, simple, n, arcs, spouses, lines) = {core(d, b, u) : d \in X, b \in Y, u \in Z}
  BY DEF CoreFrom
<1>1. PICK d \in X, b \in Y, u \in Z : c = core(d, b, u)
  <2> HIDE DEF core, X, Y, Z
  <2> QED
    BY <1>0
<1>2. d \in D /\ b \in D /\ u \in D
  BY DEF CodeFor
<1>3. ASSUME NEW R \in SUBSET (N \X N), NEW k \in D PROVE Links(R, k) \in SUBSET (N \X N \X D)
  <2> HIDE DEF N, D
  <2>1. \A p \in R : <<p[1], p[2], k>> \in N \X N \X D
    OBVIOUS
  <2> QED
    BY <2>1 DEF Links
<1>4. arcs \in SUBSET (N \X N) /\ once(spouses) \in SUBSET (N \X N) /\ once(lines) \in SUBSET (N \X N)
  BY DEF Over
<1> DEFINE L == Links(arcs, d) \cup Links(once(spouses), b) \cup Links(once(lines), u)
           links == [e \in L |-> 1]
<1>5. L \in SUBSET (N \X N \X D)
  <2>1. Links(arcs, d) \in SUBSET (N \X N \X D)
    BY <1>2, <1>3, <1>4
  <2>2. Links(once(spouses), b) \in SUBSET (N \X N \X D)
    BY <1>2, <1>3, <1>4
  <2>3. Links(once(lines), u) \in SUBSET (N \X N \X D)
    BY <1>2, <1>3, <1>4
  <2> HIDE DEF once, N, D
  <2> QED
    BY <2>1, <2>2, <2>3
<1>6. c = Compile(n, simple, g.registry, links)
  BY <1>1
<1>7. DOMAIN links = L
  OBVIOUS
<1> HIDE DEF links, L
<1>8. LinksOver(n, g.registry, links)
  BY <1>5, <1>7 DEF EdgesOver, LinksOver
<1>9. IsCore(c)
  BY <1>6, <1>8, SmallerCore
<1> QED
  BY <1>6, <1>9 DEF Compile, CoreOfSize

LEMMA WrappedAre ==
    ASSUME NEW class \in GraphClass, class # "AUTO", NEW names, NEW cores,
           \A c \in cores : IsCore(c) /\ Naming(names, c.n),
           NEW v \in Wrapped(class, cores)
    PROVE  ViewOfSession(v, names)
<1>1. PICK c \in cores : v = View(class, c)
  BY DEF Wrapped
<1> QED
  BY <1>1 DEF ViewOfSession

LEMMA BufferIs ==
    ASSUME NEW g, IsCore(g)
    PROVE  CoreOfSize(Compile(g.n, g.simple, g.registry, BufferFrom(g)), g.n)
<1> DEFINE N == Nodes(g)
           D == DOMAIN g.registry
           upward(e) == IF e[1] < e[2] THEN e ELSE <<e[2], e[1], e[3]>>
           symmetric == {e \in EdgeSet(g) : SpecOf(g, e).symmetric}
           kept == (EdgeSet(g) \ symmetric) \cup {upward(e) : e \in {d \in symmetric : d[1] # d[2]}}
           links == BufferFrom(g)
<1>1. links = [e \in kept |-> 1]
  BY DEF BufferFrom
<1>3. \A e \in EdgeSet(g) : e \in N \X N \X D /\ upward(e) \in N \X N \X D
  <2> SUFFICES ASSUME NEW e \in EdgeSet(g) PROVE e \in N \X N \X D /\ upward(e) \in N \X N \X D
    OBVIOUS
  <2>1. e \in N \X N \X D
    BY EdgeFacts
  <2> HIDE DEF N, D
  <2> QED
    BY <2>1
<1> HIDE DEF N, D, upward
<1>4. kept \in SUBSET (N \X N \X D)
  BY <1>3
<1> HIDE DEF kept, links
<1>5. DOMAIN links \in SUBSET (N \X N \X D)
  BY <1>1, <1>4
<1>6. g.n \in Nat /\ N = 0 .. (g.n - 1)
  BY CoreNodes DEF N
<1>9. LinksOver(g.n, g.registry, links)
  BY <1>5, <1>6 DEF D, EdgesOver, LinksOver
<1>7. IsCore(Compile(g.n, g.simple, g.registry, links))
  BY <1>6, <1>9, SmallerCore
<1>10. Compile(g.n, g.simple, g.registry, links).n = g.n
  BY DEF Compile
<1> QED
  BY <1>7, <1>10 DEF links, CoreOfSize

(* The session that keeps a view starts from its edges and its names.       *)
LEMMA ViewsMakeSessions ==
    ASSUME NEW v, NEW names, ViewOfSession(v, names)
    PROVE  IsSession(SessionFromView(v, names))
<1>0. PICK class \in GraphClass \ {"AUTO"} :
          \E g : IsCore(g) /\ v = View(class, g) /\ Naming(names, g.n)
  BY DEF ViewOfSession
<1>1. PICK g : IsCore(g) /\ v = View(class, g) /\ Naming(names, g.n)
  BY <1>0
<1>2. v.class = class /\ v.core = g
  BY <1>1 DEF View
<1> DEFINE h == Compile(g.n, g.simple, g.registry, BufferFrom(g))
           s == SessionFromView(v, names)
<1>3. s = SessionOf(class, names, h)
  BY <1>2 DEF SessionFromView
<1>4. IsCore(h) /\ h.n = g.n
  BY <1>1, BufferIs DEF CoreOfSize
<1> HIDE DEF h, s
<1>5. s.class = class /\ s.names = names /\ s.core = h
  BY <1>3 DEF SessionOf
<1> QED
  BY <1>1, <1>3, <1>4, <1>5 DEF IsSession, Naming, s

LEMMA ViewFacts ==
    ASSUME NEW v, NEW names, ViewOfSession(v, names)
    PROVE  /\ IsCore(v.core) /\ v.n \in Nat /\ v.n = v.core.n /\ Naming(names, v.n)
           /\ Nodes(v) = 0 .. (v.n - 1) /\ IsFiniteSet(Nodes(v)) /\ Nodes(v) \in SUBSET Nat
           /\ Over(v.n, v.arcs) /\ Over(v.n, v.spouses) /\ Over(v.n, v.lines)
           /\ v.class \in GraphClass /\ v.class # "AUTO" /\ v = View(v.class, v.core)
<1>0. PICK class \in GraphClass \ {"AUTO"} :
          \E g : IsCore(g) /\ v = View(class, g) /\ Naming(names, g.n)
  BY DEF ViewOfSession
<1>1. PICK g : IsCore(g) /\ v = View(class, g) /\ Naming(names, g.n)
  BY <1>0
<1>2. v.class = class /\ v.core = g /\ v.n = g.n
  BY <1>1 DEF View
<1>3. /\ Nodes(v) = Nodes(g)
      /\ v.arcs = Arcs(g) /\ v.lines = Lines(g) /\ v.spouses = Spouses(g)
      /\ Arcs(g) \in SUBSET (Nodes(g) \X Nodes(g))
      /\ Lines(g) \in SUBSET (Nodes(g) \X Nodes(g))
      /\ Spouses(g) \in SUBSET (Nodes(g) \X Nodes(g))
  BY <1>1, ViewRelations
<1>4. /\ g.n \in Nat /\ Nodes(g) = 0 .. (g.n - 1)
      /\ IsFiniteSet(Nodes(g)) /\ Nodes(g) \in SUBSET Nat
  BY <1>1, CoreNodes
<1>5. Over(v.n, v.arcs) /\ Over(v.n, v.spouses) /\ Over(v.n, v.lines)
  BY <1>2, <1>3, <1>4 DEF Over
<1> QED
  BY <1>1, <1>2, <1>3, <1>4, <1>5

LEMMA CoresMakeViews ==
    ASSUME NEW class \in GraphClass, class # "AUTO", NEW g, IsCore(g), NEW simple, NEW n \in Nat,
           NEW arcs, NEW spouses, NEW lines, Over(n, arcs), Over(n, spouses), Over(n, lines),
           NEW names, Naming(names, n), NEW c \in CoreFrom(g.registry, simple, n, arcs, spouses, lines)
    PROVE  ViewOfSession(View(class, c), names)
<1>1. CoreOfSize(c, n)
  BY CoreFromIs
<1> QED
  BY <1>1 DEF ViewOfSession, CoreOfSize

LEMMA CoresMakeWrapped ==
    ASSUME NEW class \in GraphClass, class # "AUTO", NEW g, IsCore(g), NEW simple, NEW n \in Nat,
           NEW arcs, NEW spouses, NEW lines, Over(n, arcs), Over(n, spouses), Over(n, lines),
           NEW names, Naming(names, n),
           NEW w \in Wrapped(class, CoreFrom(g.registry, simple, n, arcs, spouses, lines))
    PROVE  ViewOfSession(w, names)
<1>1. PICK c \in CoreFrom(g.registry, simple, n, arcs, spouses, lines) : w = View(class, c)
  BY DEF Wrapped
<1> QED
  BY <1>1, CoresMakeViews

LEMMA NothingOver == ASSUME NEW n PROVE Over(n, {})
  BY DEF Over

LEMMA UgViews ==
    ASSUME NEW v, NEW names, ViewOfSession(v, names), NEW adjacency, Over(v.n, adjacency),
           NEW w \in UgView(v, adjacency)
    PROVE  ViewOfSession(w, names)
<1>1. IsCore(v.core) /\ v.n \in Nat /\ Naming(names, v.n)
  BY ViewFacts
<1>2. w \in Wrapped("UG", CoreFrom(v.core.registry, v.core.simple, v.n, {}, {}, adjacency))
  BY DEF UgView
<1>3. "UG" \in GraphClass /\ "UG" # "AUTO"
  BY DEF GraphClass
<1>4. Over(v.n, {})
  BY NothingOver
<1> DEFINE n == v.n
           simple == v.core.simple
<1> HIDE DEF n, simple
<1>5. w \in Wrapped("UG", CoreFrom(v.core.registry, simple, n, {}, {}, adjacency))
  BY <1>2 DEF n, simple
<1>6. n \in Nat /\ Over(n, {}) /\ Over(n, adjacency) /\ Naming(names, n)
  BY <1>1, <1>4 DEF n
<1> QED
  BY <1>1, <1>3, <1>5, <1>6, CoresMakeWrapped

LEMMA SkeletonsMakeSessions ==
    ASSUME NEW v, NEW names, ViewOfSession(v, names), NEW w \in SkeletonOf(v)
    PROVE  ViewOfSession(w, names)
<1>1. Over(v.n, v.arcs) /\ Over(v.n, v.spouses) /\ Over(v.n, v.lines)
  BY ViewFacts
<1>2. Over(v.n, NeighborPairs(v))
  BY <1>1 DEF Over, NeighborPairs, Converse
<1>3. w \in UgView(v, NeighborPairs(v))
  BY DEF SkeletonOf, Skeletal
<1> QED
  BY <1>2, <1>3, UgViews

LEMMA MoralGraphsMakeSessions ==
    ASSUME NEW v, NEW names, ViewOfSession(v, names), NEW w \in Moralize(v)
    PROVE  ViewOfSession(w, names)
<1>1. Nodes(v) = 0 .. (v.n - 1)
  BY ViewFacts
<1>2. Over(v.n, MoralAdj(v, Nodes(v)))
  <2>1. MoralAdj(v, Nodes(v)) \in SUBSET (Nodes(v) \X Nodes(v))
    BY DEF MoralAdj
  <2> QED
    BY <1>1, <2>1 DEF Over
<1>3. w \in UgView(v, MoralAdj(v, Nodes(v)))
  BY DEF Moralize, OnlyDags, Moral
<1> QED
  BY <1>2, <1>3, UgViews

(* Names of the nodes that stay, and relations among them. *)
LEMMA KeptNames ==
    ASSUME NEW v, NEW names, ViewOfSession(v, names), NEW S \in SUBSET Nodes(v)
    PROVE  LET keep == SortedSeq(S) IN
           /\ Len(keep) \in Nat /\ Naming(SelectNames(keep, names), Len(keep))
           /\ \A R : Over(Len(keep), Renumbered(keep, R))
<1> DEFINE keep == SortedSeq(S)
           n == v.n
<1>1. n \in Nat /\ Naming(names, n) /\ Nodes(v) = 0 .. (n - 1) /\ IsFiniteSet(Nodes(v)) /\ Nodes(v) \in SUBSET Nat
  BY ViewFacts
<1>2. S \in SUBSET Nat /\ IsFiniteSet(S)
  BY <1>1, FS_Subset
<1>3. keep \in Seq(S) /\ IsInjective(keep)
  BY <1>2, SortedSeqFacts
<1> HIDE DEF keep, n
<1>4. keep \in Seq(0 .. (n - 1)) /\ Len(keep) \in Nat
  <2> DEFINE T == 0 .. (n - 1)
  <2>1. S \in SUBSET T
    BY <1>1
  <2> HIDE DEF T
  <2>2. keep \in Seq(T) /\ Len(keep) \in Nat
    BY <1>3, <2>1
  <2> QED
    BY <2>2 DEF T
<1>5. Naming(SelectNames(keep, names), Len(keep))
  BY <1>1, <1>3, <1>4, SelectedNames
<1>6. \A R : Over(Len(keep), Renumbered(keep, R))
  BY DEF Renumbered, Kept, Over
<1> QED
  BY <1>4, <1>5, <1>6 DEF keep

LEMMA ProjectionsMakeSessions ==
    ASSUME NEW v, NEW names, ViewOfSession(v, names), NEW L, NEW w \in LatentProject(v, L)
    PROVE  ViewOfSession(w, SelectNames(SortedSeq(Nodes(v) \ L), names))
<1> DEFINE S == Nodes(v) \ L
           keep == SortedSeq(S)
           gone == Project(v, L)
           n == Len(keep)
           arcs == Renumbered(keep, gone.arcs)
           spouses == Renumbered(keep, gone.spouses)
           simple == WithoutParallels(gone)
           made == CoreFrom(v.core.registry, simple, n, arcs, spouses, {})
           labels == SelectNames(keep, names)
<1>1. w \in Wrapped("ADMG", IF keep = <<>> THEN {Compile(0, TRUE, v.core.registry, NoEdges)} ELSE made)
  BY DEF LatentProject
<1>2. n \in Nat /\ Naming(labels, n) /\ Over(n, arcs) /\ Over(n, spouses)
  <2>1. S \in SUBSET Nodes(v)
    OBVIOUS
  <2> HIDE DEF S
  <2> QED
    BY <2>1, KeptNames
<1>3. IsCore(v.core) /\ "ADMG" \in GraphClass /\ "ADMG" # "AUTO" /\ Over(n, {})
  BY ViewFacts, NothingOver DEF GraphClass
<1> HIDE DEF keep, n, arcs, spouses, simple, labels, gone
<1>4. CASE keep = <<>>
  <2> DEFINE c == Compile(0, TRUE, v.core.registry, NoEdges)
  <2>1. n = 0
    BY <1>4 DEF n
  <2>2. LinksOver(0, v.core.registry, NoEdges)
    BY DEF LinksOver, NoEdges
  <2>3. IsCore(c)
    BY <1>3, <2>2, SmallerCore
  <2>4. c.n = 0
    BY DEF Compile
  <2> HIDE DEF c
  <2>5. w \in Wrapped("ADMG", {c})
    BY <1>1, <1>4 DEF c
  <2> QED
    BY <1>2, <1>3, <2>1, <2>3, <2>4, <2>5, WrappedAre DEF labels, keep
<1>5. CASE keep # <<>>
  <2>1. w \in Wrapped("ADMG", CoreFrom(v.core.registry, simple, n, arcs, spouses, {}))
    BY <1>1, <1>5
  <2>2. ViewOfSession(w, labels)
    BY <1>2, <1>3, <2>1, CoresMakeWrapped
  <2> QED
    BY <2>2 DEF labels, keep
<1> QED
  BY <1>4, <1>5

LEMMA NormalizedMakeSessions ==
    ASSUME NEW v, NEW names, ViewOfSession(v, names), NEW latents, NEW w \in Normalize(v, latents)
    PROVE  ViewOfSession(w, SelectNames(NormalizedKeep(v, latents), names))
<1> DEFINE S == Nodes(v) \ (ToSet(latents) \ ToSet(Normalized(v.arcs, latents).latents))
           keep == NormalizedKeep(v, latents)
           n == Len(keep)
           arcs == Renumbered(keep, Normalized(v.arcs, latents).arcs)
           labels == SelectNames(keep, names)
<1>1. w \in Wrapped("DAG", CoreFrom(v.core.registry, TRUE, n, arcs, {}, {}))
  BY DEF Normalize
<1>2. n \in Nat /\ Naming(labels, n) /\ Over(n, arcs)
  <2>1. S \in SUBSET Nodes(v) /\ keep = SortedSeq(S)
    BY DEF NormalizedKeep
  <2> HIDE DEF S
  <2> QED
    BY <2>1, KeptNames
<1>3. IsCore(v.core) /\ "DAG" \in GraphClass /\ "DAG" # "AUTO" /\ Over(n, {})
  BY ViewFacts, NothingOver DEF GraphClass
<1> HIDE DEF keep, n, arcs, labels
<1>4. ViewOfSession(w, labels)
  BY <1>1, <1>2, <1>3, CoresMakeWrapped
<1> QED
  BY <1>4 DEF labels, keep

LEMMA MarginsMakeSessions ==
    ASSUME NEW v, NEW names, ViewOfSession(v, names), NEW cond, NEW marg, NEW w \in CondMarginalize(v, cond, marg)
    PROVE  ViewOfSession(w, SelectNames(SortedSeq(Nodes(v) \ (cond \cup marg)), names))
<1> DEFINE S == Nodes(v) \ (cond \cup marg)
           keep == SortedSeq(S)
           n == Len(keep)
           joined == Joined(v, cond, ToSet(keep))
           arcs == Renumbered(keep, ArcsByAnteriors(v, cond, joined))
           spouses == Renumbered(keep, SpousesByAnteriors(v, cond, joined))
           lines == Renumbered(keep, LinesByAnteriors(v, cond, joined))
           labels == SelectNames(keep, names)
           c == Compile(n, TRUE, v.core.registry, NoEdges)
<1>1. \/ w = View("AG", c)
      \/ w \in Wrapped("AG", CoreFrom(v.core.registry, TRUE, n, arcs, spouses, lines))
  <2> HIDE DEF S
  <2>1. w \in {View("AG", c)} \/ w \in Wrapped("AG", CoreFrom(v.core.registry, TRUE, n, arcs, spouses, lines))
    BY DEF CondMarginalize, S
  <2> QED
    BY <2>1
<1>2. n \in Nat /\ Naming(labels, n) /\ Over(n, arcs) /\ Over(n, spouses) /\ Over(n, lines)
  <2>1. S \in SUBSET Nodes(v)
    OBVIOUS
  <2> HIDE DEF S, joined
  <2> QED
    BY <2>1, KeptNames
<1>3. IsCore(v.core) /\ "AG" \in GraphClass /\ "AG" # "AUTO"
  BY ViewFacts DEF GraphClass
<1>4. IsCore(c) /\ c.n = n
  <2> HIDE DEF n
  <2>1. LinksOver(n, v.core.registry, NoEdges)
    BY DEF LinksOver, NoEdges
  <2>2. IsCore(c)
    BY <1>2, <1>3, <2>1, SmallerCore
  <2> QED
    BY <2>2 DEF Compile
<1> HIDE DEF keep, n, arcs, spouses, lines, joined, labels, c
<1>5. CASE w = View("AG", c)
  <2>1. ViewOfSession(w, labels)
    BY <1>2, <1>3, <1>4, <1>5 DEF ViewOfSession
  <2> QED
    BY <2>1 DEF labels, keep
<1>6. CASE w \in Wrapped("AG", CoreFrom(v.core.registry, TRUE, n, arcs, spouses, lines))
  <2>1. ViewOfSession(w, labels)
    BY <1>2, <1>3, <1>6, CoresMakeWrapped
  <2> QED
    BY <2>1 DEF labels, keep
<1> QED
  BY <1>1, <1>5, <1>6

(* The CPDAG of a DAG, as a core with any class.                            *)
LEMMA CpdagsMakeSessions ==
    ASSUME NEW v, NEW names, ViewOfSession(v, names), NEW w \in DagToCpdag(v)
    PROVE  /\ ViewOfSession(w, names)
           /\ ViewOfSession(View("MPDAG", w.core), names)
<1> DEFINE N == Nodes(v)
           n == v.n
           ess == Essential(N, v.arcs)
           arcs == ess[1]
           lines == ess[2]
<1>1. PICK c \in CoreFrom(v.core.registry, TRUE, n, arcs, {}, lines) : w = View("CPDAG", c)
  BY DEF DagToCpdag
<1>2. n \in Nat /\ Naming(names, n) /\ IsCore(v.core) /\ N = 0 .. (n - 1) /\ Over(n, v.arcs)
  BY ViewFacts
<1> DEFINE compelled == {a \in v.arcs : \A B \in MarkovEquivalent(N, v.arcs) : a \in B}
<1>3. arcs = compelled /\ lines = Symmetric(N, Skeleton(v.arcs \ compelled))
  BY DEF Essential
<1>4. Over(n, arcs) /\ Over(n, lines)
  BY <1>2, <1>3 DEF Over, Symmetric
<1>5. /\ "CPDAG" \in GraphClass /\ "CPDAG" # "AUTO" /\ "MPDAG" \in GraphClass /\ "MPDAG" # "AUTO"
      /\ Over(n, {})
  BY NothingOver DEF GraphClass
<1> HIDE DEF arcs, lines, n
<1>6. ViewOfSession(View("CPDAG", c), names) /\ ViewOfSession(View("MPDAG", c), names)
  BY <1>1, <1>2, <1>4, <1>5, CoresMakeViews
<1>7. w.core = c
  BY <1>1 DEF View
<1> QED
  BY <1>1, <1>6, <1>7

(* A loop that starts in S and never leaves it. *)
Keeps(S, n, f) == f[0] \in S /\ \A k \in 1 .. n : f[k - 1] \in S => f[k] \in S

StaysIn(S, n, f) == \A k \in 0 .. n : f[k] \in S

LEMMA LoopsStay ==
    ASSUME NEW S, NEW n \in Nat, NEW f, Keeps(S, n, f)
    PROVE  StaysIn(S, n, f)
<1> DEFINE bad == {k \in 0 .. n : f[k] \notin S}
<1> SUFFICES ASSUME bad # {} PROVE FALSE
  BY DEF StaysIn
<1>1. PICK k \in bad : \A j \in bad : k <= j
  <2>1. bad \in SUBSET Nat /\ IsFiniteSet(bad)
    <3>1. IsFiniteSet(0 .. n) /\ bad \in SUBSET (0 .. n)
      BY FS_Interval
    <3> QED
      BY <3>1, FS_Subset
  <2> HIDE DEF bad
  <2> QED
    BY <2>1, Least
<1>2. k \in 0 .. n /\ f[k] \notin S
  OBVIOUS
<1>3. k # 0
  BY <1>2 DEF Keeps
<1>4. k \in 1 .. n /\ k - 1 \in 0 .. n
  BY <1>2, <1>3
<1>5. k - 1 \notin bad
  <2> HIDE DEF bad
  <2> QED
    BY <1>1, <1>4
<1>6. f[k - 1] \in S
  BY <1>4, <1>5
<1> QED
  BY <1>2, <1>4, <1>6 DEF Keeps

(* The PDAG closed under Meek's rules. *)
PartlyDirected(N) == [arcs : SUBSET (N \X N), lines : SUBSET (N \X N)]

Further(n, T) == T \cup UNION {MeekOriented(n, g) : g \in T}

Closes(v, f) ==
    f = [k \in 0 .. Cardinality(v.lines) |->
            IF k = 0 THEN {[arcs |-> v.arcs, lines |-> v.lines]} ELSE Further(v.n, f[k - 1])]

LEMMA OrientedStay ==
    ASSUME NEW n, NEW N, NEW T \in SUBSET PartlyDirected(N)
    PROVE  Further(n, T) \in SUBSET PartlyDirected(N)
<1>1. ASSUME NEW g \in T, NEW h \in MeekOriented(n, g) PROVE h \in PartlyDirected(N)
  <2>1. g.arcs \in SUBSET (N \X N) /\ g.lines \in SUBSET (N \X N)
    BY DEF PartlyDirected
  <2>2. PICK l \in g.lines : h = [arcs |-> g.arcs \cup {l}, lines |-> g.lines \ {l, <<l[2], l[1]>>}]
    BY DEF MeekOriented
  <2> DEFINE A == g.arcs \cup {l}
             U == g.lines \ {l, <<l[2], l[1]>>}
  <2>3. A \in SUBSET (N \X N) /\ U \in SUBSET (N \X N)
    BY <2>1
  <2> HIDE DEF A, U
  <2> QED
    BY <2>2, <2>3 DEF PartlyDirected, A, U
<1> QED
  BY <1>1 DEF Further

LEMMA MeekOutcomesAre ==
    ASSUME NEW v, NEW N, IsFiniteSet(N), v.arcs \in SUBSET (N \X N), v.lines \in SUBSET (N \X N)
    PROVE  MeekOutcomes(v) \in SUBSET PartlyDirected(N)
<1> DEFINE n == Cardinality(v.lines)
           S == SUBSET PartlyDirected(N)
           x == {[arcs |-> v.arcs, lines |-> v.lines]}
           F == [T \in S |-> Further(v.n, T)]
           run == CHOOSE f : Closes(v, f)
<1>1. n \in Nat
  <2>1. IsFiniteSet(N \X N)
    BY FS_Product
  <2>2. IsFiniteSet(v.lines)
    BY <2>1, FS_Subset
  <2> QED
    BY <2>2, FS_CardinalityType
<1>2. x \in S
  BY DEF PartlyDirected
<1>3. \A T \in S : Further(v.n, T) \in S
  BY OrientedStay
<1>4. MeekOutcomes(v) = {g \in run[n] : MeekOriented(v.n, g) = {}}
  BY DEF MeekOutcomes, Closes, Further
<1> HIDE DEF S, x, n
<1>5. F \in [S -> S]
  BY <1>3
<1> HIDE DEF F
<1>6. \E f : Closes(v, f)
  <2>1. PICK f : Iterates(S, F, x, n, f)
    BY <1>1, <1>2, <1>5, IterationExists
  <2>2. f \in [0 .. n -> S] /\ f[0] = x /\ \A k \in 1 .. n : f[k] = F[f[k - 1]]
    BY <2>1 DEF Iterates
  <2>3. ASSUME NEW k \in 0 .. n
        PROVE  f[k] = IF k = 0 THEN x ELSE Further(v.n, f[k - 1])
    <3>1. CASE k = 0
      BY <2>2, <3>1
    <3>2. CASE k # 0
      <4>1. k \in 1 .. n /\ k - 1 \in 0 .. n
        BY <1>1, <3>2
      <4>2. f[k] = F[f[k - 1]] /\ f[k - 1] \in S
        BY <2>2, <4>1
      <4> QED
        BY <3>2, <4>2 DEF F
    <3> QED
      BY <3>1, <3>2
  <2>4. f = [k \in 0 .. n |-> f[k]]
    BY <2>2
  <2>5. f = [k \in 0 .. n |-> IF k = 0 THEN x ELSE Further(v.n, f[k - 1])]
    BY <2>3, <2>4, Zenon
  <2> QED
    BY <2>5 DEF Closes, n, x
<1>7. Closes(v, run)
  BY <1>6
<1> HIDE DEF run
<1>8. \A k \in 0 .. n : run[k] = IF k = 0 THEN x ELSE Further(v.n, run[k - 1])
  <2>1. run = [k \in 0 .. n |-> IF k = 0 THEN x ELSE Further(v.n, run[k - 1])]
    BY <1>7 DEF Closes, n, x
  <2> QED
    BY <2>1, Zenon
<1>9. Keeps(S, n, run)
  <2>1. run[0] = x
    BY <1>1, <1>8
  <2>2. ASSUME NEW k \in 1 .. n, run[k - 1] \in S PROVE run[k] \in S
    <3>1. k \in 0 .. n /\ k # 0
      BY <1>1
    <3>2. run[k] = Further(v.n, run[k - 1])
      BY <1>8, <3>1
    <3> QED
      BY <1>3, <2>2, <3>2
  <2> QED
    BY <1>2, <2>1, <2>2 DEF Keeps
<1>10. StaysIn(S, n, run)
  BY <1>1, <1>9, LoopsStay
<1>11. run[n] \in S
  BY <1>1, <1>10 DEF StaysIn
<1> QED
  BY <1>4, <1>11 DEF S

LEMMA MpdagsMakeSessions ==
    ASSUME NEW v, NEW names, ViewOfSession(v, names), NEW w \in ToMpdag(v)
    PROVE  ViewOfSession(w, names)
<1>1. /\ IsCore(v.core) /\ v.n \in Nat /\ Naming(names, v.n) /\ v.n = v.core.n
      /\ Nodes(v) = 0 .. (v.n - 1) /\ IsFiniteSet(Nodes(v))
      /\ Over(v.n, v.arcs) /\ Over(v.n, v.lines)
  BY ViewFacts
<1>2. "MPDAG" \in GraphClass /\ "MPDAG" # "AUTO"
  BY DEF GraphClass
<1>3. CASE v.class = "MPDAG"
  BY <1>3 DEF ToMpdag
<1>4. CASE v.class = "CPDAG"
  <2>1. w = View("MPDAG", v.core)
    BY <1>4 DEF ToMpdag
  <2> QED
    BY <1>1, <1>2, <2>1 DEF ViewOfSession
<1>5. CASE v.class = "DAG"
  <2>1. PICK c \in DagToCpdag(v) : w = View("MPDAG", c.core)
    BY <1>5 DEF ToMpdag
  <2> QED
    BY <2>1, CpdagsMakeSessions
<1>6. CASE v.class = "PDAG"
  <2>1. w \in PdagToMpdag(v)
    BY <1>6 DEF ToMpdag
  <2>a. PICK g \in MeekOutcomes(v) :
            \E c \in CoreFrom(v.core.registry, TRUE, v.n, g.arcs, {}, g.lines) : w = View("MPDAG", c)
    BY <2>1 DEF PdagToMpdag
  <2>2. PICK c \in CoreFrom(v.core.registry, TRUE, v.n, g.arcs, {}, g.lines) : w = View("MPDAG", c)
    BY <2>a
  <2>3. g \in PartlyDirected(Nodes(v))
    <3>1. v.arcs \in SUBSET (Nodes(v) \X Nodes(v)) /\ v.lines \in SUBSET (Nodes(v) \X Nodes(v))
      BY <1>1 DEF Over
    <3> QED
      BY <1>1, <3>1, MeekOutcomesAre
  <2>4. Over(v.n, g.arcs) /\ Over(v.n, g.lines) /\ Over(v.n, {})
    BY <1>1, <2>3, NothingOver DEF PartlyDirected, Over
  <2> DEFINE n == v.n
  <2> HIDE DEF n
  <2>5. /\ n \in Nat /\ Naming(names, n) /\ Over(n, g.arcs) /\ Over(n, g.lines) /\ Over(n, {})
        /\ c \in CoreFrom(v.core.registry, TRUE, n, g.arcs, {}, g.lines)
    BY <1>1, <2>2, <2>4 DEF n
  <2> QED
    BY <1>1, <1>2, <2>2, <2>5, CoresMakeViews
<1>7. v.class \in {"MPDAG", "CPDAG", "DAG", "PDAG"}
  BY DEF ToMpdag
<1> QED
  BY <1>3, <1>4, <1>5, <1>6, <1>7

LEMMA EssentialMakeSessions ==
    ASSUME NEW v, NEW names, ViewOfSession(v, names), NEW w \in ToCpdag(v)
    PROVE  ViewOfSession(w, names)
<1>1. w = v \/ w \in DagToCpdag(v)
  BY DEF ToCpdag
<1> QED
  BY <1>1, CpdagsMakeSessions

--------------------------------------------------------------------------------
(* Exogenized graphs *)

(* What FoldLeft() computes over the first k nodes, as a function of the   *)
(* set of their places.                                                    *)
ExogenizedBy(A, order, k, F) ==
    F = [S \in SUBSET (1 .. k) |->
            IF S = {} THEN A ELSE ExogenizeOne(F[S \ {Max(S)}], order[Max(S)])]

LEMMA ExogenizedExists ==
    ASSUME NEW A, NEW order, NEW n \in Nat
    PROVE  \E F : ExogenizedBy(A, order, n, F)
<1> DEFINE bad == {k \in 0 .. n : ~ \E F : ExogenizedBy(A, order, k, F)}
<1> SUFFICES ASSUME bad # {} PROVE FALSE
  OBVIOUS
<1>2. PICK k \in bad : \A j \in bad : k <= j
  <2>1. IsFiniteSet(0 .. n) /\ bad \in SUBSET (0 .. n)
    BY FS_Interval
  <2>2. bad \in SUBSET Nat /\ IsFiniteSet(bad)
    BY <2>1, FS_Subset
  <2> HIDE DEF bad
  <2> QED
    BY <2>2, Least
<1>3. CASE k = 0
  <2> DEFINE F == [S \in SUBSET (1 .. 0) |-> A]
  <2>1. \A S \in SUBSET (1 .. 0) : S = {}
    OBVIOUS
  <2>2. ExogenizedBy(A, order, 0, F)
    BY <2>1 DEF ExogenizedBy
  <2> QED
    BY <1>2, <1>3, <2>2
<1>4. CASE k # 0
  <2>1. k \in Nat /\ k - 1 \in 0 .. n /\ k - 1 \notin bad
    BY <1>2, <1>4
  <2>2. PICK F : ExogenizedBy(A, order, k - 1, F)
    BY <2>1
  <2> DEFINE G == [S \in SUBSET (1 .. k) |->
                      IF k \in S THEN ExogenizeOne(F[S \ {k}], order[k]) ELSE F[S]]
  <2>3. ASSUME NEW S \in SUBSET (1 .. k), k \in S
        PROVE  /\ Max(S) = k
               /\ S \ {k} \in SUBSET (1 .. k) /\ k \notin S \ {k}
    <3>1. S \in SUBSET Int /\ \A x \in S : x <= k
      BY <2>1
    <3>2. Max(S) = k
      BY <2>3, <3>1, MaxIs
    <3> QED
      BY <2>3, <3>2
  <2>4. ASSUME NEW S \in SUBSET (1 .. k), k \notin S
        PROVE  S \in SUBSET (1 .. (k - 1))
    <3>1. \A x \in 1 .. k : x # k => x \in 1 .. (k - 1)
      BY <2>1
    <3> QED
      BY <2>4, <3>1
  <2>5. \A S \in SUBSET (1 .. (k - 1)) :
            F[S] = IF S = {} THEN A ELSE ExogenizeOne(F[S \ {Max(S)}], order[Max(S)])
    BY <2>2 DEF ExogenizedBy
  <2>6. ASSUME NEW S \in SUBSET (1 .. k)
        PROVE  G[S] = IF S = {} THEN A ELSE ExogenizeOne(G[S \ {Max(S)}], order[Max(S)])
    <3>1. CASE k \in S
      <4>1. G[S] = ExogenizeOne(F[S \ {k}], order[k]) /\ G[S \ {k}] = F[S \ {k}]
        BY <2>3, <3>1
      <4> HIDE DEF G
      <4> QED
        BY <2>3, <3>1, <4>1
    <3>2. CASE k \notin S
      <4>1. S \in SUBSET (1 .. (k - 1))
        BY <2>4, <3>2
      <4>2. G[S] = F[S] /\ G[S \ {Max(S)}] = F[S \ {Max(S)}]
        BY <3>2
      <4> HIDE DEF G
      <4> QED
        BY <2>5, <4>1, <4>2
    <3> QED
      BY <3>1, <3>2
  <2>7. G = [S \in SUBSET (1 .. k) |-> G[S]]
    OBVIOUS
  <2> HIDE DEF G
  <2>8. ExogenizedBy(A, order, k, G)
    BY <2>6, <2>7 DEF ExogenizedBy
  <2> QED
    BY <1>2, <2>8
<1> QED
  BY <1>3, <1>4

LEMMA ExogenizedOneStays ==
    ASSUME NEW N, NEW A \in SUBSET (N \X N), NEW u
    PROVE  ExogenizeOne(A, u) \in SUBSET (N \X N)
<1>1. Parents(A, u) \in SUBSET N /\ Children(A, u) \in SUBSET N
  BY DEF Parents, Children
<1> QED
  BY <1>1 DEF ExogenizeOne

LEMMA ExogenizedStays ==
    ASSUME NEW N, NEW A \in SUBSET (N \X N), NEW order, NEW n \in Nat, DOMAIN order = 1 .. n
    PROVE  ExogenizeAll(A, order) \in SUBSET (N \X N)
<1> DEFINE F == CHOOSE f : ExogenizedBy(A, order, n, f)
           S == SUBSET (N \X N)
           st == [k \in 0 .. n |-> F[1 .. k]]
<1>2. ExogenizedBy(A, order, n, F)
  BY ExogenizedExists
<1>3. ExogenizeAll(A, order) = F[1 .. n]
  BY DEF ExogenizeAll, FoldLeft, MapThenFoldSet, ExogenizedBy
<1>4. \A T \in SUBSET (1 .. n) :
          F[T] = IF T = {} THEN A ELSE ExogenizeOne(F[T \ {Max(T)}], order[Max(T)])
  BY <1>2 DEF ExogenizedBy
<1> HIDE DEF F
<1>5. ASSUME NEW k \in 1 .. n PROVE st[k] = ExogenizeOne(st[k - 1], order[k])
  <2>1. k \in 1 .. k /\ 1 .. k \in SUBSET (1 .. n) /\ 1 .. k \in SUBSET Int
    OBVIOUS
  <2>2. Max(1 .. k) = k
    <3>1. \A x \in 1 .. k : x <= k
      OBVIOUS
    <3> QED
      BY <2>1, <3>1, MaxIs
  <2>3. (1 .. k) \ {k} = 1 .. (k - 1)
    OBVIOUS
  <2>4. F[1 .. k] = ExogenizeOne(F[1 .. (k - 1)], order[k])
    BY <1>4, <2>1, <2>2, <2>3
  <2> QED
    BY <2>4
<1>6. st[0] = A
  <2>1. 1 .. 0 = {} /\ {} \in SUBSET (1 .. n)
    OBVIOUS
  <2>2. F[{}] = A
    BY <1>4, <2>1
  <2> QED
    BY <2>1, <2>2
<1>7. st[n] = F[1 .. n]
  OBVIOUS
<1> HIDE DEF st
<1>8. Keeps(S, n, st)
  <2>1. ASSUME NEW k \in 1 .. n, st[k - 1] \in S PROVE st[k] \in S
    <3>1. ExogenizeOne(st[k - 1], order[k]) \in S
      BY <2>1, ExogenizedOneStays
    <3> QED
      BY <1>5, <3>1
  <2> HIDE DEF S
  <2>2. st[0] \in S
    BY <1>6 DEF S
  <2> QED
    BY <2>1, <2>2 DEF Keeps
<1>9. StaysIn(S, n, st)
  BY <1>8, LoopsStay
<1>10. st[n] \in S
  BY <1>9 DEF StaysIn
<1> QED
  BY <1>3, <1>7, <1>10

LEMMA ExogenizeMakeSessions ==
    ASSUME NEW v, NEW names, ViewOfSession(v, names), NEW order, NEW k \in Nat, DOMAIN order = 1 .. k,
           NEW w \in Exogenize(v, order)
    PROVE  ViewOfSession(w, names)
<1> DEFINE n == v.n
           arcs == ExogenizeAll(v.arcs, order)
<1>1. IsCore(v.core) /\ n \in Nat /\ Naming(names, n) /\ Over(n, v.arcs)
  BY ViewFacts
<1>2. w \in Wrapped("DAG", CoreFrom(v.core.registry, TRUE, n, arcs, {}, {}))
  BY DEF Exogenize
<1>3. "DAG" \in GraphClass /\ "DAG" # "AUTO" /\ Over(n, {})
  BY NothingOver DEF GraphClass
<1>4. Over(n, arcs)
  <2> DEFINE N == 0 .. (n - 1)
  <2>1. v.arcs \in SUBSET (N \X N)
    BY <1>1 DEF Over
  <2> HIDE DEF N
  <2>2. arcs \in SUBSET (N \X N)
    BY <2>1, ExogenizedStays
  <2> QED
    BY <2>2 DEF Over, N
<1> HIDE DEF n, arcs
<1> QED
  BY <1>1, <1>2, <1>3, <1>4, CoresMakeWrapped

--------------------------------------------------------------------------------
(* dag_from_pdag(): the cores and states that its turns go through *)

CoresOn(g) ==
    {g} \cup {Compile(g.n, g.simple, g.registry, [e \in E |-> 1]) : E \in SUBSET EdgesOver(g.n, g.registry)}

LEMMA CoresOnAre ==
    ASSUME NEW g, IsCore(g), NEW c \in CoresOn(g)
    PROVE  /\ CoreOfSize(c, g.n) /\ c.registry = g.registry
           /\ DOMAIN c.links \in SUBSET EdgesOver(g.n, g.registry)
           /\ \A E \in SUBSET EdgesOver(g.n, g.registry) :
                  Compile(c.n, c.simple, c.registry, [e \in E |-> 1]) \in CoresOn(g)
<1>1. g.n \in Nat
  BY DEF IsCore
<1>2. /\ IsCore(c) /\ c.n = g.n /\ c.simple = g.simple /\ c.registry = g.registry
      /\ DOMAIN c.links \in SUBSET EdgesOver(g.n, g.registry)
  <2>1. CASE c = g
    BY <2>1 DEF IsCore, EdgesOver, EdgeSet, Nodes
  <2>2. CASE c # g
    <3>1. PICK E \in SUBSET EdgesOver(g.n, g.registry) :
              c = Compile(g.n, g.simple, g.registry, [e \in E |-> 1])
      BY <2>2 DEF CoresOn
    <3> DEFINE links == [e \in E |-> 1]
    <3>2. DOMAIN links = E
      OBVIOUS
    <3>3. c = Compile(g.n, g.simple, g.registry, links)
      BY <3>1
    <3> HIDE DEF links
    <3>4. IsCore(c)
      BY <1>1, <3>2, <3>3, SmallerCore DEF LinksOver
    <3> QED
      BY <3>2, <3>3, <3>4 DEF Compile
  <2> QED
    BY <2>1, <2>2
<1>3. ASSUME NEW E \in SUBSET EdgesOver(g.n, g.registry)
      PROVE  Compile(c.n, c.simple, c.registry, [e \in E |-> 1]) \in CoresOn(g)
  BY <1>2 DEF CoresOn
<1> QED
  BY <1>2, <1>3 DEF CoreOfSize

LEMMA OrientedOn ==
    ASSUME NEW g, IsCore(g), NEW c \in CoresOn(g), NEW class, NEW N \in SUBSET Nodes(g),
           NEW x \in Nodes(g), NEW d \in OrientedTowards(class, c, N, x)
    PROVE  d \in CoresOn(g)
<1>1. CASE N = {}
  BY <1>1 DEF OrientedTowards
<1>2. CASE N # {}
  <2>1. PICK code \in CodeFor(c.registry, "directed", "-->") :
            d = Compile(c.n, c.simple, c.registry,
                        ReplacePairs(c.simple, c.links, [e \in N \X {x} \X {code} |-> 1]))
    BY <1>2 DEF OrientedTowards
  <2> DEFINE new == [e \in N \X {x} \X {code} |-> 1]
             E == {k \in DOMAIN c.links : ~ Displaced(c.simple, new, k)} \cup DOMAIN new
             M == Nodes(g)
             D == DOMAIN g.registry
  <2>2. ReplacePairs(c.simple, c.links, new) = [e \in E |-> 1]
    BY DEF ReplacePairs
  <2>3. DOMAIN c.links \in SUBSET EdgesOver(g.n, g.registry) /\ c.registry = g.registry
    BY CoresOnAre
  <2>4. code \in D
    BY <2>1, <2>3 DEF CodeFor
  <2>5. N \X {x} \X {code} \in SUBSET (M \X M \X D)
    <3> HIDE DEF M, D
    <3>1. N \in SUBSET M /\ x \in M
      BY DEF M
    <3> QED
      BY <2>4, <3>1
  <2>6. EdgesOver(g.n, g.registry) = M \X M \X D
    BY DEF EdgesOver, Nodes
  <2>7. DOMAIN new = N \X {x} \X {code}
    OBVIOUS
  <2>8. d = Compile(c.n, c.simple, c.registry, ReplacePairs(c.simple, c.links, new))
    BY <2>1
  <2> HIDE DEF new, M, D
  <2>9. E \in SUBSET EdgesOver(g.n, g.registry)
    BY <2>3, <2>5, <2>6, <2>7
  <2>10. d = Compile(c.n, c.simple, c.registry, [e \in E |-> 1])
    BY <2>2, <2>8
  <2> HIDE DEF E
  <2> QED
    BY <2>9, <2>10, CoresOnAre
<1> QED
  BY <1>1, <1>2

Peeling(g) == [left : SUBSET Nodes(g), out : CoresOn(g)]

LEMMA WithinIs ==
    ASSUME NEW g, IsCore(g), NEW class, NEW S
    PROVE  View(class, Within(g, S)).lines \in SUBSET (Nodes(g) \X Nodes(g))
<1> DEFINE E == {d \in DOMAIN g.links : {d[1], d[2]} \subseteq S}
           c == Compile(g.n, g.simple, g.registry, [e \in E |-> 1])
<1>1. g \in CoresOn(g)
  BY DEF CoresOn
<1>2. E \in SUBSET EdgesOver(g.n, g.registry)
  BY <1>1, CoresOnAre
<1>3. Within(g, S) = c
  BY DEF Within, EdgeSet
<1> HIDE DEF E
<1>4. c \in CoresOn(g)
  BY <1>1, <1>2, CoresOnAre
<1> HIDE DEF c
<1>5. IsCore(c) /\ c.n = g.n
  BY <1>4, CoresOnAre DEF CoreOfSize
<1>6. Nodes(c) = Nodes(g)
  BY <1>5 DEF Nodes
<1>7. Lines(c) \in SUBSET (Nodes(c) \X Nodes(c))
  BY <1>5, ViewRelations
<1>8. View(class, c).lines = Lines(c)
  BY DEF View
<1> QED
  BY <1>3, <1>6, <1>7, <1>8

LEMMA SinksTaken ==
    ASSUME NEW g, IsCore(g), NEW class, NEW s \in Peeling(g), NEW t \in TakeSink(class, g, s)
    PROVE  t \in Peeling(g)
<1> DEFINE w == View(class, Within(g, s.left))
           sinks == {x \in s.left : IsSink(w, x)}
           x == CHOOSE y \in sinks : \A z \in sinks : y <= z
<1>1. s.left \in SUBSET Nodes(g) /\ s.out \in CoresOn(g)
  BY DEF Peeling
<1>2. CASE s.left = {}
  BY <1>2 DEF TakeSink
<1>3. CASE s.left # {}
  <2>1. sinks # {}
    BY <1>3 DEF TakeSink
  <2>2. x \in sinks
    <3>1. IsFiniteSet(Nodes(g)) /\ Nodes(g) \in SUBSET Nat
      BY CoreNodes
    <3>2. sinks \in SUBSET Nat /\ IsFiniteSet(sinks) /\ sinks # {}
      BY <1>1, <2>1, <3>1, FS_Subset
    <3> HIDE DEF sinks
    <3>3. \E y \in sinks : \A z \in sinks : y <= z
      BY <3>2, Least
    <3> QED
      BY <3>3
  <2>3. x \in Nodes(g)
    BY <1>1, <2>2
  <2>4. PICK out \in OrientedTowards(class, s.out, Children(w.lines, x), x) :
            t = [left |-> s.left \ {x}, out |-> out]
    BY <1>3, <2>1 DEF TakeSink
  <2> HIDE DEF x
  <2>5. w.lines \in SUBSET (Nodes(g) \X Nodes(g))
    BY WithinIs
  <2> HIDE DEF w
  <2>6. Children(w.lines, x) \in SUBSET Nodes(g)
    BY <2>5 DEF Children
  <2>7. out \in CoresOn(g)
    BY <1>1, <2>3, <2>4, <2>6, OrientedOn
  <2>8. s.left \ {x} \in SUBSET Nodes(g)
    BY <1>1
  <2> QED
    BY <2>4, <2>7, <2>8 DEF Peeling
<1> QED
  BY <1>2, <1>3

(* One more turn from each of the states in T. *)
Peel(class, g, T) == UNION {TakeSink(class, g, s) : s \in T}

PeelTurns(v, f) ==
    f = [k \in 0 .. v.n |-> IF k = 0 THEN {[left |-> Nodes(v), out |-> v.core]}
                            ELSE Peel(v.class, v.core, f[k - 1])]

LEMMA TurnsStay ==
    ASSUME NEW v, NEW names, ViewOfSession(v, names), v.class \in PdagFamily, NEW w \in DagFromPdag(v)
    PROVE  \E s \in Peeling(v.core) : w \in Wrapped("DAG", {s.out})
<1> DEFINE n == v.n
           S == SUBSET Peeling(v.core)
           x == {[left |-> Nodes(v), out |-> v.core]}
           F == [T \in S |-> Peel(v.class, v.core, T)]
           run == CHOOSE f : PeelTurns(v, f)
<1>1. n \in Nat /\ IsCore(v.core) /\ v.n = v.core.n
  BY ViewFacts
<1>2. x \in S
  <2>1. Nodes(v) = Nodes(v.core)
    BY <1>1 DEF Nodes
  <2> QED
    BY <2>1 DEF Peeling, CoresOn
<1>3. \A T \in S : Peel(v.class, v.core, T) \in S
  BY <1>1, SinksTaken DEF Peel
<1>4. DagFromPdag(v) = Wrapped("DAG", {s.out : s \in run[n]})
  BY DEF DagFromPdag, PeelTurns, Peel
<1> HIDE DEF S, x, n
<1>5. F \in [S -> S]
  BY <1>3
<1> HIDE DEF F
<1>6. \E f : PeelTurns(v, f)
  <2>1. PICK f : Iterates(S, F, x, n, f)
    BY <1>1, <1>2, <1>5, IterationExists
  <2>2. f \in [0 .. n -> S] /\ f[0] = x /\ \A k \in 1 .. n : f[k] = F[f[k - 1]]
    BY <2>1 DEF Iterates
  <2>3. ASSUME NEW k \in 0 .. n
        PROVE  f[k] = IF k = 0 THEN x ELSE Peel(v.class, v.core, f[k - 1])
    <3>1. CASE k = 0
      BY <2>2, <3>1
    <3>2. CASE k # 0
      <4>1. k \in 1 .. n /\ k - 1 \in 0 .. n
        BY <1>1, <3>2
      <4>2. f[k] = F[f[k - 1]] /\ f[k - 1] \in S
        BY <2>2, <4>1
      <4> QED
        BY <3>2, <4>2 DEF F
    <3> QED
      BY <3>1, <3>2
  <2>4. f = [k \in 0 .. n |-> f[k]]
    BY <2>2
  <2>5. f = [k \in 0 .. n |-> IF k = 0 THEN x ELSE Peel(v.class, v.core, f[k - 1])]
    BY <2>3, <2>4, Zenon
  <2> QED
    BY <2>5 DEF PeelTurns, n, x
<1>7. PeelTurns(v, run)
  BY <1>6
<1> HIDE DEF run
<1>8. \A k \in 0 .. n : run[k] = IF k = 0 THEN x ELSE Peel(v.class, v.core, run[k - 1])
  <2>1. run = [k \in 0 .. n |-> IF k = 0 THEN x ELSE Peel(v.class, v.core, run[k - 1])]
    BY <1>7 DEF PeelTurns, n, x
  <2> QED
    BY <2>1, Zenon
<1>9. Keeps(S, n, run)
  <2>1. run[0] = x
    BY <1>1, <1>8
  <2>2. ASSUME NEW k \in 1 .. n, run[k - 1] \in S PROVE run[k] \in S
    <3>1. k \in 0 .. n /\ k # 0
      BY <1>1
    <3>2. run[k] = Peel(v.class, v.core, run[k - 1])
      BY <1>8, <3>1
    <3> QED
      BY <1>3, <2>2, <3>2
  <2> QED
    BY <1>2, <2>1, <2>2 DEF Keeps
<1>10. StaysIn(S, n, run)
  BY <1>1, <1>9, LoopsStay
<1>11. run[n] \in S
  BY <1>1, <1>10 DEF StaysIn
<1>12. PICK s \in run[n] : w \in Wrapped("DAG", {s.out})
  BY <1>4 DEF Wrapped
<1> QED
  BY <1>11, <1>12 DEF S

LEMMA ExtensionsMakeSessions ==
    ASSUME NEW v, NEW names, ViewOfSession(v, names), NEW w \in DagFromPdag(v)
    PROVE  ViewOfSession(w, names)
<1>1. v.class \in PdagFamily
  BY DEF DagFromPdag
<1>2. PICK s \in Peeling(v.core) : w \in Wrapped("DAG", {s.out})
  BY <1>1, TurnsStay
<1>3. IsCore(v.core) /\ v.n = v.core.n /\ Naming(names, v.n)
  BY ViewFacts
<1>4. s.out \in CoresOn(v.core)
  BY DEF Peeling
<1>5. IsCore(s.out) /\ s.out.n = v.n
  BY <1>3, <1>4, CoresOnAre DEF CoreOfSize
<1>6. "DAG" \in GraphClass /\ "DAG" # "AUTO"
  BY DEF GraphClass
<1> DEFINE c == s.out
<1>7. IsCore(c) /\ Naming(names, c.n) /\ w \in Wrapped("DAG", {c})
  BY <1>2, <1>3, <1>5
<1> HIDE DEF c
<1> QED
  BY <1>6, <1>7, WrappedAre

--------------------------------------------------------------------------------
(* The steps *)

(* What holds of every state: sessions are what the calls assume, and the   *)
(* only answer is the last one.                                             *)
IInv ==
    /\ IsSession(session)
    /\ IsSession(source)
    /\ left \in Nat
    /\ left > 0 => ~ answer.ok
    /\ RelationsFollowPaths
    /\ TopologicalOrder

LEMMA StartsHold == Init => IInv
<1> SUFFICES ASSUME Init PROVE IInv
  OBVIOUS
<1>1. PICK start \in Starts : session = start[1] /\ left = start[2]
  BY DEF Init
<1>2. IsSession(session) /\ left \in Nat
  BY <1>1, StartsAssumption
<1>3. source = session /\ ~ answer.ok
  BY DEF Init, Err
<1>4. RelationsFollowPaths /\ TopologicalOrder
  BY <1>3 DEF RelationsFollowPaths, TransitiveFollowPaths, NeighborsFollowMarks,
              DistrictsFollowPaths, ExogenousHaveNoPathIn, TopologicalOrder, Asked
<1> QED
  BY <1>2, <1>3, <1>4 DEF IInv

LEMMA NothingHappens == IInv /\ UNCHANGED vars => IInv'
<1> SUFFICES ASSUME IInv, UNCHANGED vars PROVE IInv'
  OBVIOUS
<1>1. /\ session' = session /\ source' = source /\ call' = call /\ answer' = answer /\ left' = left
  BY DEF vars
<1>2. RelationsFollowPaths' = RelationsFollowPaths
  BY <1>1 DEF RelationsFollowPaths, TransitiveFollowPaths, NeighborsFollowMarks,
              DistrictsFollowPaths, ExogenousHaveNoPathIn, Asked, Rows, Here, IxOf
<1>3. TopologicalOrder' = TopologicalOrder
  BY <1>1 DEF TopologicalOrder, Asked, Here
<1> QED
  BY <1>1, <1>2, <1>3 DEF IInv

(* A question keeps the session and is the last call. *)
LEMMA QuestionsHold ==
    ASSUME IInv, NEW op, NEW how, NEW arg, NEW replies, Ask(op, how, arg, replies),
           RelationsFollowPaths', TopologicalOrder'
    PROVE  IInv'
<1>1. left' = 0 /\ session' = session /\ source' = source
  BY AskLeads
<1> QED
  BY <1>1 DEF IInv

(* A question about nothing that the properties speak of. *)
LEMMA OtherQuestionsHold ==
    ASSUME IInv, NEW op, NEW how, NEW arg, NEW replies, Ask(op, how, arg, replies),
           op \notin PathOps, op # "topological_sort"
    PROVE  IInv'
<1>1. ~ answer'.ok \/ call'.op = op
  BY AskLeads DEF Answered, Call
<1> QED
  BY <1>1, NothingAsked, NothingSorted, QuestionsHold

(* A question about relations. *)
LEMMA RelationQuestionsHold ==
    ASSUME IInv, NEW op, NEW how, NEW arg, NEW replies, Ask(op, how, arg, replies),
           op # "topological_sort",
           Answered(op, how, arg, replies) => RelationsFollowPaths'
    PROVE  IInv'
<1>1. ~ answer'.ok \/ Answered(op, how, arg, replies)
  BY AskLeads
<1>2. RelationsFollowPaths'
  BY <1>1, NothingAsked
<1>3. TopologicalOrder'
  BY <1>1, NothingSorted DEF Answered, Call
<1> QED
  BY <1>2, <1>3, QuestionsHold

LEMMA TransitiveQuestions ==
    \A v, i : /\ TransitiveQuery("ancestors", v, i) = AncestorsOf(v, i)
              /\ TransitiveQuery("descendants", v, i) = DescendantsOf(v, i)
              /\ TransitiveQuery("anteriors", v, i) = AnteriorsOf(v, i)
              /\ TransitiveQuery("posteriors", v, i) = PosteriorsOf(v, i)
  BY DEF TransitiveQuery

(* A transformation into views that a session can be made of. *)
LEMMA TransformationsHold ==
    ASSUME IInv, NEW op, NEW arg, NEW derived, Turn(op, arg, derived),
           \A d \in derived : ViewOfSession(d[1], d[2])
    PROVE  IInv'
<1>1. ~ answer'.ok
  BY DEF IInv, Turn, Refused, Err
<1>2. RelationsFollowPaths' /\ TopologicalOrder'
  BY <1>1, NothingAsked, NothingSorted
<1>3. left' \in Nat
  BY DEF IInv, Turn, Refused
<1>4. IsSession(session)' /\ IsSession(source)'
  <2>1. CASE derived = {}
    <3>1. session' = session /\ source' = source
      BY <2>1 DEF Turn, Refused
    <3> QED
      BY <3>1 DEF IInv
  <2>2. CASE derived # {}
    <3>1. PICK d \in derived : session' = SessionFromView(d[1], d[2]) /\ source' = session
      BY <2>2 DEF Turn
    <3>2. IsSession(SessionFromView(d[1], d[2]))
      BY <3>1, ViewsMakeSessions
    <3> QED
      BY <3>1, <3>2 DEF IInv
  <2> QED
    BY <2>1, <2>2
<1> QED
  BY <1>1, <1>2, <1>3, <1>4 DEF IInv

LEMMA SessionViews ==
    ASSUME IInv, NEW v \in session.view
    PROVE  ViewOfSession(v, Names)
<1>1. /\ IsCore(session.core) /\ Naming(Names, session.core.n)
      /\ session.class \in GraphClass \ {"AUTO"} /\ v = View(session.class, session.core)
  BY SessionFacts DEF IInv, Names
<1> QED
  BY <1>1 DEF ViewOfSession

LEMMA AncestorsHold ==
    ASSUME IInv, NEW arg, NEW open \in BOOLEAN,
           AskAncestors(arg, open) \/ AskDescendants(arg, open)
             \/ AskAnteriors(arg, open) \/ AskPosteriors(arg, open)
    PROVE  IInv'
<1> DEFINE told(op) == {RunRelationQuery(Names, arg, [i \in Nodes(v) |-> Opened(open, i, TransitiveQuery(op, v, i))]) :
                            v \in session.view}
<1>1. /\ AskAncestors(arg, open) => Ask("ancestors", open, arg, told("ancestors"))
      /\ AskDescendants(arg, open) => Ask("descendants", open, arg, told("descendants"))
      /\ AskAnteriors(arg, open) => Ask("anteriors", open, arg, told("anteriors"))
      /\ AskPosteriors(arg, open) => Ask("posteriors", open, arg, told("posteriors"))
  <2>1. AskAncestors(arg, open) => Ask("ancestors", open, arg, told("ancestors"))
    <3> DEFINE asked(v) == [i \in Nodes(v) |-> Opened(open, i, TransitiveQuery("ancestors", v, i))]
               query(v) == [i \in Nodes(v) |-> Opened(open, i, AncestorsOf(v, i))]
    <3>1. \A v : asked(v) = query(v)
      BY TransitiveQuestions, Zenon
    <3>2. {RunRelationQuery(Names, arg, asked(v)) : v \in session.view}
              = {RunRelationQuery(Names, arg, query(v)) : v \in session.view}
      <4> HIDE DEF asked, query
      <4> QED
        BY <3>1
    <3> QED
      BY <3>2 DEF AskAncestors
  <2>2. AskDescendants(arg, open) => Ask("descendants", open, arg, told("descendants"))
    <3> DEFINE asked(v) == [i \in Nodes(v) |-> Opened(open, i, TransitiveQuery("descendants", v, i))]
               query(v) == [i \in Nodes(v) |-> Opened(open, i, DescendantsOf(v, i))]
    <3>1. \A v : asked(v) = query(v)
      BY TransitiveQuestions, Zenon
    <3>2. {RunRelationQuery(Names, arg, asked(v)) : v \in session.view}
              = {RunRelationQuery(Names, arg, query(v)) : v \in session.view}
      <4> HIDE DEF asked, query
      <4> QED
        BY <3>1
    <3> QED
      BY <3>2 DEF AskDescendants
  <2>3. AskAnteriors(arg, open) => Ask("anteriors", open, arg, told("anteriors"))
    <3> DEFINE asked(v) == [i \in Nodes(v) |-> Opened(open, i, TransitiveQuery("anteriors", v, i))]
               query(v) == [i \in Nodes(v) |-> Opened(open, i, AnteriorsOf(v, i))]
    <3>1. \A v : asked(v) = query(v)
      BY TransitiveQuestions, Zenon
    <3>2. {RunRelationQuery(Names, arg, asked(v)) : v \in session.view}
              = {RunRelationQuery(Names, arg, query(v)) : v \in session.view}
      <4> HIDE DEF asked, query
      <4> QED
        BY <3>1
    <3> QED
      BY <3>2 DEF AskAnteriors
  <2>4. AskPosteriors(arg, open) => Ask("posteriors", open, arg, told("posteriors"))
    <3> DEFINE asked(v) == [i \in Nodes(v) |-> Opened(open, i, TransitiveQuery("posteriors", v, i))]
               query(v) == [i \in Nodes(v) |-> Opened(open, i, PosteriorsOf(v, i))]
    <3>1. \A v : asked(v) = query(v)
      BY TransitiveQuestions, Zenon
    <3>2. {RunRelationQuery(Names, arg, asked(v)) : v \in session.view}
              = {RunRelationQuery(Names, arg, query(v)) : v \in session.view}
      <4> HIDE DEF asked, query
      <4> QED
        BY <3>1
    <3> QED
      BY <3>2 DEF AskPosteriors
  <2> QED
    BY <2>1, <2>2, <2>3, <2>4
<1>2. ASSUME NEW op \in TransitiveOps, Ask(op, open, arg, told(op)) PROVE IInv'
  <2>1. Answered(op, open, arg, told(op)) => RelationsFollowPaths'
    BY TransitiveStep DEF IInv
  <2> HIDE DEF told
  <2> QED
    BY <1>2, <2>1, RelationQuestionsHold DEF TransitiveOps
<1> HIDE DEF told
<1> QED
  BY <1>1, <1>2 DEF TransitiveOps

LEMMA NeighborsHold ==
    ASSUME IInv, NEW arg, NEW mode \in NeighborMode, AskNeighbors(arg, mode)
    PROVE  IInv'
<1> DEFINE told == {RunRelationQuery(Names, arg, [i \in Nodes(v) |-> NeighborsOf(v, i, mode)]) : v \in session.view}
<1>1. Ask("neighbors", mode, arg, told)
  BY DEF AskNeighbors
<1>2. Answered("neighbors", mode, arg, told) => RelationsFollowPaths'
  BY NeighborsStep DEF IInv
<1> HIDE DEF told
<1> QED
  BY <1>1, <1>2, RelationQuestionsHold

LEMMA DistrictOfHolds ==
    ASSUME IInv, NEW arg, AskDistrictOf(arg)
    PROVE  IInv'
<1> DEFINE told == {RunRelationQuery(Names, arg, [i \in Nodes(v) |-> DistrictOf(v, i)]) : v \in session.view}
<1>1. Ask("district_of", {}, arg, told)
  BY DEF AskDistrictOf
<1>2. Answered("district_of", {}, arg, told) => RelationsFollowPaths'
  BY DistrictOfStep DEF IInv
<1> HIDE DEF told
<1> QED
  BY <1>1, <1>2, RelationQuestionsHold

LEMMA DistrictsHold ==
    ASSUME IInv, AskDistricts
    PROVE  IInv'
<1> DEFINE told == {IF DistrictsOf(v).ok THEN Ok({ToNames(Names, D) : D \in DistrictsOf(v).value}) ELSE Err :
                        v \in session.view}
<1>1. Ask("districts", {}, {}, told)
  BY DEF AskDistricts
<1>2. Answered("districts", {}, {}, told) => RelationsFollowPaths'
  BY DistrictsStep DEF IInv
<1> HIDE DEF told
<1> QED
  BY <1>1, <1>2, RelationQuestionsHold

LEMMA ExogenousHolds ==
    ASSUME IInv, NEW asParents \in BOOLEAN, AskExogenous(asParents)
    PROVE  IInv'
<1> DEFINE told == {IF ExogenousNodes(v, asParents).ok
                    THEN Ok(ToNames(Names, ExogenousNodes(v, asParents).value)) ELSE Err : v \in session.view}
<1>1. Ask("exogenous", asParents, {}, told)
  BY DEF AskExogenous
<1>2. Answered("exogenous", asParents, {}, told) => RelationsFollowPaths'
  BY ExogenousStep DEF IInv
<1> HIDE DEF told
<1> QED
  BY <1>1, <1>2, RelationQuestionsHold

LEMMA SortHolds ==
    ASSUME IInv, AskTopologicalSort
    PROVE  IInv'
<1> DEFINE told == {IF TopologicalSortOf(v).ok
                    THEN Ok(SelectNames(TopologicalSortOf(v).value, Names)) ELSE Err : v \in session.view}
<1>1. Ask("topological_sort", {}, {}, told)
  BY DEF AskTopologicalSort
<1>2. TopologicalOrder'
  BY TopologicalStep DEF IInv
<1> HIDE DEF told
<1>3. ~ answer'.ok \/ call'.op = "topological_sort"
  BY <1>1, AskLeads DEF Answered, Call
<1>4. RelationsFollowPaths'
  <2>1. "topological_sort" \notin PathOps
    BY DEF PathOps, TransitiveOps
  <2> QED
    BY <1>3, <2>1, NothingAsked
<1> QED
  BY <1>1, <1>2, <1>4, QuestionsHold

LEMMA OthersHold ==
    ASSUME IInv, NEW arg, NEW type, NEW forced, NEW S,
           \/ AskParents(arg) \/ AskChildren(arg) \/ AskSpouses(arg) \/ AskMarkovBlanket(arg)
           \/ AskIsType(type, forced) \/ AskMoralOfAncestors(S) \/ AskAncestralReduction(S)
    PROVE  IInv'
<1>1. PICK op \in {"parents", "children", "spouses", "markov_blanket", "is_type",
                   "moral_of_ancestors", "ancestral_reduction"} :
          \E how, said, replies : Ask(op, how, said, replies)
  BY Zenon DEF AskParents, AskChildren, AskSpouses, AskMarkovBlanket, AskIsType,
               AskMoralOfAncestors, AskAncestralReduction
<1>2. op \notin PathOps /\ op # "topological_sort"
  BY DEF PathOps, TransitiveOps
<1>3. PICK how, said, replies : Ask(op, how, said, replies)
  BY <1>1
<1> QED
  BY <1>2, <1>3, OtherQuestionsHold

(* Transformations that keep the nodes. *)
LEMMA SameNodesHold ==
    ASSUME IInv, TurnToCpdag \/ TurnToMpdag \/ TurnToSkeleton \/ TurnToMoral \/ TurnToDag
    PROVE  IInv'
<1> DEFINE cpdag == UNION {ToCpdag(v) \X {Names} : v \in session.view}
           mpdag == UNION {ToMpdag(v) \X {Names} : v \in session.view}
           skeleton == UNION {SkeletonOf(v) \X {Names} : v \in session.view}
           moral == UNION {Moralize(v) \X {Names} : v \in session.view}
           dag == UNION {DagFromPdag(v) \X {Names} : v \in session.view}
<1>1. \A d \in cpdag \cup mpdag \cup skeleton \cup moral \cup dag :
          \E v \in session.view :
              /\ d[1] \in ToCpdag(v) \cup ToMpdag(v) \cup SkeletonOf(v) \cup Moralize(v) \cup DagFromPdag(v)
              /\ d[2] = Names
  OBVIOUS
<1>2. \A d \in cpdag \cup mpdag \cup skeleton \cup moral \cup dag : ViewOfSession(d[1], d[2])
  <2> SUFFICES ASSUME NEW d \in cpdag \cup mpdag \cup skeleton \cup moral \cup dag
               PROVE  ViewOfSession(d[1], d[2])
    OBVIOUS
  <2>1. PICK v \in session.view :
            /\ d[1] \in ToCpdag(v) \cup ToMpdag(v) \cup SkeletonOf(v) \cup Moralize(v) \cup DagFromPdag(v)
            /\ d[2] = Names
    BY <1>1
  <2>2. ViewOfSession(v, Names)
    BY SessionViews
  <2> HIDE DEF cpdag, mpdag, skeleton, moral, dag
  <2> QED
    BY <2>1, <2>2, EssentialMakeSessions, MpdagsMakeSessions, SkeletonsMakeSessions,
       MoralGraphsMakeSessions, ExtensionsMakeSessions
<1>3. \/ Turn("to_cpdag", {}, cpdag) \/ Turn("meek_closure", {}, mpdag) \/ Turn("skeleton", {}, skeleton)
      \/ Turn("moralize", {}, moral) \/ Turn("dag_from_pdag", {}, dag)
  BY DEF TurnToCpdag, TurnToMpdag, TurnToSkeleton, TurnToMoral, TurnToDag
<1> HIDE DEF cpdag, mpdag, skeleton, moral, dag
<1> QED
  BY <1>2, <1>3, TransformationsHold

LEMMA ProjectionHolds ==
    ASSUME IInv, NEW L, TurnToProjection(L)
    PROVE  IInv'
<1> DEFINE X == IndexSet(L)
           derived == UNION {OnlyDags(v, LatentProject(v, X)) \X {Remaining(v, X)} : v \in session.view}
<1>1. Turn("latent_project", L, derived)
  BY DEF TurnToProjection
<1> HIDE DEF X
<1>2. \A d \in derived : ViewOfSession(d[1], d[2])
  <2> SUFFICES ASSUME NEW d \in derived PROVE ViewOfSession(d[1], d[2])
    OBVIOUS
  <2>1. PICK v \in session.view : d[1] \in OnlyDags(v, LatentProject(v, X)) /\ d[2] = Remaining(v, X)
    OBVIOUS
  <2>2. d[1] \in LatentProject(v, X)
    BY <2>1 DEF OnlyDags
  <2>3. ViewOfSession(v, Names)
    BY SessionViews
  <2>4. ViewOfSession(d[1], SelectNames(SortedSeq(Nodes(v) \ X), Names))
    BY <2>2, <2>3, ProjectionsMakeSessions
  <2> QED
    BY <2>1, <2>4 DEF Remaining
<1> HIDE DEF derived
<1> QED
  BY <1>1, <1>2, TransformationsHold

LEMMA IndicesAre ==
    ASSUME IInv, NEW L \in SUBSET ToSet(Names), NEW xs \in SetToSeqs(L)
    PROVE  \E k \in Nat : DOMAIN Indices(xs) = 1 .. k
<1>1. Names \in Seq(ToSet(Names)) /\ Len(Names) \in Nat
  BY DEF IInv, IsSession, Names
<1>2. IsFiniteSet(ToSet(Names))
  <2>1. IsFiniteSet(1 .. Len(Names))
    BY <1>1, FS_Interval
  <2>2. Names \in Surjection(1 .. Len(Names), ToSet(Names))
    BY <1>1 DEF ToSet, Surjection
  <2> QED
    BY <2>1, <2>2, FS_Surjection
<1>3. Cardinality(L) \in Nat
  BY <1>2, FS_Subset, FS_CardinalityType
<1>4. DOMAIN xs = 1 .. Cardinality(L)
  BY DEF SetToSeqs
<1>5. DOMAIN Indices(xs) = DOMAIN xs
  BY DEF Indices
<1> QED
  BY <1>3, <1>4, <1>5

LEMMA ExogenousTurnHolds ==
    ASSUME IInv, NEW L \in SUBSET ToSet(Names), NEW xs \in SetToSeqs(L), TurnExogenous(xs)
    PROVE  IInv'
<1> DEFINE order == Indices(xs)
           derived == UNION {OnlyDags(v, Exogenize(v, order)) \X {Names} : v \in session.view}
<1>1. Turn("exogenize", xs, derived)
  BY DEF TurnExogenous
<1>2. PICK k \in Nat : DOMAIN order = 1 .. k
  BY IndicesAre
<1> HIDE DEF order
<1>3. \A d \in derived : ViewOfSession(d[1], d[2])
  <2> SUFFICES ASSUME NEW d \in derived PROVE ViewOfSession(d[1], d[2])
    OBVIOUS
  <2>1. PICK v \in session.view : d[1] \in OnlyDags(v, Exogenize(v, order)) /\ d[2] = Names
    OBVIOUS
  <2>2. d[1] \in Exogenize(v, order)
    BY <2>1 DEF OnlyDags
  <2>3. ViewOfSession(v, Names)
    BY SessionViews
  <2>4. ViewOfSession(d[1], Names)
    BY <1>2, <2>2, <2>3, ExogenizeMakeSessions
  <2> QED
    BY <2>1, <2>4
<1> HIDE DEF derived
<1> QED
  BY <1>1, <1>3, TransformationsHold

LEMMA NormalHolds ==
    ASSUME IInv, NEW xs, TurnNormal(xs)
    PROVE  IInv'
<1> DEFINE order == Indices(xs)
           derived == UNION {OnlyDags(v, Normalize(v, order))
                               \X {SelectNames(NormalizedKeep(v, order), Names)} : v \in session.view}
<1>1. Turn("normalize", xs, derived)
  BY DEF TurnNormal
<1> HIDE DEF order
<1>2. \A d \in derived : ViewOfSession(d[1], d[2])
  <2> SUFFICES ASSUME NEW d \in derived PROVE ViewOfSession(d[1], d[2])
    OBVIOUS
  <2>1. PICK v \in session.view : /\ d[1] \in OnlyDags(v, Normalize(v, order))
                                  /\ d[2] = SelectNames(NormalizedKeep(v, order), Names)
    OBVIOUS
  <2>2. d[1] \in Normalize(v, order)
    BY <2>1 DEF OnlyDags
  <2>3. ViewOfSession(v, Names)
    BY SessionViews
  <2> QED
    BY <2>1, <2>2, <2>3, NormalizedMakeSessions
<1> HIDE DEF derived
<1> QED
  BY <1>1, <1>2, TransformationsHold

LEMMA ConditionalHolds ==
    ASSUME IInv, NEW C, NEW M, TurnConditional(C, M)
    PROVE  IInv'
<1> DEFINE X == IndexSet(C)
           Y == IndexSet(M)
           margins(v) == CondMarginalize(v, X, Y)
           labels(v) == Remaining(v, IndexSet(C \cup M))
           derived == UNION {margins(v) \X {labels(v)} : v \in session.view}
<1>1. Turn("condition_marginalize", <<C, M>>, derived)
  BY DEF TurnConditional
<1>2. IndexSet(C \cup M) = X \cup Y
  BY DEF IndexSet
<1> HIDE DEF X, Y
<1>3. \A d \in derived : ViewOfSession(d[1], d[2])
  <2> SUFFICES ASSUME NEW d \in derived PROVE ViewOfSession(d[1], d[2])
    OBVIOUS
  <2>1. PICK v \in session.view :
            d[1] \in margins(v) /\ d[2] = labels(v)
    <3> HIDE DEF margins, labels
    <3> QED
      OBVIOUS
  <2>2. ViewOfSession(v, Names)
    BY SessionViews
  <2>3. ViewOfSession(d[1], SelectNames(SortedSeq(Nodes(v) \ (X \cup Y)), Names))
    BY <2>1, <2>2, MarginsMakeSessions
  <2> QED
    BY <1>2, <2>1, <2>3 DEF Remaining
<1> HIDE DEF derived
<1> QED
  BY <1>1, <1>3, TransformationsHold

LEMMA StepsHold == IInv /\ Next => IInv'
<1> SUFFICES ASSUME IInv, Next PROVE IInv'
  OBVIOUS
<1>1. ASSUME NEW arg \in Queried,
             \/ AskParents(arg) \/ AskChildren(arg) \/ AskSpouses(arg)
             \/ \E mode \in NeighborMode : AskNeighbors(arg, mode)
             \/ \E open \in BOOLEAN :
                 \/ AskAncestors(arg, open) \/ AskDescendants(arg, open)
                 \/ AskAnteriors(arg, open) \/ AskPosteriors(arg, open)
             \/ AskMarkovBlanket(arg)
             \/ AskDistrictOf(arg)
      PROVE  IInv'
  BY <1>1, OthersHold, NeighborsHold, AncestorsHold, DistrictOfHolds
<1>2. CASE AskDistricts
  BY <1>2, DistrictsHold
<1>3. CASE \E asParents \in BOOLEAN : AskExogenous(asParents)
  BY <1>3, ExogenousHolds
<1>4. CASE AskTopologicalSort
  BY <1>4, SortHolds
<1>5. CASE \E type \in Types, forced \in BOOLEAN : AskIsType(type, forced)
  BY <1>5, OthersHold
<1>6. CASE \E S \in NameSets(MaxSeeds) : AskMoralOfAncestors(S) \/ AskAncestralReduction(S)
  BY <1>6, OthersHold
<1>7. CASE TurnToCpdag \/ TurnToMpdag \/ TurnToSkeleton \/ TurnToMoral \/ TurnToDag
  BY <1>7, SameNodesHold
<1>8. ASSUME NEW L \in NameSets(MaxLatents),
             \/ TurnToProjection(L)
             \/ \E xs \in SetToSeqs(L) : TurnExogenous(xs) \/ TurnNormal(xs)
             \/ \E C \in SUBSET L : TurnConditional(C, L \ C)
      PROVE  IInv'
  <2>1. L \in SUBSET ToSet(Names)
    BY DEF NameSets
  <2> QED
    BY <1>8, <2>1, ProjectionHolds, ExogenousTurnHolds, NormalHolds, ConditionalHolds
<1> QED
  BY <1>1, <1>2, <1>3, <1>4, <1>5, <1>6, <1>7, <1>8 DEF Next

LEMMA InvariantHolds == Spec => []IInv
<1>1. IInv /\ [Next]_vars => IInv'
  BY StepsHold, NothingHappens
<1> QED
  BY StartsHold, <1>1, PTL DEF Spec

--------------------------------------------------------------------------------
(* What the questions are answered *)

(* The ancestors, descendants, anteriors and posteriors that a graph tells *)
(* of a node are those that its paths lead to, its neighbours follow the    *)
(* marks of the edges, its districts the paths of bidirected edges, and     *)
(* its exogenous nodes are those no path leads into: in every graph that a  *)
(* session is started with or turned into, of any class and size.          *)
THEOREM AnswersFollowPaths == Spec => []RelationsFollowPaths
<1>1. IInv => RelationsFollowPaths
  BY DEF IInv
<1> QED
  BY <1>1, InvariantHolds, PTL

(* A topological sort that is not refused lists the name of every node      *)
(* once, and both ends of every arc in the order of the arc.                *)
THEOREM SortsAreTopological == Spec => []TopologicalOrder
<1>1. IInv => TopologicalOrder
  BY DEF IInv
<1> QED
  BY <1>1, InvariantHolds, PTL

(* Whatever a session is turned into is a session: its edges end at its     *)
(* nodes and have types of its registry, each node has a name of its own,   *)
(* and the view it keeps is that of its core.                              *)
THEOREM SessionsAreSound == Spec => [](IsSession(session) /\ IsSession(source))
<1>1. IInv => IsSession(session) /\ IsSession(source)
  BY DEF IInv
<1> QED
  BY <1>1, InvariantHolds, PTL
--------------------------------------------------------------------------------
(* Sums *)

Drawn(S) == CHOOSE x \in S : TRUE

(* When a function is the one that adds f up over the subsets of T.         *)
AddsUp(f, T, F) ==
    F = [S \in SUBSET T |-> IF S = {} THEN 0 ELSE f[Drawn(S)] + F[S \ {Drawn(S)}]]

LEMMA SumIs ==
    ASSUME NEW f, NEW T
    PROVE  SumFunctionOnSet(f, T) = (CHOOSE F : AddsUp(f, T, F))[T]
  BY DEF SumFunctionOnSet, FoldFunctionOnSet, MapThenFoldSet, AddsUp, Drawn

(* The members of the piles that S names. *)
Piled(K, S) == UNION {K[x] : x \in S}

LEMMA PiledOneMore ==
    ASSUME NEW T, NEW K, IsFiniteSet(Piled(K, T)),
           \A x, y \in T : x # y => K[x] \cap K[y] = {},
           NEW S \in SUBSET T, NEW x \in S
    PROVE  /\ IsFiniteSet(Piled(K, S)) /\ IsFiniteSet(K[x]) /\ IsFiniteSet(Piled(K, S \ {x}))
           /\ Cardinality(Piled(K, S)) \in Nat /\ Cardinality(K[x]) \in Nat
           /\ Cardinality(Piled(K, S)) = Cardinality(K[x]) + Cardinality(Piled(K, S \ {x}))
<1>1. /\ Piled(K, S) = K[x] \cup Piled(K, S \ {x})
      /\ Piled(K, S) \in SUBSET Piled(K, T) /\ K[x] \in SUBSET Piled(K, T)
      /\ Piled(K, S \ {x}) \in SUBSET Piled(K, T)
  BY DEF Piled
<1>2. K[x] \cap Piled(K, S \ {x}) = {}
  BY DEF Piled
<1>3. IsFiniteSet(Piled(K, S)) /\ IsFiniteSet(K[x]) /\ IsFiniteSet(Piled(K, S \ {x}))
  BY <1>1, FS_Subset
<1>4. Cardinality(K[x] \cup Piled(K, S \ {x})) =
          Cardinality(K[x]) + Cardinality(Piled(K, S \ {x})) - Cardinality(K[x] \cap Piled(K, S \ {x}))
  BY <1>3, FS_Union
<1>5. Cardinality(K[x] \cap Piled(K, S \ {x})) = 0
  BY <1>2, FS_EmptySet
<1>6. /\ Cardinality(Piled(K, S)) \in Nat /\ Cardinality(K[x]) \in Nat
      /\ Cardinality(Piled(K, S \ {x})) \in Nat
  BY <1>3, FS_CardinalityType
<1>7. Cardinality(Piled(K, S)) = Cardinality(K[x]) + Cardinality(Piled(K, S \ {x}))
  <2>1. Cardinality(Piled(K, S)) = Cardinality(K[x] \cup Piled(K, S \ {x}))
    BY <1>1
  <2> DEFINE a == Cardinality(K[x])
             b == Cardinality(Piled(K, S \ {x}))
  <2>2. a \in Nat /\ b \in Nat /\ Cardinality(Piled(K, S)) = a + b - 0
    BY <1>4, <1>5, <1>6, <2>1
  <2> HIDE DEF a, b
  <2>3. Cardinality(Piled(K, S)) = a + b
    BY <2>2
  <2> QED
    BY <2>3 DEF a, b
<1> QED
  BY <1>3, <1>6, <1>7

LEMMA SmallestOf ==
    ASSUME NEW T, IsFiniteSet(T), NEW bad \in SUBSET (SUBSET T), bad # {}
    PROVE  \E S \in bad : \A R \in bad : Cardinality(S) <= Cardinality(R)
<1> DEFINE n == Cardinality(T)
           ranks == {Cardinality(S) : S \in bad}
<1>1. \A S \in bad : Cardinality(S) \in Nat /\ Cardinality(S) <= n
  BY FS_Subset, FS_CardinalityType
<1>2. n \in Nat
  BY FS_CardinalityType
<1> HIDE DEF n
<1>3. ranks \in SUBSET (0 .. n) /\ ranks # {}
  BY <1>1, <1>2
<1> HIDE DEF ranks
<1>4. 0 \in Int /\ n \in Int /\ ranks \in SUBSET Nat
  BY <1>2, <1>3
<1>5. IsFiniteSet(0 .. n)
  BY <1>4, FS_Interval
<1>6. IsFiniteSet(ranks)
  BY <1>3, <1>5, FS_Subset
<1>7. PICK r \in ranks : \A q \in ranks : r <= q
  BY <1>3, <1>4, <1>6, Least
<1> QED
  BY <1>7 DEF ranks

(* The sum of the sizes of piles is the size of all: a second function that *)
(* adds up would differ from the sizes first at a smallest set.             *)
LEMMA SumOfPiles ==
    ASSUME NEW T, IsFiniteSet(T), NEW K, IsFiniteSet(Piled(K, T)),
           \A x, y \in T : x # y => K[x] \cap K[y] = {},
           NEW f, \A x \in T : f[x] = Cardinality(K[x])
    PROVE  SumFunctionOnSet(f, T) = Cardinality(Piled(K, T))
<1> DEFINE sizes == [S \in SUBSET T |-> Cardinality(Piled(K, S))]
           F == CHOOSE G : AddsUp(f, T, G)
<1>1. ASSUME NEW S \in SUBSET T, S # {} PROVE Drawn(S) \in S
  BY <1>1 DEF Drawn
<1>2. Cardinality(Piled(K, {})) = 0
  <2>1. Piled(K, {}) = {}
    BY DEF Piled
  <2> QED
    BY <2>1, FS_EmptySet
<1>3. ASSUME NEW S \in SUBSET T, S # {}
      PROVE  Cardinality(Piled(K, S)) = f[Drawn(S)] + Cardinality(Piled(K, S \ {Drawn(S)}))
  <2>1. Drawn(S) \in S
    BY <1>1, <1>3
  <2>2. f[Drawn(S)] = Cardinality(K[Drawn(S)])
    BY <2>1
  <2>3. Cardinality(Piled(K, S)) = Cardinality(K[Drawn(S)]) + Cardinality(Piled(K, S \ {Drawn(S)}))
    BY <2>1, PiledOneMore
  <2> QED
    BY <2>2, <2>3
<1>4. AddsUp(f, T, sizes)
  <2>1. \A S \in SUBSET T : sizes[S] = IF S = {} THEN 0 ELSE f[Drawn(S)] + sizes[S \ {Drawn(S)}]
    <3> SUFFICES ASSUME NEW S \in SUBSET T
                 PROVE  sizes[S] = IF S = {} THEN 0 ELSE f[Drawn(S)] + sizes[S \ {Drawn(S)}]
      OBVIOUS
    <3>1. sizes[S] = Cardinality(Piled(K, S)) /\ sizes[S \ {Drawn(S)}] = Cardinality(Piled(K, S \ {Drawn(S)}))
      OBVIOUS
    <3> HIDE DEF sizes
    <3> QED
      BY <1>2, <1>3, <3>1
  <2>2. sizes = [S \in SUBSET T |-> sizes[S]]
    OBVIOUS
  <2> HIDE DEF sizes
  <2> QED
    BY <2>1, <2>2 DEF AddsUp
<1>5. AddsUp(f, T, F)
  BY <1>4
<1> HIDE DEF F
<1>6. \A S \in SUBSET T : F[S] = IF S = {} THEN 0 ELSE f[Drawn(S)] + F[S \ {Drawn(S)}]
  BY <1>5 DEF AddsUp
<1> DEFINE bad == {S \in SUBSET T : F[S] # Cardinality(Piled(K, S))}
<1>7. bad = {}
  <2> SUFFICES ASSUME bad # {} PROVE FALSE
    OBVIOUS
  <2>1. \A S \in SUBSET T : IsFiniteSet(S) /\ Cardinality(S) \in Nat
    BY FS_Subset, FS_CardinalityType
  <2>2. \E S \in bad : \A R \in bad : Cardinality(S) <= Cardinality(R)
    <3>1. bad \in SUBSET (SUBSET T)
      OBVIOUS
    <3> HIDE DEF bad
    <3> QED
      BY <3>1, SmallestOf
  <2>3. PICK S \in bad : \A R \in bad : Cardinality(S) <= Cardinality(R)
    BY <2>2
  <2>4. S \in SUBSET T /\ F[S] # Cardinality(Piled(K, S))
    OBVIOUS
  <2>5. S # {}
    BY <1>2, <1>6, <2>4
  <2>6. Drawn(S) \in S /\ S \ {Drawn(S)} \in SUBSET T
    BY <1>1, <2>4, <2>5
  <2>7. Cardinality(S \ {Drawn(S)}) < Cardinality(S)
    <3>1. IsFiniteSet(S) /\ Cardinality(S) \in Nat
      BY <2>1, <2>4
    <3>2. Cardinality(S \ {Drawn(S)}) = Cardinality(S) - 1
      BY <2>6, <3>1, FS_RemoveElement
    <3> QED
      BY <3>1, <3>2
  <2>8. S \ {Drawn(S)} \notin bad
    <3>1. Cardinality(S) \in Nat /\ Cardinality(S \ {Drawn(S)}) \in Nat
      BY <2>1, <2>4, <2>6
    <3> HIDE DEF bad
    <3> QED
      BY <2>3, <2>7, <3>1
  <2>9. F[S \ {Drawn(S)}] = Cardinality(Piled(K, S \ {Drawn(S)}))
    BY <2>6, <2>8
  <2> HIDE DEF bad
  <2> QED
    BY <1>3, <1>6, <2>4, <2>5, <2>9
<1>8. F[T] = Cardinality(Piled(K, T))
  BY <1>7
<1> QED
  BY <1>8, SumIs DEF F

--------------------------------------------------------------------------------
(* Buckets in a row: cells, with the half-edges K puts in each              *)

Cells(n, m) == (0 .. (n - 1)) \X (1 .. m)

Earlier(n, m, c) == {d \in Cells(n, m) : d[1] < c[1] \/ (d[1] = c[1] /\ d[2] < c[2])}

Stacks(n, m, K, D) ==
    /\ n \in Nat /\ m \in Nat /\ IsFiniteSet(D)
    /\ K \in [Cells(n, m) -> SUBSET D]
    /\ \A c, d \in Cells(n, m) : c # d => K[c] \cap K[d] = {}

Base(n, m, K, c) == Cardinality(Piled(K, Earlier(n, m, c)))

LEMMA PilesAreFinite ==
    ASSUME NEW n, NEW m, NEW K, NEW D, Stacks(n, m, K, D), NEW S \in SUBSET Cells(n, m)
    PROVE  IsFiniteSet(Piled(K, S)) /\ Cardinality(Piled(K, S)) \in Nat
<1>1. Piled(K, S) \in SUBSET D
  BY DEF Piled, Stacks
<1>2. IsFiniteSet(Piled(K, S))
  BY <1>1, FS_Subset DEF Stacks
<1> QED
  BY <1>2, FS_CardinalityType

LEMMA CellFacts ==
    ASSUME NEW n, NEW m, NEW K, NEW D, Stacks(n, m, K, D), NEW c \in Cells(n, m),
           NEW S \in SUBSET Cells(n, m), c \in S
    PROVE  /\ IsFiniteSet(K[c]) /\ Cardinality(K[c]) \in Nat
           /\ Cardinality(Piled(K, S)) = Cardinality(Piled(K, S \ {c})) + Cardinality(K[c])
           /\ Cardinality(Piled(K, S \ {c})) \in Nat /\ Cardinality(Piled(K, S)) \in Nat
<1>1. IsFiniteSet(Piled(K, S)) /\ Cardinality(Piled(K, S)) \in Nat
  BY PilesAreFinite
<1>2. S \ {c} \in SUBSET Cells(n, m)
  OBVIOUS
<1>3. Cardinality(Piled(K, S \ {c})) \in Nat
  BY <1>2, PilesAreFinite
<1>4. \A x, y \in S : x # y => K[x] \cap K[y] = {}
  BY DEF Stacks
<1>5. S \in SUBSET S
  OBVIOUS
<1>6. /\ IsFiniteSet(K[c]) /\ Cardinality(K[c]) \in Nat
      /\ Cardinality(Piled(K, S)) = Cardinality(K[c]) + Cardinality(Piled(K, S \ {c}))
  BY <1>1, <1>4, <1>5, PiledOneMore
<1> QED
  BY <1>1, <1>3, <1>6

LEMMA BaseFacts ==
    ASSUME NEW n, NEW m, NEW K, NEW D, Stacks(n, m, K, D), NEW c \in Cells(n, m)
    PROVE  /\ IsFiniteSet(K[c]) /\ Cardinality(K[c]) \in Nat /\ Base(n, m, K, c) \in Nat
           /\ \A d \in Cells(n, m) :
                  c \in Earlier(n, m, d) => Base(n, m, K, c) + Cardinality(K[c]) <= Base(n, m, K, d)
           /\ Base(n, m, K, c) + Cardinality(K[c]) <= Cardinality(Piled(K, Cells(n, m)))
           /\ Base(n, m, K, <<c[1], c[2] + 1>>) = Base(n, m, K, c) + Cardinality(K[c])
<1> DEFINE E(d) == Earlier(n, m, d)
<1>1. /\ n \in Nat /\ m \in Nat /\ c = <<c[1], c[2]>> /\ c[1] \in 0 .. (n - 1) /\ c[2] \in 1 .. m
      /\ E(c) \in SUBSET Cells(n, m)
  BY DEF Stacks, Cells, Earlier
<1>2. \A d \in Cells(n, m) : /\ d = <<d[1], d[2]>> /\ d[1] \in Int /\ d[2] \in Int
  BY <1>1 DEF Cells
<1>3. /\ IsFiniteSet(K[c]) /\ Cardinality(K[c]) \in Nat
  BY CellFacts
<1>4. IsFiniteSet(Piled(K, E(c))) /\ Base(n, m, K, c) \in Nat
  BY <1>1, PilesAreFinite DEF Base
<1>5. ASSUME NEW S \in SUBSET Cells(n, m), c \in S, E(c) \in SUBSET (S \ {c})
      PROVE  Base(n, m, K, c) + Cardinality(K[c]) <= Cardinality(Piled(K, S))
  <2>1. /\ Cardinality(Piled(K, S)) = Cardinality(Piled(K, S \ {c})) + Cardinality(K[c])
        /\ Cardinality(Piled(K, S \ {c})) \in Nat
    BY <1>5, CellFacts
  <2>2. Piled(K, E(c)) \in SUBSET Piled(K, S \ {c})
    BY <1>5 DEF Piled
  <2>3. S \ {c} \in SUBSET Cells(n, m)
    OBVIOUS
  <2>4. IsFiniteSet(Piled(K, S \ {c}))
    BY <2>3, PilesAreFinite
  <2>5. Base(n, m, K, c) <= Cardinality(Piled(K, S \ {c}))
    BY <2>2, <2>4, FS_Subset DEF Base
  <2> QED
    BY <1>3, <1>4, <2>1, <2>5
<1>6. c \notin E(c)
  BY <1>1 DEF Earlier
<1>7. ASSUME NEW d \in Cells(n, m), c \in E(d)
      PROVE  Base(n, m, K, c) + Cardinality(K[c]) <= Base(n, m, K, d)
  <2>1. E(c) \in SUBSET (E(d) \ {c})
    <3> SUFFICES ASSUME NEW e \in E(c) PROVE e \in E(d) /\ e # c
      OBVIOUS
    <3>1. /\ e \in Cells(n, m) /\ (e[1] < c[1] \/ (e[1] = c[1] /\ e[2] < c[2]))
          /\ (c[1] < d[1] \/ (c[1] = d[1] /\ c[2] < d[2]))
      BY <1>7 DEF Earlier
    <3>2. e[1] \in Int /\ e[2] \in Int /\ c[1] \in Int /\ c[2] \in Int /\ d[1] \in Int /\ d[2] \in Int
      BY <1>2, <3>1
    <3>3. e[1] < d[1] \/ (e[1] = d[1] /\ e[2] < d[2])
      BY <3>1, <3>2
    <3> QED
      BY <1>6, <3>1, <3>3 DEF Earlier
  <2>2. E(d) \in SUBSET Cells(n, m)
    BY DEF Earlier
  <2> QED
    BY <1>5, <1>7, <2>1, <2>2 DEF Base
<1>8. Base(n, m, K, c) + Cardinality(K[c]) <= Cardinality(Piled(K, Cells(n, m)))
  <2>1. E(c) \in SUBSET (Cells(n, m) \ {c})
    BY <1>1, <1>6
  <2> QED
    BY <1>5, <2>1
<1>9. Base(n, m, K, <<c[1], c[2] + 1>>) = Base(n, m, K, c) + Cardinality(K[c])
  <2> DEFINE d == <<c[1], c[2] + 1>>
  <2>1. E(d) \in SUBSET Cells(n, m) /\ c \in E(d)
    BY <1>1 DEF Earlier
  <2>2. E(d) \ {c} = E(c)
    <3>1. ASSUME NEW e \in Cells(n, m)
          PROVE  (e \in E(d) /\ e # c) <=> e \in E(c)
      <4>1. e = <<e[1], e[2]>> /\ e[1] \in Int /\ e[2] \in Int /\ c[1] \in Int /\ c[2] \in Int
        BY <1>1, <1>2
      <4>2. e # c <=> (e[1] # c[1] \/ e[2] # c[2])
        BY <1>1, <4>1
      <4>3. d[1] = c[1] /\ d[2] = c[2] + 1
        OBVIOUS
      <4> HIDE DEF d
      <4>4. e \in E(d) <=> (e[1] < c[1] \/ (e[1] = c[1] /\ e[2] < c[2] + 1))
        BY <4>3 DEF Earlier
      <4>5. e \in E(c) <=> (e[1] < c[1] \/ (e[1] = c[1] /\ e[2] < c[2]))
        BY DEF Earlier
      <4> QED
        BY <4>1, <4>2, <4>4, <4>5
    <3> HIDE DEF d
    <3> QED
      BY <1>1, <2>1, <3>1
  <2> HIDE DEF d
  <2>3. Cardinality(Piled(K, E(d))) = Cardinality(Piled(K, E(d) \ {c})) + Cardinality(K[c])
    BY <2>1, CellFacts
  <2> QED
    BY <2>2, <2>3 DEF Base, d
<1> QED
  BY <1>3, <1>4, <1>7, <1>8, <1>9

(* The buckets of a node follow those of the node before.                   *)
RowsMeet(n, m, K) ==
    \A i \in 0 .. (n - 1) : Base(n, m, K, <<i + 1, 1>>) = Base(n, m, K, <<i, m + 1>>)

LEMMA RowFacts ==
    ASSUME NEW n, NEW m, NEW K, NEW D, Stacks(n, m, K, D)
    PROVE  /\ Base(n, m, K, <<0, 1>>) = 0
           /\ Base(n, m, K, <<n, 1>>) = Cardinality(Piled(K, Cells(n, m)))
           /\ RowsMeet(n, m, K)
<1>1. n \in Nat /\ m \in Nat
  BY DEF Stacks
<1>2. \A d \in Cells(n, m) : d[1] \in 0 .. (n - 1) /\ d[2] \in 1 .. m
  BY DEF Cells
<1>3. Base(n, m, K, <<0, 1>>) = 0
  <2>1. Earlier(n, m, <<0, 1>>) = {}
    <3> SUFFICES ASSUME NEW d \in Earlier(n, m, <<0, 1>>) PROVE FALSE
      OBVIOUS
    <3>1. d \in Cells(n, m) /\ (d[1] < 0 \/ (d[1] = 0 /\ d[2] < 1))
      BY DEF Earlier
    <3> QED
      BY <1>1, <1>2, <3>1
  <2>2. Piled(K, {}) = {}
    BY DEF Piled
  <2> QED
    BY <2>1, <2>2, FS_EmptySet DEF Base
<1>4. Earlier(n, m, <<n, 1>>) = Cells(n, m)
  <2>1. \A d \in Cells(n, m) : d[1] < n
    BY <1>1, <1>2
  <2> QED
    BY <2>1 DEF Earlier
<1>5. ASSUME NEW i \in 0 .. (n - 1) PROVE Earlier(n, m, <<i + 1, 1>>) = Earlier(n, m, <<i, m + 1>>)
  <2>1. ASSUME NEW d \in Cells(n, m)
        PROVE  (d[1] < i + 1 \/ (d[1] = i + 1 /\ d[2] < 1)) <=> (d[1] < i \/ (d[1] = i /\ d[2] < m + 1))
    <3>1. d[1] \in 0 .. (n - 1) /\ d[2] \in 1 .. m
      BY <1>2
    <3> QED
      BY <1>1, <3>1
  <2> QED
    BY <2>1 DEF Earlier
<1>6. RowsMeet(n, m, K)
  BY <1>5 DEF Base, RowsMeet
<1> QED
  BY <1>3, <1>4, <1>6 DEF Base

CountsOf(f, m, K, i) == \A c \in 1 .. m : f[c] = Cardinality(K[<<i, c>>])

(* The base of a bucket is that of the first one of its node and the counts *)
(* of those between.                                                       *)
LEMMA BaseOfBucket ==
    ASSUME NEW n, NEW m, NEW K, NEW D, Stacks(n, m, K, D),
           NEW i \in 0 .. (n - 1), NEW b \in 1 .. (m + 1),
           NEW f, CountsOf(f, m, K, i)
    PROVE  Base(n, m, K, <<i, b>>) = Base(n, m, K, <<i, 1>>) + SumFunctionOnSet(f, 1 .. (b - 1))
<1> DEFINE T == 1 .. (b - 1)
           L == [c \in 1 .. m |-> K[<<i, c>>]]
           first == Earlier(n, m, <<i, 1>>)
           these == {<<i, c>> : c \in T}
<1>1. n \in Nat /\ m \in Nat /\ T \in SUBSET (1 .. m) /\ IsFiniteSet(T)
  <2>1. n \in Nat /\ m \in Nat
    BY DEF Stacks
  <2>2. \A c \in T : c \in 1 .. m
    BY <2>1
  <2>3. IsFiniteSet(T)
    BY <2>1, FS_Interval
  <2> QED
    BY <2>1, <2>2, <2>3
<1>2. these \in SUBSET Cells(n, m) /\ first \in SUBSET Cells(n, m)
  BY <1>1 DEF Cells, Earlier
<1>3. Piled(L, T) = Piled(K, these)
  <2>1. \A c \in T : L[c] = K[<<i, c>>]
    BY <1>1
  <2> HIDE DEF L, T
  <2> QED
    BY <2>1 DEF Piled
<1>4. IsFiniteSet(Piled(K, these)) /\ Cardinality(Piled(K, these)) \in Nat
  BY <1>2, PilesAreFinite
<1>5. \A x, y \in T : x # y => L[x] \cap L[y] = {}
  <2> SUFFICES ASSUME NEW x \in T, NEW y \in T, x # y PROVE K[<<i, x>>] \cap K[<<i, y>>] = {}
    BY <1>1
  <2>1. <<i, x>> \in Cells(n, m) /\ <<i, y>> \in Cells(n, m) /\ <<i, x>> # <<i, y>>
    BY <1>2
  <2> QED
    BY <2>1 DEF Stacks
<1>6. \A x \in T : f[x] = Cardinality(L[x])
  BY <1>1 DEF CountsOf
<1>7. SumFunctionOnSet(f, T) = Cardinality(Piled(K, these))
  <2> HIDE DEF L, T, these
  <2> QED
    BY <1>1, <1>3, <1>4, <1>5, <1>6, SumOfPiles
<1>8. Earlier(n, m, <<i, b>>) = first \cup these
  <2>1. ASSUME NEW d \in Cells(n, m)
        PROVE  (d[1] < i \/ (d[1] = i /\ d[2] < b))
                   <=> (d[1] < i \/ (d[1] = i /\ d[2] < 1)) \/ d \in these
    <3>1. d = <<d[1], d[2]>> /\ d[1] \in 0 .. (n - 1) /\ d[2] \in 1 .. m
      BY DEF Cells
    <3>2. d \in these <=> d[1] = i /\ d[2] \in T
      BY <3>1
    <3> HIDE DEF these
    <3> QED
      BY <1>1, <3>1, <3>2
  <2> HIDE DEF these
  <2> QED
    BY <1>2, <2>1 DEF Earlier
<1>9. Piled(K, first) \cap Piled(K, these) = {}
  <2> SUFFICES ASSUME NEW c \in first, NEW d \in these PROVE K[c] \cap K[d] = {}
    BY DEF Piled
  <2>1. c \in Cells(n, m) /\ d \in Cells(n, m)
    BY <1>2
  <2>2. c[1] < i \/ (c[1] = i /\ c[2] < 1)
    BY DEF Earlier
  <2>3. c[1] \in 0 .. (n - 1) /\ c[2] \in 1 .. m
    BY <2>1 DEF Cells
  <2>4. d[1] = i
    OBVIOUS
  <2>5. c # d
    BY <1>1, <2>2, <2>3, <2>4
  <2> QED
    BY <2>1, <2>5 DEF Stacks
<1>10. Piled(K, first \cup these) = Piled(K, first) \cup Piled(K, these)
  BY DEF Piled
<1>11. IsFiniteSet(Piled(K, first)) /\ Cardinality(Piled(K, first)) \in Nat
  BY <1>2, PilesAreFinite
<1> HIDE DEF first, these, T, L
<1>12. Cardinality(Piled(K, first) \cup Piled(K, these)) =
           Cardinality(Piled(K, first)) + Cardinality(Piled(K, these))
  <2>1. Cardinality(Piled(K, first) \cap Piled(K, these)) = 0
    BY <1>9, FS_EmptySet
  <2>2. Cardinality(Piled(K, first) \cup Piled(K, these)) =
            Cardinality(Piled(K, first)) + Cardinality(Piled(K, these))
                - Cardinality(Piled(K, first) \cap Piled(K, these))
    BY <1>4, <1>11, FS_Union
  <2> QED
    BY <1>4, <1>11, <2>1, <2>2
<1> QED
  BY <1>7, <1>8, <1>10, <1>12 DEF Base, first, T

--------------------------------------------------------------------------------
(* The first pass *)

(* Every half-edge, with its node, and those of each bucket. *)
AllHalves(g) == UNION {{i} \X HalfEdges(g, i) : i \in Nodes(g)}

Pile(g, buckets) ==
    [c \in Cells(g.n, Len(buckets)) |->
        {p \in AllHalves(g) : p[1] = c[1] /\ KindOf(g, p[2]) = buckets[c[2]]}]

(* Buckets of a kind each, among them the kind of every half-edge.          *)
Sorting(g, buckets) ==
    /\ DOMAIN buckets = 1 .. Len(buckets) /\ Len(buckets) \in Nat
    /\ \A b, c \in DOMAIN buckets : buckets[b] = buckets[c] => b = c
    /\ \A i \in Nodes(g) : \A h \in HalfEdges(g, i) : \E b \in DOMAIN buckets : KindOf(g, h) = buckets[b]

LEMMA HalvesAre ==
    ASSUME NEW g, IsCore(g), NEW p
    PROVE  p \in AllHalves(g) <=> \E i \in Nodes(g) : \E h \in HalfEdges(g, i) : p = <<i, h>>
  BY DEF AllHalves

LEMMA AllHalvesAreFinite ==
    ASSUME NEW g, IsCore(g)
    PROVE  IsFiniteSet(AllHalves(g))
<1> DEFINE f == [i \in Nodes(g) |-> {i} \X HalfEdges(g, i)]
<1>1. IsFiniteSet(Nodes(g))
  BY ViewRelations
<1>2. IsFiniteSet({f[i] : i \in Nodes(g)})
  <2>1. DOMAIN f = Nodes(g) /\ f = [i \in Nodes(g) |-> f[i]]
    OBVIOUS
  <2> HIDE DEF f
  <2> QED
    BY <1>1, <2>1, FiniteImage
<1>3. \A S \in {f[i] : i \in Nodes(g)} : IsFiniteSet(S)
  <2> SUFFICES ASSUME NEW i \in Nodes(g) PROVE IsFiniteSet({i} \X HalfEdges(g, i))
    OBVIOUS
  <2>1. IsFiniteSet({i}) /\ IsFiniteSet(HalfEdges(g, i))
    BY FS_Singleton, HalvesAreFinite
  <2> QED
    BY <2>1, FS_Product
<1>4. IsFiniteSet(UNION {f[i] : i \in Nodes(g)})
  <2> HIDE DEF f
  <2> QED
    BY <1>2, <1>3, FS_UNION
<1>5. AllHalves(g) = UNION {f[i] : i \in Nodes(g)}
  BY DEF AllHalves
<1> QED
  BY <1>4, <1>5

LEMMA PilesAreStacks ==
    ASSUME NEW g, IsCore(g), NEW buckets, Sorting(g, buckets)
    PROVE  /\ Stacks(g.n, Len(buckets), Pile(g, buckets), AllHalves(g))
           /\ Piled(Pile(g, buckets), Cells(g.n, Len(buckets))) = AllHalves(g)
<1> DEFINE n == g.n
           m == Len(buckets)
           K == Pile(g, buckets)
<1>1. n \in Nat /\ Nodes(g) = 0 .. (n - 1) /\ m \in Nat /\ DOMAIN buckets = 1 .. m
  BY ViewRelations DEF Sorting
<1>2. IsFiniteSet(AllHalves(g))
  BY AllHalvesAreFinite
<1>3. \A c \in Cells(n, m) : c = <<c[1], c[2]>> /\ c[1] \in Nodes(g) /\ c[2] \in DOMAIN buckets
  BY <1>1 DEF Cells
<1>4. \A c \in Cells(n, m) :
          K[c] = {p \in AllHalves(g) : p[1] = c[1] /\ KindOf(g, p[2]) = buckets[c[2]]}
  BY DEF Pile
<1>5. K \in [Cells(n, m) -> SUBSET AllHalves(g)]
  BY DEF Pile
<1>6. ASSUME NEW c \in Cells(n, m), NEW d \in Cells(n, m), NEW p \in K[c], p \in K[d] PROVE c = d
  <2>1. p[1] = c[1] /\ p[1] = d[1] /\ buckets[c[2]] = buckets[d[2]]
    BY <1>4, <1>6
  <2>2. c[2] = d[2]
    BY <1>3, <2>1 DEF Sorting
  <2> QED
    BY <1>3, <2>1, <2>2
<1>7. ASSUME NEW p \in AllHalves(g) PROVE \E c \in Cells(n, m) : p \in K[c]
  <2>1. PICK i \in Nodes(g), h \in AllHalves(g) \cup {p[2]} : h \in HalfEdges(g, i) /\ p = <<i, h>>
    <3>1. PICK i \in Nodes(g) : \E h \in HalfEdges(g, i) : p = <<i, h>>
      BY HalvesAre
    <3> QED
      BY <3>1
  <2>2. PICK b \in DOMAIN buckets : KindOf(g, h) = buckets[b]
    BY <2>1 DEF Sorting
  <2>3. <<i, b>> \in Cells(n, m)
    BY <1>1, <2>1, <2>2 DEF Cells
  <2>4. p[1] = i /\ p[2] = h
    BY <2>1
  <2>5. p \in K[<<i, b>>]
    BY <1>4, <2>2, <2>3, <2>4
  <2> QED
    BY <2>3, <2>5
<1>8. Piled(K, Cells(n, m)) = AllHalves(g)
  <2> HIDE DEF K, n, m
  <2> QED
    BY <1>5, <1>7 DEF Piled
<1> HIDE DEF K
<1> QED
  BY <1>1, <1>2, <1>5, <1>6, <1>8 DEF Stacks, K

(* What is counted is how many are piled. *)
LEMMA DegreesAre ==
    ASSUME NEW g, IsCore(g), NEW buckets, Sorting(g, buckets)
    PROVE  LET deg == NodeDeg(g, buckets) IN
           /\ DOMAIN deg = Nodes(g)
           /\ \A i \in Nodes(g) : DOMAIN deg[i] = 1 .. Len(buckets)
           /\ \A c \in Cells(g.n, Len(buckets)) : deg[c[1]][c[2]] = Cardinality(Pile(g, buckets)[c])
<1> DEFINE deg == NodeDeg(g, buckets)
           K == Pile(g, buckets)
<1>1. Nodes(g) = 0 .. (g.n - 1) /\ DOMAIN buckets = 1 .. Len(buckets)
  BY ViewRelations DEF Sorting
<1>2. DOMAIN deg = Nodes(g) /\ \A i \in Nodes(g) : DOMAIN deg[i] = 1 .. Len(buckets)
  BY <1>1 DEF NodeDeg
<1>3. ASSUME NEW i \in Nodes(g), NEW b \in DOMAIN buckets
      PROVE  deg[i][b] = Cardinality(K[<<i, b>>])
  <2> DEFINE H == {h \in HalfEdges(g, i) : KindOf(g, h) = buckets[b]}
             f == [h \in H |-> <<i, h>>]
  <2>1. deg[i][b] = Cardinality(H)
    BY DEF NodeDeg
  <2>2. <<i, b>> \in Cells(g.n, Len(buckets))
    BY <1>1 DEF Cells
  <2>3. K[<<i, b>>] = {p \in AllHalves(g) : p[1] = i /\ KindOf(g, p[2]) = buckets[b]}
    BY <2>2 DEF Pile
  <2>4. ASSUME NEW h \in H PROVE <<i, h>> \in K[<<i, b>>]
    BY <2>3, HalvesAre
  <2>5. ASSUME NEW p \in K[<<i, b>>] PROVE \E h \in H : f[h] = p
    <3>1. p \in AllHalves(g) /\ p[1] = i /\ KindOf(g, p[2]) = buckets[b]
      BY <2>3
    <3>2. PICK j \in Nodes(g) : \E h \in HalfEdges(g, j) : p = <<j, h>>
      BY <3>1, HalvesAre
    <3>3. p = <<i, p[2]>> /\ p[2] \in HalfEdges(g, i)
      BY <3>1, <3>2
    <3>4. p[2] \in H
      BY <3>1, <3>3
    <3> QED
      BY <3>3, <3>4
  <2>6. IsFiniteSet(H)
    <3>1. IsFiniteSet(HalfEdges(g, i)) /\ H \in SUBSET HalfEdges(g, i)
      BY HalvesAreFinite
    <3> QED
      BY <3>1, FS_Subset
  <2>7. f \in [H -> K[<<i, b>>]] /\ \A h \in H : f[h] = <<i, h>>
    BY <2>4
  <2> HIDE DEF H, f, K
  <2>8. f \in Surjection(H, K[<<i, b>>])
    BY <2>5, <2>7 DEF Surjection
  <2>9. f \in Injection(H, K[<<i, b>>])
    BY <2>7 DEF Injection, IsInjective
  <2>10. Cardinality(K[<<i, b>>]) = Cardinality(H)
    BY <2>6, <2>8, <2>9, FS_Surjection
  <2> QED
    BY <2>1, <2>10
<1> HIDE DEF deg, K
<1>4. ASSUME NEW c \in Cells(g.n, Len(buckets)) PROVE deg[c[1]][c[2]] = Cardinality(K[c])
  <2>1. c = <<c[1], c[2]>> /\ c[1] \in Nodes(g) /\ c[2] \in DOMAIN buckets
    BY <1>1 DEF Cells
  <2> QED
    BY <1>3, <2>1
<1> QED
  BY <1>2, <1>4 DEF deg, K

(* finalize_degrees(): the ranges and bases are where the buckets begin.    *)
LEMMA RangesAre ==
    ASSUME NEW g, IsCore(g), NEW buckets, Sorting(g, buckets)
    PROVE  LET n == g.n
               m == Len(buckets)
               deg == NodeDeg(g, buckets)
               ranges == NodeEdgeRanges(n, deg)
           IN  /\ \A i \in 0 .. n : ranges[i] = Base(n, m, Pile(g, buckets), <<i, 1>>)
               /\ \A c \in Cells(n, m) :
                      /\ BucketBases(deg, ranges)[c[1]][c[2]] = Base(n, m, Pile(g, buckets), c)
                      /\ ranges[c[1]] + SumFunctionOnSet(deg[c[1]], 1 .. (c[2] - 1))
                             = Base(n, m, Pile(g, buckets), c)
<1> DEFINE n == g.n
           m == Len(buckets)
           K == Pile(g, buckets)
           deg == NodeDeg(g, buckets)
           ranges == NodeEdgeRanges(n, deg)
           base(i, b) == Base(n, m, K, <<i, b>>)
           Starts1(f) == f = [i \in 0 .. n |-> IF i = 0 THEN 0 ELSE f[i - 1] + SumFunction(deg[i - 1])]
           F == [i \in 0 .. n |-> base(i, 1)]
<1>1. /\ Stacks(n, m, K, AllHalves(g)) /\ n \in Nat /\ m \in Nat /\ Nodes(g) = 0 .. (n - 1)
  BY PilesAreStacks, ViewRelations DEF Sorting
<1>2. /\ DOMAIN deg = Nodes(g) /\ \A i \in Nodes(g) : DOMAIN deg[i] = 1 .. m
      /\ \A i \in Nodes(g), b \in 1 .. m : deg[i][b] = Cardinality(K[<<i, b>>])
  <2>1. /\ DOMAIN deg = Nodes(g) /\ \A i \in Nodes(g) : DOMAIN deg[i] = 1 .. m
        /\ \A c \in Cells(n, m) : deg[c[1]][c[2]] = Cardinality(K[c])
    BY DegreesAre
  <2>2. \A i \in Nodes(g), b \in 1 .. m : <<i, b>> \in Cells(n, m)
    BY <1>1 DEF Cells
  <2> HIDE DEF deg, K
  <2> QED
    BY <2>1, <2>2
<1> HIDE DEF deg, K, n, m
<1>3. ASSUME NEW i \in Nodes(g), NEW b \in 1 .. (m + 1)
      PROVE  base(i, b) = base(i, 1) + SumFunctionOnSet(deg[i], 1 .. (b - 1))
  <2>1. \A c \in 1 .. m : deg[i][c] = Cardinality(K[<<i, c>>])
    BY <1>2
  <2>2. i \in 0 .. (n - 1)
    BY <1>1
  <2>3. Base(n, m, K, <<i, b>>) = Base(n, m, K, <<i, 1>>) + SumFunctionOnSet(deg[i], 1 .. (b - 1))
    <3>1. CountsOf(deg[i], m, K, i)
      BY <2>1 DEF CountsOf
    <3> QED
      BY <1>1, <2>2, <3>1, BaseOfBucket
  <2> QED
    BY <2>3
<1>4. base(0, 1) = 0 /\ \A i \in Nodes(g) : base(i + 1, 1) = base(i, 1) + SumFunction(deg[i])
  <2>1. base(0, 1) = 0 /\ \A i \in 0 .. (n - 1) : base(i + 1, 1) = base(i, m + 1)
    <3> HIDE DEF ranges, F
    <3>1. Stacks(n, m, K, AllHalves(g))
      BY <1>1
    <3>2. Base(n, m, K, <<0, 1>>) = 0
      BY <3>1, RowFacts
    <3>3. RowsMeet(n, m, K)
      BY <3>1, RowFacts
    <3> QED
      BY <3>2, <3>3 DEF RowsMeet
  <2>2. ASSUME NEW i \in Nodes(g) PROVE base(i + 1, 1) = base(i, 1) + SumFunction(deg[i])
    <3>1. m + 1 \in 1 .. (m + 1) /\ (m + 1) - 1 = m
      BY <1>1
    <3>2. base(i, m + 1) = base(i, 1) + SumFunctionOnSet(deg[i], 1 .. m)
      BY <1>3, <3>1
    <3>3. SumFunction(deg[i]) = SumFunctionOnSet(deg[i], 1 .. m)
      BY <1>2 DEF SumFunction
    <3> QED
      BY <1>1, <2>1, <3>2, <3>3
  <2> QED
    BY <2>1, <2>2
<1> HIDE DEF base
<1>5. Starts1(F)
  <2>1. ASSUME NEW i \in 0 .. n
        PROVE  F[i] = IF i = 0 THEN 0 ELSE F[i - 1] + SumFunction(deg[i - 1])
    <3>1. CASE i = 0
      BY <1>4, <3>1
    <3>2. CASE i # 0
      <4>1. i - 1 \in Nodes(g) /\ i - 1 \in 0 .. n /\ (i - 1) + 1 = i
        BY <1>1, <3>2
      <4> QED
        BY <1>4, <3>2, <4>1
    <3> QED
      BY <3>1, <3>2
  <2>2. F = [i \in 0 .. n |-> F[i]]
    OBVIOUS
  <2> HIDE DEF F
  <2> QED
    BY <2>1, <2>2
<1>6. ranges = CHOOSE f : Starts1(f)
  BY DEF NodeEdgeRanges
<1>7. Starts1(ranges)
  BY <1>5, <1>6
<1> HIDE DEF ranges
<1> DEFINE bad == {i \in 0 .. n : ranges[i] # base(i, 1)}
<1>8. bad = {}
  <2> SUFFICES ASSUME bad # {} PROVE FALSE
    OBVIOUS
  <2>1. PICK i \in bad : \A j \in bad : i <= j
    <3>0. bad \in SUBSET (0 .. n) /\ 0 \in Int /\ n \in Int
      BY <1>1
    <3>1. IsFiniteSet(0 .. n) /\ bad \in SUBSET (0 .. n) /\ bad \in SUBSET Nat
      <4>1. IsFiniteSet(0 .. n)
        BY <3>0, FS_Interval
      <4> HIDE DEF bad
      <4>2. bad \in SUBSET Nat
        BY <1>1, <3>0
      <4> QED
        BY <3>0, <4>1, <4>2
    <3>2. IsFiniteSet(bad)
      BY <3>1, FS_Subset
    <3> HIDE DEF bad
    <3> QED
      BY <3>1, <3>2, Least
  <2>2. i \in 0 .. n /\ ranges[i] # base(i, 1)
    OBVIOUS
  <2>3. ranges[i] = IF i = 0 THEN 0 ELSE ranges[i - 1] + SumFunction(deg[i - 1])
    BY <1>7, <2>2
  <2>4. i # 0
    BY <1>4, <2>2, <2>3
  <2>5. i - 1 \in Nodes(g) /\ i - 1 \in 0 .. n /\ (i - 1) + 1 = i /\ ~ (i <= i - 1)
    BY <1>1, <2>2, <2>4
  <2>6. i - 1 \notin bad
    <3> HIDE DEF bad
    <3> QED
      BY <2>1, <2>5
  <2>7. ranges[i - 1] = base(i - 1, 1)
    BY <2>5, <2>6
  <2>8. base(i, 1) = base(i - 1, 1) + SumFunction(deg[i - 1])
    BY <1>4, <2>5
  <2> QED
    BY <2>2, <2>3, <2>4, <2>7, <2>8
<1>9. \A i \in 0 .. n : ranges[i] = base(i, 1)
  BY <1>8
<1>10. ASSUME NEW c \in Cells(n, m)
       PROVE  /\ BucketBases(deg, ranges)[c[1]][c[2]] = Base(n, m, K, c)
              /\ ranges[c[1]] + SumFunctionOnSet(deg[c[1]], 1 .. (c[2] - 1)) = Base(n, m, K, c)
  <2>1. /\ c = <<c[1], c[2]>> /\ c[1] \in Nodes(g) /\ c[1] \in 0 .. n
        /\ c[2] \in 1 .. m /\ c[2] \in 1 .. (m + 1)
    BY <1>1 DEF Cells
  <2>2. ranges[c[1]] + SumFunctionOnSet(deg[c[1]], 1 .. (c[2] - 1)) = base(c[1], c[2])
    BY <1>3, <1>9, <2>1
  <2>3. base(c[1], c[2]) = Base(n, m, K, c)
    BY <2>1 DEF base
  <2>4. BucketBases(deg, ranges)[c[1]][c[2]] = ranges[c[1]] + SumFunctionOnSet(deg[c[1]], 1 .. (c[2] - 1))
    BY <1>2, <2>1 DEF BucketBases
  <2> QED
    BY <2>2, <2>3, <2>4
<1> QED
  BY <1>9, <1>10 DEF base, ranges, deg, K, n, m

--------------------------------------------------------------------------------
(* The second pass *)

Blank(bases, size) == [neighborhoods |-> [p \in 0 .. (size - 1) |-> 0], cursors |-> bases]

Scattering(F, S, g, buckets, start) ==
    F[S] = IF S = {} THEN start
           ELSE Scatter(g, buckets, Drawn(S)[1], Drawn(S)[2], F[S \ {Drawn(S)}])

(* When a function is the one that scatters the half-edges of subsets of T. *)
ScatteredBy(g, buckets, start, T, F) ==
    F = [S \in SUBSET T |->
            IF S = {} THEN start
            ELSE Scatter(g, buckets, Drawn(S)[1], Drawn(S)[2], F[S \ {Drawn(S)}])]

LEMMA ScatteredIs ==
    ASSUME NEW g, NEW buckets, NEW bases, NEW size
    PROVE  Scattered(g, buckets, bases, size) =
               (CHOOSE F : ScatteredBy(g, buckets, Blank(bases, size), AllHalves(g), F))[AllHalves(g)].neighborhoods
  BY DEF Scattered, FoldSet, MapThenFoldSet, ScatteredBy, Blank, AllHalves, Drawn

(* There is one, built on ever larger subsets.                              *)
LEMMA ScatteredExists ==
    ASSUME NEW g, NEW buckets, NEW start, NEW T, IsFiniteSet(T)
    PROVE  \E F : ScatteredBy(g, buckets, start, T, F)
<1> DEFINE n == Cardinality(T)
           Upto(k, F) == \A S \in SUBSET T : Cardinality(S) <= k => Scattering(F, S, g, buckets, start)
           bad == {k \in 0 .. n : ~ \E F : Upto(k, F)}
<1>1. n \in Nat
  BY FS_CardinalityType
<1>2. \A S \in SUBSET T : IsFiniteSet(S) /\ Cardinality(S) \in Nat /\ Cardinality(S) <= n
  BY FS_Subset, FS_CardinalityType
<1>3. \A S \in SUBSET T : S # {} => /\ S \ {Drawn(S)} \in SUBSET T
                                    /\ Cardinality(S \ {Drawn(S)}) = Cardinality(S) - 1
  <2> SUFFICES ASSUME NEW S \in SUBSET T, S # {}
               PROVE  S \ {Drawn(S)} \in SUBSET T /\ Cardinality(S \ {Drawn(S)}) = Cardinality(S) - 1
    OBVIOUS
  <2>1. Drawn(S) \in S
    BY DEF Drawn
  <2>2. IsFiniteSet(S)
    BY <1>2
  <2> QED
    BY <2>1, <2>2, FS_RemoveElement
<1>4. bad = {}
  <2> SUFFICES ASSUME bad # {} PROVE FALSE
    OBVIOUS
  <2>1. PICK k \in bad : \A j \in bad : k <= j
    <3>0. bad \in SUBSET (0 .. n)
      OBVIOUS
    <3>1. bad \in SUBSET (0 .. n) /\ bad \in SUBSET Nat /\ IsFiniteSet(0 .. n)
      <4> HIDE DEF bad, n
      <4>1. 0 \in Int /\ n \in Int
        BY <1>1
      <4>2. IsFiniteSet(0 .. n)
        BY <4>1, FS_Interval
      <4> QED
        BY <1>1, <3>0, <4>2
    <3>2. IsFiniteSet(bad)
      BY <3>1, FS_Subset
    <3> HIDE DEF bad
    <3> QED
      BY <3>1, <3>2, Least
  <2>2. k \in 0 .. n /\ ~ \E F : Upto(k, F)
    OBVIOUS
  <2>3. CASE k = 0
    <3> DEFINE F == [S \in SUBSET T |-> start]
    <3>1. ASSUME NEW S \in SUBSET T, Cardinality(S) <= k PROVE Scattering(F, S, g, buckets, start)
      <4>1. Cardinality(S) = 0
        BY <1>2, <2>3, <3>1
      <4>2. S = {}
        BY <1>2, <4>1, FS_EmptySet
      <4> QED
        BY <4>2 DEF Scattering
    <3>2. Upto(k, F)
      BY <3>1
    <3> QED
      BY <2>2, <3>2
  <2>4. CASE k # 0
    <3>1. k - 1 \in 0 .. n /\ ~ (k <= k - 1)
      BY <1>1, <2>2, <2>4
    <3>2. k - 1 \notin bad
      <4> HIDE DEF bad
      <4> QED
        BY <2>1, <3>1
    <3>3. PICK F : Upto(k - 1, F)
      BY <3>1, <3>2
    <3> DEFINE next(S) == IF S = {} THEN start
                          ELSE Scatter(g, buckets, Drawn(S)[1], Drawn(S)[2], F[S \ {Drawn(S)}])
               G == [S \in SUBSET T |-> IF Cardinality(S) = k THEN next(S) ELSE F[S]]
    <3>4. ASSUME NEW S \in SUBSET T, Cardinality(S) <= k PROVE Scattering(G, S, g, buckets, start)
      <4>1. S # {} => /\ S \ {Drawn(S)} \in SUBSET T
                      /\ Cardinality(S \ {Drawn(S)}) # k
        BY <1>1, <1>2, <1>3, <2>2, <3>4
      <4>2. S # {} => G[S \ {Drawn(S)}] = F[S \ {Drawn(S)}]
        BY <4>1
      <4>3. CASE Cardinality(S) = k
        <5>1. G[S] = next(S)
          BY <4>3
        <5> HIDE DEF G
        <5> QED
          BY <4>2, <5>1 DEF Scattering
      <4>4. CASE Cardinality(S) # k
        <5>1. Cardinality(S) <= k - 1
          BY <1>1, <1>2, <2>2, <3>4, <4>4
        <5>2. Scattering(F, S, g, buckets, start)
          BY <3>3, <5>1
        <5>3. G[S] = F[S]
          BY <4>4
        <5> HIDE DEF G
        <5> QED
          BY <4>2, <5>2, <5>3 DEF Scattering
      <4> QED
        BY <4>3, <4>4
    <3>5. Upto(k, G)
      BY <3>4
    <3> QED
      BY <2>2, <3>5
  <2> QED
    BY <2>3, <2>4
<1>5. n \in 0 .. n
  BY <1>1
<1>6. PICK F : Upto(n, F)
  BY <1>4, <1>5
<1> DEFINE G == [S \in SUBSET T |-> F[S]]
<1>7. ASSUME NEW S \in SUBSET T
      PROVE  G[S] = IF S = {} THEN start
                    ELSE Scatter(g, buckets, Drawn(S)[1], Drawn(S)[2], G[S \ {Drawn(S)}])
  <2>1. Scattering(F, S, g, buckets, start)
    BY <1>2, <1>6
  <2>2. G[S] = F[S] /\ (S # {} => G[S \ {Drawn(S)}] = F[S \ {Drawn(S)}])
    BY <1>3
  <2> HIDE DEF G
  <2> QED
    BY <2>1, <2>2 DEF Scattering
<1>8. G = [S \in SUBSET T |-> G[S]]
  OBVIOUS
<1> HIDE DEF G
<1>9. ScatteredBy(g, buckets, start, T, G)
  BY <1>7, <1>8 DEF ScatteredBy
<1> QED
  BY <1>9

(* What lies from lo to before hi. *)
Written(nb, lo, hi) == {nb[p] : p \in lo .. (hi - 1)}

(* With the half-edges of S scattered, each bucket holds its own from its   *)
(* base to its cursor.                                                     *)
ScatterInv(g, buckets, S, s) ==
    LET n == g.n
        m == Len(buckets)
        K == Pile(g, buckets)
    IN  /\ DOMAIN s.neighborhoods = 0 .. (Cardinality(AllHalves(g)) - 1)
        /\ DOMAIN s.cursors = Nodes(g) /\ \A i \in Nodes(g) : DOMAIN s.cursors[i] = 1 .. m
        /\ \A c \in Cells(n, m) : s.cursors[c[1]][c[2]] = Base(n, m, K, c) + Cardinality(K[c] \cap S)
        /\ \A c \in Cells(n, m) :
               Written(s.neighborhoods, Base(n, m, K, c), Base(n, m, K, c) + Cardinality(K[c] \cap S))
                   = {Nbr(q[2]) : q \in K[c] \cap S}

Overwrites(nb, p0, v, then) == \A p \in DOMAIN nb : then[p] = IF p = p0 THEN v ELSE nb[p]

LEMMA CellsAreOrdered ==
    ASSUME NEW n \in Nat, NEW m \in Nat, NEW c \in Cells(n, m), NEW d \in Cells(n, m), c # d
    PROVE  c \in Earlier(n, m, d) \/ d \in Earlier(n, m, c)
<1>1. /\ c = <<c[1], c[2]>> /\ c[1] \in Int /\ c[2] \in Int
      /\ d = <<d[1], d[2]>> /\ d[1] \in Int /\ d[2] \in Int
  BY DEF Cells
<1>2. c[1] # d[1] \/ c[2] # d[2]
  BY <1>1
<1>3. \/ c[1] < d[1] \/ (c[1] = d[1] /\ c[2] < d[2])
      \/ d[1] < c[1] \/ (d[1] = c[1] /\ d[2] < c[2])
  BY <1>1, <1>2
<1> QED
  BY <1>3 DEF Earlier

(* Writing one past what is there adds the one.                             *)
LEMMA WrittenOneMore ==
    ASSUME NEW size \in Nat, NEW nb, DOMAIN nb = 0 .. (size - 1), NEW lo \in Nat, NEW p0 \in 0 .. (size - 1),
           lo <= p0, NEW v, NEW then,
           Overwrites(nb, p0, v, then)
    PROVE  Written(then, lo, p0 + 1) = Written(nb, lo, p0) \cup {v}
<1>0. size \in Nat /\ (p0 + 1) - 1 = p0
  OBVIOUS
<1>1. p0 \in lo .. ((p0 + 1) - 1) /\ then[p0] = v
  <2>1. p0 \in lo .. ((p0 + 1) - 1)
    BY <1>0
  <2>2. p0 \in DOMAIN nb
    OBVIOUS
  <2> QED
    BY <2>1, <2>2 DEF Overwrites
<1>2. \A p \in lo .. (p0 - 1) : p \in DOMAIN nb /\ p # p0 /\ p \in lo .. ((p0 + 1) - 1)
  BY <1>0
<1>3. \A p \in lo .. (p0 - 1) : then[p] = nb[p]
  BY <1>2 DEF Overwrites
<1>4. \A p \in lo .. ((p0 + 1) - 1) : p = p0 \/ p \in lo .. (p0 - 1)
  OBVIOUS
<1>5. ASSUME NEW w \in Written(then, lo, p0 + 1) PROVE w \in Written(nb, lo, p0) \cup {v}
  BY <1>1, <1>3, <1>4, <1>5 DEF Written
<1>6. ASSUME NEW w \in Written(nb, lo, p0) \cup {v} PROVE w \in Written(then, lo, p0 + 1)
  <2>1. CASE w = v
    BY <1>1, <2>1 DEF Written
  <2>2. CASE w # v
    BY <1>2, <1>3, <1>6, <2>2 DEF Written
  <2> QED
    BY <2>1, <2>2
<1> QED
  BY <1>5, <1>6

Elsewhere(nb, lo, hi, p0) ==
    /\ lo \in Nat /\ hi \in Nat /\ p0 \in Nat /\ lo .. (hi - 1) \in SUBSET DOMAIN nb
    /\ p0 < lo \/ hi <= p0

(* Writing elsewhere leaves it. *)
LEMMA WrittenElsewhere ==
    ASSUME NEW nb, NEW lo, NEW hi, NEW p0, Elsewhere(nb, lo, hi, p0),
           NEW v, NEW then, Overwrites(nb, p0, v, then)
    PROVE  Written(then, lo, hi) = Written(nb, lo, hi)
<1>1. \A p \in lo .. (hi - 1) : p # p0 /\ p \in DOMAIN nb
  BY DEF Elsewhere
<1>2. \A p \in lo .. (hi - 1) : then[p] = nb[p]
  BY <1>1 DEF Overwrites
<1> QED
  BY <1>2 DEF Written

(* Each half-edge is in the pile of one cell, the one scatter() finds.      *)
LEMMA CellOf ==
    ASSUME NEW g, IsCore(g), NEW buckets, Sorting(g, buckets), NEW x \in AllHalves(g)
    PROVE  \E i \in Nodes(g) : \E b \in 1 .. Len(buckets) :
               /\ <<i, b>> \in Cells(g.n, Len(buckets)) /\ x \in Pile(g, buckets)[<<i, b>>]
               /\ x[1] = i /\ (CHOOSE c \in DOMAIN buckets : buckets[c] = KindOf(g, x[2])) = b
<1>1. Nodes(g) = 0 .. (g.n - 1) /\ DOMAIN buckets = 1 .. Len(buckets)
  BY ViewRelations DEF Sorting
<1>2. PICK i \in Nodes(g) : \E h \in HalfEdges(g, i) : x = <<i, h>>
  BY HalvesAre
<1>3. x[1] = i /\ x[2] \in HalfEdges(g, i)
  BY <1>2
<1>4. PICK b \in DOMAIN buckets : KindOf(g, x[2]) = buckets[b]
  BY <1>3 DEF Sorting
<1>5. (CHOOSE c \in DOMAIN buckets : buckets[c] = KindOf(g, x[2])) = b
  <2>1. \A c \in DOMAIN buckets : buckets[c] = KindOf(g, x[2]) <=> c = b
    BY <1>4 DEF Sorting
  <2> QED
    BY <2>1
<1>6. <<i, b>> \in Cells(g.n, Len(buckets))
  BY <1>1 DEF Cells
<1>7. x \in Pile(g, buckets)[<<i, b>>]
  <2>1. Pile(g, buckets)[<<i, b>>] = {p \in AllHalves(g) : p[1] = i /\ KindOf(g, p[2]) = buckets[b]}
    BY <1>6 DEF Pile
  <2> QED
    BY <1>3, <1>4, <2>1
<1> QED
  BY <1>1, <1>3, <1>5, <1>6, <1>7

LEMMA ScatterStep ==
    ASSUME NEW g, IsCore(g), NEW buckets, Sorting(g, buckets),
           NEW S \in SUBSET AllHalves(g), NEW x \in S, NEW s, ScatterInv(g, buckets, S \ {x}, s)
    PROVE  ScatterInv(g, buckets, S, Scatter(g, buckets, x[1], x[2], s))
<1> DEFINE n == g.n
           m == Len(buckets)
           K == Pile(g, buckets)
           size == Cardinality(AllHalves(g))
           base(c) == Base(n, m, K, c)
           R == S \ {x}
<1>1. PICK i \in Nodes(g), b \in 1 .. Len(buckets) :
          /\ <<i, b>> \in Cells(n, m) /\ x \in K[<<i, b>>]
          /\ x[1] = i /\ (CHOOSE c \in DOMAIN buckets : buckets[c] = KindOf(g, x[2])) = b
  BY CellOf
<1> DEFINE c0 == <<i, b>>
           p0 == s.cursors[i][b]
           t == Scatter(g, buckets, x[1], x[2], s)
           nb == s.neighborhoods
<1>2. /\ t.neighborhoods = [nb EXCEPT ![p0] = Nbr(x[2])]
      /\ t.cursors = [s.cursors EXCEPT ![i][b] = @ + 1]
  BY <1>1 DEF Scatter
<1>3. /\ DOMAIN nb = 0 .. (size - 1)
      /\ DOMAIN s.cursors = Nodes(g) /\ \A j \in Nodes(g) : DOMAIN s.cursors[j] = 1 .. m
      /\ \A c \in Cells(n, m) : s.cursors[c[1]][c[2]] = base(c) + Cardinality(K[c] \cap R)
      /\ \A c \in Cells(n, m) : Written(nb, base(c), base(c) + Cardinality(K[c] \cap R)) = {Nbr(q[2]) : q \in K[c] \cap R}
  BY DEF ScatterInv
<1>4. /\ Stacks(n, m, K, AllHalves(g)) /\ n \in Nat /\ m \in Nat
      /\ Piled(K, Cells(n, m)) = AllHalves(g) /\ size \in Nat
      /\ c0 \in Cells(n, m) /\ x \in K[c0] /\ c0[1] = i /\ c0[2] = b
  <2>1. IsFiniteSet(AllHalves(g))
    BY AllHalvesAreFinite
  <2> QED
    BY <1>1, <2>1, PilesAreStacks, ViewRelations, FS_CardinalityType DEF Sorting
<1> HIDE DEF n, m, K, size, base, c0, t, nb
<1>5. ASSUME NEW c \in Cells(n, m), NEW Q
      PROVE  /\ IsFiniteSet(K[c] \cap Q) /\ Cardinality(K[c] \cap Q) \in Nat /\ Cardinality(K[c]) \in Nat
             /\ Cardinality(K[c] \cap Q) <= Cardinality(K[c])
             /\ base(c) \in Nat /\ base(c) + Cardinality(K[c]) <= size
             /\ \A d \in Cells(n, m) : c \in Earlier(n, m, d) => base(c) + Cardinality(K[c]) <= base(d)
  <2>1. /\ IsFiniteSet(K[c]) /\ Cardinality(K[c]) \in Nat /\ base(c) \in Nat
        /\ base(c) + Cardinality(K[c]) <= size
        /\ \A d \in Cells(n, m) : c \in Earlier(n, m, d) => base(c) + Cardinality(K[c]) <= base(d)
    BY <1>4, BaseFacts DEF base, size
  <2>2. IsFiniteSet(K[c] \cap Q) /\ Cardinality(K[c] \cap Q) <= Cardinality(K[c])
    BY <2>1, FS_Subset
  <2> QED
    BY <2>1, <2>2, FS_CardinalityType
<1>6. K[c0] \cap S = (K[c0] \cap R) \cup {x} /\ Cardinality(K[c0] \cap S) = Cardinality(K[c0] \cap R) + 1
  <2>1. K[c0] \cap S = (K[c0] \cap R) \cup {x} /\ x \notin K[c0] \cap R
    BY <1>4
  <2>2. IsFiniteSet(K[c0] \cap R)
    BY <1>4, <1>5
  <2> QED
    BY <2>1, <2>2, FS_AddElement
<1>7. ASSUME NEW c \in Cells(n, m), c # c0 PROVE K[c] \cap S = K[c] \cap R
  <2>1. K[c] \cap K[c0] = {}
    BY <1>4, <1>7 DEF Stacks
  <2> QED
    BY <1>4, <2>1
<1>8. /\ p0 = base(c0) + Cardinality(K[c0] \cap R) /\ p0 \in 0 .. (size - 1)
      /\ base(c0) <= p0 /\ p0 + 1 = base(c0) + Cardinality(K[c0] \cap S)
      /\ p0 < base(c0) + Cardinality(K[c0])
  <2>1. p0 = base(c0) + Cardinality(K[c0] \cap R)
    BY <1>3, <1>4
  <2>2. /\ Cardinality(K[c0] \cap S) \in Nat /\ Cardinality(K[c0] \cap S) <= Cardinality(K[c0])
        /\ Cardinality(K[c0] \cap R) \in Nat /\ Cardinality(K[c0]) \in Nat
        /\ base(c0) \in Nat /\ base(c0) + Cardinality(K[c0]) <= size
    BY <1>4, <1>5
  <2> DEFINE kr == Cardinality(K[c0] \cap R)
             ks == Cardinality(K[c0] \cap S)
             k0 == Cardinality(K[c0])
             b0 == base(c0)
  <2>3. ks = kr + 1
    BY <1>6
  <2>4. /\ p0 = b0 + kr /\ ks <= k0 /\ b0 + k0 <= size
        /\ kr \in Nat /\ ks \in Nat /\ k0 \in Nat /\ b0 \in Nat /\ size \in Nat
    BY <1>4, <2>1, <2>2
  <2> HIDE DEF p0, kr, ks, k0, b0
  <2>5. /\ p0 = b0 + kr /\ p0 \in 0 .. (size - 1)
        /\ b0 <= p0 /\ p0 + 1 = b0 + ks /\ p0 < b0 + k0
    BY <2>3, <2>4
  <2> QED
    BY <2>5 DEF kr, ks, k0, b0
<1> HIDE DEF R
<1>9. DOMAIN t.neighborhoods = 0 .. (size - 1)
  BY <1>2, <1>3
<1>10. DOMAIN t.cursors = Nodes(g) /\ \A j \in Nodes(g) : DOMAIN t.cursors[j] = 1 .. m
  <2> DEFINE cu == s.cursors
  <2>1. t.cursors = [cu EXCEPT ![i][b] = @ + 1] /\ DOMAIN cu = Nodes(g) /\ \A j \in Nodes(g) : DOMAIN cu[j] = 1 .. m
    BY <1>2, <1>3
  <2> HIDE DEF cu
  <2> QED
    BY <2>1
<1>11. ASSUME NEW c \in Cells(n, m) PROVE t.cursors[c[1]][c[2]] = base(c) + Cardinality(K[c] \cap S)
  <2> DEFINE cu == s.cursors
  <2>1. /\ t.cursors = [cu EXCEPT ![i][b] = @ + 1] /\ DOMAIN cu = Nodes(g)
        /\ \A j \in Nodes(g) : DOMAIN cu[j] = 1 .. m
        /\ cu[c[1]][c[2]] = base(c) + Cardinality(K[c] \cap R)
    BY <1>2, <1>3
  <2>2. c = <<c[1], c[2]>> /\ c[1] \in Nodes(g) /\ c[2] \in 1 .. m
    <3>1. Nodes(g) = 0 .. (n - 1)
      BY ViewRelations DEF n
    <3> QED
      BY <3>1 DEF Cells
  <2> HIDE DEF cu, p0
  <2>3. CASE c = c0
    <3>1. c[1] = i /\ c[2] = b
      BY <1>4, <2>3
    <3>2. t.cursors[c[1]][c[2]] = cu[i][b] + 1
      <4>1. i \in DOMAIN cu /\ b \in DOMAIN cu[i]
        BY <2>1, <2>2, <3>1
      <4> DEFINE new == t.cursors
      <4>2. new = [cu EXCEPT ![i][b] = @ + 1]
        BY <2>1
      <4> HIDE DEF new
      <4>3. new[i][b] = cu[i][b] + 1
        BY <4>1, <4>2
      <4> QED
        BY <3>1, <4>3 DEF new
    <3> QED
      BY <1>8, <2>3, <3>2 DEF p0, cu
  <2>4. CASE c # c0
    <3>1. c[1] # i \/ c[2] # b
      BY <2>2, <2>4 DEF c0
    <3>2. t.cursors[c[1]][c[2]] = cu[c[1]][c[2]]
      BY <2>1, <2>2, <3>1
    <3> QED
      BY <1>7, <2>1, <2>4, <3>2
  <2> QED
    BY <2>3, <2>4
<1> HIDE DEF p0
<1>12. ASSUME NEW c \in Cells(n, m)
       PROVE  Written(t.neighborhoods, base(c), base(c) + Cardinality(K[c] \cap S)) = {Nbr(q[2]) : q \in K[c] \cap S}
  <2> DEFINE then == t.neighborhoods
  <2>1. Overwrites(nb, p0, Nbr(x[2]), then)
    BY <1>2 DEF Overwrites
  <2>2. base(c) \in Nat /\ Cardinality(K[c] \cap R) \in Nat /\ Cardinality(K[c] \cap S) \in Nat
    BY <1>5
  <2> HIDE DEF then
  <2>3. CASE c = c0
    <3>1. Written(then, base(c), p0 + 1) = Written(nb, base(c), p0) \cup {Nbr(x[2])}
      <4> DEFINE lo == base(c)
      <4>1. lo \in Nat /\ lo <= p0
        BY <1>8, <2>2, <2>3
      <4> HIDE DEF lo
      <4>2. Written(then, lo, p0 + 1) = Written(nb, lo, p0) \cup {Nbr(x[2])}
        BY <1>3, <1>4, <1>8, <2>1, <4>1, WrittenOneMore
      <4> QED
        BY <4>2 DEF lo
    <3>2. Written(nb, base(c), p0) = {Nbr(q[2]) : q \in K[c] \cap R}
      BY <1>3, <1>8, <2>3
    <3>3. {Nbr(q[2]) : q \in K[c] \cap S} = {Nbr(q[2]) : q \in K[c] \cap R} \cup {Nbr(x[2])}
      BY <1>6, <2>3
    <3> QED
      BY <1>8, <2>3, <3>1, <3>2, <3>3 DEF then
  <2>4. CASE c # c0
    <3> DEFINE hi == base(c) + Cardinality(K[c] \cap S)
    <3>1. c \in Earlier(n, m, c0) \/ c0 \in Earlier(n, m, c)
      BY <1>4, <2>4, CellsAreOrdered
    <3>2. /\ Cardinality(K[c]) \in Nat /\ Cardinality(K[c] \cap S) <= Cardinality(K[c])
          /\ base(c) + Cardinality(K[c]) <= size
          /\ c \in Earlier(n, m, c0) => base(c) + Cardinality(K[c]) <= base(c0)
          /\ c0 \in Earlier(n, m, c) => base(c0) + Cardinality(K[c0]) <= base(c)
          /\ base(c0) \in Nat /\ Cardinality(K[c0]) \in Nat
      BY <1>4, <1>5
    <3>3. /\ hi \in Nat /\ hi <= size /\ p0 \in Nat /\ (p0 < base(c) \/ hi <= p0)
      <4> DEFINE bc == base(c)
                 kc == Cardinality(K[c])
                 ks == Cardinality(K[c] \cap S)
                 b0 == base(c0)
                 k0 == Cardinality(K[c0])
      <4>1. /\ bc \in Nat /\ kc \in Nat /\ ks \in Nat /\ b0 \in Nat /\ k0 \in Nat /\ size \in Nat
            /\ ks <= kc /\ bc + kc <= size /\ (bc + kc <= b0 \/ b0 + k0 <= bc)
            /\ p0 \in Nat /\ b0 <= p0 /\ p0 < b0 + k0 /\ hi = bc + ks
        BY <1>4, <1>8, <2>2, <3>1, <3>2
      <4> HIDE DEF bc, kc, ks, b0, k0, hi
      <4>2. /\ hi \in Nat /\ hi <= size /\ p0 \in Nat /\ (p0 < bc \/ hi <= p0)
        BY <4>1
      <4> QED
        BY <4>2 DEF bc
    <3>4. base(c) .. (hi - 1) \in SUBSET DOMAIN nb
      <4> HIDE DEF hi
      <4>1. \A p \in base(c) .. (hi - 1) : p \in 0 .. (size - 1)
        BY <1>4, <2>2, <3>3
      <4> QED
        BY <1>3, <4>1
    <3> HIDE DEF hi
    <3>5. Written(then, base(c), hi) = Written(nb, base(c), hi)
      <4> DEFINE lo == base(c)
      <4>1. /\ lo \in Nat /\ hi \in Nat /\ p0 \in Nat /\ (p0 < lo \/ hi <= p0)
            /\ lo .. (hi - 1) \in SUBSET DOMAIN nb
        BY <2>2, <3>3, <3>4
      <4> HIDE DEF lo
      <4>2. Written(then, lo, hi) = Written(nb, lo, hi)
        <5>1. Elsewhere(nb, lo, hi, p0)
          BY <4>1 DEF Elsewhere
        <5> QED
          BY <2>1, <5>1, WrittenElsewhere
      <4> QED
        BY <4>2 DEF lo
    <3> QED
      BY <1>3, <1>7, <2>4, <3>5 DEF hi, then
  <2> QED
    BY <2>3, <2>4
<1> QED
  BY <1>9, <1>10, <1>11, <1>12 DEF ScatterInv, t, size, base, n, m, K

(* What the second pass leaves: each bucket, from its base on, holds what   *)
(* its half-edges lead to.                                                 *)
Filled(g, buckets, nb) ==
    LET n == g.n
        m == Len(buckets)
        K == Pile(g, buckets)
    IN  /\ DOMAIN nb = 0 .. (Cardinality(AllHalves(g)) - 1)
        /\ \A c \in Cells(n, m) :
               Written(nb, Base(n, m, K, c), Base(n, m, K, c) + Cardinality(K[c])) = {Nbr(q[2]) : q \in K[c]}

BasesOf(g, buckets, bases) ==
    /\ DOMAIN bases = Nodes(g) /\ \A i \in Nodes(g) : DOMAIN bases[i] = 1 .. Len(buckets)
    /\ \A c \in Cells(g.n, Len(buckets)) :
           bases[c[1]][c[2]] = Base(g.n, Len(buckets), Pile(g, buckets), c)

LEMMA ScatteredFills ==
    ASSUME NEW g, IsCore(g), NEW buckets, Sorting(g, buckets), NEW bases, BasesOf(g, buckets, bases)
    PROVE  Filled(g, buckets, Scattered(g, buckets, bases, Cardinality(AllHalves(g))))
<1> DEFINE T == AllHalves(g)
           size == Cardinality(T)
           start == Blank(bases, size)
           F == CHOOSE G : ScatteredBy(g, buckets, start, T, G)
           bad == {S \in SUBSET T : ~ ScatterInv(g, buckets, S, F[S])}
<1>1. IsFiniteSet(T) /\ size \in Nat
  BY AllHalvesAreFinite, FS_CardinalityType
<1>2. ScatteredBy(g, buckets, start, T, F)
  BY <1>1, ScatteredExists
<1>3. Scattered(g, buckets, bases, size) = F[T].neighborhoods
  BY ScatteredIs
<1> HIDE DEF F
<1>4. \A S \in SUBSET T :
          F[S] = IF S = {} THEN start ELSE Scatter(g, buckets, Drawn(S)[1], Drawn(S)[2], F[S \ {Drawn(S)}])
  BY <1>2 DEF ScatteredBy
<1>5. ScatterInv(g, buckets, {}, start)
  <2> DEFINE n == g.n
             m == Len(buckets)
             K == Pile(g, buckets)
             nb == start.neighborhoods
  <2>1. DOMAIN nb = 0 .. (size - 1) /\ start.cursors = bases
    BY DEF Blank
  <2>2. ASSUME NEW c \in Cells(n, m)
        PROVE  /\ bases[c[1]][c[2]] = Base(n, m, K, c) + Cardinality(K[c] \cap {})
               /\ Written(nb, Base(n, m, K, c), Base(n, m, K, c) + Cardinality(K[c] \cap {})) = {}
    <3>1. bases[c[1]][c[2]] = Base(n, m, K, c)
      BY DEF BasesOf
    <3>2. Cardinality(K[c] \cap {}) = 0
      BY FS_EmptySet
    <3>3. Base(n, m, K, c) \in Nat
      BY PilesAreStacks, BaseFacts
    <3> HIDE DEF nb, K, n, m
    <3>4. Base(n, m, K, c) + 0 = Base(n, m, K, c) /\ Base(n, m, K, c) .. (Base(n, m, K, c) - 1) = {}
      BY <3>3
    <3> QED
      BY <3>1, <3>2, <3>4 DEF Written
  <2>3. \A c \in Cells(n, m) : {Nbr(q[2]) : q \in K[c] \cap {}} = {}
    OBVIOUS
  <2>4. DOMAIN bases = Nodes(g) /\ \A i \in Nodes(g) : DOMAIN bases[i] = 1 .. m
    BY DEF BasesOf
  <2> HIDE DEF K, start, n, m
  <2> QED
    BY <2>1, <2>2, <2>3, <2>4 DEF ScatterInv, K, n, m
<1> HIDE DEF start
<1>6. bad = {}
  <2> SUFFICES ASSUME bad # {} PROVE FALSE
    OBVIOUS
  <2>1. PICK S \in bad : \A R \in bad : Cardinality(S) <= Cardinality(R)
    <3>1. bad \in SUBSET (SUBSET T)
      OBVIOUS
    <3> HIDE DEF bad, T
    <3> QED
      BY <1>1, <3>1, SmallestOf
  <2>2. S \in SUBSET T /\ ~ ScatterInv(g, buckets, S, F[S])
    OBVIOUS
  <2>3. S # {}
    BY <1>4, <1>5, <2>2
  <2> DEFINE x == Drawn(S)
             R == S \ {x}
  <2>4. x \in S /\ R \in SUBSET T
    BY <2>2, <2>3 DEF Drawn
  <2>5. ~ (Cardinality(S) <= Cardinality(R))
    <3>1. IsFiniteSet(S) /\ Cardinality(S) \in Nat
      BY <1>1, <2>2, FS_Subset, FS_CardinalityType
    <3>2. Cardinality(R) = Cardinality(S) - 1
      BY <2>4, <3>1, FS_RemoveElement
    <3> QED
      BY <3>1, <3>2
  <2>6. ScatterInv(g, buckets, R, F[R])
    BY <2>1, <2>4, <2>5
  <2>7. F[S] = Scatter(g, buckets, x[1], x[2], F[R])
    BY <1>4, <2>2, <2>3
  <2> HIDE DEF bad, T
  <2>8. ScatterInv(g, buckets, S, Scatter(g, buckets, x[1], x[2], F[R]))
    <3> HIDE DEF x
    <3> QED
      BY <2>2, <2>4, <2>6, ScatterStep DEF T
  <2> QED
    BY <2>2, <2>7, <2>8
<1>7. ScatterInv(g, buckets, T, F[T])
  BY <1>6
<1>8. \A c \in Cells(g.n, Len(buckets)) : Pile(g, buckets)[c] \cap T = Pile(g, buckets)[c]
  BY PilesAreStacks DEF Stacks
<1> HIDE DEF T
<1> QED
  BY <1>3, <1>7, <1>8 DEF ScatterInv, Filled, T

--------------------------------------------------------------------------------
(* Sorting the buckets *)

LEMMA BySizeFacts ==
    ASSUME NEW k \in Nat, NEW s, DOMAIN s = 1 .. k, \A p \in 1 .. k : s[p] \in Int
    PROVE  /\ \A j \in 1 .. k : BySize(s)[j] \in 1 .. k
           /\ \A p \in 1 .. k : \E j \in 1 .. k : BySize(s)[j] = p
           /\ \A j \in 2 .. k : s[BySize(s)[j - 1]] <= s[BySize(s)[j]]
<1> DEFINE S == 1 .. k
           R == {p \in S \X S : s[p[1]] < s[p[2]] \/ (s[p[1]] = s[p[2]] /\ p[1] < p[2])}
           at == InOrder(S, R)
<1>1. IsFiniteSet(S) /\ Cardinality(S) = k
  BY FS_Interval
<1>2. \A x, y \in S : <<x, y>> \in R <=> (s[x] < s[y] \/ (s[x] = s[y] /\ x < y))
  OBVIOUS
<1>3. StrictOrder(S, R)
  <2>1. R \in SUBSET (S \X S)
    OBVIOUS
  <2>2. \A x \in S : s[x] \in Int /\ x \in Int
    OBVIOUS
  <2> HIDE DEF R, S
  <2>3. \A x \in S : <<x, x>> \notin R
    <3>1. ASSUME NEW x \in S PROVE <<x, x>> \notin R
      BY <1>2, <2>2
    <3> QED
      BY <3>1
  <2>4. \A x, y, z \in S : <<x, y>> \in R /\ <<y, z>> \in R => <<x, z>> \in R
    <3>1. ASSUME NEW x \in S, NEW y \in S, NEW z \in S, <<x, y>> \in R, <<y, z>> \in R
          PROVE  <<x, z>> \in R
      <4>1. /\ s[x] < s[y] \/ (s[x] = s[y] /\ x < y)
            /\ s[y] < s[z] \/ (s[y] = s[z] /\ y < z)
        BY <1>2, <3>1
      <4>2. s[x] < s[z] \/ (s[x] = s[z] /\ x < z)
        BY <2>2, <4>1
      <4> QED
        BY <1>2, <4>2
    <3> QED
      BY <3>1
  <2>5. \A x, y \in S : x # y => <<x, y>> \in R \/ <<y, x>> \in R
    <3>1. ASSUME NEW x \in S, NEW y \in S, x # y PROVE <<x, y>> \in R \/ <<y, x>> \in R
      <4>1. \/ s[x] < s[y] \/ (s[x] = s[y] /\ x < y)
            \/ s[y] < s[x] \/ (s[y] = s[x] /\ y < x)
        BY <2>2, <3>1
      <4> QED
        BY <1>2, <4>1
    <3> QED
      BY <3>1
  <2> QED
    BY <2>1, <2>3, <2>4, <2>5 DEF StrictOrder
<1>4. BySize(s) = at
  BY DEF BySize
<1> HIDE DEF at, R
<1>5. /\ at \in [1 .. k -> S]
      /\ \A x \in S : \E j \in 1 .. k : at[j] = x
      /\ \A i, j \in 1 .. k : i < j <=> <<at[i], at[j]>> \in R
  <2> HIDE DEF S
  <2> QED
    BY <1>1, <1>3, InOrderFacts DEF at
<1>6. ASSUME NEW j \in 2 .. k PROVE s[at[j - 1]] <= s[at[j]]
  <2>1. j - 1 \in 1 .. k /\ j \in 1 .. k /\ j - 1 < j
    OBVIOUS
  <2>2. at[j - 1] \in S /\ at[j] \in S /\ <<at[j - 1], at[j]>> \in R
    BY <1>5, <2>1
  <2>3. s[at[j - 1]] < s[at[j]] \/ s[at[j - 1]] = s[at[j]]
    BY <1>2, <2>2
  <2>4. s[at[j - 1]] \in Int /\ s[at[j]] \in Int
    BY <2>2
  <2> QED
    BY <2>3, <2>4
<1> QED
  BY <1>4, <1>5, <1>6

(* A range is in order when no entry is below the one before it.            *)
Ordered(nb, lo, hi) == \A p \in (lo + 1) .. (hi - 1) : nb[p - 1] <= nb[p]

(* What sort_all() makes of one range.                                      *)
LEMMA RangeSorted ==
    ASSUME NEW nb, NEW out, NEW lo \in Nat, NEW k \in Nat,
           \A p \in lo .. (lo + k - 1) : nb[p] \in Int,
           \A p \in lo .. (lo + k - 1) :
               out[p] = Slice(nb, lo, lo + k)[BySize(Slice(nb, lo, lo + k))[p - lo + 1]]
    PROVE  Written(out, lo, lo + k) = Written(nb, lo, lo + k) /\ Ordered(out, lo, lo + k)
<1> DEFINE s == Slice(nb, lo, lo + k)
           at == BySize(s)
<1>1. DOMAIN s = 1 .. k /\ \A j \in 1 .. k : s[j] = nb[lo + j - 1]
  BY DEF Slice
<1>2. \A j \in 1 .. k : lo + j - 1 \in lo .. (lo + k - 1)
  OBVIOUS
<1>3. \A j \in 1 .. k : s[j] \in Int
  BY <1>1, <1>2
<1>4. \A p \in lo .. (lo + k - 1) : p - lo + 1 \in 1 .. k /\ lo + (p - lo + 1) - 1 = p
  OBVIOUS
<1>5. \A p \in lo .. (lo + k - 1) : out[p] = s[at[p - lo + 1]]
  OBVIOUS
<1> HIDE DEF s, at
<1>6. /\ \A j \in 1 .. k : at[j] \in 1 .. k
      /\ \A p \in 1 .. k : \E j \in 1 .. k : at[j] = p
      /\ \A j \in 2 .. k : s[at[j - 1]] <= s[at[j]]
  BY <1>1, <1>3, BySizeFacts DEF at
<1>7. ASSUME NEW w \in Written(out, lo, lo + k) PROVE w \in Written(nb, lo, lo + k)
  <2>1. PICK p \in lo .. (lo + k - 1) : w = out[p]
    BY <1>7 DEF Written
  <2>2. PICK j \in 1 .. k : w = s[j]
    BY <1>4, <1>5, <1>6, <2>1
  <2>3. w = nb[lo + j - 1] /\ lo + j - 1 \in lo .. (lo + k - 1)
    BY <1>1, <1>2, <2>2
  <2> QED
    BY <2>3 DEF Written
<1>8. ASSUME NEW w \in Written(nb, lo, lo + k) PROVE w \in Written(out, lo, lo + k)
  <2>1. PICK p \in lo .. (lo + k - 1) : w = nb[p]
    BY <1>8 DEF Written
  <2>2. p - lo + 1 \in 1 .. k /\ w = s[p - lo + 1]
    BY <1>1, <1>4, <2>1
  <2>3. PICK j \in 1 .. k : at[j] = p - lo + 1
    BY <1>6, <2>2
  <2>4. lo + j - 1 \in lo .. (lo + k - 1) /\ (lo + j - 1) - lo + 1 = j
    BY <1>2
  <2>5. out[lo + j - 1] = w
    BY <1>5, <2>2, <2>3, <2>4
  <2> QED
    BY <2>4, <2>5 DEF Written
<1>9. Ordered(out, lo, lo + k)
  <2> SUFFICES ASSUME NEW p \in (lo + 1) .. (lo + k - 1) PROVE out[p - 1] <= out[p]
    BY DEF Ordered
  <2>1. /\ p \in lo .. (lo + k - 1) /\ p - 1 \in lo .. (lo + k - 1)
        /\ p - lo + 1 \in 2 .. k /\ (p - 1) - lo + 1 = (p - lo + 1) - 1
    OBVIOUS
  <2>2. out[p] = s[at[p - lo + 1]] /\ out[p - 1] = s[at[(p - 1) - lo + 1]]
    BY <1>5, <2>1
  <2> QED
    BY <1>6, <2>1, <2>2
<1> QED
  BY <1>7, <1>8, <1>9

LEMMA NbrIsNode ==
    ASSUME NEW g, IsCore(g), NEW p \in AllHalves(g)
    PROVE  Nbr(p[2]) \in Nodes(g) /\ Nbr(p[2]) \in Int
<1>1. PICK i \in Nodes(g) : \E h \in HalfEdges(g, i) : p = <<i, h>>
  BY HalvesAre
<1>2. p[2] \in EdgeSet(g) \X {1, 2}
  BY <1>1 DEF HalfEdges
<1>3. p[2][1] \in Nodes(g) \X Nodes(g) \X DOMAIN g.registry
  BY <1>2 DEF IsCore
<1>4. p[2][1][1] \in Nodes(g) /\ p[2][1][2] \in Nodes(g)
  BY <1>3
<1>5. p[2][2] = 1 \/ p[2][2] = 2
  BY <1>2
<1>6. Nbr(p[2]) = p[2][1][2] \/ Nbr(p[2]) = p[2][1][1]
  BY <1>5 DEF Nbr
<1>7. Nodes(g) \in SUBSET Int
  <2>1. Nodes(g) = 0 .. (g.n - 1)
    BY ViewRelations
  <2>2. \A x \in 0 .. (g.n - 1) : x \in Int
    OBVIOUS
  <2> QED
    BY <2>1, <2>2
<1> QED
  BY <1>4, <1>6, <1>7

(* The range that sort_all() takes an entry to be in is that of its bucket: *)
(* the others lie before it or after it.                                   *)
LEMMA SortAllFills ==
    ASSUME NEW g, IsCore(g), NEW buckets, Sorting(g, buckets), NEW bases, BasesOf(g, buckets, bases),
           NEW nb, Filled(g, buckets, nb)
    PROVE  LET out == SortAll(nb, NodeDeg(g, buckets), bases) IN
           /\ Filled(g, buckets, out)
           /\ \A c \in Cells(g.n, Len(buckets)) :
                  Ordered(out, Base(g.n, Len(buckets), Pile(g, buckets), c),
                               Base(g.n, Len(buckets), Pile(g, buckets), c) + Cardinality(Pile(g, buckets)[c]))
<1> DEFINE n == g.n
           m == Len(buckets)
           K == Pile(g, buckets)
           deg == NodeDeg(g, buckets)
           size == Cardinality(AllHalves(g))
           base(c) == Base(n, m, K, c)
           count(c) == Cardinality(K[c])
           out == SortAll(nb, deg, bases)
           segments == {<<bases[q[1]][q[2]], deg[q[1]][q[2]]>> :
                           q \in UNION {{i} \X DOMAIN deg[i] : i \in DOMAIN deg}}
           segment(p) == CHOOSE q \in segments : q[1] <= p /\ p < q[1] + q[2]
<1>1. /\ Stacks(n, m, K, AllHalves(g)) /\ n \in Nat /\ m \in Nat /\ Nodes(g) = 0 .. (n - 1)
      /\ Piled(K, Cells(n, m)) = AllHalves(g) /\ size \in Nat
  <2>1. IsFiniteSet(AllHalves(g))
    BY AllHalvesAreFinite
  <2> QED
    BY <2>1, PilesAreStacks, ViewRelations, FS_CardinalityType DEF Sorting
<1>2. /\ DOMAIN deg = Nodes(g) /\ \A i \in Nodes(g) : DOMAIN deg[i] = 1 .. m
      /\ \A c \in Cells(n, m) : deg[c[1]][c[2]] = count(c) /\ bases[c[1]][c[2]] = base(c)
  BY DegreesAre DEF BasesOf
<1>3. /\ DOMAIN nb = 0 .. (size - 1)
      /\ \A c \in Cells(n, m) : Written(nb, base(c), base(c) + count(c)) = {Nbr(q[2]) : q \in K[c]}
  BY DEF Filled
<1>4. DOMAIN out = DOMAIN nb
  BY DEF SortAll
<1>5. \A p \in DOMAIN nb :
          out[p] = Slice(nb, segment(p)[1], segment(p)[1] + segment(p)[2])
                       [BySize(Slice(nb, segment(p)[1], segment(p)[1] + segment(p)[2]))[p - segment(p)[1] + 1]]
  BY DEF SortAll
<1>6. \A c \in Cells(n, m) : c = <<c[1], c[2]>> /\ c[1] \in Nodes(g) /\ c[2] \in 1 .. m
  BY <1>1 DEF Cells
<1>7. \A c \in Cells(n, m) : K[c] \in SUBSET AllHalves(g)
  BY <1>1 DEF Stacks
<1> HIDE DEF deg, out, n, m, K, size
<1>8. UNION {{i} \X DOMAIN deg[i] : i \in DOMAIN deg} = Cells(n, m)
  <2>1. \A i \in Nodes(g), b \in 1 .. m : <<i, b>> \in Cells(n, m)
    BY <1>1 DEF Cells
  <2>2. ASSUME NEW q \in UNION {{i} \X DOMAIN deg[i] : i \in DOMAIN deg} PROVE q \in Cells(n, m)
    <3>1. PICK i \in DOMAIN deg : q \in {i} \X DOMAIN deg[i]
      BY <2>2
    <3>2. q = <<i, q[2]>> /\ i \in Nodes(g) /\ q[2] \in 1 .. m
      <4>1. i \in Nodes(g) /\ DOMAIN deg[i] = 1 .. m
        BY <1>2
      <4>2. q \in {i} \X (1 .. m)
        BY <3>1, <4>1
      <4> QED
        BY <4>1, <4>2
    <3> QED
      BY <2>1, <3>2
  <2>3. ASSUME NEW q \in Cells(n, m) PROVE q \in UNION {{i} \X DOMAIN deg[i] : i \in DOMAIN deg}
    <3>1. q = <<q[1], q[2]>> /\ q[1] \in DOMAIN deg /\ q[2] \in DOMAIN deg[q[1]]
      <4>1. q = <<q[1], q[2]>> /\ q[1] \in Nodes(g) /\ q[2] \in 1 .. m
        BY <1>6
      <4> QED
        BY <1>2, <4>1
    <3> QED
      BY <3>1
  <2> QED
    BY <2>2, <2>3
<1>9. \A c \in Cells(n, m) : <<base(c), count(c)>> \in segments
  BY <1>2, <1>8
<1>10. \A q \in segments : \E c \in Cells(n, m) : q = <<base(c), count(c)>>
  BY <1>2, <1>8
<1> HIDE DEF base, count, segments
<1>11. ASSUME NEW c \in Cells(n, m)
       PROVE  /\ base(c) \in Nat /\ count(c) \in Nat /\ base(c) + count(c) <= size
              /\ \A d \in Cells(n, m) : c \in Earlier(n, m, d) => base(c) + count(c) <= base(d)
  BY <1>1, BaseFacts DEF base, count, size
<1>12. ASSUME NEW c \in Cells(n, m)
       PROVE  /\ Written(out, base(c), base(c) + count(c)) = Written(nb, base(c), base(c) + count(c))
              /\ Ordered(out, base(c), base(c) + count(c))
  <2> DEFINE lo == base(c)
             k == count(c)
  <2>1. lo \in Nat /\ k \in Nat /\ lo + k <= size
    BY <1>11
  <2>2. \A p \in lo .. (lo + k - 1) : p \in DOMAIN nb /\ p \in Int /\ lo <= p /\ p < lo + k
    <3> HIDE DEF lo, k
    <3> QED
      BY <1>1, <1>3, <2>1
  <2>3. ASSUME NEW p \in lo .. (lo + k - 1) PROVE segment(p) = <<lo, k>>
    <3>1. segment(p) \in segments /\ segment(p)[1] <= p /\ p < segment(p)[1] + segment(p)[2]
      <4>1. <<lo, k>> \in segments /\ <<lo, k>>[1] <= p /\ p < <<lo, k>>[1] + <<lo, k>>[2]
        BY <1>9, <2>2
      <4> QED
        BY <4>1
    <3> HIDE DEF segment
    <3>2. PICK d \in Cells(n, m) : segment(p) = <<base(d), count(d)>>
      BY <1>10, <3>1
    <3>3. base(d) <= p /\ p < base(d) + count(d)
      BY <3>1, <3>2
    <3>4. d = c
      <4> SUFFICES ASSUME d # c PROVE FALSE
        OBVIOUS
      <4>1. c \in Earlier(n, m, d) \/ d \in Earlier(n, m, c)
        BY <1>1, CellsAreOrdered
      <4>2. lo + k <= base(d) \/ base(d) + count(d) <= lo
        BY <1>11, <4>1
      <4>3. base(d) \in Nat /\ count(d) \in Nat
        BY <1>11
      <4> DEFINE bd == base(d)
                 kd == count(d)
      <4>4. /\ bd \in Nat /\ kd \in Nat /\ bd <= p /\ p < bd + kd
            /\ (lo + k <= bd \/ bd + kd <= lo)
        BY <3>3, <4>2, <4>3
      <4> HIDE DEF bd, kd, lo, k
      <4> QED
        BY <2>1, <2>2, <4>4
    <3> QED
      BY <3>2, <3>4
  <2>4. \A p \in lo .. (lo + k - 1) :
            out[p] = Slice(nb, lo, lo + k)[BySize(Slice(nb, lo, lo + k))[p - lo + 1]]
    <3> SUFFICES ASSUME NEW p \in lo .. (lo + k - 1)
                 PROVE  out[p] = Slice(nb, lo, lo + k)[BySize(Slice(nb, lo, lo + k))[p - lo + 1]]
      OBVIOUS
    <3>1. segment(p)[1] = lo /\ segment(p)[2] = k
      <4>1. segment(p) = <<lo, k>>
        BY <2>3
      <4> HIDE DEF segment, lo, k
      <4> QED
        BY <4>1
    <3>2. out[p] = Slice(nb, segment(p)[1], segment(p)[1] + segment(p)[2])
                       [BySize(Slice(nb, segment(p)[1], segment(p)[1] + segment(p)[2]))[p - segment(p)[1] + 1]]
      BY <1>5, <2>2
    <3> HIDE DEF segment, lo, k
    <3> QED
      BY <3>1, <3>2
  <2>5. \A p \in lo .. (lo + k - 1) : nb[p] \in Int
    <3> SUFFICES ASSUME NEW p \in lo .. (lo + k - 1) PROVE nb[p] \in Int
      OBVIOUS
    <3>1. nb[p] \in Written(nb, lo, lo + k)
      <4> HIDE DEF lo, k
      <4>1. lo + (k - 1) = (lo + k) - 1
        BY <2>1
      <4>2. p \in lo .. ((lo + k) - 1)
        BY <4>1
      <4> QED
        BY <4>2 DEF Written
    <3>2. PICK q \in K[c] : nb[p] = Nbr(q[2])
      BY <1>3, <3>1
    <3> QED
      BY <1>7, <3>2, NbrIsNode
  <2> HIDE DEF lo, k
  <2>6. Written(out, lo, lo + k) = Written(nb, lo, lo + k) /\ Ordered(out, lo, lo + k)
    BY <2>1, <2>4, <2>5, RangeSorted
  <2> QED
    BY <2>6 DEF lo, k
<1>13. Filled(g, buckets, out)
  BY <1>3, <1>4, <1>12 DEF Filled, base, count, n, m, K, size
<1> QED
  BY <1>12, <1>13 DEF base, count, n, m, K, out, deg

--------------------------------------------------------------------------------
(* Slices *)

HasSlice(nb, lo, k, s) ==
    /\ s \in Seq({nb[p] : p \in DOMAIN nb}) /\ Len(s) = k /\ DOMAIN s = 1 .. k
    /\ \A j \in 1 .. k : s[j] = nb[lo + (j - 1)]
    /\ ToSet(s) = Written(nb, lo, lo + k)
    /\ Ordered(nb, lo, lo + k) => \A j \in 2 .. k : s[j - 1] <= s[j]

LEMMA SliceFacts ==
    ASSUME NEW size \in Nat, NEW nb, DOMAIN nb = 0 .. (size - 1), NEW lo \in Nat, NEW k \in Nat, lo + k <= size
    PROVE  HasSlice(nb, lo, k, Slice(nb, lo, lo + k))
<1> DEFINE s == Slice(nb, lo, lo + k)
           X == {nb[p] : p \in DOMAIN nb}
<1>1. DOMAIN s = 1 .. k /\ \A j \in 1 .. k : s[j] = nb[lo + (j - 1)]
  BY DEF Slice
<1>2. \A j \in 1 .. k : lo + (j - 1) \in lo .. ((lo + k) - 1) /\ lo + (j - 1) \in 0 .. (size - 1)
  OBVIOUS
<1>3. s = [j \in 1 .. k |-> s[j]]
  BY DEF Slice
<1> HIDE DEF s
<1>4. \A j \in 1 .. k : s[j] \in X
  BY <1>1, <1>2
<1> HIDE DEF X
<1>5. s \in Seq(X) /\ Len(s) = k
  BY <1>1, <1>3, <1>4
<1>6. ToSet(s) = Written(nb, lo, lo + k)
  <2>1. \A p \in lo .. ((lo + k) - 1) : p - lo + 1 \in 1 .. k /\ lo + ((p - lo + 1) - 1) = p
    OBVIOUS
  <2>2. ASSUME NEW w \in ToSet(s) PROVE w \in Written(nb, lo, lo + k)
    <3>1. PICK j \in 1 .. k : w = s[j]
      BY <1>1, <2>2 DEF ToSet
    <3> QED
      BY <1>1, <1>2, <3>1 DEF Written
  <2>3. ASSUME NEW w \in Written(nb, lo, lo + k) PROVE w \in ToSet(s)
    <3>1. PICK p \in lo .. ((lo + k) - 1) : w = nb[p]
      BY <2>3 DEF Written
    <3>2. p - lo + 1 \in 1 .. k /\ s[p - lo + 1] = w
      BY <1>1, <2>1, <3>1
    <3> QED
      BY <1>1, <3>2 DEF ToSet
  <2> QED
    BY <2>2, <2>3
<1>7. ASSUME Ordered(nb, lo, lo + k), NEW j \in 2 .. k PROVE s[j - 1] <= s[j]
  <2>1. j - 1 \in 1 .. k /\ j \in 1 .. k /\ lo + ((j - 1) - 1) = (lo + (j - 1)) - 1
    OBVIOUS
  <2>2. s[j] = nb[lo + (j - 1)] /\ s[j - 1] = nb[(lo + (j - 1)) - 1]
    BY <1>1, <2>1
  <2>3. lo + (j - 1) \in (lo + 1) .. ((lo + k) - 1)
    OBVIOUS
  <2> QED
    BY <1>7, <2>2, <2>3 DEF Ordered
<1> QED
  BY <1>1, <1>5, <1>6, <1>7 DEF s, X, HasSlice

(* Slices side by side make one. *)
LEMMA SlicesJoin ==
    ASSUME NEW size \in Nat, NEW nb, DOMAIN nb = 0 .. (size - 1),
           NEW lo \in Nat, NEW mid \in Nat, NEW hi \in Nat, lo <= mid, mid <= hi, hi <= size
    PROVE  Slice(nb, lo, mid) \o Slice(nb, mid, hi) = Slice(nb, lo, hi)
<1> DEFINE X == {nb[p] : p \in DOMAIN nb}
           s == Slice(nb, lo, mid)
           t == Slice(nb, mid, hi)
           u == Slice(nb, lo, hi)
           k == mid - lo
           l == hi - mid
<1>1. k \in Nat /\ l \in Nat /\ lo + k = mid /\ mid + l = hi /\ k + l \in Nat /\ lo + (k + l) = hi
  OBVIOUS
<1> HIDE DEF k, l
<1>2. s \in Seq(X) /\ Len(s) = k /\ \A j \in 1 .. k : s[j] = nb[lo + (j - 1)]
  <2>1. lo + k <= size
    BY <1>1
  <2>2. HasSlice(nb, lo, k, Slice(nb, lo, lo + k))
    BY <1>1, <2>1, SliceFacts
  <2> QED
    BY <1>1, <2>2 DEF HasSlice
<1>3. t \in Seq(X) /\ Len(t) = l /\ \A j \in 1 .. l : t[j] = nb[mid + (j - 1)]
  <2>1. mid + l <= size
    BY <1>1
  <2>2. HasSlice(nb, mid, l, Slice(nb, mid, mid + l))
    BY <1>1, <2>1, SliceFacts
  <2> QED
    BY <1>1, <2>2 DEF HasSlice
<1>4. u \in Seq(X) /\ Len(u) = k + l /\ \A j \in 1 .. (k + l) : u[j] = nb[lo + (j - 1)]
  <2> DEFINE z == k + l
  <2>1. z \in Nat /\ lo + z = hi /\ lo + z <= size
    BY <1>1
  <2> HIDE DEF z
  <2>2. HasSlice(nb, lo, z, Slice(nb, lo, lo + z))
    BY <2>1, SliceFacts
  <2>3. u \in Seq(X) /\ Len(u) = z /\ \A j \in 1 .. z : u[j] = nb[lo + (j - 1)]
    BY <2>1, <2>2 DEF HasSlice
  <2> QED
    BY <2>3 DEF z
<1> HIDE DEF s, t, u, X
<1>5. /\ s \o t \in Seq(X) /\ Len(s \o t) = k + l
      /\ \A j \in 1 .. (k + l) : (s \o t)[j] = IF j <= k THEN s[j] ELSE t[j - k]
  <2>1. s \in Seq(X) /\ t \in Seq(X)
    BY <1>2, <1>3
  <2>2. /\ s \o t \in Seq(X) /\ Len(s \o t) = Len(s) + Len(t)
        /\ \A j \in 1 .. Len(s) + Len(t) : (s \o t)[j] = IF j <= Len(s) THEN s[j] ELSE t[j - Len(s)]
    BY <2>1, ConcatProperties
  <2> QED
    BY <1>2, <1>3, <2>2
<1>6. ASSUME NEW j \in 1 .. (k + l) PROVE (s \o t)[j] = u[j]
  <2>1. CASE j <= k
    <3>1. j \in 1 .. k
      BY <1>1, <2>1
    <3> QED
      BY <1>2, <1>4, <1>5, <2>1, <3>1
  <2>2. CASE ~ (j <= k)
    <3>1. j - k \in 1 .. l /\ mid + ((j - k) - 1) = lo + (j - 1)
      BY <1>1, <2>2
    <3> QED
      BY <1>3, <1>4, <1>5, <2>2, <3>1
  <2> QED
    BY <2>1, <2>2
<1> QED
  BY <1>4, <1>5, <1>6, SeqEqual DEF s, t, u

Places(at, m, size) ==
    /\ \A b \in 1 .. (m + 1) : at[b] \in Nat /\ at[1] <= at[b] /\ at[b] <= size
    /\ \A b \in 1 .. m : at[b] <= at[b + 1]

LEMMA SlicesFlatten ==
    ASSUME NEW size \in Nat, NEW nb, DOMAIN nb = 0 .. (size - 1), NEW m \in Nat \ {0}, NEW at, Places(at, m, size),
           NEW seqs, seqs = [b \in 1 .. m |-> Slice(nb, at[b], at[b + 1])]
    PROVE  FlattenSeq(seqs) = Slice(nb, at[1], at[m + 1])
<1> DEFINE Flattens(f) == f = [i \in 1 .. m |-> IF i = 1 THEN seqs[i] ELSE f[i - 1] \o seqs[i]]
           F == [b \in 1 .. m |-> Slice(nb, at[1], at[b + 1])]
           G == CHOOSE f : Flattens(f)
<1>1. \A b \in 1 .. m : seqs[b] = Slice(nb, at[b], at[b + 1])
  OBVIOUS
<1>2. Len(seqs) = m
  <2>1. seqs \in [1 .. m -> {seqs[b] : b \in 1 .. m}]
    OBVIOUS
  <2> QED
    BY <2>1
<1>3. FlattenSeq(seqs) = G[m]
  BY <1>2 DEF FlattenSeq
<1>4. ASSUME NEW b \in 1 .. m, b # 1
      PROVE  Slice(nb, at[1], at[b + 1]) = Slice(nb, at[1], at[(b - 1) + 1]) \o seqs[b]
  <2>1. /\ b \in 1 .. (m + 1) /\ b + 1 \in 1 .. (m + 1) /\ 1 \in 1 .. (m + 1) /\ (b - 1) + 1 = b
    OBVIOUS
  <2>2. /\ at[1] \in Nat /\ at[b] \in Nat /\ at[b + 1] \in Nat
        /\ at[1] <= at[b] /\ at[b] <= at[b + 1] /\ at[b + 1] <= size
    BY <2>1 DEF Places
  <2>3. Slice(nb, at[1], at[b]) \o Slice(nb, at[b], at[b + 1]) = Slice(nb, at[1], at[b + 1])
    <3> DEFINE lo == at[1]
               mid == at[b]
               hi == at[b + 1]
    <3>1. lo \in Nat /\ mid \in Nat /\ hi \in Nat /\ lo <= mid /\ mid <= hi /\ hi <= size
      BY <2>2
    <3> HIDE DEF lo, mid, hi
    <3>2. Slice(nb, lo, mid) \o Slice(nb, mid, hi) = Slice(nb, lo, hi)
      BY <3>1, SlicesJoin
    <3> QED
      BY <3>2 DEF lo, mid, hi
  <2> QED
    BY <1>1, <2>1, <2>3
<1>5. Flattens(F)
  <2>1. ASSUME NEW i \in 1 .. m PROVE F[i] = IF i = 1 THEN seqs[i] ELSE F[i - 1] \o seqs[i]
    <3>1. CASE i = 1
      BY <1>1, <3>1
    <3>2. CASE i # 1
      <4>1. i - 1 \in 1 .. m
        BY <3>2
      <4>2. F[i] = Slice(nb, at[1], at[i + 1]) /\ F[i - 1] = Slice(nb, at[1], at[(i - 1) + 1])
        BY <4>1
      <4> HIDE DEF F
      <4> QED
        BY <1>4, <3>2, <4>2
    <3> QED
      BY <3>1, <3>2
  <2>2. F = [i \in 1 .. m |-> F[i]]
    OBVIOUS
  <2> HIDE DEF F
  <2> QED
    BY <2>1, <2>2
<1>6. Flattens(G)
  BY <1>5
<1> HIDE DEF G
<1> DEFINE bad == {i \in 1 .. m : G[i] # Slice(nb, at[1], at[i + 1])}
<1>7. bad = {}
  <2> SUFFICES ASSUME bad # {} PROVE FALSE
    OBVIOUS
  <2>1. PICK i \in bad : \A j \in bad : i <= j
    <3>1. bad \in SUBSET (1 .. m) /\ IsFiniteSet(1 .. m)
      BY FS_Interval
    <3>2. IsFiniteSet(bad)
      BY <3>1, FS_Subset
    <3> HIDE DEF bad
    <3>3. bad \in SUBSET Nat
      BY <3>1
    <3> QED
      BY <3>2, <3>3, Least
  <2>2. i \in 1 .. m /\ G[i] # Slice(nb, at[1], at[i + 1])
    OBVIOUS
  <2>3. G[i] = IF i = 1 THEN seqs[i] ELSE G[i - 1] \o seqs[i]
    BY <1>6, <2>2
  <2>4. i # 1
    BY <1>1, <2>2, <2>3
  <2>5. i - 1 \in 1 .. m /\ ~ (i <= i - 1)
    BY <2>2, <2>4
  <2>6. i - 1 \notin bad
    <3> HIDE DEF bad
    <3> QED
      BY <2>1, <2>5
  <2>7. G[i - 1] = Slice(nb, at[1], at[(i - 1) + 1])
    BY <2>5, <2>6
  <2> QED
    BY <1>4, <2>2, <2>3, <2>4, <2>7
<1>8. m \in 1 .. m
  OBVIOUS
<1>9. G[m] = Slice(nb, at[1], at[m + 1])
  BY <1>7, <1>8
<1> QED
  BY <1>3, <1>9

--------------------------------------------------------------------------------
(* The packed array *)

IsPacked(g, buckets, packed) ==
    LET n == g.n
        m == Len(buckets)
        K == Pile(g, buckets)
    IN  /\ Filled(g, buckets, packed.neighborhoods)
        /\ \A c \in Cells(n, m) :
               Ordered(packed.neighborhoods, Base(n, m, K, c), Base(n, m, K, c) + Cardinality(K[c]))
        /\ \A i \in 0 .. n : packed.nodeEdgeRanges[i] = Base(n, m, K, <<i, 1>>)
        /\ \A c \in Cells(n, m) :
               /\ packed.nodeDeg[c[1]][c[2]] = Cardinality(K[c])
               /\ packed.nodeEdgeRanges[c[1]] + SumFunctionOnSet(packed.nodeDeg[c[1]], 1 .. (c[2] - 1))
                      = Base(n, m, K, c)

LEMMA PackedFacts ==
    ASSUME NEW g, IsCore(g), NEW class, Sorting(g, BucketsOf(class))
    PROVE  IsPacked(g, BucketsOf(class), Packed(g, class))
<1> DEFINE buckets == BucketsOf(class)
           n == g.n
           m == Len(buckets)
           K == Pile(g, buckets)
           deg == NodeDeg(g, buckets)
           ranges == NodeEdgeRanges(n, deg)
           bases == BucketBases(deg, ranges)
           nb == Scattered(g, buckets, bases, ranges[n])
           packed == Packed(g, class)
<1>1. /\ packed.nodeEdgeRanges = ranges /\ packed.nodeDeg = deg
      /\ packed.neighborhoods = SortAll(nb, deg, bases)
  BY DEF Packed
<1>2. Sorting(g, buckets)
  OBVIOUS
<1> HIDE DEF packed, buckets
<1>3. /\ \A i \in 0 .. n : ranges[i] = Base(n, m, K, <<i, 1>>)
      /\ \A c \in Cells(n, m) :
             /\ bases[c[1]][c[2]] = Base(n, m, K, c)
             /\ ranges[c[1]] + SumFunctionOnSet(deg[c[1]], 1 .. (c[2] - 1)) = Base(n, m, K, c)
  BY <1>2, RangesAre
<1>4. /\ DOMAIN deg = Nodes(g) /\ \A i \in Nodes(g) : DOMAIN deg[i] = 1 .. m
      /\ \A c \in Cells(n, m) : deg[c[1]][c[2]] = Cardinality(K[c])
  BY <1>2, DegreesAre
<1>5. BasesOf(g, buckets, bases)
  <2>1. DOMAIN bases = Nodes(g) /\ \A i \in Nodes(g) : DOMAIN bases[i] = 1 .. m
    <3> HIDE DEF deg, ranges, m
    <3> QED
      BY <1>4 DEF BucketBases
  <2> HIDE DEF bases
  <2> QED
    BY <1>3, <2>1 DEF BasesOf
<1>6. ranges[n] = Cardinality(AllHalves(g))
  <2>1. n \in Nat
    BY ViewRelations
  <2>2. /\ Base(n, m, K, <<n, 1>>) = Cardinality(Piled(K, Cells(n, m)))
        /\ Piled(K, Cells(n, m)) = AllHalves(g)
    BY <1>2, PilesAreStacks, RowFacts
  <2>3. n \in 0 .. n
    BY <2>1
  <2> HIDE DEF ranges, K, n, m
  <2> QED
    BY <1>3, <2>2, <2>3
<1>7. Filled(g, buckets, nb)
  <2> HIDE DEF ranges, bases
  <2> QED
    BY <1>2, <1>5, <1>6, ScatteredFills
<1> HIDE DEF nb, bases, ranges, deg
<1>8. /\ Filled(g, buckets, packed.neighborhoods)
      /\ \A c \in Cells(n, m) :
             Ordered(packed.neighborhoods, Base(n, m, K, c), Base(n, m, K, c) + Cardinality(K[c]))
  BY <1>1, <1>2, <1>5, <1>7, SortAllFills DEF deg
<1> QED
  BY <1>1, <1>3, <1>4, <1>8 DEF IsPacked, packed, buckets

(* A slice lies where its bucket does, and lists in order where that leads. *)
SliceHolds(g, buckets, packed, i, b) ==
    /\ BucketSlice(packed, i, b) =
           Slice(packed.neighborhoods, Base(g.n, Len(buckets), Pile(g, buckets), <<i, b>>),
                                       Base(g.n, Len(buckets), Pile(g, buckets), <<i, b + 1>>))
    /\ ToSet(BucketSlice(packed, i, b)) = {Nbr(q[2]) : q \in Pile(g, buckets)[<<i, b>>]}
    /\ \A j \in 2 .. Len(BucketSlice(packed, i, b)) :
          BucketSlice(packed, i, b)[j - 1] <= BucketSlice(packed, i, b)[j]

LEMMA PackedSlices ==
    ASSUME NEW g, IsCore(g), NEW buckets, Sorting(g, buckets), NEW packed, IsPacked(g, buckets, packed),
           NEW i \in Nodes(g), NEW b \in DOMAIN buckets
    PROVE  SliceHolds(g, buckets, packed, i, b)
<1> DEFINE n == g.n
           m == Len(buckets)
           K == Pile(g, buckets)
           base(d) == Base(n, m, K, d)
           s == BucketSlice(packed, i, b)
           c == <<i, b>>
           size == Cardinality(AllHalves(g))
           lo == base(c)
           k == Cardinality(K[c])
           nb == packed.neighborhoods
<1>1. /\ Stacks(n, m, K, AllHalves(g)) /\ c \in Cells(n, m) /\ c[1] = i /\ c[2] = b
      /\ Piled(K, Cells(n, m)) = AllHalves(g) /\ size \in Nat
  <2>1. IsFiniteSet(AllHalves(g))
    BY AllHalvesAreFinite
  <2>2. Nodes(g) = 0 .. (n - 1) /\ DOMAIN buckets = 1 .. m
    BY ViewRelations DEF Sorting
  <2>3. c \in Cells(n, m)
    BY <2>2 DEF Cells
  <2> QED
    BY <2>1, <2>3, PilesAreStacks, FS_CardinalityType
<1>2. lo \in Nat /\ k \in Nat /\ lo + k <= size /\ base(<<i, b + 1>>) = lo + k
  BY <1>1, BaseFacts
<1>3. /\ DOMAIN nb = 0 .. (size - 1) /\ Written(nb, lo, lo + k) = {Nbr(q[2]) : q \in K[c]}
      /\ Ordered(nb, lo, lo + k)
      /\ packed.nodeDeg[i][b] = k
      /\ packed.nodeEdgeRanges[i] + SumFunctionOnSet(packed.nodeDeg[i], 1 .. (b - 1)) = lo
  BY <1>1 DEF IsPacked, Filled
<1>4. s = Slice(nb, lo, lo + k)
  BY <1>3 DEF BucketSlice
<1> HIDE DEF lo, k, nb, s, size
<1>5. HasSlice(nb, lo, k, s)
  BY <1>1, <1>2, <1>3, <1>4, SliceFacts
<1> QED
  BY <1>2, <1>3, <1>4, <1>5 DEF HasSlice, SliceHolds, lo, k, nb, s

RowHolds(g, buckets, packed, i) ==
    /\ AllNeighbors(packed, i) = FlattenSeq([b \in DOMAIN buckets |-> BucketSlice(packed, i, b)])
    /\ Len(AllNeighbors(packed, i)) =
          Base(g.n, Len(buckets), Pile(g, buckets), <<i + 1, 1>>)
          - Base(g.n, Len(buckets), Pile(g, buckets), <<i, 1>>)

(* The slices of a node follow each other, and make up its range.           *)
LEMMA RowIsFlat ==
    ASSUME NEW g, IsCore(g), NEW buckets, Sorting(g, buckets), Len(buckets) # 0,
           NEW packed, IsPacked(g, buckets, packed), NEW i \in Nodes(g)
    PROVE  RowHolds(g, buckets, packed, i)
<1> DEFINE n == g.n
           m == Len(buckets)
           K == Pile(g, buckets)
           base(d) == Base(n, m, K, d)
           row == [b \in DOMAIN buckets |-> BucketSlice(packed, i, b)]
           size == Cardinality(AllHalves(g))
           nb == packed.neighborhoods
           at == [b \in 1 .. (m + 1) |-> base(<<i, b>>)]
<1>1. /\ Stacks(n, m, K, AllHalves(g)) /\ n \in Nat /\ m \in Nat \ {0} /\ Nodes(g) = 0 .. (n - 1)
      /\ Piled(K, Cells(n, m)) = AllHalves(g) /\ size \in Nat /\ DOMAIN buckets = 1 .. m
  <2>1. IsFiniteSet(AllHalves(g))
    BY AllHalvesAreFinite
  <2> QED
    BY <2>1, PilesAreStacks, ViewRelations, FS_CardinalityType DEF Sorting
<1>2. DOMAIN nb = 0 .. (size - 1)
  BY DEF IsPacked, Filled
<1>3. \A b \in 1 .. m : row[b] = Slice(nb, base(<<i, b>>), base(<<i, b + 1>>))
  <2> SUFFICES ASSUME NEW b \in 1 .. m PROVE row[b] = Slice(nb, base(<<i, b>>), base(<<i, b + 1>>))
    OBVIOUS
  <2>1. row[b] = BucketSlice(packed, i, b) /\ b \in DOMAIN buckets
    BY <1>1
  <2> QED
    BY <2>1, PackedSlices DEF SliceHolds
<1>4. row = [b \in 1 .. m |-> row[b]]
  BY <1>1
<1>5. AllNeighbors(packed, i) = Slice(nb, packed.nodeEdgeRanges[i], packed.nodeEdgeRanges[i + 1])
  BY DEF AllNeighbors
<1>6. packed.nodeEdgeRanges[i] = base(<<i, 1>>) /\ packed.nodeEdgeRanges[i + 1] = base(<<i + 1, 1>>)
  <2>1. i \in 0 .. n /\ i + 1 \in 0 .. n
    BY <1>1
  <2> QED
    BY <2>1 DEF IsPacked
<1>7. base(<<i + 1, 1>>) = base(<<i, m + 1>>)
  <2> HIDE DEF n, m, K
  <2>1. i \in 0 .. (n - 1)
    BY <1>1
  <2>2. RowsMeet(n, m, K)
    BY <1>1, RowFacts
  <2> QED
    BY <2>1, <2>2 DEF RowsMeet
<1> HIDE DEF n, m, K, row, size, nb
<1>8. \A b \in 1 .. m : /\ base(<<i, b>>) \in Nat /\ base(<<i, b + 1>>) \in Nat
                        /\ base(<<i, b>>) <= base(<<i, b + 1>>) /\ base(<<i, b + 1>>) <= size
  <2> SUFFICES ASSUME NEW b \in 1 .. m
               PROVE  /\ base(<<i, b>>) \in Nat /\ base(<<i, b + 1>>) \in Nat
                      /\ base(<<i, b>>) <= base(<<i, b + 1>>) /\ base(<<i, b + 1>>) <= size
    OBVIOUS
  <2> DEFINE c == <<i, b>>
             k == Cardinality(K[c])
  <2>1. c \in Cells(n, m) /\ c[1] = i /\ c[2] = b
    BY <1>1 DEF Cells
  <2>2. base(c) \in Nat /\ k \in Nat /\ base(c) + k <= size /\ base(<<i, b + 1>>) = base(c) + k
    BY <1>1, <2>1, BaseFacts DEF size
  <2> HIDE DEF k, base
  <2> QED
    BY <1>1, <2>2
<1>9. \A b \in 1 .. (m + 1) : base(<<i, b>>) \in Nat /\ base(<<i, 1>>) <= base(<<i, b>>) /\ base(<<i, b>>) <= size
  <2> SUFFICES ASSUME NEW b \in 1 .. (m + 1)
               PROVE  base(<<i, b>>) \in Nat /\ base(<<i, 1>>) <= base(<<i, b>>) /\ base(<<i, b>>) <= size
    OBVIOUS
  <2>0. 1 \in 1 .. m /\ base(<<i, 1>>) \in Nat /\ base(<<i, 1 + 1>>) \in Nat
    <3>1. 1 \in 1 .. m
      BY <1>1
    <3> HIDE DEF base
    <3> QED
      BY <1>8, <3>1
  <2>1. CASE b = 1
    <3>1. base(<<i, 1>>) <= base(<<i, 1 + 1>>) /\ base(<<i, 1 + 1>>) <= size
      BY <1>8, <2>0
    <3> HIDE DEF base
    <3> QED
      BY <1>1, <2>0, <2>1, <3>1
  <2>2. CASE b # 1
    <3>1. b - 1 \in 1 .. m /\ (b - 1) + 1 = b
      BY <1>1, <2>2
    <3>2. base(<<i, b>>) \in Nat /\ base(<<i, b - 1>>) \in Nat
          /\ base(<<i, b - 1>>) <= base(<<i, b>>) /\ base(<<i, b>>) <= size
      <4> HIDE DEF base
      <4> QED
        BY <1>8, <3>1
    <3>3. base(<<i, 1>>) <= base(<<i, b - 1>>)
      <4>1. CASE b - 1 = 1
        BY <2>0, <4>1
      <4>2. CASE b - 1 # 1
        <5> DEFINE c == <<i, 1>>
                   d == <<i, b - 1>>
        <5>1. c \in Cells(n, m) /\ d \in Cells(n, m) /\ c \in Earlier(n, m, d)
          BY <1>1, <3>1, <4>2 DEF Cells, Earlier
        <5>2. base(c) + Cardinality(K[c]) <= base(d) /\ Cardinality(K[c]) \in Nat /\ base(c) \in Nat
          BY <1>1, <5>1, BaseFacts
        <5> HIDE DEF base
        <5> QED
          BY <3>2, <5>2
      <4> QED
        BY <4>1, <4>2
    <3> HIDE DEF base
    <3> QED
      BY <2>0, <3>2, <3>3
  <2> QED
    BY <2>1, <2>2
<1> HIDE DEF base
<1>10. \A b \in 1 .. (m + 1) : at[b] = base(<<i, b>>)
  OBVIOUS
<1> HIDE DEF at
<1>11. \A b \in 1 .. m : b \in 1 .. (m + 1) /\ b + 1 \in 1 .. (m + 1)
  BY <1>1
<1>12. 1 \in 1 .. (m + 1) /\ m + 1 \in 1 .. (m + 1)
  BY <1>1
<1>13. row = [b \in 1 .. m |-> Slice(nb, at[b], at[b + 1])]
  BY <1>3, <1>4, <1>10, <1>11
<1>14. \A b \in 1 .. (m + 1) : at[b] \in Nat /\ at[1] <= at[b] /\ at[b] <= size
  BY <1>9, <1>10, <1>12
<1>15. \A b \in 1 .. m : at[b] <= at[b + 1]
  BY <1>8, <1>10, <1>11
<1>16. FlattenSeq(row) = Slice(nb, at[1], at[m + 1])
  <2>1. Places(at, m, size)
    BY <1>14, <1>15 DEF Places
  <2> QED
    BY <1>1, <1>2, <1>13, <2>1, SlicesFlatten
<1>17. AllNeighbors(packed, i) = FlattenSeq(row)
  BY <1>5, <1>6, <1>7, <1>10, <1>12, <1>16
<1>18. Len(AllNeighbors(packed, i)) = at[m + 1] - at[1]
  <2> DEFINE lo == at[1]
             hi == at[m + 1]
             k == hi - lo
  <2>1. lo \in Nat /\ hi \in Nat /\ lo <= hi /\ hi <= size
    BY <1>12, <1>14
  <2> HIDE DEF lo, hi
  <2>2. k \in Nat /\ lo + k = hi
    BY <2>1
  <2> HIDE DEF k
  <2>3. HasSlice(nb, lo, k, Slice(nb, lo, lo + k))
    BY <1>1, <1>2, <2>1, <2>2, SliceFacts
  <2>4. Len(Slice(nb, lo, hi)) = k
    BY <2>2, <2>3 DEF HasSlice
  <2> QED
    BY <1>16, <1>17, <2>4 DEF lo, hi, k
<1>19. /\ at[1] = base(<<i, 1>>) /\ at[m + 1] = base(<<i + 1, 1>>)
       /\ at[1] \in Nat /\ at[m + 1] \in Nat
  BY <1>7, <1>10, <1>12, <1>14
<1> QED
  BY <1>17, <1>18, <1>19 DEF RowHolds, row, base, n, m, K

--------------------------------------------------------------------------------
(* How many half-edges a node has *)

LEMMA RowPiles ==
    ASSUME NEW g, IsCore(g), NEW buckets, Sorting(g, buckets), NEW i \in 0 .. g.n
    PROVE  Base(g.n, Len(buckets), Pile(g, buckets), <<i, 1>>) = Cardinality({p \in AllHalves(g) : p[1] < i})
<1> DEFINE n == g.n
           m == Len(buckets)
           K == Pile(g, buckets)
           E == Earlier(n, m, <<i, 1>>)
<1>1. n \in Nat /\ Nodes(g) = 0 .. (n - 1) /\ Stacks(n, m, K, AllHalves(g))
  BY PilesAreStacks, ViewRelations
<1>2. ASSUME NEW c \in Cells(n, m) PROVE c \in E <=> c[1] < i
  <2>1. c[1] \in 0 .. (n - 1) /\ c[2] \in 1 .. m
    BY DEF Cells
  <2>2. ~ (c[2] < 1)
    BY <2>1
  <2> QED
    BY <2>2 DEF Earlier
<1>3. \A c \in Cells(n, m) : K[c] \in SUBSET AllHalves(g) /\ \A p \in K[c] : p[1] = c[1]
  <2>1. \A c \in Cells(n, m) :
            K[c] = {p \in AllHalves(g) : p[1] = c[1] /\ KindOf(g, p[2]) = buckets[c[2]]}
    BY DEF Pile
  <2> HIDE DEF K
  <2> QED
    BY <2>1
<1>4. \A p \in AllHalves(g) : \E c \in Cells(n, m) : p \in K[c]
  BY CellOf
<1>5. E \in SUBSET Cells(n, m)
  BY DEF Earlier
<1> HIDE DEF K, E
<1>6. Piled(K, E) = {p \in AllHalves(g) : p[1] < i}
  <2>1. ASSUME NEW p \in Piled(K, E) PROVE p \in AllHalves(g) /\ p[1] < i
    <3>1. PICK c \in E : p \in K[c]
      BY <2>1 DEF Piled
    <3> QED
      BY <1>2, <1>3, <1>5, <3>1
  <2>2. ASSUME NEW p \in AllHalves(g), p[1] < i PROVE p \in Piled(K, E)
    <3>1. PICK c \in Cells(n, m) : p \in K[c]
      BY <1>4
    <3>2. c \in E
      BY <1>2, <1>3, <2>2, <3>1
    <3> QED
      BY <3>1, <3>2 DEF Piled
  <2> QED
    BY <2>1, <2>2
<1> QED
  BY <1>6 DEF Base, E, K

LEMMA OfNode ==
    ASSUME NEW g, IsCore(g), NEW i \in Nodes(g)
    PROVE  /\ IsFiniteSet({p \in AllHalves(g) : p[1] = i})
           /\ Cardinality({p \in AllHalves(g) : p[1] = i}) = Cardinality(HalfEdges(g, i))
<1> DEFINE H == HalfEdges(g, i)
           P == {p \in AllHalves(g) : p[1] = i}
           f == [h \in H |-> <<i, h>>]
<1>1. ASSUME NEW h \in H PROVE f[h] \in P
  BY HalvesAre
<1>2. ASSUME NEW p \in P PROVE \E h \in H : f[h] = p
  <2>1. PICK j \in Nodes(g) : \E h \in HalfEdges(g, j) : p = <<j, h>>
    BY HalvesAre
  <2>2. p = <<i, p[2]>> /\ p[2] \in H
    BY <2>1
  <2> QED
    BY <2>2
<1>3. IsFiniteSet(H)
  BY HalvesAreFinite
<1>4. f \in [H -> P] /\ \A h \in H : f[h] = <<i, h>>
  BY <1>1
<1> HIDE DEF f, H, P
<1>5. f \in Surjection(H, P)
  BY <1>2, <1>4 DEF Surjection
<1>6. f \in Injection(H, P)
  BY <1>4 DEF Injection, IsInjective
<1>7. Cardinality(P) = Cardinality(H) /\ IsFiniteSet(P)
  BY <1>3, <1>5, <1>6, FS_Surjection
<1> QED
  BY <1>7 DEF P, H

(* One for each edge that starts at the node and one for each that ends.    *)
LEMMA TwoEnds ==
    ASSUME NEW g, IsCore(g), NEW i \in Nodes(g)
    PROVE  Cardinality(HalfEdges(g, i)) =
               Cardinality({e \in EdgeSet(g) : e[1] = i}) + Cardinality({e \in EdgeSet(g) : e[2] = i})
<1> DEFINE from == {e \in EdgeSet(g) : e[1] = i}
           to == {e \in EdgeSet(g) : e[2] = i}
           A == {h \in HalfEdges(g, i) : h[2] = 1}
           B == {h \in HalfEdges(g, i) : h[2] = 2}
           f == [e \in from |-> <<e, 1>>]
           k == [e \in to |-> <<e, 2>>]
<1>1. HalfEdges(g, i) = A \cup B /\ A \cap B = {}
  BY DEF HalfEdges
<1>2. IsFiniteSet(A) /\ IsFiniteSet(B)
  <2>1. IsFiniteSet(HalfEdges(g, i)) /\ A \in SUBSET HalfEdges(g, i) /\ B \in SUBSET HalfEdges(g, i)
    BY HalvesAreFinite
  <2> HIDE DEF A, B
  <2> QED
    BY <2>1, FS_Subset
<1>3. f \in [from -> A] /\ k \in [to -> B]
  BY DEF HalfEdges
<1>4. \A h \in A : h = <<h[1], 1>> /\ h[1] \in from
  BY DEF HalfEdges
<1>5. \A h \in B : h = <<h[1], 2>> /\ h[1] \in to
  BY DEF HalfEdges
<1>6. (\A e \in from : f[e] = <<e, 1>>) /\ (\A e \in to : k[e] = <<e, 2>>)
  OBVIOUS
<1> HIDE DEF f, k, A, B, from, to
<1>7. f \in Surjection(from, A) /\ k \in Surjection(to, B)
  <2>1. f \in Surjection(from, A)
    BY <1>3, <1>4, <1>6 DEF Surjection
  <2>2. k \in Surjection(to, B)
    BY <1>3, <1>5, <1>6 DEF Surjection
  <2> QED
    BY <2>1, <2>2
<1>8. f \in Injection(from, A) /\ k \in Injection(to, B)
  BY <1>3, <1>6 DEF Injection, IsInjective
<1>9. IsFiniteSet(from) /\ IsFiniteSet(to)
  <2>1. IsFiniteSet(EdgeSet(g))
    BY EdgesAreFinite
  <2>2. from \in SUBSET EdgeSet(g) /\ to \in SUBSET EdgeSet(g)
    BY DEF from, to
  <2> QED
    BY <2>1, <2>2, FS_Subset
<1>10. Cardinality(A) = Cardinality(from) /\ Cardinality(B) = Cardinality(to)
  BY <1>7, <1>8, <1>9, FS_Surjection
<1>11. Cardinality(HalfEdges(g, i)) = Cardinality(A) + Cardinality(B)
  <2>1. Cardinality(A \cap B) = 0
    BY <1>1, FS_EmptySet
  <2>2. Cardinality(A \cup B) = Cardinality(A) + Cardinality(B) - Cardinality(A \cap B)
    BY <1>2, FS_Union
  <2>3. Cardinality(A) \in Nat /\ Cardinality(B) \in Nat
    BY <1>2, FS_CardinalityType
  <2>4. Cardinality(A \cup B) = Cardinality(A) + Cardinality(B)
    <3> DEFINE a == Cardinality(A)
               b == Cardinality(B)
    <3>1. Cardinality(A \cup B) = a + b - 0 /\ a \in Nat /\ b \in Nat
      BY <2>1, <2>2, <2>3
    <3> HIDE DEF a, b
    <3>2. Cardinality(A \cup B) = a + b
      BY <3>1
    <3> QED
      BY <3>2 DEF a, b
  <2> QED
    BY <1>1, <2>4
<1> QED
  BY <1>10, <1>11 DEF from, to

LEMMA RowLength ==
    ASSUME NEW g, IsCore(g), NEW buckets, Sorting(g, buckets), NEW i \in Nodes(g)
    PROVE  Base(g.n, Len(buckets), Pile(g, buckets), <<i + 1, 1>>) - Base(g.n, Len(buckets), Pile(g, buckets), <<i, 1>>)
               = Cardinality(HalfEdges(g, i))
<1> DEFINE D == AllHalves(g)
           A == {p \in D : p[1] < i}
           B == {p \in D : p[1] = i}
           C == {p \in D : p[1] < i + 1}
<1>1. i \in 0 .. g.n /\ i + 1 \in 0 .. g.n /\ Nodes(g) = 0 .. (g.n - 1) /\ i \in Int
  BY ViewRelations
<1>2. \A p \in D : p[1] \in Int
  <2> SUFFICES ASSUME NEW p \in D PROVE p[1] \in Int
    OBVIOUS
  <2>1. p[1] \in Nodes(g)
    BY HalvesAre
  <2> QED
    BY <1>1, <2>1
<1>3. C = A \cup B /\ A \cap B = {}
  <2>1. \A p \in D : /\ p[1] < i + 1 <=> (p[1] < i \/ p[1] = i)
                     /\ ~ (p[1] < i /\ p[1] = i)
    BY <1>1, <1>2
  <2> QED
    BY <2>1
<1>4. /\ Base(g.n, Len(buckets), Pile(g, buckets), <<i + 1, 1>>) = Cardinality(C)
      /\ Base(g.n, Len(buckets), Pile(g, buckets), <<i, 1>>) = Cardinality(A)
  BY <1>1, RowPiles
<1>5. Cardinality(B) = Cardinality(HalfEdges(g, i))
  BY OfNode
<1>6. IsFiniteSet(A) /\ IsFiniteSet(B)
  <2>1. IsFiniteSet(D)
    BY AllHalvesAreFinite
  <2> QED
    BY <2>1, FS_Subset
<1> HIDE DEF A, B, C, D
<1>7. Cardinality(A \cap B) = 0
  BY <1>3, FS_EmptySet
<1>8. Cardinality(A \cup B) = Cardinality(A) + Cardinality(B) - Cardinality(A \cap B)
  BY <1>6, FS_Union
<1>9. Cardinality(A) \in Nat /\ Cardinality(B) \in Nat
  BY <1>6, FS_CardinalityType
<1>10. Cardinality(C) - Cardinality(A) = Cardinality(B)
  <2> DEFINE a == Cardinality(A)
             b == Cardinality(B)
  <2>1. Cardinality(C) = a + b - 0 /\ a \in Nat /\ b \in Nat
    BY <1>3, <1>7, <1>8, <1>9
  <2> HIDE DEF a, b
  <2>2. Cardinality(C) - a = b
    BY <2>1
  <2> QED
    BY <2>2 DEF a, b
<1> QED
  BY <1>4, <1>5, <1>10

--------------------------------------------------------------------------------
(* The kinds and the classes *)

KindsIn(g, buckets) ==
    \A h \in EdgeSet(g) \X {1, 2} : \E b \in DOMAIN buckets : KindOf(g, h) = buckets[b]

LEMMA KindIs ==
    ASSUME NEW g, NEW h
    PROVE  LET class == SpecOf(g, h[1]).class IN
           /\ class # "directed" => KindOf(g, h) = class
           /\ class = "directed" => KindOf(g, h) \in {"in", "out"}
  BY DEF KindOf

LEMMA BucketsAre ==
    ASSUME NEW g, IsCore(g), NEW class \in Typed, InClass(g, class)
    PROVE  LET buckets == BucketsOf(class) IN
           /\ DOMAIN buckets = 1 .. Len(buckets) /\ Len(buckets) \in Nat /\ Len(buckets) # 0
           /\ \A b, c \in DOMAIN buckets : buckets[b] = buckets[c] => b = c
           /\ \A b \in DOMAIN buckets : buckets[b] \in {"in", "out", "undirected", "bidirected"}
           /\ KindsIn(g, buckets)
           /\ class # "UG" => Acyclic(Nodes(g), Arcs(g))
           /\ class = "UG" => OnlyClasses(g, {"undirected"})
<1> DEFINE Told(buckets) ==
               /\ DOMAIN buckets = 1 .. Len(buckets) /\ Len(buckets) \in Nat /\ Len(buckets) # 0
               /\ \A b, c \in DOMAIN buckets : buckets[b] = buckets[c] => b = c
               /\ \A b \in DOMAIN buckets : buckets[b] \in {"in", "out", "undirected", "bidirected"}
           Has(buckets, kind) == \E b \in DOMAIN buckets : kind = buckets[b]
<1>1. class \in {"DAG", "PDAG", "MPDAG", "CPDAG", "UG", "ADMG", "AG"}
  BY DEF Typed, GraphClass
<1>2. ASSUME NEW buckets, NEW classes, OnlyClasses(g, classes),
             Has(buckets, "in"), Has(buckets, "out"),
             \A c \in classes : c = "directed" \/ Has(buckets, c)
      PROVE  KindsIn(g, buckets)
  <2> SUFFICES ASSUME NEW h \in EdgeSet(g) \X {1, 2} PROVE Has(buckets, KindOf(g, h))
    BY DEF KindsIn
  <2>1. SpecOf(g, h[1]).class \in classes
    BY <1>2 DEF OnlyClasses
  <2> HIDE DEF Has
  <2> QED
    BY <1>2, <2>1, KindIs
<1>3. CASE class = "DAG"
  <2>1. BucketsOf(class) = <<"in", "out">>
    BY <1>3 DEF BucketsOf, DagBuckets, PdagFamily
  <2> DEFINE buckets == <<"in", "out">>
  <2>2. Told(buckets)
    OBVIOUS
  <2>3. buckets[1] = "in" /\ buckets[2] = "out" /\ 1 \in DOMAIN buckets /\ 2 \in DOMAIN buckets
    OBVIOUS
  <2>4. IsDag(g)
    BY <1>3 DEF InClass
  <2> HIDE DEF buckets
  <2>5. KindsIn(g, buckets)
    <3>1. Has(buckets, "in") /\ Has(buckets, "out")
      BY <2>3
    <3>2. OnlyClasses(g, {"directed"})
      BY <2>4 DEF IsDag
    <3> HIDE DEF Has
    <3> QED
      BY <1>2, <3>1, <3>2
  <2> QED
    BY <1>3, <2>1, <2>2, <2>4, <2>5 DEF IsDag, buckets
<1>4. CASE class \in {"PDAG", "MPDAG", "CPDAG"}
  <2>1. BucketsOf(class) = <<"in", "undirected", "out">>
    BY <1>4 DEF BucketsOf, PdagFamily, PdagBuckets
  <2> DEFINE buckets == <<"in", "undirected", "out">>
  <2>2. Told(buckets)
    OBVIOUS
  <2>3. /\ buckets[1] = "in" /\ buckets[2] = "undirected" /\ buckets[3] = "out"
        /\ 1 \in DOMAIN buckets /\ 2 \in DOMAIN buckets /\ 3 \in DOMAIN buckets
    OBVIOUS
  <2>4. IsPdag(g)
    BY <1>4 DEF InClass, IsMpdag, IsCpdag
  <2> HIDE DEF buckets
  <2>5. KindsIn(g, buckets)
    <3>1. Has(buckets, "in") /\ Has(buckets, "undirected") /\ Has(buckets, "out")
      BY <2>3
    <3>2. OnlyClasses(g, {"directed", "undirected"})
      BY <2>4 DEF IsPdag
    <3> HIDE DEF Has
    <3> QED
      BY <1>2, <3>1, <3>2
  <2> QED
    BY <1>4, <2>1, <2>2, <2>4, <2>5 DEF IsPdag, buckets
<1>5. CASE class = "UG"
  <2>1. BucketsOf(class) = <<"undirected">>
    BY <1>5 DEF BucketsOf, UgBuckets, PdagFamily
  <2> DEFINE buckets == <<"undirected">>
  <2>2. Told(buckets)
    OBVIOUS
  <2>3. buckets[1] = "undirected" /\ 1 \in DOMAIN buckets
    OBVIOUS
  <2>4. OnlyClasses(g, {"undirected"})
    BY <1>5 DEF InClass, IsUg
  <2> HIDE DEF buckets
  <2>5. KindsIn(g, buckets)
    <3> SUFFICES ASSUME NEW h \in EdgeSet(g) \X {1, 2} PROVE \E b \in DOMAIN buckets : KindOf(g, h) = buckets[b]
      BY DEF KindsIn
    <3>1. SpecOf(g, h[1]).class = "undirected"
      BY <2>4 DEF OnlyClasses
    <3>2. KindOf(g, h) = "undirected"
      BY <3>1, KindIs
    <3> QED
      BY <2>3, <3>2
  <2> QED
    BY <1>5, <2>1, <2>2, <2>4, <2>5 DEF buckets
<1>6. CASE class = "ADMG"
  <2>1. BucketsOf(class) = <<"in", "bidirected", "out">>
    BY <1>6 DEF BucketsOf, AdmgBuckets, PdagFamily
  <2> DEFINE buckets == <<"in", "bidirected", "out">>
  <2>2. Told(buckets)
    OBVIOUS
  <2>3. /\ buckets[1] = "in" /\ buckets[2] = "bidirected" /\ buckets[3] = "out"
        /\ 1 \in DOMAIN buckets /\ 2 \in DOMAIN buckets /\ 3 \in DOMAIN buckets
    OBVIOUS
  <2>4. IsAdmg(g)
    BY <1>6 DEF InClass
  <2> HIDE DEF buckets
  <2>5. KindsIn(g, buckets)
    <3>1. Has(buckets, "in") /\ Has(buckets, "bidirected") /\ Has(buckets, "out")
      BY <2>3
    <3>2. OnlyClasses(g, {"directed", "bidirected"})
      BY <2>4 DEF IsAdmg
    <3> HIDE DEF Has
    <3> QED
      BY <1>2, <3>1, <3>2
  <2> QED
    BY <1>6, <2>1, <2>2, <2>4, <2>5 DEF IsAdmg, buckets
<1>7. CASE class = "AG"
  <2>1. BucketsOf(class) = <<"in", "undirected", "bidirected", "out">>
    BY <1>7 DEF BucketsOf, AgBuckets, PdagFamily
  <2> DEFINE buckets == <<"in", "undirected", "bidirected", "out">>
  <2>2. Told(buckets)
    OBVIOUS
  <2>3. /\ buckets[1] = "in" /\ buckets[2] = "undirected" /\ buckets[3] = "bidirected" /\ buckets[4] = "out"
        /\ 1 \in DOMAIN buckets /\ 2 \in DOMAIN buckets /\ 3 \in DOMAIN buckets /\ 4 \in DOMAIN buckets
    OBVIOUS
  <2>4. IsAg(g)
    BY <1>7 DEF InClass
  <2> HIDE DEF buckets
  <2>5. KindsIn(g, buckets)
    <3>1. Has(buckets, "in") /\ Has(buckets, "undirected") /\ Has(buckets, "bidirected") /\ Has(buckets, "out")
      BY <2>3
    <3>2. OnlyClasses(g, {"directed", "undirected", "bidirected"})
      BY <2>4 DEF IsAg
    <3> HIDE DEF Has
    <3> QED
      BY <1>2, <3>1, <3>2
  <2>6. Acyclic(Nodes(g), Arcs(g))
    BY <2>4 DEF IsAg, Ancestral
  <2> QED
    BY <1>7, <2>1, <2>2, <2>5, <2>6 DEF buckets
<1> QED
  BY <1>1, <1>3, <1>4, <1>5, <1>6, <1>7

LEMMA BucketsSort ==
    ASSUME NEW g, IsCore(g), NEW class \in Typed, InClass(g, class)
    PROVE  Sorting(g, BucketsOf(class)) /\ Len(BucketsOf(class)) # 0
<1>1. \A i : HalfEdges(g, i) \in SUBSET (EdgeSet(g) \X {1, 2})
  BY DEF HalfEdges
<1> QED
  BY <1>1, BucketsAre DEF Sorting, KindsIn

(* A bucket of a node leads where its kind says. *)
LEMMA PilesLead ==
    ASSUME NEW g, IsCore(g), NEW class \in Typed, InClass(g, class), NEW i \in Nodes(g),
           NEW b \in DOMAIN BucketsOf(class)
    PROVE  {Nbr(q[2]) : q \in Pile(g, BucketsOf(class))[<<i, b>>]} = Bucket(View(class, g), i, BucketsOf(class)[b])
<1> DEFINE buckets == BucketsOf(class)
           kind == buckets[b]
           v == View(class, g)
           lead == {j \in Nodes(g) : \E h \in HalfEdges(g, i) : Nbr(h) = j /\ KindOf(g, h) = kind}
<1>1. /\ kind \in {"in", "out", "undirected", "bidirected"}
      /\ class # "UG" => Acyclic(Nodes(g), Arcs(g))
      /\ class = "UG" => OnlyClasses(g, {"undirected"})
  BY BucketsAre
<1>2. /\ v.arcs = Arcs(g) /\ v.lines = Lines(g) /\ v.spouses = Spouses(g)
      /\ Arcs(g) \in SUBSET (Nodes(g) \X Nodes(g)) /\ Lines(g) \in SUBSET (Nodes(g) \X Nodes(g))
      /\ Spouses(g) \in SUBSET (Nodes(g) \X Nodes(g))
  <2> HIDE DEF buckets, kind, lead
  <2>1. /\ Arcs(g) \in SUBSET (Nodes(g) \X Nodes(g)) /\ Lines(g) \in SUBSET (Nodes(g) \X Nodes(g))
        /\ Spouses(g) \in SUBSET (Nodes(g) \X Nodes(g))
    BY ViewRelations
  <2>2. v.arcs = Arcs(g) /\ v.lines = Lines(g) /\ v.spouses = Spouses(g)
    BY ViewRelations
  <2> QED
    BY <2>1, <2>2
<1>3. {Nbr(q[2]) : q \in Pile(g, buckets)[<<i, b>>]} = lead
  <2>1. <<i, b>> \in Cells(g.n, Len(buckets)) /\ Sorting(g, buckets)
    <3>1. Nodes(g) = 0 .. (g.n - 1) /\ DOMAIN buckets = 1 .. Len(buckets)
      BY ViewRelations, BucketsAre
    <3> QED
      BY <3>1, BucketsSort DEF Cells
  <2>2. Pile(g, buckets)[<<i, b>>] = {p \in AllHalves(g) : p[1] = i /\ KindOf(g, p[2]) = kind}
    BY <2>1 DEF Pile
  <2> HIDE DEF buckets, kind
  <2>3. ASSUME NEW q \in Pile(g, buckets)[<<i, b>>] PROVE Nbr(q[2]) \in lead
    <3>1. q \in AllHalves(g) /\ q[1] = i /\ KindOf(g, q[2]) = kind
      BY <2>2, <2>3
    <3>2. Nbr(q[2]) \in Nodes(g)
      BY <3>1, NbrIsNode
    <3>3. q[2] \in HalfEdges(g, i)
      <4>1. PICK j \in Nodes(g) : \E h \in HalfEdges(g, j) : q = <<j, h>>
        BY <3>1, HalvesAre
      <4> QED
        BY <3>1, <4>1
    <3> QED
      BY <3>1, <3>2, <3>3
  <2>4. ASSUME NEW j \in lead PROVE \E q \in Pile(g, buckets)[<<i, b>>] : j = Nbr(q[2])
    <3>1. PICK h \in HalfEdges(g, i) : Nbr(h) = j /\ KindOf(g, h) = kind
      BY <2>4
    <3>2. <<i, h>> \in AllHalves(g)
      BY HalvesAre
    <3>3. <<i, h>> \in Pile(g, buckets)[<<i, b>>]
      BY <2>2, <3>1, <3>2
    <3> QED
      BY <3>1, <3>3
  <2> HIDE DEF lead
  <2> QED
    BY <2>3, <2>4
<1> HIDE DEF buckets, v
<1>4. ASSUME NEW h \in HalfEdges(g, i)
      PROVE  /\ h[1] \in EdgeSet(g) /\ h[1][1] \in Nodes(g) /\ h[1][2] \in Nodes(g)
             /\ \/ h[2] = 1 /\ h[1][1] = i /\ Nbr(h) = h[1][2] /\ MyMark(g, h) = SpecOf(g, h[1]).tail
                \/ h[2] = 2 /\ h[1][2] = i /\ Nbr(h) = h[1][1] /\ MyMark(g, h) = SpecOf(g, h[1]).head
             /\ SpecOf(g, h[1]).class = "directed" => "arrow" \in {SpecOf(g, h[1]).tail, SpecOf(g, h[1]).head}
  <2>1. h[1] \in EdgeSet(g) /\ (h[2] = 1 \/ h[2] = 2) /\ h[1][h[2]] = i
    BY DEF HalfEdges
  <2>2. h[2] = 1 => Nbr(h) = h[1][2] /\ MyMark(g, h) = SpecOf(g, h[1]).tail
    BY DEF Nbr, MyMark, MarkAt
  <2>3. h[2] = 2 => Nbr(h) = h[1][1] /\ MyMark(g, h) = SpecOf(g, h[1]).head
    BY DEF Nbr, MyMark, MarkAt
  <2> QED
    BY <2>1, <2>2, <2>3, EdgeFacts
<1>5. ASSUME NEW e \in EdgeSet(g)
      PROVE  /\ e[1] = i => /\ <<e, 1>> \in HalfEdges(g, i) /\ Nbr(<<e, 1>>) = e[2]
                            /\ MyMark(g, <<e, 1>>) = SpecOf(g, e).tail
             /\ e[2] = i => /\ <<e, 2>> \in HalfEdges(g, i) /\ Nbr(<<e, 2>>) = e[1]
                            /\ MyMark(g, <<e, 2>>) = SpecOf(g, e).head
  BY DEF HalfEdges, Nbr, MyMark, MarkAt
<1>6. ASSUME NEW e \in EdgeSet(g), SpecOf(g, e).class = "directed" PROVE Acyclic(Nodes(g), Arcs(g))
  <2>1. class # "UG"
    BY <1>1, <1>6 DEF OnlyClasses
  <2> QED
    BY <1>1, <2>1
<1>7. CASE kind = "in"
  <2>1. Bucket(v, i, kind) = {j \in Nodes(g) : <<j, i>> \in Arcs(g)}
    <3>1. Bucket(v, i, kind) = Parents(Arcs(g), i)
      BY <1>2, <1>7 DEF Bucket
    <3> QED
      BY <1>2, <3>1 DEF Parents
  <2>2. ASSUME NEW j \in Nodes(g), NEW h \in HalfEdges(g, i), Nbr(h) = j, KindOf(g, h) = kind
        PROVE  <<j, i>> \in Arcs(g)
    <3>1. SpecOf(g, h[1]).class = "directed" /\ MyMark(g, h) = "arrow"
      <4>1. KindOf(g, h) = "in"
        BY <1>7, <2>2
      <4>2. SpecOf(g, h[1]).class # "directed" => SpecOf(g, h[1]).class = "in"
        BY <4>1, KindIs
      <4>3. SpecOf(g, h[1]).class \in {"directed", "undirected", "bidirected"}
        BY <1>4, TypedClasses DEF OnlyClasses
      <4>4. SpecOf(g, h[1]).class = "directed"
        BY <4>2, <4>3
      <4> QED
        BY <4>1, <4>4 DEF KindOf
    <3> QED
      BY <1>4, <2>2, <3>1 DEF Arcs
  <2>3. ASSUME NEW j \in Nodes(g), <<j, i>> \in Arcs(g)
        PROVE  \E h \in HalfEdges(g, i) : Nbr(h) = j /\ KindOf(g, h) = kind
    <3>1. PICK e \in EdgeSet(g) :
              /\ SpecOf(g, e).class = "directed"
              /\ \/ SpecOf(g, e).head = "arrow" /\ <<j, i>> = <<e[1], e[2]>>
                 \/ SpecOf(g, e).tail = "arrow" /\ <<j, i>> = <<e[2], e[1]>>
      BY <2>3 DEF Arcs
    <3>2. CASE SpecOf(g, e).head = "arrow" /\ <<j, i>> = <<e[1], e[2]>>
      <4>1. e[2] = i /\ e[1] = j
        BY <3>2
      <4>2. KindOf(g, <<e, 2>>) = "in"
        BY <1>5, <3>1, <3>2, <4>1 DEF KindOf
      <4> QED
        BY <1>5, <1>7, <4>1, <4>2
    <3>3. CASE SpecOf(g, e).tail = "arrow" /\ <<j, i>> = <<e[2], e[1]>>
      <4>1. e[1] = i /\ e[2] = j
        BY <3>3
      <4>2. KindOf(g, <<e, 1>>) = "in"
        BY <1>5, <3>1, <3>3, <4>1 DEF KindOf
      <4> QED
        BY <1>5, <1>7, <4>1, <4>2
    <3> QED
      BY <3>1, <3>2, <3>3
  <2>4. \A j \in Nodes(g) :
            (\E h \in HalfEdges(g, i) : Nbr(h) = j /\ KindOf(g, h) = kind) <=> <<j, i>> \in Arcs(g)
    BY <2>2, <2>3
  <2> HIDE DEF kind
  <2>5. lead = Bucket(v, i, kind)
    BY <2>1, <2>4
  <2> HIDE DEF lead
  <2> QED
    BY <1>3, <2>5 DEF v, buckets, kind
<1>8. CASE kind = "out"
  <2>1. Bucket(v, i, kind) = {j \in Nodes(g) : <<i, j>> \in Arcs(g)}
    <3>1. Bucket(v, i, kind) = Children(Arcs(g), i)
      BY <1>2, <1>8 DEF Bucket
    <3> QED
      BY <1>2, <3>1 DEF Children
  <2>2. ASSUME NEW j \in Nodes(g), NEW h \in HalfEdges(g, i), Nbr(h) = j, KindOf(g, h) = kind
        PROVE  <<i, j>> \in Arcs(g)
    <3>1. SpecOf(g, h[1]).class = "directed" /\ MyMark(g, h) # "arrow"
      <4>1. KindOf(g, h) = "out"
        BY <1>8, <2>2
      <4>2. SpecOf(g, h[1]).class # "directed" => SpecOf(g, h[1]).class = "out"
        BY <4>1, KindIs
      <4>3. SpecOf(g, h[1]).class \in {"directed", "undirected", "bidirected"}
        BY <1>4, TypedClasses DEF OnlyClasses
      <4>4. SpecOf(g, h[1]).class = "directed"
        BY <4>2, <4>3
      <4> QED
        BY <4>1, <4>4 DEF KindOf
    <3> QED
      BY <1>4, <2>2, <3>1 DEF Arcs
  <2>3. ASSUME NEW j \in Nodes(g), <<i, j>> \in Arcs(g)
        PROVE  \E h \in HalfEdges(g, i) : Nbr(h) = j /\ KindOf(g, h) = kind
    <3>1. PICK e \in EdgeSet(g) :
              /\ SpecOf(g, e).class = "directed"
              /\ \/ SpecOf(g, e).head = "arrow" /\ <<i, j>> = <<e[1], e[2]>>
                 \/ SpecOf(g, e).tail = "arrow" /\ <<i, j>> = <<e[2], e[1]>>
      BY <2>3 DEF Arcs
    <3>2. <<j, i>> \notin Arcs(g)
      <4>1. Acyclic(Nodes(g), Arcs(g))
        BY <1>6, <3>1
      <4> QED
        BY <1>2, <2>3, <4>1, NoTwoWays
    <3>3. CASE SpecOf(g, e).head = "arrow" /\ <<i, j>> = <<e[1], e[2]>>
      <4>1. e[1] = i /\ e[2] = j
        BY <3>3
      <4>2. SpecOf(g, e).tail # "arrow"
        BY <3>1, <3>2, <4>1 DEF Arcs
      <4>3. KindOf(g, <<e, 1>>) = "out"
        BY <1>5, <3>1, <4>1, <4>2 DEF KindOf
      <4> QED
        BY <1>5, <1>8, <4>1, <4>3
    <3>4. CASE SpecOf(g, e).tail = "arrow" /\ <<i, j>> = <<e[2], e[1]>>
      <4>1. e[2] = i /\ e[1] = j
        BY <3>4
      <4>2. SpecOf(g, e).head # "arrow"
        BY <3>1, <3>2, <4>1 DEF Arcs
      <4>3. KindOf(g, <<e, 2>>) = "out"
        BY <1>5, <3>1, <4>1, <4>2 DEF KindOf
      <4> QED
        BY <1>5, <1>8, <4>1, <4>3
    <3> QED
      BY <3>1, <3>3, <3>4
  <2>4. \A j \in Nodes(g) :
            (\E h \in HalfEdges(g, i) : Nbr(h) = j /\ KindOf(g, h) = kind) <=> <<i, j>> \in Arcs(g)
    BY <2>2, <2>3
  <2> HIDE DEF kind
  <2>5. lead = Bucket(v, i, kind)
    BY <2>1, <2>4
  <2> HIDE DEF lead
  <2> QED
    BY <1>3, <2>5 DEF v, buckets, kind
<1>9. CASE kind \in {"undirected", "bidirected"}
  <2> DEFINE R == Pairs(g, kind)
  <2>1. Bucket(v, i, kind) = {j \in Nodes(g) : <<i, j>> \in R}
    <3>1. Bucket(v, i, kind) = Children(R, i)
      BY <1>2, <1>9 DEF Bucket, Lines, Spouses
    <3>2. R \in SUBSET (Nodes(g) \X Nodes(g))
      BY DEF Pairs
    <3> HIDE DEF R
    <3> QED
      BY <3>1, <3>2 DEF Children
  <2>2. ASSUME NEW j \in Nodes(g), NEW h \in HalfEdges(g, i), Nbr(h) = j, KindOf(g, h) = kind
        PROVE  <<i, j>> \in R
    <3>1. SpecOf(g, h[1]).class = kind
      BY <1>9, <2>2, KindIs
    <3>2. {i, j} = {h[1][1], h[1][2]}
      BY <1>4, <2>2
    <3> QED
      BY <1>4, <3>1, <3>2 DEF Pairs
  <2>3. ASSUME NEW j \in Nodes(g), <<i, j>> \in R
        PROVE  \E h \in HalfEdges(g, i) : Nbr(h) = j /\ KindOf(g, h) = kind
    <3>1. PICK e \in EdgeSet(g) : SpecOf(g, e).class = kind /\ {i, j} = {e[1], e[2]}
      BY <2>3 DEF Pairs
    <3>2. (e[1] = i /\ e[2] = j) \/ (e[2] = i /\ e[1] = j)
      BY <3>1
    <3>3. kind # "directed"
      BY <1>9
    <3>4. KindOf(g, <<e, 1>>) = kind /\ KindOf(g, <<e, 2>>) = kind
      BY <3>1, <3>3 DEF KindOf
    <3> QED
      BY <1>5, <3>2, <3>4
  <2>4. \A j \in Nodes(g) :
            (\E h \in HalfEdges(g, i) : Nbr(h) = j /\ KindOf(g, h) = kind) <=> <<i, j>> \in R
    BY <2>2, <2>3
  <2> HIDE DEF kind, R
  <2>5. lead = Bucket(v, i, kind)
    BY <2>1, <2>4
  <2> HIDE DEF lead
  <2> QED
    BY <1>3, <2>5 DEF v, buckets, kind
<1> QED
  BY <1>1, <1>7, <1>8, <1>9 DEF v, buckets

LEMMA BucketsHold ==
    ASSUME IsSession(session)
    PROVE  BucketsPackNeighbors
<1> SUFFICES ASSUME session.view # {}, session.class # "UNKNOWN"
             PROVE  LET packed == Packed(session.core, session.class)
                        buckets == BucketsOf(session.class)
                        slices(i) == [b \in DOMAIN buckets |-> BucketSlice(packed, i, b)]
                    IN  \A i \in Nodes(session.core) :
                            /\ \A b \in DOMAIN buckets :
                                /\ ToSet(slices(i)[b]) = Bucket(Here, i, buckets[b])
                                /\ \A j \in 2 .. Len(slices(i)[b]) : slices(i)[b][j - 1] <= slices(i)[b][j]
                            /\ AllNeighbors(packed, i) = FlattenSeq(slices(i))
                            /\ Len(AllNeighbors(packed, i)) =
                                   Cardinality({e \in EdgeSet(session.core) : e[1] = i})
                                   + Cardinality({e \in EdgeSet(session.core) : e[2] = i})
  BY DEF BucketsPackNeighbors
<1> DEFINE g == session.core
           class == session.class
           packed == Packed(g, class)
           buckets == BucketsOf(class)
           slices(i) == [b \in DOMAIN buckets |-> BucketSlice(packed, i, b)]
<1>1. IsCore(g) /\ class \in Typed /\ InClass(g, class) /\ Here = View(class, g)
  BY SessionFacts DEF Typed, Here
<1>2. Sorting(g, buckets) /\ Len(buckets) # 0
  BY <1>1, BucketsSort
<1>3. IsPacked(g, buckets, packed)
  BY <1>1, <1>2, PackedFacts
<1>4. ASSUME NEW i \in Nodes(g), NEW b \in DOMAIN buckets
      PROVE  ToSet(BucketSlice(packed, i, b)) = Bucket(Here, i, buckets[b])
  <2>1. {Nbr(q[2]) : q \in Pile(g, buckets)[<<i, b>>]} = Bucket(Here, i, buckets[b])
    BY <1>1, PilesLead
  <2> HIDE DEF g, class, packed, buckets
  <2>2. ToSet(BucketSlice(packed, i, b)) = {Nbr(q[2]) : q \in Pile(g, buckets)[<<i, b>>]}
    <3>1. SliceHolds(g, buckets, packed, i, b)
      BY <1>1, <1>2, <1>3, PackedSlices
    <3> QED
      BY <3>1 DEF SliceHolds
  <2> QED
    BY <2>1, <2>2
<1> HIDE DEF g, class, packed, buckets
<1>5. ASSUME NEW i \in Nodes(g), NEW b \in DOMAIN buckets
      PROVE  \A j \in 2 .. Len(BucketSlice(packed, i, b)) :
                 BucketSlice(packed, i, b)[j - 1] <= BucketSlice(packed, i, b)[j]
  BY <1>1, <1>2, <1>3, PackedSlices DEF SliceHolds
<1>6. ASSUME NEW i \in Nodes(g) PROVE AllNeighbors(packed, i) = FlattenSeq(slices(i))
  <2>1. RowHolds(g, buckets, packed, i)
    BY <1>1, <1>2, <1>3, RowIsFlat
  <2> QED
    BY <2>1 DEF RowHolds
<1>7. ASSUME NEW i \in Nodes(g)
      PROVE  Len(AllNeighbors(packed, i)) =
                 Cardinality({e \in EdgeSet(g) : e[1] = i}) + Cardinality({e \in EdgeSet(g) : e[2] = i})
  <2>1. Len(AllNeighbors(packed, i)) =
            Base(g.n, Len(buckets), Pile(g, buckets), <<i + 1, 1>>)
            - Base(g.n, Len(buckets), Pile(g, buckets), <<i, 1>>)
    BY <1>1, <1>2, <1>3, RowIsFlat DEF RowHolds
  <2>2. Base(g.n, Len(buckets), Pile(g, buckets), <<i + 1, 1>>)
        - Base(g.n, Len(buckets), Pile(g, buckets), <<i, 1>>) = Cardinality(HalfEdges(g, i))
    BY <1>1, <1>2, RowLength
  <2> QED
    BY <1>1, <2>1, <2>2, TwoEnds
<1>8. \A i : \A b \in DOMAIN buckets : slices(i)[b] = BucketSlice(packed, i, b)
  OBVIOUS
<1> HIDE DEF slices
<1>9. \A i \in Nodes(g) :
          /\ \A b \in DOMAIN buckets :
              /\ ToSet(slices(i)[b]) = Bucket(Here, i, buckets[b])
              /\ \A j \in 2 .. Len(slices(i)[b]) : slices(i)[b][j - 1] <= slices(i)[b][j]
          /\ AllNeighbors(packed, i) = FlattenSeq(slices(i))
          /\ Len(AllNeighbors(packed, i)) =
                 Cardinality({e \in EdgeSet(g) : e[1] = i}) + Cardinality({e \in EdgeSet(g) : e[2] = i})
  BY <1>4, <1>5, <1>6, <1>7, <1>8
<1> QED
  BY <1>9 DEF slices, g, class, packed, buckets

(* The array that the two passes of a view's constructor fill holds, for    *)
(* every node, its sorted neighbours of each kind, each kind's where the    *)
(* counts put it, one entry for each end of an edge and nothing between:    *)
(* the cursors of the second pass never leave the ranges of the first.     *)
THEOREM BucketsHoldTheNeighbors == Spec => []BucketsPackNeighbors
<1>1. IInv => BucketsPackNeighbors
  BY BucketsHold DEF IInv
<1> QED
  BY <1>1, InvariantHolds, PTL
================================================================================
