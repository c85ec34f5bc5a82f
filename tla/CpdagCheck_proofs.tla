---------------------------- MODULE CpdagCheck_proofs ----------------------------
(***************************************************************************)
(* For any number of nodes: is_cpdag() refuses no essential graph, and what *)
(* it accepts is the essential graph of each DAG it can be completed to     *)
(* without a new collider.                                                  *)
(*                                                                         *)
(* The maximum cardinality search of its chordality test numbers chordal   *)
(* graphs perfectly (Tarjan and Yannakakis), so that no chordal component   *)
(* is turned down.  The rest is about closed patterns (SharedFacts_proofs): *)
(* essential graphs are closed patterns, and closed patterns pass.          *)
(***************************************************************************)
EXTENDS CpdagCheck, ChordalityTest, SharedFacts_proofs

LinesWithin(C, U) == \A u, v \in C : (<<u, v>> \in U => <<v, u>> \in U) /\ <<u, u>> \notin U

(* The nodes numbered before the i-th. *)
NumberedBefore(ord, i) == {ord[m] : m \in 1 .. (i - 1)}

(* What the search looks at when it numbers a node: no node that is not    *)
(* numbered yet has more numbered neighbours.                              *)
NumberedByLabel(C, U, ord) ==
    \A i \in DOMAIN ord : \A v \in C \ NumberedBefore(ord, i) :
        Label(U, NumberedBefore(ord, i), v) <= Label(U, NumberedBefore(ord, i), ord[i])

IsNumbering(C, U, ord) == ord \in Seq(C) /\ IsInjective(ord) /\ NumberedByLabel(C, U, ord)

--------------------------------------------------------------------------------
(* The maximum cardinality search over a component C with lines U.         *)

LEMMA LabelsAreNumbers ==
    ASSUME NEW C, IsFiniteSet(C), NEW U, NEW D \in SUBSET C, NEW v
    PROVE  /\ IsFiniteSet({w \in D : <<v, w>> \in U})
           /\ Label(U, D, v) \in Nat
           /\ Label(U, D, v) <= Cardinality(C)
<1>1. {w \in D : <<v, w>> \in U} \in SUBSET C
  OBVIOUS
<1> QED
  BY <1>1, FS_Subset, FS_CardinalityType DEF Label

(* The search finds a node as long as one is left: CHOOSE has a choice.    *)
LEMMA PickFacts ==
    ASSUME NEW C \in SUBSET Nat, IsFiniteSet(C), NEW U, NEW D \in SUBSET C, C \ D # {}
    PROVE  /\ McsPick(C, U, D) \in C \ D
           /\ \A w \in C \ D : Label(U, D, w) <= Label(U, D, McsPick(C, U, D))
<1> DEFINE rest == C \ D
           label == [v \in rest |-> Label(U, D, v)]
           size == Cardinality(C)
           short == {size - label[v] : v \in rest}
<1>0. size \in Nat
  BY FS_CardinalityType
<1>1. \A v \in rest : label[v] \in Nat /\ label[v] <= size /\ size - label[v] \in Nat
  <2> SUFFICES ASSUME NEW v \in rest
               PROVE  label[v] \in Nat /\ label[v] <= size /\ size - label[v] \in Nat
    OBVIOUS
  <2>1. Label(U, D, v) \in Nat /\ Label(U, D, v) <= size
    BY LabelsAreNumbers
  <2> QED
    BY <1>0, <2>1
<1>2. short \in SUBSET Nat /\ short # {} /\ IsFiniteSet(short)
  <2>1. short \in SUBSET Nat /\ short # {}
    BY <1>1
  <2>2. \A s \in short : s <= size
    <3> SUFFICES ASSUME NEW v \in rest PROVE size - label[v] <= size
      OBVIOUS
    <3>1. label[v] \in Nat
      BY <1>1
    <3> HIDE DEF label, size
    <3> QED
      BY <1>0, <3>1
  <2> QED
    BY <1>0, <2>1, <2>2, FS_BoundedSetOfNaturals
<1>3. PICK s \in short : \A t \in short : s <= t
  BY <1>2, Least
<1>4. PICK v0 \in rest : s = size - label[v0]
  OBVIOUS
<1>5. ASSUME NEW w \in rest PROVE label[w] <= label[v0]
  <2>1. size - label[v0] <= size - label[w]
    BY <1>3, <1>4
  <2> QED
    BY <1>0, <1>1, <2>1
<1> DEFINE top == {v \in rest : label[v] = label[v0]}
<1>6. top \in SUBSET Nat /\ top # {} /\ IsFiniteSet(top)
  <2>1. top \in SUBSET C /\ v0 \in top
    OBVIOUS
  <2> QED
    BY <2>1, FS_Subset
<1>7. PICK v \in top : \A w \in top : v <= w
  BY <1>6, Least
<1>8. ASSUME NEW w \in rest
      PROVE  label[w] < label[v] \/ (label[w] = label[v] /\ v <= w)
  BY <1>1, <1>5, <1>7
<1>9. \E x \in rest : \A w \in rest :
          \/ Label(U, D, w) < Label(U, D, x)
          \/ Label(U, D, w) = Label(U, D, x) /\ x <= w
  BY <1>7, <1>8
<1> DEFINE pick == McsPick(C, U, D)
<1>10. /\ pick \in rest
       /\ \A w \in rest : \/ Label(U, D, w) < Label(U, D, pick)
                          \/ Label(U, D, w) = Label(U, D, pick) /\ pick <= w
  BY <1>9 DEF McsPick
<1>11. \A w \in rest : Label(U, D, w) \in Nat
  BY <1>1
<1>12. \A w \in rest : Label(U, D, w) <= Label(U, D, pick)
  <2> SUFFICES ASSUME NEW w \in rest PROVE Label(U, D, w) <= Label(U, D, pick)
    OBVIOUS
  <2>1. Label(U, D, w) \in Nat /\ Label(U, D, pick) \in Nat
    BY <1>10, <1>11
  <2> HIDE DEF pick, rest
  <2> QED
    BY <1>10, <2>1
<1> QED
  BY <1>10, <1>12

(* One more round: a node is left, and its label is the largest.           *)
LEMMA RoundFacts ==
    ASSUME NEW C \in SUBSET Nat, IsFiniteSet(C), NEW U, NEW ord, IsNumbering(C, U, ord),
           Len(ord) < Cardinality(C)
    PROVE  /\ McsPick(C, U, ToSet(ord)) \in C
           /\ IsNumbering(C, U, Append(ord, McsPick(C, U, ToSet(ord))))
<1> DEFINE D == ToSet(ord)
           x == McsPick(C, U, D)
           next == Append(ord, x)
<1>1. /\ ord \in Seq(C) /\ IsInjective(ord) /\ NumberedByLabel(C, U, ord)
      /\ DOMAIN ord = 1 .. Len(ord) /\ Len(ord) \in Nat
  <2>1. ord \in Seq(C) /\ IsInjective(ord) /\ NumberedByLabel(C, U, ord)
    BY DEF IsNumbering
  <2> QED
    BY <2>1, LenProperties
<1>2. Len(ord) < Cardinality(C) /\ Cardinality(C) \in Nat
  BY FS_CardinalityType
<1>3. D \in SUBSET C /\ D = {ord[m] : m \in 1 .. Len(ord)}
  BY <1>1 DEF ToSet
<1>4. C \ D # {}
  <2>1. IsFiniteSet(1 .. Len(ord)) /\ Cardinality(1 .. Len(ord)) = Len(ord)
    BY <1>1, UpTo
  <2>2. ord \in Surjection(1 .. Len(ord), D)
    BY <1>1, <1>3 DEF Surjection
  <2>3. Cardinality(D) <= Len(ord)
    BY <2>1, <2>2, FS_Surjection
  <2>5. D # C
    BY <1>1, <1>2, <2>3, FS_CardinalityType
  <2> QED
    BY <1>3, <2>5
<1>5. x \in C \ D /\ \A w \in C \ D : Label(U, D, w) <= Label(U, D, x)
  BY <1>3, <1>4, PickFacts
<1> HIDE DEF x
<1> DEFINE top == Len(ord) + 1
<1>6. /\ next \in Seq(C) /\ DOMAIN next = 1 .. top /\ next[top] = x
      /\ \A m \in 1 .. Len(ord) : next[m] = ord[m]
  BY <1>1, <1>2, <1>5
<1>7. IsInjective(next)
  <2> SUFFICES ASSUME NEW i \in 1 .. top, NEW j \in 1 .. top, next[i] = next[j] PROVE i = j
    BY <1>6 DEF IsInjective
  <2>1. \A m \in 1 .. Len(ord) : ord[m] # x
    BY <1>3, <1>5
  <2>2. \A m \in 1 .. top : m = top \/ m \in 1 .. Len(ord)
    BY <1>1
  <2> QED
    BY <1>1, <1>6, <2>1, <2>2 DEF IsInjective
<1>8. \A i \in 1 .. top : NumberedBefore(next, i) = NumberedBefore(ord, i)
  <2> SUFFICES ASSUME NEW i \in 1 .. top
               PROVE  NumberedBefore(next, i) = NumberedBefore(ord, i)
    OBVIOUS
  <2>1. \A m \in 1 .. (i - 1) : m \in 1 .. Len(ord)
    BY <1>1
  <2>2. \A m \in 1 .. (i - 1) : next[m] = ord[m]
    BY <1>6, <2>1
  <2> QED
    BY <2>2 DEF NumberedBefore
<1>9. NumberedByLabel(C, U, next)
  <2> SUFFICES ASSUME NEW i \in 1 .. top, NEW v \in C \ NumberedBefore(ord, i)
               PROVE  Label(U, NumberedBefore(ord, i), v)
                          <= Label(U, NumberedBefore(ord, i), next[i])
    BY <1>6, <1>8 DEF NumberedByLabel
  <2>1. CASE i \in 1 .. Len(ord)
    BY <1>1, <1>6, <2>1 DEF NumberedByLabel
  <2>2. CASE i = top
    <3>1. NumberedBefore(ord, i) = D
      <4>1. i - 1 = Len(ord)
        BY <1>1, <2>2
      <4> QED
        BY <1>3, <4>1 DEF NumberedBefore
    <3> QED
      BY <1>5, <1>6, <2>2, <3>1
  <2> QED
    BY <1>1, <2>1, <2>2
<1>10. IsNumbering(C, U, next)
  BY <1>6, <1>7, <1>9 DEF IsNumbering
<1> QED
  BY <1>5, <1>10 DEF x, D

--------------------------------------------------------------------------------
(* Chordless paths and cycles, as sequences of nodes from index 0. *)

Joined(U, q, a, b) == <<q[a], q[b]>> \in U

ChordlessCycle(C, U, m, q) ==
    /\ q \in [0 .. m -> C]
    /\ \A a, b \in 0 .. m : q[a] = q[b] => a = b
    /\ \A a, b \in 0 .. m :
           Joined(U, q, a, b) <=>
               (a = b + 1 \/ b = a + 1 \/ (a = 0 /\ b = m) \/ (b = 0 /\ a = m))

(* The nodes of a chordless cycle induce a cycle. *)
LEMMA CycleIsInduced ==
    ASSUME NEW C, NEW U, LinesWithin(C, U), NEW m \in Nat, m >= 3, NEW q, ChordlessCycle(C, U, m, q)
    PROVE  ~ NoInducedCycle(C, U)
<1> DEFINE S == {q[a] : a \in 0 .. m}
<1>1. /\ q \in [0 .. m -> C]
      /\ \A a, b \in 0 .. m : q[a] = q[b] => a = b
      /\ \A a, b \in 0 .. m :
             <<q[a], q[b]>> \in U <=>
                 (a = b + 1 \/ b = a + 1 \/ (a = 0 /\ b = m) \/ (b = 0 /\ a = m))
  BY DEF ChordlessCycle, Joined
<1>2. S \in SUBSET C /\ q \in Bijection(0 .. m, S)
  <2>1. S \in SUBSET C /\ q \in [0 .. m -> S]
    BY <1>1
  <2>2. \A t \in S : \E a \in 0 .. m : q[a] = t
    OBVIOUS
  <2> QED
    BY <1>1, <2>1, <2>2 DEF Bijection, Injection, Surjection, IsInjective
<1>3. Cardinality(S) >= 4
  <2>1. IsFiniteSet(0 .. m) /\ Cardinality(0 .. m) = m + 1
    BY FS_Interval
  <2>2. Cardinality(S) = Cardinality(0 .. m)
    BY <1>2, <2>1, FS_Bijection DEF ExistsBijection
  <2> QED
    BY <2>1, <2>2
<1>4. ASSUME NEW v \in S PROVE Cardinality(Neighbours(U, S, v)) = 2
  <2>1. PICK a \in 0 .. m : v = q[a]
    OBVIOUS
  <2> DEFINE next == IF a = m THEN 0 ELSE a + 1
             prev == IF a = 0 THEN m ELSE a - 1
  <2>2. next \in 0 .. m /\ prev \in 0 .. m /\ next # prev
    OBVIOUS
  <2>3. \A b \in 0 .. m : <<q[a], q[b]>> \in U <=> (b = next \/ b = prev)
    BY <1>1
  <2> HIDE DEF next, prev
  <2>4. Neighbours(U, S, v) = {q[next], q[prev]}
    BY <2>1, <2>2, <2>3 DEF Neighbours
  <2>5. q[next] # q[prev]
    BY <1>1, <2>2
  <2>6. Cardinality({q[next]}) = 1 /\ IsFiniteSet({q[next]})
    BY FS_Singleton
  <2>7. Cardinality({q[next]} \cup {q[prev]}) = 2
    BY <2>5, <2>6, FS_AddElement
  <2>8. {q[next]} \cup {q[prev]} = {q[next], q[prev]}
    OBVIOUS
  <2> QED
    BY <2>4, <2>7, <2>8
<1>5. ASSUME NEW v \in S, NEW w \in S PROVE Reaches(S, U, v, w)
  <2> SUFFICES ASSUME NEW T \in SUBSET S, v \in T, w \notin T,
                      \A x \in T, y \in S : <<x, y>> \in U => y \in T
               PROVE  FALSE
    BY DEF Reaches
  <2>1. PICK a \in 0 .. m : v = q[a]
    OBVIOUS
  <2>2. PICK b \in 0 .. m : w = q[b]
    OBVIOUS
  <2> DEFINE in == {c \in 0 .. m : q[c] \in T}
             out == (0 .. m) \ in
  <2>3. /\ in \in SUBSET Nat /\ in # {} /\ IsFiniteSet(in)
        /\ out \in SUBSET Nat /\ out # {} /\ IsFiniteSet(out)
    <3>1. IsFiniteSet(0 .. m) /\ in \in SUBSET (0 .. m) /\ out \in SUBSET (0 .. m)
      <4>1. IsFiniteSet(0 .. m)
        BY FS_Interval
      <4> QED
        BY <4>1
    <3>2. a \in in /\ b \in out
      BY <2>1, <2>2
    <3>3. 0 .. m \subseteq Nat
      OBVIOUS
    <3> QED
      BY <3>1, <3>2, <3>3, FS_Subset
  <2>4. \A c \in 0 .. m : q[c] \in S
    OBVIOUS
  <2>5. PICK i \in in : \A j \in in : i <= j
    BY <2>3, Least
  <2>6. PICK o \in out : \A j \in out : o <= j
    BY <2>3, Least
  <2>7. CASE o > 0
    <3>1. o - 1 \in 0 .. m /\ o \in 0 .. m
      BY <2>7
    <3>2. o - 1 \in in
      BY <2>6, <3>1
    <3>3. <<q[o - 1], q[o]>> \in U
      BY <1>1, <3>1
    <3> QED
      BY <2>4, <3>1, <3>2, <3>3
  <2>8. CASE o = 0
    <3>1. i # 0 /\ i \in 0 .. m
      BY <2>8
    <3>2. i - 1 \in 0 .. m
      BY <3>1
    <3>3. i - 1 \in out
      BY <2>5, <3>1, <3>2
    <3>4. <<q[i], q[i - 1]>> \in U
      BY <1>1, <3>1, <3>2
    <3> QED
      BY <2>4, <3>2, <3>3, <3>4
  <2> QED
    BY <2>7, <2>8
<1>6. InducesCycle(U, S)
  <2>1. \A v \in S : ComponentOf(S, U, v) = S
    BY <1>5 DEF ComponentOf
  <2> QED
    BY <1>3, <1>4, <2>1 DEF InducesCycle
<1> QED
  BY <1>2, <1>6 DEF NoInducedCycle

(* A path of numbered nodes between two nodes numbered before all others   *)
(* on it: p gives their places in the order.                               *)
Detour(U, ord, k, p) ==
    /\ p \in [0 .. k -> DOMAIN ord]
    /\ \A a, b \in 0 .. k : p[a] = p[b] => a = b
    /\ \A a, b \in 0 .. k :
           <<ord[p[a]], ord[p[b]]>> \in U <=> (a = b + 1 \/ b = a + 1)
    /\ \A a \in 1 .. (k - 1) : p[0] < p[a] /\ p[k] < p[a]

LEMMA DetourReversed ==
    ASSUME NEW U, NEW ord, NEW k \in Nat, NEW p, Detour(U, ord, k, p)
    PROVE  Detour(U, ord, k, [a \in 0 .. k |-> p[k - a]])
<1> DEFINE r == [a \in 0 .. k |-> p[k - a]]
<1>1. \A a \in 0 .. k : k - a \in 0 .. k /\ r[a] = p[k - a]
  OBVIOUS
<1>2. \A a \in 1 .. (k - 1) : k - a \in 1 .. (k - 1) /\ a \in 0 .. k
  OBVIOUS
<1>3. r[0] = p[k] /\ r[k] = p[0]
  BY <1>1
<1> HIDE DEF r
<1>4. r \in [0 .. k -> DOMAIN ord]
  BY <1>1 DEF Detour, r
<1>5. ASSUME NEW a \in 0 .. k, NEW b \in 0 .. k
      PROVE  /\ r[a] = r[b] => a = b
             /\ <<ord[r[a]], ord[r[b]]>> \in U <=> (a = b + 1 \/ b = a + 1)
  <2>1. p[k - a] = p[k - b] => k - a = k - b
    BY <1>1 DEF Detour
  <2>2. <<ord[p[k - a]], ord[p[k - b]]>> \in U
            <=> (k - a = (k - b) + 1 \/ k - b = (k - a) + 1)
    BY <1>1 DEF Detour
  <2> QED
    BY <1>1, <2>1, <2>2
<1>6. ASSUME NEW a \in 1 .. (k - 1) PROVE r[0] < r[a] /\ r[k] < r[a]
  BY <1>1, <1>2, <1>3 DEF Detour
<1> QED
  BY <1>4, <1>5, <1>6 DEF Detour
--------------------------------------------------------------------------------
(* A node numbered before another has a numbered neighbour the other has   *)
(* not, if the other has one it has not: labels decide.                    *)
LEMMA EarlierHasANeighbour ==
    ASSUME NEW C, IsFiniteSet(C), NEW U, LinesWithin(C, U), NEW ord, IsNumbering(C, U, ord),
           NEW a \in DOMAIN ord, NEW b \in DOMAIN ord, NEW c \in DOMAIN ord, a < b, b < c,
           <<ord[c], ord[a]>> \in U, <<ord[b], ord[a]>> \notin U
    PROVE  \E d \in DOMAIN ord :
               d < b /\ <<ord[b], ord[d]>> \in U /\ <<ord[c], ord[d]>> \notin U
<1> DEFINE D == NumberedBefore(ord, b)
           near(v) == {w \in D : <<v, w>> \in U}
<1>1. /\ ord \in Seq(C) /\ IsInjective(ord) /\ NumberedByLabel(C, U, ord)
      /\ DOMAIN ord = 1 .. Len(ord) /\ Len(ord) \in Nat
  BY DEF IsNumbering
<1>2. \A m \in 1 .. (b - 1) : m \in DOMAIN ord /\ m < b
  BY <1>1
<1>3. D \in SUBSET C
  BY <1>1, <1>2 DEF NumberedBefore
<1>4. ord[c] \in C \ D
  <2>1. \A m \in 1 .. (b - 1) : ord[m] # ord[c]
    BY <1>1, <1>2 DEF IsInjective
  <2> QED
    BY <1>1, <2>1 DEF NumberedBefore
<1>5. Label(U, D, ord[c]) <= Label(U, D, ord[b])
  BY <1>1, <1>4 DEF NumberedByLabel
<1>6. a \in 1 .. (b - 1) /\ ord[a] \in D
  BY <1>1 DEF NumberedBefore
<1>7. ~ (near(ord[b]) \subseteq near(ord[c]))
  <2> SUFFICES ASSUME near(ord[b]) \subseteq near(ord[c]) PROVE FALSE
    OBVIOUS
  <2>1. ord[a] \in near(ord[c]) /\ ord[a] \notin near(ord[b])
    BY <1>6
  <2>2. IsFiniteSet(near(ord[c])) /\ IsFiniteSet(near(ord[b]))
    <3>1. near(ord[c]) \in SUBSET C /\ near(ord[b]) \in SUBSET C
      BY <1>3
    <3> QED
      BY <3>1, FS_Subset
  <2>3. /\ Cardinality(near(ord[b])) <= Cardinality(near(ord[c]))
        /\ Cardinality(near(ord[c])) = Cardinality(near(ord[b])) => near(ord[c]) = near(ord[b])
    BY <2>2, FS_Subset
  <2>4. Cardinality(near(ord[c])) <= Cardinality(near(ord[b]))
    BY <1>5 DEF Label
  <2>5. Cardinality(near(ord[c])) \in Nat /\ Cardinality(near(ord[b])) \in Nat
    BY <2>2, FS_CardinalityType
  <2> QED
    BY <2>1, <2>3, <2>4, <2>5
<1>8. PICK w \in D : <<ord[b], w>> \in U /\ <<ord[c], w>> \notin U
  BY <1>7
<1>9. PICK d \in 1 .. (b - 1) : w = ord[d]
  BY DEF NumberedBefore
<1> QED
  BY <1>2, <1>8, <1>9

(* In a chordal graph a detour gives one whose ends are numbered earlier.  *)
LEMMA DetourStartsEarlier ==
    ASSUME NEW C, IsFiniteSet(C), NEW U, LinesWithin(C, U), NEW ord, IsNumbering(C, U, ord), NoInducedCycle(C, U),
           NEW k \in Nat, k >= 2, NEW p, Detour(U, ord, k, p), p[0] < p[k]
    PROVE  \E m \in Nat : \E q :
               m >= 2 /\ Detour(U, ord, m, q) /\ q[0] < p[k] /\ q[m] < p[k]
<1>1. /\ ord \in Seq(C) /\ IsInjective(ord)
      /\ DOMAIN ord = 1 .. Len(ord) /\ Len(ord) \in Nat
  BY DEF IsNumbering
<1>2. /\ p \in [0 .. k -> DOMAIN ord]
      /\ \A a, b \in 0 .. k : p[a] = p[b] => a = b
      /\ \A a, b \in 0 .. k :
             <<ord[p[a]], ord[p[b]]>> \in U <=> (a = b + 1 \/ b = a + 1)
      /\ \A a \in 1 .. (k - 1) : p[0] < p[a] /\ p[k] < p[a]
  BY DEF Detour
<1>3. 0 \in 0 .. k /\ 1 \in 0 .. k /\ k \in 0 .. k /\ 1 \in 1 .. (k - 1)
  OBVIOUS
<1>4. PICK d \in DOMAIN ord :
          d < p[k] /\ <<ord[p[k]], ord[d]>> \in U /\ <<ord[p[1]], ord[d]>> \notin U
  <2>1. <<ord[p[1]], ord[p[0]]>> \in U /\ <<ord[p[k]], ord[p[0]]>> \notin U
    BY <1>2, <1>3
  <2>2. p[0] \in DOMAIN ord /\ p[1] \in DOMAIN ord /\ p[k] \in DOMAIN ord /\ p[k] < p[1]
    BY <1>2, <1>3
  <2> QED
    BY <2>1, <2>2, EarlierHasANeighbour
<1> DEFINE J == {a \in 1 .. k : <<ord[p[a]], ord[d]>> \in U}
<1>5. J \in SUBSET Nat /\ k \in J /\ IsFiniteSet(J)
  <2>1. IsFiniteSet(1 .. k) /\ J \in SUBSET (1 .. k) /\ k \in 1 .. k
    <3>1. IsFiniteSet(1 .. k)
      BY FS_Interval
    <3> QED
      BY <3>1
  <2>2. J \in SUBSET Nat
    OBVIOUS
  <2> QED
    BY <1>4, <2>1, <2>2, FS_Subset
<1>6. PICK j \in J : \A a \in J : j <= a
  BY <1>5, Least
<1> HIDE DEF J
<1>7. /\ j \in 1 .. k /\ j # 1 /\ <<ord[p[j]], ord[d]>> \in U
      /\ \A a \in 1 .. (j - 1) : <<ord[p[a]], ord[d]>> \notin U
  BY <1>4, <1>5, <1>6 DEF J
<1> DEFINE m == j + 1
           q == [a \in 0 .. m |-> IF a = m THEN d ELSE p[a]]
<1>8. m \in Nat /\ m >= 3 /\ \A a \in 0 .. m : a = m \/ a \in 0 .. j
  BY <1>7
<1>9. /\ 0 .. j \subseteq 0 .. k /\ q[m] = d /\ q[0] = p[0]
      /\ \A a \in 0 .. j : a \in 0 .. m /\ a # m /\ q[a] = p[a]
  BY <1>7
<1> HIDE DEF q
<1>10. q \in [0 .. m -> DOMAIN ord]
  BY <1>2, <1>7 DEF q
<1>11. \A u, v \in C : (<<u, v>> \in U => <<v, u>> \in U) /\ <<u, u>> \notin U
  BY DEF LinesWithin
<1>12. \A a \in DOMAIN ord : ord[a] \in C /\ a \in Int
  BY <1>1
<1>13. p[0] # d
  <2>1. <<ord[p[k]], ord[p[0]]>> \notin U
    BY <1>2, <1>3
  <2> QED
    BY <1>4, <2>1
<1>14. \A a \in 1 .. j : p[a] \in DOMAIN ord /\ d < p[a] /\ p[0] < p[a]
  <2> SUFFICES ASSUME NEW a \in 1 .. j PROVE p[a] \in DOMAIN ord /\ d < p[a] /\ p[0] < p[a]
    OBVIOUS
  <2>1. a \in 0 .. k /\ p[a] \in DOMAIN ord /\ p[0] \in DOMAIN ord /\ p[k] \in DOMAIN ord
    BY <1>2, <1>3, <1>7
  <2>2. CASE a = k
    BY <1>4, <2>1, <2>2
  <2>3. CASE a # k
    <3>1. a \in 1 .. (k - 1)
      BY <1>7, <2>3
    <3>2. p[0] < p[a] /\ p[k] < p[a]
      BY <1>2, <3>1
    <3> QED
      BY <1>4, <1>12, <2>1, <3>2
  <2> QED
    BY <2>2, <2>3
<1>15. \A a \in 0 .. j : p[a] # d
  <2> SUFFICES ASSUME NEW a \in 0 .. j, a # 0 PROVE p[a] # d
    BY <1>13
  <2>1. a \in 1 .. j
    OBVIOUS
  <2> QED
    BY <1>12, <1>14, <2>1
<1>16. \A a, b \in 0 .. m : q[a] = q[b] => a = b
  <2> SUFFICES ASSUME NEW a \in 0 .. m, NEW b \in 0 .. m, q[a] = q[b] PROVE a = b
    OBVIOUS
  <2> QED
    BY <1>2, <1>8, <1>9, <1>15
(* The new node is joined to the last of the old path, and perhaps to the  *)
(* first.                                                                  *)
<1>17. \A a \in 1 .. j : /\ <<ord[q[a]], ord[q[m]]>> \in U <=> a = j
                         /\ <<ord[q[m]], ord[q[a]]>> \in U <=> a = j
  <2> SUFFICES ASSUME NEW a \in 1 .. j
               PROVE  /\ <<ord[q[a]], ord[q[m]]>> \in U <=> a = j
                      /\ <<ord[q[m]], ord[q[a]]>> \in U <=> a = j
    OBVIOUS
  <2>1. a \in 0 .. j /\ q[a] = p[a]
    BY <1>9
  <2>2. <<ord[p[a]], ord[d]>> \in U <=> a = j
    <3>1. a = j \/ a \in 1 .. (j - 1)
      BY <1>7
    <3> QED
      BY <1>7, <3>1
  <2>3. ord[p[a]] \in C /\ ord[d] \in C
    BY <1>12, <1>14
  <2> QED
    BY <1>9, <1>11, <2>1, <2>2, <2>3
<1>23. m = j + 1 /\ j \in Nat /\ j >= 2
  BY <1>7
<1> HIDE DEF m
<1>18. <<ord[q[0]], ord[q[m]]>> \in U <=> <<ord[q[m]], ord[q[0]]>> \in U
  <2>1. p[0] \in DOMAIN ord
    BY <1>2, <1>3
  <2> QED
    BY <1>9, <1>11, <1>12, <2>1
<1>19. \A a, b \in 0 .. j :
           <<ord[q[a]], ord[q[b]]>> \in U <=> (a = b + 1 \/ b = a + 1)
  BY <1>2, <1>9
<1>20. <<ord[q[m]], ord[q[m]]>> \notin U
  BY <1>9, <1>11, <1>12
<1>21. CASE <<ord[q[0]], ord[q[m]]>> \notin U
  <2>1. ASSUME NEW a \in 0 .. m, NEW b \in 0 .. m
        PROVE  <<ord[q[a]], ord[q[b]]>> \in U <=> (a = b + 1 \/ b = a + 1)
    <3>1. CASE a \in 0 .. j /\ b \in 0 .. j
      BY <1>19, <3>1
    <3>2. CASE a = m /\ b = m
      BY <1>20, <1>23, <3>2
    <3>3. CASE a = m /\ b = 0
      BY <1>18, <1>21, <1>23, <3>3
    <3>4. CASE a = 0 /\ b = m
      BY <1>21, <1>23, <3>4
    <3>5. CASE a = m /\ b \in 1 .. j
      <4>1. <<ord[q[m]], ord[q[b]]>> \in U <=> b = j
        BY <1>17, <3>5
      <4>2. a = m /\ b \in Int /\ b >= 1
        BY <3>5
      <4> QED
        BY <1>23, <4>1, <4>2
    <3>6. CASE a \in 1 .. j /\ b = m
      <4>1. <<ord[q[a]], ord[q[m]]>> \in U <=> a = j
        BY <1>17, <3>6
      <4>2. b = m /\ a \in Int /\ a >= 1
        BY <3>6
      <4> QED
        BY <1>23, <4>1, <4>2
    <3>7. \A c \in 0 .. m : c = m \/ c = 0 \/ c \in 1 .. j
      BY <1>23
    <3>8. \A c \in 0 .. m : c = m \/ c \in 0 .. j
      BY <1>23
    <3> QED
      BY <3>1, <3>2, <3>3, <3>4, <3>5, <3>6, <3>7, <3>8
  <2>2. ASSUME NEW a \in 1 .. (m - 1) PROVE q[0] < q[a] /\ q[m] < q[a]
    <3>1. a \in 1 .. j /\ a \in 0 .. j
      BY <1>23
    <3> QED
      BY <1>9, <1>14, <3>1
  <2>3. Detour(U, ord, m, q)
    BY <1>10, <1>16, <2>1, <2>2 DEF Detour
  <2>4. m >= 2 /\ m \in Nat
    BY <1>8
  <2> QED
    BY <1>4, <1>9, <2>3, <2>4
<1>22. CASE <<ord[q[0]], ord[q[m]]>> \in U
  <2> DEFINE r == [a \in 0 .. m |-> ord[q[a]]]
  <2>1. /\ r \in [0 .. m -> C]
        /\ \A a \in 0 .. m : r[a] = ord[q[a]] /\ q[a] \in DOMAIN ord
    BY <1>10, <1>12
  <2> HIDE DEF r
  <2>2. ASSUME NEW a \in 0 .. m, NEW b \in 0 .. m, r[a] = r[b] PROVE a = b
    <3>1. q[a] = q[b]
      BY <1>1, <2>1, <2>2 DEF IsInjective
    <3> QED
      BY <1>16, <3>1
  <2>3. ASSUME NEW a \in 0 .. m, NEW b \in 0 .. m
        PROVE  <<ord[q[a]], ord[q[b]]>> \in U <=>
                   (a = b + 1 \/ b = a + 1 \/ (a = 0 /\ b = m) \/ (b = 0 /\ a = m))
    <3>1. CASE a \in 0 .. j /\ b \in 0 .. j
      BY <1>19, <1>23, <3>1
    <3>2. CASE a = m /\ b = m
      BY <1>20, <1>23, <3>2
    <3>3. CASE a = m /\ b = 0
      BY <1>18, <1>22, <1>23, <3>3
    <3>4. CASE a = 0 /\ b = m
      BY <1>22, <1>23, <3>4
    <3>5. CASE a = m /\ b \in 1 .. j
      <4>1. <<ord[q[m]], ord[q[b]]>> \in U <=> b = j
        BY <1>17, <3>5
      <4>2. a = m /\ b \in Int /\ b >= 1
        BY <3>5
      <4> QED
        BY <1>23, <4>1, <4>2
    <3>6. CASE a \in 1 .. j /\ b = m
      <4>1. <<ord[q[a]], ord[q[m]]>> \in U <=> a = j
        BY <1>17, <3>6
      <4>2. b = m /\ a \in Int /\ a >= 1
        BY <3>6
      <4> QED
        BY <1>23, <4>1, <4>2
    <3>7. \A c \in 0 .. m : c = m \/ c = 0 \/ c \in 1 .. j
      BY <1>23
    <3>8. \A c \in 0 .. m : c = m \/ c \in 0 .. j
      BY <1>23
    <3> QED
      BY <3>1, <3>2, <3>3, <3>4, <3>5, <3>6, <3>7, <3>8
  <2>4. ChordlessCycle(C, U, m, r)
    BY <2>1, <2>2, <2>3 DEF ChordlessCycle, Joined
  <2> QED
    BY <1>8, <2>4, CycleIsInduced
<1> QED
  BY <1>21, <1>22
(* Tarjan and Yannakakis: a numbering by label leaves no detour in a       *)
(* chordal graph, since the one whose later end comes first would give     *)
(* another.                                                                *)
LEMMA NoDetour ==
    ASSUME NEW C, IsFiniteSet(C), NEW U, LinesWithin(C, U), NEW ord, IsNumbering(C, U, ord), NoInducedCycle(C, U),
           NEW k0 \in Nat, k0 >= 2, NEW p0, Detour(U, ord, k0, p0)
    PROVE  FALSE
<1> DEFINE ends == {t \in DOMAIN ord :
                       \E k \in Nat : \E p :
                           k >= 2 /\ Detour(U, ord, k, p) /\ p[0] < p[k] /\ t = p[k]}
<1>1. DOMAIN ord = 1 .. Len(ord) /\ Len(ord) \in Nat
  BY DEF IsNumbering
<1>2. ASSUME NEW k \in Nat, k >= 2, NEW p, Detour(U, ord, k, p)
      PROVE  \E t \in ends : (t = p[0] \/ t = p[k]) /\ p[0] <= t /\ p[k] <= t
  <2>1. /\ 0 \in 0 .. k /\ k \in 0 .. k /\ p[0] \in DOMAIN ord /\ p[k] \in DOMAIN ord
        /\ p[0] # p[k]
    BY <1>2 DEF Detour
  <2>2. p[0] \in Int /\ p[k] \in Int
    BY <1>1, <2>1
  <2>3. CASE p[0] < p[k]
    <3>1. p[k] \in ends
      BY <1>2, <2>1, <2>3
    <3> QED
      BY <2>2, <2>3, <3>1
  <2>4. CASE p[k] < p[0]
    <3> DEFINE r == [a \in 0 .. k |-> p[k - a]]
    <3>1. Detour(U, ord, k, r)
      BY <1>2, DetourReversed
    <3>2. r[0] = p[k] /\ r[k] = p[0]
      BY <2>1
    <3> HIDE DEF r
    <3>3. p[0] \in ends
      BY <1>2, <2>1, <2>4, <3>1, <3>2
    <3> QED
      BY <2>2, <2>4, <3>3
  <2> QED
    BY <2>1, <2>2, <2>3, <2>4
<1>3. ends \in SUBSET Nat /\ ends # {} /\ IsFiniteSet(ends)
  <2>1. ends \in SUBSET (1 .. Len(ord))
    BY <1>1
  <2>2. ends # {}
    BY <1>2
  <2>3. IsFiniteSet(1 .. Len(ord))
    BY <1>1, FS_Interval
  <2>4. 1 .. Len(ord) \subseteq Nat
    BY <1>1
  <2> QED
    BY <2>1, <2>2, <2>3, <2>4, FS_Subset
<1>4. PICK t \in ends : \A s \in ends : t <= s
  BY <1>3, Least
<1>5. PICK k \in Nat : \E p :
          k >= 2 /\ Detour(U, ord, k, p) /\ p[0] < p[k] /\ t = p[k]
  BY <1>4
<1>6. PICK p : k >= 2 /\ Detour(U, ord, k, p) /\ p[0] < p[k] /\ t = p[k]
  BY <1>5
<1>7. PICK m \in Nat : \E q : m >= 2 /\ Detour(U, ord, m, q) /\ q[0] < t /\ q[m] < t
  BY <1>6, DetourStartsEarlier
<1>8. PICK q : m >= 2 /\ Detour(U, ord, m, q) /\ q[0] < t /\ q[m] < t
  BY <1>7
<1>9. PICK s \in ends : s = q[0] \/ s = q[m]
  BY <1>2, <1>8
<1>10. s < t /\ t <= s
  BY <1>4, <1>8, <1>9
<1>11. s \in Int /\ t \in Int
  BY <1>3, <1>4, <1>9
<1> QED
  BY <1>10, <1>11

(* The pivot of the clique test is one of the neighbours it is picked from. *)
LEMMA PivotIsAMember ==
    ASSUME NEW U, NEW ord, NEW i \in Nat, EarlierNeighbours(U, ord, i) # {}
    PROVE  Pivot(EarlierNeighbours(U, ord, i)) \in EarlierNeighbours(U, ord, i)
<1> DEFINE earlier == EarlierNeighbours(U, ord, i)
<1>1. IsFiniteSet(1 .. (i - 1)) /\ 1 .. (i - 1) \subseteq Nat
  <2>1. i - 1 \in Int
    OBVIOUS
  <2>2. IsFiniteSet(1 .. (i - 1))
    BY <2>1, FS_Interval
  <2> QED
    BY <2>2
<1>2. earlier \in SUBSET (1 .. (i - 1))
  BY DEF EarlierNeighbours
<1>3. IsFiniteSet(earlier) /\ earlier \in SUBSET Nat
  BY <1>1, <1>2, FS_Subset
<1>4. \E a \in earlier : \A b \in earlier : a <= b
  BY <1>3, Least
<1> HIDE DEF earlier
<1> QED
  BY <1>4 DEF Pivot, earlier

LEMMA ChordalNumbering ==
    ASSUME NEW C, IsFiniteSet(C), NEW U, LinesWithin(C, U), NEW ord, IsNumbering(C, U, ord), NoInducedCycle(C, U),
           NEW i \in DOMAIN ord,
           NEW j \in EarlierNeighbours(U, ord, i), NEW k \in EarlierNeighbours(U, ord, i), j # k
    PROVE  <<ord[j], ord[k]>> \in U
<1> SUFFICES ASSUME <<ord[j], ord[k]>> \notin U PROVE FALSE
  OBVIOUS
<1>1. /\ DOMAIN ord = 1 .. Len(ord) /\ Len(ord) \in Nat
      /\ \A a \in DOMAIN ord : ord[a] \in C
  BY DEF IsNumbering
<1>2. /\ j \in DOMAIN ord /\ k \in DOMAIN ord /\ j < i /\ k < i
      /\ <<ord[i], ord[j]>> \in U /\ <<ord[i], ord[k]>> \in U
  BY <1>1 DEF EarlierNeighbours
<1>3. \A u, v \in C : (<<u, v>> \in U => <<v, u>> \in U) /\ <<u, u>> \notin U
  BY DEF LinesWithin
<1> DEFINE p == [a \in 0 .. 2 |-> IF a = 0 THEN j ELSE IF a = 1 THEN i ELSE k]
<1>4. p[0] = j /\ p[1] = i /\ p[2] = k /\ p \in [0 .. 2 -> DOMAIN ord]
  BY <1>2
<1> HIDE DEF p
<1>5. \A a \in 0 .. 2 : a = 0 \/ a = 1 \/ a = 2
  OBVIOUS
<1>6. /\ <<ord[j], ord[i]>> \in U /\ <<ord[k], ord[i]>> \in U /\ <<ord[k], ord[j]>> \notin U
      /\ <<ord[i], ord[i]>> \notin U /\ <<ord[j], ord[j]>> \notin U /\ <<ord[k], ord[k]>> \notin U
  BY <1>1, <1>2, <1>3
<1>7. i # j /\ i # k
  BY <1>1, <1>2
<1>8. \A a, b \in 0 .. 2 : p[a] = p[b] => a = b
  BY <1>4, <1>5, <1>7
<1>9. \A a, b \in 0 .. 2 : <<ord[p[a]], ord[p[b]]>> \in U <=> (a = b + 1 \/ b = a + 1)
  <2> SUFFICES ASSUME NEW a \in 0 .. 2, NEW b \in 0 .. 2
               PROVE  <<ord[p[a]], ord[p[b]]>> \in U <=> (a = b + 1 \/ b = a + 1)
    OBVIOUS
  <2>1. CASE a = 0
    BY <1>2, <1>4, <1>5, <1>6, <2>1
  <2>2. CASE a = 1
    BY <1>2, <1>4, <1>5, <1>6, <2>2
  <2>3. CASE a = 2
    BY <1>2, <1>4, <1>5, <1>6, <2>3
  <2> QED
    BY <1>5, <2>1, <2>2, <2>3
<1>10. \A a \in 1 .. (2 - 1) : p[0] < p[a] /\ p[2] < p[a]
  BY <1>2, <1>4
<1>11. Detour(U, ord, 2, p)
  BY <1>4, <1>8, <1>9, <1>10 DEF Detour
<1> QED
  BY <1>11, NoDetour

LEMMA ChordalPassesTheTest ==
    ASSUME NEW C, IsFiniteSet(C), NEW U, LinesWithin(C, U), NEW ord, IsNumbering(C, U, ord), NoInducedCycle(C, U)
    PROVE  CliqueTest(U, ord)
<1>1. DOMAIN ord = 1 .. Len(ord) /\ Len(ord) \in Nat
  BY DEF IsNumbering
<1> SUFFICES ASSUME NEW i \in 1 .. Len(ord),
                    NEW j \in EarlierNeighbours(U, ord, i),
                    j # Pivot(EarlierNeighbours(U, ord, i))
             PROVE  <<ord[j], ord[Pivot(EarlierNeighbours(U, ord, i))]>> \in U
  BY DEF CliqueTest
<1>2. i \in Nat /\ i \in DOMAIN ord
  BY <1>1
<1>3. Pivot(EarlierNeighbours(U, ord, i)) \in EarlierNeighbours(U, ord, i)
  BY <1>2, PivotIsAMember
<1> QED
  BY <1>2, <1>3, ChordalNumbering

--------------------------------------------------------------------------------
(* The test as the program runs it, on one component. *)

SearchInv ==
    /\ und \in UndirectedGraphs
    /\ IsNumbering(Component, und, order)
    /\ verdict \in {"searching", "chordal", "not chordal"}
    /\ verdict = "not chordal" => ~ CliqueTest(und, order)

(* Lines have two ends and go both ways. *)
LEMMA LinesAreSymmetric ==
    ASSUME NEW U \in UndirectedGraphs
    PROVE  /\ U \in SUBSET (Component \X Component)
           /\ LinesWithin(Component, U)
<1>1. PICK E \in SUBSET kSubset(2, Component) :
          U = {p \in Component \X Component : {p[1], p[2]} \in E}
  BY DEF UndirectedGraphs
<1>2. \A u, v \in Component : <<u, v>> \in U <=> {u, v} \in E
  BY <1>1
<1>3. \A u, v \in Component : {u, v} = {v, u}
  OBVIOUS
<1>4. ASSUME NEW u \in Component, {u, u} \in E PROVE FALSE
  <2>1. Cardinality({u, u}) = 2
    BY <1>4 DEF kSubset
  <2>2. {u, u} = {u}
    OBVIOUS
  <2>3. Cardinality({u}) = 1
    BY FS_Singleton
  <2> QED
    BY <2>1, <2>2, <2>3
<1> QED
  BY <1>1, <1>2, <1>3, <1>4 DEF LinesWithin

LEMMA ComponentIsFinite ==
    /\ IsFiniteSet(Component) /\ Component \in SUBSET Nat
    /\ Cardinality(Component) = ComponentSize
<1>1. ComponentSize - 1 \in Int /\ ComponentSize \in Int /\ ~ (0 > ComponentSize - 1)
  BY ComponentSizeAssumption
<1>2. IsFiniteSet(0 .. (ComponentSize - 1))
      /\ Cardinality(0 .. (ComponentSize - 1)) = (ComponentSize - 1) - 0 + 1
  BY <1>1, FS_Interval
<1> QED
  BY <1>1, <1>2 DEF Component

LEMMA SearchInvInit == SearchInit => SearchInv
<1> SUFFICES ASSUME SearchInit PROVE SearchInv
  OBVIOUS
<1>1. und \in UndirectedGraphs /\ order = <<>> /\ verdict = "searching"
  BY DEF SearchInit
<1>2. order \in Seq(Component) /\ DOMAIN order = {}
  BY <1>1
<1> QED
  BY <1>1, <1>2 DEF SearchInv, IsNumbering, IsInjective, NumberedByLabel

LEMMA NumberKeepsSearchInv == SearchInv /\ Number => SearchInv'
<1> SUFFICES ASSUME SearchInv, Number PROVE SearchInv'
  OBVIOUS
<1>1. /\ IsNumbering(Component, und, order) /\ verdict = "searching"
      /\ Len(order) < ComponentSize
      /\ order' = Append(order, McsPick(Component, und, ToSet(order)))
      /\ UNCHANGED <<und, verdict>>
  BY DEF SearchInv, Number
<1>2. IsNumbering(Component, und, order')
  BY <1>1, ComponentIsFinite, RoundFacts
<1> QED
  BY <1>1, <1>2 DEF SearchInv

(* The invariant of the search: the order holds distinct nodes, each of    *)
(* largest label when it was numbered.                                     *)
THEOREM SearchInvariant == SearchSpec => []SearchInv
<1>1. SearchInit => SearchInv
  BY SearchInvInit
<1>2. SearchInv /\ [SearchNext]_searchVars => SearchInv'
  <2> SUFFICES ASSUME SearchInv, [SearchNext]_searchVars PROVE SearchInv'
    OBVIOUS
  <2>1. CASE Number
    BY <2>1, NumberKeepsSearchInv
  <2>2. CASE Test
    BY <2>2 DEF Test, SearchInv
  <2>3. CASE UNCHANGED searchVars
    BY <2>3 DEF searchVars, SearchInv
  <2> QED
    BY <2>1, <2>2, <2>3 DEF SearchNext
<1> QED
  BY <1>1, <1>2, PTL DEF SearchSpec

(* At every moment of the search the neighbours numbered before a node of  *)
(* a chordal graph are pairwise adjacent, whatever the ids are.            *)
THEOREM EarlierNeighboursAreAClique == SearchSpec => []EarlierNeighboursFormClique
<1>1. SearchInv => EarlierNeighboursFormClique
  BY ChordalNumbering, ComponentIsFinite, LinesAreSymmetric DEF SearchInv, EarlierNeighboursFormClique, Chordal
<1> QED
  BY <1>1, SearchInvariant, PTL

(* The test of components_are_chordal() turns down no chordal component,   *)
(* although it compares with the wrong pivot: among pairwise adjacent      *)
(* neighbours any pivot will do.                                           *)
THEOREM NoChordalIsTurnedDown == SearchSpec => []ChordalIsAccepted
<1>1. SearchInv => ChordalIsAccepted
  <2> SUFFICES ASSUME SearchInv, verdict = "not chordal", Chordal(und) PROVE FALSE
    BY DEF ChordalIsAccepted
  <2>1. CliqueTest(und, order)
    BY ChordalPassesTheTest, ComponentIsFinite, LinesAreSymmetric DEF SearchInv, Chordal
  <2> QED
    BY <2>1 DEF SearchInv
<1> QED
  BY <1>1, SearchInvariant, PTL

--------------------------------------------------------------------------------
(* The components of the lines of a closed pattern.                       *)

LEMMA ReachesBack ==
    ASSUME NEW N, NEW U, Lined(N, U), NEW v \in N, NEW w \in N, Reaches(N, U, v, w)
    PROVE  Reaches(N, U, w, v)
<1> DEFINE S == {x \in N : Reaches(N, U, x, v)}
<1>1. ASSUME NEW x \in S, NEW y \in N, <<x, y>> \in U PROVE y \in S
  <2>1. <<y, x>> \in U
    BY <1>1 DEF Lined
  <2>2. Reaches(N, U, y, x) /\ Reaches(N, U, x, v)
    BY <2>1, ArcReaches
  <2> QED
    BY <2>2, ReachesTransitive
<1>2. v \in S /\ S \in SUBSET N
  BY ReachesItself
<1>3. w \in S
  <2> HIDE DEF S
  <2> QED
    BY <1>1, <1>2 DEF Reaches
<1> QED
  BY <1>3

LEMMA SameComponent ==
    ASSUME NEW N, NEW U, Lined(N, U), NEW C \in ChainComponents(N, U)
    PROVE  /\ C \in SUBSET N /\ C # {}
           /\ \A x, y \in C : Reaches(N, U, x, y)
<1>1. PICK v \in N : C = ComponentOf(N, U, v)
  BY DEF ChainComponents
<1>2. C = {w \in N : Reaches(N, U, v, w)}
  BY <1>1 DEF ComponentOf
<1>3. v \in C
  BY <1>2, ReachesItself
<1>4. ASSUME NEW x \in C, NEW y \in C PROVE Reaches(N, U, x, y)
  <2>1. Reaches(N, U, x, v) /\ Reaches(N, U, v, y)
    BY <1>2, ReachesBack
  <2> QED
    BY <2>1, ReachesTransitive
<1> QED
  BY <1>2, <1>3, <1>4

LEMMA ParentOfComponent ==
    ASSUME NEW N, NEW D, NEW A, NEW U, ClosedPattern(N, D, A, U),
           NEW u \in N, NEW v \in N, NEW w \in N, <<u, v>> \in A, Reaches(N, U, v, w)
    PROVE  <<u, w>> \in A
<1> DEFINE S == {y \in N : <<u, y>> \in A}
<1>1. \A x \in S, y \in N : <<x, y>> \in U => y \in S
  BY ParentOfLine
<1>2. v \in S /\ S \in SUBSET N
  OBVIOUS
<1>3. w \in S
  <2> HIDE DEF S
  <2> QED
    BY <1>1, <1>2 DEF Reaches
<1> QED
  BY <1>3

LEMMA NoArrowInside ==
    ASSUME NEW N, NEW D, NEW A, NEW U, ClosedPattern(N, D, A, U)
    PROVE  ~ HasIntraComponentArrows(N, A, U)
<1>1. /\ D \in SUBSET (N \X N) /\ Acyclic(N, D) /\ A \subseteq D /\ Lined(N, U)
  BY DEF ClosedPattern, Pattern
<1> SUFFICES ASSUME NEW C \in ChainComponents(N, U), NEW a \in A, a[1] \in C, a[2] \in C
             PROVE  FALSE
  BY DEF HasIntraComponentArrows
<1>2. a[1] \in N /\ a[2] \in N /\ a = <<a[1], a[2]>>
  BY <1>1
<1>3. Reaches(N, U, a[2], a[1])
  BY <1>1, SameComponent
<1>4. <<a[1], a[2]>> \in A
  BY <1>2
<1>5. <<a[1], a[1]>> \in A
  BY <1>2, <1>3, <1>4, ParentOfComponent
<1> QED
  BY <1>1, <1>2, <1>5, NoSelfArcs

LEMMA ComponentsAreAcyclic ==
    ASSUME NEW N, NEW D, NEW A, NEW U, ClosedPattern(N, D, A, U)
    PROVE  ComponentDagIsAcyclic(N, A, U)
<1>1. /\ D \in SUBSET (N \X N) /\ Acyclic(N, D) /\ A \subseteq D /\ Lined(N, U)
  BY DEF ClosedPattern, Pattern
<1>2. Acyclic(N, A)
  BY <1>1, SmallerIsAcyclic
<1> DEFINE comps == ChainComponents(N, U)
           between == {p \in comps \X comps :
                          p[1] # p[2] /\ \E a \in A : a[1] \in p[1] /\ a[2] \in p[2]}
<1>3. \A C \in comps : C \in SUBSET N /\ C # {} /\ \A x, y \in C : Reaches(N, U, x, y)
  BY <1>1, SameComponent
<1> SUFFICES ASSUME NEW S \in (SUBSET comps) \ {{}}
             PROVE  \E C \in S : \A B \in S : <<B, C>> \notin between
  BY DEF ComponentDagIsAcyclic, Acyclic
<1> HIDE DEF comps
<1>4. UNION S \in (SUBSET N) \ {{}}
  BY <1>3
<1>5. PICK x \in UNION S : \A y \in UNION S : <<y, x>> \notin A
  BY <1>2, <1>4 DEF Acyclic
<1>6. PICK C \in S : x \in C
  OBVIOUS
<1>7. ASSUME NEW B \in S, <<B, C>> \in between PROVE FALSE
  <2>1. PICK a \in A : a[1] \in B /\ a[2] \in C
    BY <1>7
  <2>2. a[1] \in N /\ a[2] \in N /\ a = <<a[1], a[2]>> /\ x \in N
    BY <1>1, <1>4
  <2>3. Reaches(N, U, a[2], x)
    BY <1>3, <1>6, <2>1
  <2>4. <<a[1], a[2]>> \in A
    BY <2>2
  <2>5. <<a[1], x>> \in A
    BY <2>2, <2>3, <2>4, ParentOfComponent
  <2> QED
    BY <1>5, <2>1, <2>5
<1> QED
  BY <1>7

(* The lines of a closed pattern bear no chordless cycle: its last node, as *)
(* D goes, would have two neighbours that share a line.                     *)
LEMMA TwoMembers ==
    ASSUME NEW S, IsFiniteSet(S), Cardinality(S) = 2, NEW y \in S, NEW z \in S, y # z
    PROVE  S = {y, z}
<1>1. IsFiniteSet(S \ {y}) /\ Cardinality(S \ {y}) = 1
  BY FS_RemoveElement
<1>2. PICK x : S \ {y} = {x}
  BY <1>1, FS_Singleton
<1> QED
  BY <1>2

LEMMA MoralIsChordal ==
    ASSUME NEW N, IsFiniteSet(N), NEW U, Lined(N, U), NEW O, MoralOrientation(N, N, U, O),
           NEW C \in SUBSET N
    PROVE  NoInducedCycle(C, U)
<1> SUFFICES ASSUME NEW S \in SUBSET C, InducesCycle(U, S) PROVE FALSE
  BY DEF NoInducedCycle
<1>1. /\ Cardinality(S) >= 4
      /\ \A v \in S : Cardinality(Neighbours(U, S, v)) = 2
      /\ \A v \in S : ComponentOf(S, U, v) = S
  BY DEF InducesCycle
<1>2. S \in SUBSET N /\ IsFiniteSet(S)
  BY FS_Subset
<1>3. S # {}
  BY <1>1, FS_EmptySet
<1>4. /\ O \subseteq U /\ Acyclic(N, O)
      /\ \A u, v \in N : <<u, v>> \in U => <<u, v>> \in O \/ <<v, u>> \in O
      /\ \A u, v, w \in N : <<u, v>> \in O /\ <<w, v>> \in O /\ u # w => <<u, w>> \in U
  BY DEF MoralOrientation
<1>5. \A u, v \in N : <<u, v>> \in U => <<v, u>> \in U /\ u # v
  BY DEF Lined
<1>6. PICK s \in S : \A y \in S : Reaches(N, O, s, y) => y = s
  BY <1>2, <1>3, <1>4, Furthest
<1>7. ASSUME NEW y \in S, <<s, y>> \in U PROVE <<y, s>> \in O
  <2>1. y \in N /\ s \in N
    BY <1>2
  <2>2. ASSUME <<s, y>> \in O PROVE FALSE
    <3>1. Reaches(N, O, s, y)
      BY <2>1, <2>2, ArcReaches
    <3> QED
      BY <1>5, <1>6, <1>7, <2>1, <3>1
  <2> QED
    BY <1>4, <1>7, <2>1, <2>2
<1>8. \A v \in S : IsFiniteSet(Neighbours(U, S, v))
  <2>1. \A v \in S : Neighbours(U, S, v) \in SUBSET S
    BY DEF Neighbours
  <2> QED
    BY <1>2, <2>1, FS_Subset
<1>9. PICK y \in Neighbours(U, S, s) : TRUE
  BY <1>1, FS_EmptySet
<1>10. Cardinality(Neighbours(U, S, s) \ {y}) = 1
  <2>1. IsFiniteSet(Neighbours(U, S, s)) /\ Cardinality(Neighbours(U, S, s)) = 2
    BY <1>1, <1>8
  <2>2. Cardinality(Neighbours(U, S, s) \ {y}) = Cardinality(Neighbours(U, S, s)) - 1
    BY <1>9, <2>1, FS_RemoveElement
  <2> QED
    BY <2>1, <2>2
<1>11. PICK z \in Neighbours(U, S, s) : z # y
  BY <1>10, FS_EmptySet
<1>12. /\ y \in S /\ z \in S /\ <<s, y>> \in U /\ <<s, z>> \in U
       /\ y \in N /\ z \in N /\ s \in N
  BY <1>2 DEF Neighbours
<1>13. <<y, z>> \in U /\ <<z, y>> \in U /\ <<y, s>> \in U /\ <<z, s>> \in U /\ s # y /\ s # z
  BY <1>4, <1>5, <1>7, <1>11, <1>12
<1>14. Neighbours(U, S, s) = {y, z}
  BY <1>1, <1>8, <1>11, TwoMembers
<1>15. Neighbours(U, S, y) = {s, z}
  <2>1. s \in Neighbours(U, S, y) /\ z \in Neighbours(U, S, y)
    BY <1>12, <1>13 DEF Neighbours
  <2> QED
    BY <1>1, <1>8, <1>12, <1>13, <2>1, TwoMembers
<1>16. Neighbours(U, S, z) = {s, y}
  <2>1. s \in Neighbours(U, S, z) /\ y \in Neighbours(U, S, z)
    BY <1>12, <1>13 DEF Neighbours
  <2> QED
    BY <1>1, <1>8, <1>12, <1>13, <2>1, TwoMembers
<1> DEFINE T == {s, y, z}
<1>17. \A x \in T, w \in S : <<x, w>> \in U => w \in T
  BY <1>14, <1>15, <1>16 DEF Neighbours
<1>18. S \subseteq T
  <2> SUFFICES ASSUME NEW w \in S PROVE w \in T
    OBVIOUS
  <2>1. Reaches(S, U, s, w)
    BY <1>1 DEF ComponentOf
  <2>2. T \in SUBSET S /\ s \in T
    BY <1>12
  <2> HIDE DEF T
  <2> QED
    BY <1>17, <2>1, <2>2 DEF Reaches
<1>19. IsFiniteSet(T) /\ Cardinality(T) <= 3
  <2>1. IsFiniteSet({s}) /\ Cardinality({s}) = 1
    BY FS_Singleton
  <2>2. IsFiniteSet({s} \cup {y}) /\ Cardinality({s} \cup {y}) = Cardinality({s}) + 1
    BY <1>13, <2>1, FS_AddElement
  <2> DEFINE pair == {s} \cup {y}
  <2>3. z \notin pair /\ T = pair \cup {z}
    BY <1>11, <1>13
  <2>4. IsFiniteSet(pair \cup {z}) /\ Cardinality(pair \cup {z}) = Cardinality(pair) + 1
    <3>1. IsFiniteSet(pair)
      BY <2>2
    <3> HIDE DEF pair
    <3> QED
      BY <2>3, <3>1, FS_AddElement
  <2>5. Cardinality(pair) = 2
    BY <2>1, <2>2
  <2> HIDE DEF pair, T
  <2> QED
    BY <2>3, <2>4, <2>5
<1>20. Cardinality(S) <= Cardinality(T) /\ Cardinality(S) \in Nat /\ Cardinality(T) \in Nat
  BY <1>18, <1>19, FS_Subset, FS_CardinalityType
<1> QED
  BY <1>1, <1>19, <1>20

(* The search over a component exists as the recursive function it is, and *)
(* numbers the whole of it.                                                 *)
Search(C, U, k, g) ==
    g = [i \in 0 .. k |->
            IF i = 0 THEN <<>> ELSE Append(g[i - 1], McsPick(C, U, ToSet(g[i - 1])))]

LEMMA SearchExists ==
    ASSUME NEW C, NEW U, NEW n \in Nat
    PROVE  \E g : Search(C, U, n, g)
<1> DEFINE bad == {k \in 0 .. n : ~ \E g : Search(C, U, k, g)}
<1> SUFFICES ASSUME n \in bad PROVE FALSE
  OBVIOUS
<1>1. bad \in SUBSET Nat /\ bad # {} /\ IsFiniteSet(bad)
  <2>1. bad \in SUBSET (0 .. n) /\ 0 .. n \in SUBSET Nat
    OBVIOUS
  <2>2. IsFiniteSet(0 .. n)
    BY FS_Interval
  <2> QED
    BY <2>1, <2>2, FS_Subset
<1>2. PICK k \in bad : \A j \in bad : k <= j
  <2> HIDE DEF bad
  <2> QED
    BY <1>1, Least
<1>3. k \in 0 .. n /\ k \in Nat /\ ~ \E g : Search(C, U, k, g)
  OBVIOUS
<1>4. k # 0
  <2> SUFFICES ASSUME k = 0 PROVE FALSE
    OBVIOUS
  <2> DEFINE g == [i \in 0 .. 0 |-> <<>>]
  <2>1. g = [i \in 0 .. k |->
                IF i = 0 THEN <<>> ELSE Append(g[i - 1], McsPick(C, U, ToSet(g[i - 1])))]
    OBVIOUS
  <2>2. Search(C, U, k, g)
    BY <2>1 DEF Search
  <2> QED
    BY <1>3, <2>2
<1>5. k - 1 \in 0 .. n /\ k - 1 \notin bad
  BY <1>2, <1>3, <1>4
<1>6. PICK g : Search(C, U, k - 1, g)
  BY <1>5
<1>7. g = [i \in 0 .. (k - 1) |->
              IF i = 0 THEN <<>> ELSE Append(g[i - 1], McsPick(C, U, ToSet(g[i - 1])))]
  BY <1>6 DEF Search
<1> DEFINE entry(i) == IF i = 0 THEN <<>> ELSE Append(g[i - 1], McsPick(C, U, ToSet(g[i - 1])))
           h == [i \in 0 .. k |-> entry(i)]
<1>8. \A i \in 0 .. (k - 1) : h[i] = g[i]
  <2> SUFFICES ASSUME NEW i \in 0 .. (k - 1) PROVE h[i] = g[i]
    OBVIOUS
  <2>1. i \in 0 .. k
    BY <1>3
  <2>2. h[i] = entry(i)
    BY <2>1
  <2>3. g[i] = entry(i)
    BY <1>7
  <2> QED
    BY <2>2, <2>3
<1>9. \A i \in 0 .. k : i # 0 => h[i - 1] = g[i - 1]
  <2> SUFFICES ASSUME NEW i \in 0 .. k, i # 0 PROVE h[i - 1] = g[i - 1]
    OBVIOUS
  <2>1. i - 1 \in 0 .. (k - 1)
    BY <1>3
  <2> QED
    BY <1>8, <2>1
<1>10. h = [i \in 0 .. k |->
               IF i = 0 THEN <<>> ELSE Append(h[i - 1], McsPick(C, U, ToSet(h[i - 1])))]
  <2>1. \A i \in 0 .. k :
            entry(i) = IF i = 0 THEN <<>> ELSE Append(h[i - 1], McsPick(C, U, ToSet(h[i - 1])))
    BY <1>9
  <2> QED
    BY <2>1
<1>11. Search(C, U, k, h)
  BY <1>10 DEF Search
<1> QED
  BY <1>3, <1>11

LEMMA SearchNumbers ==
    ASSUME NEW C \in SUBSET Nat, IsFiniteSet(C), NEW U, NEW g, Search(C, U, Cardinality(C), g)
    PROVE  IsNumbering(C, U, g[Cardinality(C)])
<1> DEFINE n == Cardinality(C)
           Right(i) == IsNumbering(C, U, g[i]) /\ Len(g[i]) = i
           bad == {i \in 0 .. n : ~ Right(i)}
<1>0. n \in Nat
  BY FS_CardinalityType
<1>1. g = [i \in 0 .. n |->
              IF i = 0 THEN <<>> ELSE Append(g[i - 1], McsPick(C, U, ToSet(g[i - 1])))]
  BY DEF Search
<1>2. ASSUME bad # {} PROVE FALSE
  <2>1. bad \in SUBSET Nat /\ IsFiniteSet(bad)
    <3>1. bad \in SUBSET (0 .. n) /\ 0 .. n \in SUBSET Nat
      BY <1>0
    <3>2. IsFiniteSet(0 .. n)
      BY <1>0, FS_Interval
    <3> QED
      BY <3>1, <3>2, FS_Subset
  <2>2. PICK i \in bad : \A j \in bad : i <= j
    <3> HIDE DEF bad
    <3> QED
      BY <1>2, <2>1, Least
  <2>3. i \in 0 .. n /\ ~ Right(i)
    BY <2>2
  <2>4. CASE i = 0
    <3>1. g[0] = <<>>
      BY <1>0, <1>1
    <3>2. Right(0)
      <4>1. <<>> \in Seq(C) /\ DOMAIN <<>> = {} /\ Len(<<>>) = 0
        OBVIOUS
      <4> QED
        BY <3>1, <4>1 DEF IsNumbering, IsInjective, NumberedByLabel
    <3> QED
      BY <2>3, <2>4, <3>2
  <2>5. CASE i # 0
    <3>1. i - 1 \in 0 .. n /\ i \in Nat /\ i - 1 < n /\ ~ (i <= i - 1)
      BY <1>0, <2>3, <2>5
    <3>2. Right(i - 1)
      BY <2>2, <3>1
    <3>3. g[i] = Append(g[i - 1], McsPick(C, U, ToSet(g[i - 1])))
      BY <1>1, <2>3, <2>5
    <3>4. IsNumbering(C, U, g[i - 1]) /\ Len(g[i - 1]) = i - 1
      BY <3>2
    <3>5. McsPick(C, U, ToSet(g[i - 1])) \in C /\ IsNumbering(C, U, g[i])
      BY <3>1, <3>3, <3>4, RoundFacts
    <3>6. Len(g[i]) = i
      <4> DEFINE before == g[i - 1]
                 x == McsPick(C, U, ToSet(before))
      <4>1. before \in Seq(C) /\ x \in C /\ Len(before) = i - 1
        BY <3>4, <3>5 DEF IsNumbering
      <4>2. g[i] = Append(before, x)
        BY <3>3
      <4> HIDE DEF before, x
      <4> QED
        BY <3>1, <4>1, <4>2
    <3> QED
      BY <2>3, <3>5, <3>6
  <2> QED
    BY <2>4, <2>5
<1>3. n \in 0 .. n
  BY <1>0
<1> QED
  BY <1>2, <1>3

LEMMA McsOrderNumbers ==
    ASSUME NEW C \in SUBSET Nat, IsFiniteSet(C), NEW U
    PROVE  IsNumbering(C, U, McsOrder(C, U))
<1> DEFINE n == Cardinality(C)
           run == CHOOSE g : g = [i \in 0 .. n |->
                        IF i = 0 THEN <<>> ELSE Append(g[i - 1], McsPick(C, U, ToSet(g[i - 1])))]
<1>1. n \in Nat
  BY FS_CardinalityType
<1>2. \E g : g = [i \in 0 .. n |->
                 IF i = 0 THEN <<>> ELSE Append(g[i - 1], McsPick(C, U, ToSet(g[i - 1])))]
  <2>1. PICK g : Search(C, U, n, g)
    BY <1>1, SearchExists
  <2>2. g = [i \in 0 .. n |->
                IF i = 0 THEN <<>> ELSE Append(g[i - 1], McsPick(C, U, ToSet(g[i - 1])))]
    BY <2>1 DEF Search
  <2> QED
    BY <2>2
<1>3. run = [i \in 0 .. n |->
                  IF i = 0 THEN <<>> ELSE Append(run[i - 1], McsPick(C, U, ToSet(run[i - 1])))]
  BY <1>2
<1>4. McsOrder(C, U) = run[n]
  BY DEF McsOrder
<1>5. Search(C, U, n, run)
  BY <1>3 DEF Search
<1> HIDE DEF run
<1> QED
  BY <1>4, <1>5, SearchNumbers

LEMMA LinesAreChordal ==
    ASSUME NEW N \in SUBSET Nat, NEW D, NEW A, NEW U, ClosedPattern(N, D, A, U)
    PROVE  ComponentsAreChordal(N, U)
<1>1. IsFiniteSet(N) /\ Lined(N, U)
  BY DEF ClosedPattern, Pattern
<1>2. MoralOrientation(N, N, U, D \cap U)
  BY DrawnLinesAreMoral
<1> SUFFICES ASSUME NEW C \in ChainComponents(N, U) PROVE CliqueTest(U, McsOrder(C, U))
  BY DEF ComponentsAreChordal
<1>3. C \in SUBSET N
  BY <1>1, SameComponent
<1>4. C \in SUBSET Nat /\ IsFiniteSet(C)
  BY <1>1, <1>3, FS_Subset
<1>5. LinesWithin(C, U)
  BY <1>1, <1>3 DEF Lined, LinesWithin
<1>6. NoInducedCycle(C, U)
  BY <1>1, <1>2, <1>3, MoralIsChordal
<1>7. IsNumbering(C, U, McsOrder(C, U))
  BY <1>4, McsOrderNumbers
<1> QED
  BY <1>4, <1>5, <1>6, <1>7, ChordalPassesTheTest

LEMMA ClosedPatternIsMeekClosed ==
    ASSUME NEW N, NEW D, NEW A, NEW U, ClosedPattern(N, D, A, U)
    PROVE  MeekClosed(N, A, U)
<1>1. /\ D \in SUBSET (N \X N) /\ A \in SUBSET (N \X N) /\ U \in SUBSET (N \X N)
      /\ Lined(N, U) /\ A \cap U = {}
  BY DEF ClosedPattern, Pattern, Lined
<1>2. \A u, v \in N : <<u, v>> \in A <=> u \in Parents(A, v)
  BY <1>1, ParentsAre
<1>3. ASSUME NEW v \in N, NEW u \in Parents(A, v), NEW w \in Children(U, v)
      PROVE  Adjacent(A, U, u, w)
  <2>1. <<u, v>> \in A /\ <<v, w>> \in U
    BY <1>1, ParentsAre
  <2>2. u \in N /\ w \in N
    BY <1>1, <2>1
  <2>3. u # w
    BY <1>1, <2>1, <2>2 DEF Lined
  <2> QED
    BY <2>1, <2>2, <2>3, PatternRules
<1>4. R1Blocked(N, A, U)
  BY <1>3 DEF R1Blocked
<1>5. ASSUME NEW a \in U
      PROVE  /\ ~ Reaches(N, A, a[1], a[2]) /\ ~ Reaches(N, A, a[2], a[1])
             /\ Children(A, a[1]) \cap Parents(A, a[2]) = {}
             /\ \A w, x \in Parents(A, a[2]) :
                    w # x /\ <<a[1], w>> \in U /\ <<a[1], x>> \in U => Adjacent(A, U, w, x)
  <2>1. a[1] \in N /\ a[2] \in N /\ a = <<a[1], a[2]>>
    BY <1>1
  <2>2. <<a[1], a[2]>> \in U /\ <<a[2], a[1]>> \in U
    BY <1>1, <2>1 DEF Lined
  <2>3. ~ Reaches(N, A, a[1], a[2]) /\ ~ Reaches(N, A, a[2], a[1])
    BY <2>1, <2>2, PatternRules
  <2>4. ASSUME NEW c, c \in Children(A, a[1]), c \in Parents(A, a[2]) PROVE FALSE
    <3>1. <<a[1], c>> \in A /\ <<c, a[2]>> \in A
      BY <1>1, <2>4, ParentsAre
    <3>2. c \in N
      BY <1>1, <3>1
    <3>3. Reaches(N, A, a[1], a[2])
      BY <2>1, <3>1, <3>2, ArcReaches, ReachesOneStep
    <3> QED
      BY <2>3, <3>3
  <2>5. ASSUME NEW w \in Parents(A, a[2]), NEW x \in Parents(A, a[2]), w # x,
               <<a[1], w>> \in U, <<a[1], x>> \in U
        PROVE  Adjacent(A, U, w, x)
    <3>1. <<w, a[2]>> \in A /\ <<x, a[2]>> \in A
      BY <1>1, ParentsAre
    <3>2. w \in N /\ x \in N
      BY <1>1, <3>1
    <3> QED
      BY <2>1, <2>2, <2>5, <3>1, <3>2, PatternRules
  <2> QED
    BY <2>3, <2>4, <2>5
<1>6. R4Blocked(N, A, U)
  BY <1>5 DEF R4Blocked, DirPath
<1>7. R2Blocked(N, A, U)
  BY <1>5 DEF R2Blocked
<1>8. R3Blocked(N, A, U)
  BY <1>5 DEF R3Blocked
<1> QED
  BY <1>4, <1>6, <1>7, <1>8 DEF MeekClosed

(* A reason comes down to one of the four configurations. *)
LEMMA ReasonsProtect ==
    ASSUME NEW N, NEW D, NEW A, NEW U, ClosedPattern(N, D, A, U),
           NEW a \in N, NEW b \in N, <<a, b>> \in A
    PROVE  StronglyProtected(A, U, a, b)
<1>1. /\ D \in SUBSET (N \X N) /\ Acyclic(N, D) /\ A \in SUBSET (N \X N) /\ A \subseteq D
      /\ Lined(N, U) /\ Forced(N, D, A, U, a, b)
  BY DEF ClosedPattern, Pattern
<1>2. Acyclic(N, A)
  BY <1>1, SmallerIsAcyclic
<1>3. ASSUME NEW c \in N, c # a, <<c, b>> \in A, ~ Adjacent(A, U, c, a)
      PROVE  StronglyProtected(A, U, a, b)
  BY <1>1, <1>3, ParentsAre DEF StronglyProtected
<1>4. ASSUME NEW c \in N, <<c, a>> \in A, ~ Adjacent(A, U, c, b)
      PROVE  StronglyProtected(A, U, a, b)
  BY <1>1, <1>4, ParentsAre DEF StronglyProtected
<1>5. ASSUME NEW c \in N, <<a, c>> \in A, <<c, b>> \in A
      PROVE  StronglyProtected(A, U, a, b)
  <2>1. c \in Children(A, a) /\ c \in Parents(A, b)
    BY <1>1, <1>5, ParentsAre
  <2> QED
    BY <2>1 DEF StronglyProtected
<1>6. ASSUME NEW c \in N, c # a, Reaches(N, A, a, c), <<c, b>> \in A
      PROVE  StronglyProtected(A, U, a, b)
  <2>1. <<a, c>> \notin U
    BY <1>6, PatternRules
  <2>2. <<c, a>> \notin A
    BY <1>2, <1>6, ArcReaches, NoWayBack
  <2>3. CASE <<a, c>> \in A
    BY <1>5, <1>6, <2>3
  <2>4. CASE <<a, c>> \notin A
    <3>1. ~ Adjacent(A, U, c, a)
      BY <1>1, <2>1, <2>2, <2>4, AdjacentFacts
    <3> QED
      BY <1>3, <1>6, <3>1
  <2> QED
    BY <2>3, <2>4
<1>7. ASSUME NEW c \in N, NEW d \in N, c # d, <<c, b>> \in A, <<d, b>> \in A,
             ~ Adjacent(A, U, c, d), Adjacent(A, U, a, c), Adjacent(A, U, a, d),
             ~ (<<c, a>> \in D /\ <<d, a>> \in D)
      PROVE  StronglyProtected(A, U, a, b)
  <2>1. ~ Adjacent(A, U, d, c)
    BY <1>1, <1>7, AdjacentFacts
  <2>2. CASE <<a, c>> \in A \/ <<a, d>> \in A
    BY <1>5, <1>7, <2>2
  <2>3. ASSUME NEW x \in N, NEW y \in N, <<x, a>> \in A, <<a, y>> \in U, ~ Adjacent(A, U, x, y)
        PROVE  FALSE
    <3>1. <<x, y>> \in A
      BY <2>3, ParentOfLine
    <3> QED
      BY <2>3, <3>1 DEF Adjacent
  <2>4. CASE <<a, c>> \in U /\ <<a, d>> \in U
    <3>1. c \in Parents(A, b) /\ d \in Parents(A, b)
      BY <1>1, <1>7, ParentsAre
    <3> QED
      BY <1>7, <2>4, <3>1 DEF StronglyProtected
  <2>5. /\ <<a, c>> \in A \/ <<c, a>> \in A \/ <<a, c>> \in U
        /\ <<a, d>> \in A \/ <<d, a>> \in A \/ <<a, d>> \in U
    BY <1>7 DEF Adjacent
  <2> QED
    BY <1>1, <1>7, <2>1, <2>2, <2>3, <2>4, <2>5
<1> QED
  BY <1>1, <1>3, <1>4, <1>6, <1>7, Zenon DEF Forced

--------------------------------------------------------------------------------
(* The five tests. *)

FiveTests(N, A, U) ==
    /\ ~ HasIntraComponentArrows(N, A, U)
    /\ ComponentDagIsAcyclic(N, A, U)
    /\ ComponentsAreChordal(N, U)
    /\ MeekClosed(N, A, U)
    /\ \A a \in A : StronglyProtected(A, U, a[1], a[2])

LEMMA NodesFacts == V \in SUBSET Nat /\ IsFiniteSet(V)
  BY SizeAssumption, FS_Interval DEF V

LEMMA EssentialPasses ==
    ASSUME NEW D \in SUBSET (V \X V), Acyclic(V, D), NEW A, NEW U, <<A, U>> = Essential(V, D)
    PROVE  FiveTests(V, A, U)
<1>1. PICK X : ClosedPattern(V, D, X, Rest(V, D, X)) /\ Essential(V, D) = <<X, Rest(V, D, X)>>
  BY NodesFacts, EssentialIsClosed
<1>2. ClosedPattern(V, D, A, U)
  BY <1>1
<1>3. A \in SUBSET (V \X V)
  BY <1>2 DEF ClosedPattern, Pattern
<1>4. ASSUME NEW a \in A PROVE StronglyProtected(A, U, a[1], a[2])
  <2>1. a[1] \in V /\ a[2] \in V /\ <<a[1], a[2]>> \in A
    BY <1>3
  <2> QED
    BY <1>2, <2>1, ReasonsProtect
<1> QED
  BY <1>2, <1>4, NodesFacts, NoArrowInside, ComponentsAreAcyclic, LinesAreChordal,
     ClosedPatternIsMeekClosed DEF FiveTests

(* What has been found so far. *)
TestsSoFar ==
    /\ stage = "not cpdag" => ~ FiveTests(V, arcs, lines)
    /\ stage \in {"protected", "cpdag"} => MeekClosed(V, arcs, lines)
    /\ stage = "cpdag" => \A a \in arcs : StronglyProtected(arcs, lines, a[1], a[2])

GraphFacts ==
    /\ arcs \in SUBSET (V \X V)
    /\ Lined(V, lines)
    /\ arcs \cap lines = {}

LEMMA InitFacts == Init => GraphFacts /\ TestsSoFar
<1> SUFFICES ASSUME Init PROVE GraphFacts /\ TestsSoFar
  OBVIOUS
<1>1. PICK D \in SUBSET kSubset(2, V), E \in SUBSET kSubset(2, V) :
          D \cap E = {} /\ arcs \in Orientations(V, D) /\ lines = Symmetric(V, E)
  BY DEF Init
<1>2. /\ arcs \in SUBSET (V \X V) /\ lines \in SUBSET (V \X V)
      /\ \A a \in arcs : {a[1], a[2]} \in D
      /\ \A a \in V \X V : a \in lines <=> {a[1], a[2]} \in E
  BY <1>1 DEF Orientations, Symmetric
<1>3. arcs \cap lines = {}
  BY <1>1, <1>2
<1>4. ASSUME NEW u \in V, NEW v \in V, <<u, v>> \in lines PROVE <<v, u>> \in lines /\ u # v
  <2>1. {u, v} \in E /\ {u, v} = {v, u}
    BY <1>2, <1>4
  <2>2. Cardinality({u, v}) = 2
    BY <2>1 DEF kSubset
  <2>3. Cardinality({u}) = 1
    BY FS_Singleton
  <2>4. u # v
    BY <2>2, <2>3
  <2> QED
    BY <1>2, <2>1, <2>4
<1>5. stage = "arrows"
  BY DEF Init
<1> QED
  BY <1>2, <1>3, <1>4, <1>5 DEF GraphFacts, TestsSoFar, Lined

LEMMA StepFacts == GraphFacts /\ TestsSoFar /\ [Next]_vars => GraphFacts' /\ TestsSoFar'
<1> SUFFICES ASSUME GraphFacts, TestsSoFar, [Next]_vars PROVE GraphFacts' /\ TestsSoFar'
  OBVIOUS
<1>1. UNCHANGED <<arcs, lines>>
  BY DEF Next, NoArrowsInComponents, ComponentDag, ChordalComponents, NoRuleApplies,
         AllArrowsStronglyProtected, Decide, vars
<1>2. GraphFacts'
  BY <1>1 DEF GraphFacts
<1>3. CASE NoArrowsInComponents
  BY <1>1, <1>2, <1>3 DEF NoArrowsInComponents, Decide, TestsSoFar, FiveTests
<1>4. CASE ComponentDag
  BY <1>1, <1>2, <1>4 DEF ComponentDag, Decide, TestsSoFar, FiveTests
<1>5. CASE ChordalComponents
  BY <1>1, <1>2, <1>5 DEF ChordalComponents, Decide, TestsSoFar, FiveTests
<1>6. CASE NoRuleApplies
  BY <1>1, <1>2, <1>6 DEF NoRuleApplies, Decide, TestsSoFar, FiveTests
<1>7. CASE AllArrowsStronglyProtected
  BY <1>1, <1>2, <1>7 DEF AllArrowsStronglyProtected, Decide, TestsSoFar, FiveTests
<1>8. CASE UNCHANGED vars
  BY <1>1, <1>2, <1>8 DEF vars, TestsSoFar
<1> QED
  BY <1>3, <1>4, <1>5, <1>6, <1>7, <1>8 DEF Next

(* is_cpdag() works on one graph; a refusal means that one of the tests     *)
(* fails, a verdict that the tests behind it have held.                     *)
THEOREM TestsKnown == Spec => [](GraphFacts /\ TestsSoFar)
  BY InitFacts, StepFacts, PTL DEF Spec

(* None of the five tests of is_cpdag() turns down the essential graph of a *)
(* DAG, however many nodes it has.                                          *)
THEOREM NoEssentialIsRefused == Spec => []EssentialIsAccepted
<1>1. TestsSoFar => EssentialIsAccepted
  <2> SUFFICES ASSUME TestsSoFar, stage = "not cpdag", <<arcs, lines>> \in Essentials PROVE FALSE
    BY DEF EssentialIsAccepted
  <2>1. PICK D \in Dags(V) : <<arcs, lines>> = Essential(V, D)
    BY DEF Essentials, EssentialGraphs
  <2>2. FiveTests(V, arcs, lines)
    BY <2>1, DagFacts, EssentialPasses
  <2> QED
    BY <2>2 DEF TestsSoFar
<1> QED
  BY <1>1, TestsKnown, PTL

LEMMA ProtectionIsReason ==
    ASSUME NEW D, NEW A, NEW U, Pattern(V, D, A, U),
           NEW a \in V, NEW b \in V, StronglyProtected(A, U, a, b)
    PROVE  Forced(V, D, A, U, a, b)
<1>1. /\ D \in SUBSET (V \X V) /\ Acyclic(V, D) /\ A \in SUBSET (V \X V) /\ A \subseteq D
      /\ Lined(V, U) /\ A \cap U = {}
      /\ \A u, v \in V : Adjacent(A, U, u, v) <=> Adjacent(D, {}, u, v)
      /\ \A u, v, w \in V :
          u # w /\ <<u, v>> \in D /\ <<w, v>> \in D /\ ~ Adjacent(D, {}, u, w) => <<u, v>> \in A
  BY DEF Pattern
<1>2. \A u, v : (u \in Parents(A, v) => <<u, v>> \in A) /\ (u \in Children(A, v) => <<v, u>> \in A)
  BY <1>1, ParentsAre
<1>3. \A u, v : <<u, v>> \in A => u \in V /\ v \in V
  BY <1>1
<1>4. CASE \E c \in Parents(A, b) : c # a /\ ~ Adjacent(A, U, c, a)
  BY <1>2, <1>3, <1>4 DEF Forced
<1>5. CASE \E c \in Parents(A, a) : ~ Adjacent(A, U, c, b)
  BY <1>2, <1>3, <1>5 DEF Forced
<1>6. CASE Children(A, a) \cap Parents(A, b) # {}
  <2>1. PICK c : <<a, c>> \in A /\ <<c, b>> \in A
    BY <1>2, <1>6
  <2>2. c \in V /\ c # a /\ Reaches(V, A, a, c)
    BY <1>1, <1>3, <2>1, ArcReaches, NoSelfArcs
  <2> QED
    BY <2>1, <2>2 DEF Forced
<1>7. CASE \E c, d \in Parents(A, b) :
              c # d /\ ~ Adjacent(A, U, c, d) /\ {<<a, c>>, <<a, d>>} \subseteq U
  <2>1. PICK c \in Parents(A, b), d \in Parents(A, b) :
              c # d /\ ~ Adjacent(A, U, c, d) /\ <<a, c>> \in U /\ <<a, d>> \in U
    BY <1>7
  <2>2. /\ <<c, b>> \in A /\ <<d, b>> \in A /\ c \in V /\ d \in V
    BY <1>2, <1>3
  <2>3. ASSUME <<c, a>> \in D, <<d, a>> \in D PROVE FALSE
    <3>1. <<c, a>> \in A
      BY <1>1, <2>1, <2>2, <2>3
    <3> QED
      BY <1>1, <2>1, <2>2, <3>1 DEF Lined
  <2>4. Adjacent(A, U, a, c) /\ Adjacent(A, U, a, d)
    BY <2>1 DEF Adjacent
  <2> QED
    BY <2>1, <2>2, <2>3, <2>4, Zenon DEF Forced
<1> QED
  BY <1>4, <1>5, <1>6, <1>7 DEF StronglyProtected

LEMMA ExtensionIsDrawn ==
    ASSUME GraphFacts, NEW D \in Extensions(V, arcs, lines)
    PROVE  Pattern(V, D, arcs, lines)
<1>1. /\ arcs \in SUBSET (V \X V) /\ Lined(V, lines) /\ lines \in SUBSET (V \X V)
      /\ arcs \cap lines = {}
  BY DEF GraphFacts, Lined
<1>2. \A l \in lines : <<l[2], l[1]>> \in lines
  <2> SUFFICES ASSUME NEW l \in lines PROVE <<l[2], l[1]>> \in lines
    OBVIOUS
  <2>1. l[1] \in V /\ l[2] \in V /\ <<l[1], l[2]>> \in lines
    BY <1>1
  <2> QED
    BY <1>1, <2>1 DEF Lined
<1>3. /\ D \in Orientations(V, Skeleton(arcs \cup lines)) /\ arcs \subseteq D
      /\ VStructures(V, D) = UnshieldedColliders(V, arcs, lines)
  BY DEF Extensions
<1>4. D \in SUBSET (V \X V) /\ Acyclic(V, D) /\ Skeleton(D) = Skeleton(arcs \cup lines)
  <2>1. arcs \cup lines \in SUBSET (V \X V)
    BY <1>1
  <2> QED
    BY <1>3, <2>1, OrientationFacts
<1>5. \A u, v : Adjacent(arcs, lines, u, v) <=> Adjacent(D, {}, u, v)
  <2>1. Skeleton(D \cup {}) = Skeleton(arcs \cup lines)
    BY <1>4, Zenon
  <2> QED
    BY <1>1, <1>2, <1>4, <2>1, SameAdjacent
<1>6. ASSUME NEW u \in V, NEW v \in V, NEW w \in V, u # w,
             <<u, v>> \in D, <<w, v>> \in D, ~ Adjacent(D, {}, u, w)
      PROVE  <<u, v>> \in arcs
  <2>1. <<u, v, w>> \in VStructures(V, D)
    BY <1>6 DEF VStructures, UnshieldedColliders
  <2> QED
    BY <1>3, <2>1 DEF UnshieldedColliders
<1> QED
  BY <1>1, <1>3, <1>4, <1>5, <1>6, NodesFacts, Zenon DEF Pattern

(* The other way: what is_cpdag() accepts is the essential graph of each    *)
(* DAG it can be completed to without a new collider.                       *)
THEOREM AcceptedRepresentsItsDags == Spec => []AcceptedIsEssentialOfItsDags
<1>1. GraphFacts /\ TestsSoFar => AcceptedIsEssentialOfItsDags
  <2> SUFFICES ASSUME GraphFacts, TestsSoFar, stage = "cpdag", NEW D \in Extensions(V, arcs, lines)
               PROVE  <<arcs, lines>> = Essential(V, D)
    BY DEF AcceptedIsEssentialOfItsDags
  <2>1. Pattern(V, D, arcs, lines)
    BY ExtensionIsDrawn
  <2>2. MeekClosed(V, arcs, lines) /\ \A a \in arcs : StronglyProtected(arcs, lines, a[1], a[2])
    BY DEF TestsSoFar
  <2>3. ASSUME NEW a \in V, NEW b \in V, <<a, b>> \in arcs PROVE Forced(V, D, arcs, lines, a, b)
    <3>1. StronglyProtected(arcs, lines, a, b)
      BY <2>2, <2>3
    <3> QED
      BY <2>1, <3>1, ProtectionIsReason
  <2>4. ClosedPattern(V, D, arcs, lines)
    BY <2>1, <2>2, <2>3, ClosedIsExhausted DEF ClosedPattern
  <2> QED
    BY <2>4, ClosedPatternIsEssential
<1> QED
  BY <1>1, TestsKnown, PTL
================================================================================
