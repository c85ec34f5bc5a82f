--------------------------- MODULE MeekClosure_proofs ---------------------------
(***************************************************************************)
(* For every number of nodes and every PDAG handed over: the loop of       *)
(* meek.rs never closes a directed cycle, keeps the skeleton, stops closed *)
(* under the rules as is_meek_closed() tests them, and loses no consistent *)
(* extension.  Begun with the colliders of a DAG, as to_cpdag() does, it    *)
(* returns the essential graph of the DAG.                                 *)
(*                                                                         *)
(* That it stops closed needs to know what a sweep has established so far: *)
(* as long as it has oriented nothing, no rule could fire where it has     *)
(* been already.                                                           *)
(***************************************************************************)
EXTENDS MeekClosure, SharedFacts_proofs

RuleSet == {"R1", "R2", "R3", "R4"}

Rank == [r \in Stage |-> CASE r = "v-structures" -> 0 [] r = "R1" -> 1 [] r = "R2" -> 2
                           [] r = "R3" -> 3 [] r = "R4" -> 4 [] r = "done" -> 5]

(* The rule would orient the line a -- b, when it comes to it at a. *)
Fires(r, a, b) ==
    \/ r = "R1" /\ R1Asks(arcs, lines, guarded, a, b) /\ Orientable(a, b)
    \/ r = "R2" /\ R2Asks(arcs, a, b) /\ Orientable(a, b)
    \/ r = "R3" /\ R3Asks(arcs, lines, a, b) /\ Orientable(a, b)
    \/ r = "R4" /\ R4Asks(V, arcs, a, b) /\ Orientable(a, b)
    \/ r = "R4" /\ ~ R4Asks(V, arcs, a, b) /\ R4Asks(V, arcs, b, a) /\ Orientable(b, a)

(* The sweep has been at the neighbour b of a with the rule r. *)
Visited(r, a, b) ==
    \/ Rank[r] < Rank[rule]
    \/ r = rule /\ a < node
    \/ r = rule /\ a = node /\ b \notin todo

SweepSoFar ==
    ~ changed =>
        \A r \in RuleSet : \A a, b \in V :
            <<a, b>> \in lines /\ Visited(r, a, b) => ~ Fires(r, a, b)

NoSelfLines == \A a \in lines : a[1] # a[2]

InputOK ==
    /\ input.arcs \in SUBSET (V \X V)
    /\ Acyclic(V, input.arcs)

(* Before the v-structures are oriented the whole skeleton is undirected.  *)
AtFirst ==
    rule = "v-structures" =>
        /\ arcs = {}
        /\ lines = Symmetric(V, Skeleton(input.arcs))
        /\ input.lines = {}

DoneUnchanged == rule = "done" => ~ changed

IInv ==
    /\ TypeOK /\ InputOK /\ NoSelfLines /\ AtFirst /\ DoneUnchanged
    /\ ArcsStayAcyclic
    /\ SkeletonKept
    /\ SweepSoFar

--------------------------------------------------------------------------------
LEMMA RuleFacts ==
    /\ ToSet(Rules) = RuleSet
    /\ Rules[1] = "R1" /\ Rules[2] = "R2" /\ Rules[3] = "R3" /\ Rules[4] = "R4"
    /\ Stage = {"v-structures", "R1", "R2", "R3", "R4", "done"}
<1>1. DOMAIN Rules = 1 .. 4 /\ Rules[1] = "R1" /\ Rules[2] = "R2" /\ Rules[3] = "R3"
      /\ Rules[4] = "R4"
  BY DEF Rules
<1>2. ToSet(Rules) = RuleSet
  BY <1>1 DEF ToSet, RuleSet
<1> QED
  BY <1>1, <1>2 DEF Stage, RuleSet

LEMMA RankFacts ==
    /\ Rank["v-structures"] = 0 /\ Rank["R1"] = 1 /\ Rank["R2"] = 2
    /\ Rank["R3"] = 3 /\ Rank["R4"] = 4 /\ Rank["done"] = 5
  BY RuleFacts DEF Rank

LEMMA NodeFacts == 0 \in V /\ Size - 1 \in V /\ \A v \in V : v \in Int /\ 0 <= v /\ v <= Size - 1
  BY SizeAssumption DEF V

LEMMA CopyIsNodes ==
    ASSUME NEW r, NEW v, NEW A, NEW U, U \in SUBSET (V \X V)
    PROVE  Copy(r, v, A, U) \in SUBSET V
  BY DEF Copy, Children

(* What the loop leaves out of the copy cannot be oriented at this node. *)
LEMMA NotInCopy ==
    ASSUME NEW r \in RuleSet, NEW a \in V, NEW b \in V, <<a, b>> \in lines,
           b \notin Copy(r, a, arcs, lines)
    PROVE  ~ Fires(r, a, b)
<1>1. b \in Children(lines, a)
  BY DEF Children
<1>2. r = "R1" /\ Parents(arcs, a) = {}
  BY <1>1 DEF Copy
<1> QED
  BY <1>2 DEF Fires, R1Asks

LEMMA SameFires ==
    ASSUME UNCHANGED <<arcs, lines, guarded>>, NEW r, NEW a, NEW b
    PROVE  Fires(r, a, b)' <=> Fires(r, a, b)
  BY DEF Fires, R1Asks, R2Asks, R3Asks, R4Asks, NewCollider, Orientable, MayOrient

(* A line oriented by try_orient(): the graph stays one without cycles and *)
(* with the same adjacencies.                                              *)
LEMMA OrientStep ==
    ASSUME TypeOK, NoSelfLines, ArcsStayAcyclic, SkeletonKept, UNCHANGED input,
           NEW a \in V, NEW b \in V, Orientable(a, b), Orient(a, b)
    PROVE  /\ arcs' \in SUBSET (V \X V) /\ lines' \in SUBSET (V \X V)
           /\ \A l \in lines' : <<l[2], l[1]>> \in lines'
           /\ NoSelfLines' /\ ArcsStayAcyclic' /\ SkeletonKept' /\ changed'
<1>1. /\ arcs' = arcs \cup {<<a, b>>} /\ lines' = lines \ {<<a, b>>, <<b, a>>}
      /\ changed' = TRUE
  BY DEF Orient
<1>2. <<a, b>> \in lines /\ ~ Reaches(V, arcs, b, a)
  BY DEF Orientable, MayOrient, DirPath
<1>3. arcs' \in SUBSET (V \X V) /\ lines' \in SUBSET (V \X V)
  BY <1>1 DEF TypeOK
<1>4. ASSUME NEW l \in lines' PROVE <<l[2], l[1]>> \in lines'
  <2>1. l \in lines /\ <<l[2], l[1]>> \in lines /\ l = <<l[1], l[2]>>
    BY <1>1 DEF TypeOK
  <2>2. <<l[2], l[1]>> # <<a, b>> /\ <<l[2], l[1]>> # <<b, a>>
    BY <1>1, <2>1
  <2> QED
    BY <1>1, <2>1, <2>2
<1>5. NoSelfLines'
  BY <1>1 DEF NoSelfLines
<1>6. ArcsStayAcyclic'
  BY <1>1, <1>2, OrientingKeepsAcyclic DEF ArcsStayAcyclic
<1>7. Skeleton(arcs' \cup lines') = Skeleton(arcs \cup lines)
  <2>1. ASSUME NEW e \in arcs' \cup lines'
        PROVE  \E f \in arcs \cup lines : {e[1], e[2]} = {f[1], f[2]}
    BY <1>1, <1>2
  <2>2. ASSUME NEW e \in arcs \cup lines
        PROVE  \E f \in arcs' \cup lines' : {e[1], e[2]} = {f[1], f[2]}
    <3>1. CASE e \in arcs' \cup lines'
      BY <3>1
    <3>2. CASE e \notin arcs' \cup lines'
      <4>1. e = <<a, b>> \/ e = <<b, a>>
        BY <1>1, <3>2
      <4>2. <<a, b>> \in arcs' \cup lines' /\ {e[1], e[2]} = {<<a, b>>[1], <<a, b>>[2]}
        BY <1>1, <4>1
      <4> QED
        BY <4>2
    <3> QED
      BY <3>1, <3>2
  <2> QED
    BY <2>1, <2>2, SameSkeleton
<1>8. SkeletonKept'
  BY <1>7 DEF SkeletonKept
<1> QED
  BY <1>1, <1>3, <1>4, <1>5, <1>6, <1>8

(* One neighbour handled: a line is oriented, or the rule does not fire.   *)
LEMMA ApplyCases ==
    ASSUME NEW b \in V, ApplyR1(b) \/ ApplyR2(b) \/ ApplyR3(b) \/ ApplyR4(b)
    PROVE  /\ rule \in RuleSet /\ b \in todo /\ todo' = todo \ {b}
           /\ UNCHANGED <<input, guarded, rule, node>>
           /\ \/ Orientable(node, b) /\ Orient(node, b)
              \/ Orientable(b, node) /\ Orient(b, node)
              \/ UNCHANGED <<arcs, lines, changed>> /\ ~ Fires(rule, node, b)
<1>1. CASE ApplyR1(b)
  BY <1>1 DEF ApplyR1, Try, Fires, RuleSet
<1>2. CASE ApplyR2(b)
  BY <1>2 DEF ApplyR2, Try, Fires, RuleSet
<1>3. CASE ApplyR3(b)
  BY <1>3 DEF ApplyR3, Try, Fires, RuleSet
<1>4. CASE ApplyR4(b)
  BY <1>4 DEF ApplyR4, Try, Fires, RuleSet
<1> QED
  BY <1>1, <1>2, <1>3, <1>4

--------------------------------------------------------------------------------
(* The invariant. *)

LEMMA InitInvariant == Init => IInv
<1> SUFFICES ASSUME Init PROVE IInv
  OBVIOUS
<1>1. CASE InitToMpdag
  <2>1. /\ input.arcs \in SUBSET (V \X V) /\ Acyclic(V, input.arcs)
        /\ input.lines \in SUBSET (V \X V)
        /\ \A a \in input.lines : a[1] # a[2] /\ <<a[2], a[1]>> \in input.lines
    BY <1>1, PdagsAssumption DEF InitToMpdag
  <2>2. /\ arcs = input.arcs /\ lines = input.lines /\ rule = "R1" /\ node = 0
        /\ todo = Copy("R1", 0, arcs, lines) /\ guarded = TRUE /\ changed = FALSE
    BY <1>1 DEF Init, InitToMpdag
  <2>3. TypeOK
    BY <2>1, <2>2, CopyIsNodes, NodeFacts, RuleFacts DEF TypeOK
  <2>4. SweepSoFar
    <3> SUFFICES ASSUME NEW r \in RuleSet, NEW a \in V, NEW b \in V,
                        <<a, b>> \in lines, Visited(r, a, b)
                 PROVE  ~ Fires(r, a, b)
      BY DEF SweepSoFar
    <3>1. r = "R1" /\ a = 0 /\ b \notin todo
      BY <2>2, RankFacts, NodeFacts DEF Visited, RuleSet
    <3> QED
      BY <2>2, <3>1, NotInCopy
  <2> QED
    BY <2>1, <2>2, <2>3, <2>4
       DEF IInv, InputOK, NoSelfLines, AtFirst, DoneUnchanged, ArcsStayAcyclic, SkeletonKept
<1>2. CASE InitToCpdag
  <2>1. PICK A \in Dags(V) : input = [arcs |-> A, lines |-> {}]
    BY <1>2 DEF InitToCpdag
  <2>2. /\ arcs = {} /\ lines = Symmetric(V, Skeleton(A)) /\ rule = "v-structures" /\ node = 0
        /\ todo = {} /\ guarded = FALSE /\ changed = FALSE /\ input.arcs = A /\ input.lines = {}
    BY <1>2, <2>1 DEF Init, InitToCpdag
  <2>3. A \in SUBSET (V \X V) /\ Acyclic(V, A)
    BY <2>1, DagFacts
  <2>4. TypeOK /\ NoSelfLines
    BY <2>2, <2>3, SymmetricSkeleton, NoSelfInSkeleton, NodeFacts, RuleFacts
       DEF TypeOK, NoSelfLines
  <2>5. SweepSoFar
    BY <2>2, RankFacts DEF SweepSoFar, Visited, RuleSet
  <2>6. SkeletonKept
    <3>1. arcs \cup lines = lines /\ input.arcs \cup input.lines = A
      BY <2>2
    <3> QED
      BY <2>2, <2>3, <3>1, SymmetricSkeleton DEF SkeletonKept
  <2> QED
    BY <2>2, <2>3, <2>4, <2>5, <2>6, EmptyIsAcyclic
       DEF IInv, InputOK, AtFirst, DoneUnchanged, ArcsStayAcyclic
<1> QED
  BY <1>1, <1>2 DEF Init

(* Entering a node with nothing oriented: what is not copied does not fire. *)
LEMMA EnterSweep ==
    ASSUME IInv, UNCHANGED <<arcs, lines, guarded>>, NEW q \in RuleSet, NEW v \in V,
           rule' = q, node' = v, todo' = Copy(q, v, arcs, lines),
           \A r \in RuleSet : \A a, b \in V :
               /\ Rank[r] < Rank[q] \/ (r = q /\ a < v)
               /\ <<a, b>> \in lines
               => changed' \/ ~ Fires(r, a, b)
    PROVE  SweepSoFar'
<1> SUFFICES ASSUME ~ changed', NEW r \in RuleSet, NEW a \in V, NEW b \in V,
                    <<a, b>> \in lines', Visited(r, a, b)'
             PROVE  ~ Fires(r, a, b)'
  BY DEF SweepSoFar
<1>1. CASE Rank[r] < Rank[q] \/ (r = q /\ a < v)
  BY <1>1, SameFires
<1>2. CASE r = q /\ a = v /\ b \notin Copy(q, v, arcs, lines)
  BY <1>2, NotInCopy, SameFires
<1> QED
  BY <1>1, <1>2 DEF Visited

LEMMA EnterType ==
    ASSUME TypeOK, UNCHANGED <<arcs, lines, guarded>>, changed' \in BOOLEAN,
           NEW q \in RuleSet, NEW v \in V, Enter(q, v)
    PROVE  TypeOK' /\ todo' = Copy(q, v, arcs, lines)
<1>1. rule' = q /\ node' = v /\ todo' = Copy(q, v, arcs, lines)
  BY DEF Enter
<1>2. q \in Stage
  BY RuleFacts DEF RuleSet
<1> QED
  BY <1>1, <1>2, CopyIsNodes DEF TypeOK

(* The graph has not changed, so neither has what is said of it alone.     *)
LEMMA SameGraph ==
    ASSUME IInv, UNCHANGED <<input, arcs, lines>>, rule' # "v-structures"
    PROVE  InputOK' /\ NoSelfLines' /\ AtFirst' /\ ArcsStayAcyclic' /\ SkeletonKept'
  BY DEF IInv, InputOK, NoSelfLines, AtFirst, ArcsStayAcyclic, SkeletonKept

LEMMA OrientCollidersKeeps == IInv /\ OrientColliders => IInv'
<1> SUFFICES ASSUME IInv, OrientColliders PROVE IInv'
  OBVIOUS
<1> DEFINE into == UNION {{<<s[1], s[2]>>, <<s[3], s[2]>>} : s \in VStructures(V, input.arcs)}
<1>1. /\ rule = "v-structures"
      /\ arcs' = into
      /\ lines' = {a \in lines : {a, <<a[2], a[1]>>} \cap into = {}}
      /\ rule' = "R1" /\ node' = 0 /\ todo' = Copy("R1", 0, arcs', lines')
      /\ UNCHANGED <<input, guarded, changed>>
  BY DEF OrientColliders, Enter
<1>2. /\ lines = Symmetric(V, Skeleton(input.arcs)) /\ arcs = {} /\ input.lines = {}
      /\ input.arcs \in SUBSET (V \X V) /\ Acyclic(V, input.arcs)
  BY <1>1 DEF IInv, AtFirst, InputOK
<1>3. into \subseteq input.arcs
  BY DEF VStructures, UnshieldedColliders
<1>4. lines \in SUBSET (V \X V) /\ \A l \in lines : <<l[2], l[1]>> \in lines
  BY DEF IInv, TypeOK
<1>5. /\ arcs' \in SUBSET (V \X V) /\ lines' \in SUBSET (V \X V)
      /\ \A l \in lines' : <<l[2], l[1]>> \in lines'
  <2>1. ASSUME NEW l \in lines' PROVE <<l[2], l[1]>> \in lines'
    <3>1. /\ l \in lines /\ <<l[2], l[1]>> \in lines /\ l = <<l[1], l[2]>>
          /\ {l, <<l[2], l[1]>>} \cap into = {}
      BY <1>1, <1>4
    <3>2. {<<l[2], l[1]>>, <<<<l[2], l[1]>>[2], <<l[2], l[1]>>[1]>>} \cap into = {}
      BY <3>1
    <3> QED
      BY <1>1, <3>1, <3>2
  <2> QED
    BY <1>1, <1>2, <1>3, <1>4, <2>1
<1>6. TypeOK'
  BY <1>1, <1>5, CopyIsNodes, NodeFacts, RuleFacts DEF TypeOK, IInv
<1>7. ArcsStayAcyclic'
  BY <1>1, <1>2, <1>3, SmallerIsAcyclic DEF ArcsStayAcyclic
<1>8. NoSelfLines'
  BY <1>1 DEF NoSelfLines, IInv
<1>9. SkeletonKept'
  <2>1. \A a \in input.arcs : a \in lines
    <3> SUFFICES ASSUME NEW a \in input.arcs PROVE a \in lines
      OBVIOUS
    <3>1. {a[1], a[2]} \in Skeleton(input.arcs) /\ a \in V \X V
      BY <1>2 DEF Skeleton
    <3> QED
      BY <1>2, <3>1 DEF Symmetric
  <2>2. ASSUME NEW e \in arcs' \cup lines'
        PROVE  \E f \in input.arcs : {e[1], e[2]} = {f[1], f[2]}
    <3>1. CASE e \in arcs'
      BY <1>1, <1>3, <3>1
    <3>2. CASE e \in lines'
      BY <1>1, <1>2, <3>2 DEF Symmetric, Skeleton
    <3> QED
      BY <3>1, <3>2
  <2>3. ASSUME NEW f \in input.arcs
        PROVE  \E e \in arcs' \cup lines' : {f[1], f[2]} = {e[1], e[2]}
    <3>1. f \in lines /\ f = <<f[1], f[2]>>
      BY <1>2, <2>1
    <3>2. CASE {f, <<f[2], f[1]>>} \cap into = {}
      BY <1>1, <3>1, <3>2
    <3>3. CASE f \in into
      BY <1>1, <3>3
    <3>4. CASE <<f[2], f[1]>> \in into
      <4>1. {<<f[2], f[1]>>[1], <<f[2], f[1]>>[2]} = {f[1], f[2]}
        OBVIOUS
      <4> QED
        BY <1>1, <3>4, <4>1
    <3> QED
      BY <3>2, <3>3, <3>4
  <2>4. Skeleton(arcs' \cup lines') = Skeleton(input.arcs)
    BY <2>2, <2>3, SameSkeleton
  <2>5. input.arcs \cup input.lines = input.arcs
    BY <1>2
  <2> QED
    BY <1>1, <2>4, <2>5 DEF SkeletonKept
<1>10. SweepSoFar'
  <2> SUFFICES ASSUME NEW r \in RuleSet, NEW a \in V, NEW b \in V,
                      <<a, b>> \in lines', Visited(r, a, b)'
               PROVE  ~ Fires(r, a, b)'
    BY DEF SweepSoFar
  <2>1. r = "R1" /\ a = 0 /\ b \notin Copy("R1", 0, arcs', lines')
    BY <1>1, RankFacts, NodeFacts DEF Visited, RuleSet
  <2>2. b \in Children(lines', a)
    BY DEF Children
  <2>3. Parents(arcs', a) = {}
    BY <2>1, <2>2 DEF Copy
  <2> QED
    BY <2>1, <2>3 DEF Fires, R1Asks
<1> QED
  BY <1>1, <1>6, <1>7, <1>8, <1>9, <1>10 DEF IInv, InputOK, AtFirst, DoneUnchanged

LEMMA ApplyKeeps ==
    ASSUME IInv, NEW b \in V, ApplyR1(b) \/ ApplyR2(b) \/ ApplyR3(b) \/ ApplyR4(b)
    PROVE  IInv'
<1>1. /\ rule \in RuleSet /\ b \in todo /\ todo' = todo \ {b}
      /\ UNCHANGED <<input, guarded, rule, node>>
      /\ \/ Orientable(node, b) /\ Orient(node, b)
         \/ Orientable(b, node) /\ Orient(b, node)
         \/ UNCHANGED <<arcs, lines, changed>> /\ ~ Fires(rule, node, b)
  BY ApplyCases
<1>2. rule' # "v-structures" /\ rule' # "done" /\ node \in V
  BY <1>1 DEF RuleSet, IInv, TypeOK
<1>3. CASE Orientable(node, b) /\ Orient(node, b)
  <2>1. /\ arcs' \in SUBSET (V \X V) /\ lines' \in SUBSET (V \X V)
        /\ \A l \in lines' : <<l[2], l[1]>> \in lines'
        /\ NoSelfLines' /\ ArcsStayAcyclic' /\ SkeletonKept' /\ changed'
    BY <1>1, <1>2, <1>3, OrientStep DEF IInv
  <2> QED
    BY <1>1, <1>2, <1>3, <2>1
       DEF IInv, TypeOK, InputOK, AtFirst, DoneUnchanged, SweepSoFar, Orient
<1>4. CASE Orientable(b, node) /\ Orient(b, node)
  <2>1. /\ arcs' \in SUBSET (V \X V) /\ lines' \in SUBSET (V \X V)
        /\ \A l \in lines' : <<l[2], l[1]>> \in lines'
        /\ NoSelfLines' /\ ArcsStayAcyclic' /\ SkeletonKept' /\ changed'
    BY <1>1, <1>2, <1>4, OrientStep DEF IInv
  <2> QED
    BY <1>1, <1>2, <1>4, <2>1
       DEF IInv, TypeOK, InputOK, AtFirst, DoneUnchanged, SweepSoFar, Orient
<1>5. CASE UNCHANGED <<arcs, lines, changed>> /\ ~ Fires(rule, node, b)
  <2>1. TypeOK'
    BY <1>1, <1>5 DEF IInv, TypeOK
  <2>2. SweepSoFar'
    <3> SUFFICES ASSUME ~ changed', NEW r \in RuleSet, NEW a \in V, NEW c \in V,
                        <<a, c>> \in lines', Visited(r, a, c)'
                 PROVE  ~ Fires(r, a, c)'
      BY DEF SweepSoFar
    <3>1. Visited(r, a, c) \/ (r = rule /\ a = node /\ c = b)
      BY <1>1 DEF Visited
    <3>2. ~ Fires(r, a, c)
      BY <1>5, <3>1 DEF SweepSoFar, IInv
    <3> QED
      BY <1>1, <1>5, <3>2, SameFires
  <2> QED
    BY <1>1, <1>2, <1>5, <2>1, <2>2, SameGraph DEF IInv, DoneUnchanged
<1> QED
  BY <1>1, <1>3, <1>4, <1>5

LEMMA NextNodeKeeps == IInv /\ NextNode => IInv'
<1> SUFFICES ASSUME IInv, NextNode PROVE IInv'
  OBVIOUS
<1>1. /\ rule \in RuleSet /\ todo = {} /\ node < Size - 1 /\ node \in V
      /\ UNCHANGED <<input, guarded, arcs, lines, changed>>
      /\ Enter(rule, node + 1)
  BY RuleFacts DEF NextNode, IInv, TypeOK
<1>2. node + 1 \in V
  BY <1>1, SizeAssumption DEF V
<1>3. rule' = rule /\ node' = node + 1
  BY <1>1 DEF Enter
<1>4. TypeOK' /\ todo' = Copy(rule, node + 1, arcs, lines)
  BY <1>1, <1>2, EnterType DEF IInv, TypeOK
<1>5. ASSUME NEW r \in RuleSet, NEW a \in V, NEW b \in V,
             Rank[r] < Rank[rule] \/ (r = rule /\ a < node + 1), <<a, b>> \in lines
      PROVE  changed' \/ ~ Fires(r, a, b)
  <2>1. a < node + 1 => a < node \/ a = node
    BY <1>1, NodeFacts
  <2>2. Visited(r, a, b)
    BY <1>1, <1>5, <2>1 DEF Visited
  <2> QED
    BY <1>1, <1>5, <2>2 DEF IInv, SweepSoFar
<1>6. SweepSoFar'
  BY <1>1, <1>2, <1>3, <1>4, <1>5, EnterSweep
<1>7. rule' # "v-structures" /\ rule' # "done"
  BY <1>1, <1>3 DEF RuleSet
<1> QED
  BY <1>1, <1>4, <1>6, <1>7, SameGraph DEF IInv, DoneUnchanged

LEMMA NextRuleKeeps == IInv /\ NextRule => IInv'
<1> SUFFICES ASSUME IInv, NextRule PROVE IInv'
  OBVIOUS
<1>1. PICK i \in 1 .. 3 : rule = Rules[i] /\ Enter(Rules[i + 1], 0)
  BY DEF NextRule
<1> DEFINE q == Rules[i + 1]
<1>2. /\ todo = {} /\ node = Size - 1
      /\ UNCHANGED <<input, guarded, arcs, lines, changed>>
  BY DEF NextRule
<1>3. q \in RuleSet /\ rule \in RuleSet /\ Rank[q] = Rank[rule] + 1
  <2>1. CASE i = 1
    BY <1>1, <2>1, RuleFacts, RankFacts DEF RuleSet
  <2>2. CASE i = 2
    BY <1>1, <2>2, RuleFacts, RankFacts DEF RuleSet
  <2>3. CASE i = 3
    BY <1>1, <2>3, RuleFacts, RankFacts DEF RuleSet
  <2> QED
    BY <2>1, <2>2, <2>3
<1>4. rule' = q /\ node' = 0
  BY <1>1 DEF Enter
<1>5. TypeOK' /\ todo' = Copy(q, 0, arcs, lines)
  BY <1>1, <1>2, <1>3, NodeFacts, EnterType DEF IInv, TypeOK
<1>6. ASSUME NEW r \in RuleSet, NEW a \in V, NEW b \in V,
             Rank[r] < Rank[q] \/ (r = q /\ a < 0), <<a, b>> \in lines
      PROVE  changed' \/ ~ Fires(r, a, b)
  <2>1. Rank[r] < Rank[rule] \/ r = rule
    <3>1. Rank[r] < Rank[rule] + 1
      BY <1>3, <1>6, NodeFacts
    <3> QED
      BY <1>3, <3>1, RankFacts DEF RuleSet
  <2>2. a < node \/ a = node
    BY <1>2, NodeFacts
  <2>3. Visited(r, a, b)
    BY <1>2, <2>1, <2>2 DEF Visited
  <2> QED
    BY <1>2, <1>6, <2>3 DEF IInv, SweepSoFar
<1>7. SweepSoFar'
  BY <1>2, <1>3, <1>4, <1>5, <1>6, NodeFacts, EnterSweep
<1>8. rule' # "v-structures" /\ rule' # "done"
  BY <1>3, <1>4 DEF RuleSet
<1> QED
  BY <1>2, <1>5, <1>7, <1>8, SameGraph DEF IInv, DoneUnchanged

LEMMA EndSweepKeeps == IInv /\ EndSweep => IInv'
<1> SUFFICES ASSUME IInv, EndSweep PROVE IInv'
  OBVIOUS
<1>1. /\ rule = "R4" /\ todo = {} /\ node = Size - 1
      /\ UNCHANGED <<input, guarded, arcs, lines>>
  BY DEF EndSweep
<1>2. CASE changed /\ changed' = FALSE /\ Enter("R1", 0)
  <2>1. rule' = "R1" /\ node' = 0 /\ "R1" \in RuleSet
    BY <1>2 DEF Enter, RuleSet
  <2>2. TypeOK' /\ todo' = Copy("R1", 0, arcs, lines)
    BY <1>1, <1>2, <2>1, NodeFacts, EnterType DEF IInv
  <2>3. ASSUME NEW r \in RuleSet, NEW a \in V, Rank[r] < Rank["R1"] \/ (r = "R1" /\ a < 0)
        PROVE  FALSE
    BY <2>3, RankFacts, NodeFacts DEF RuleSet
  <2>4. SweepSoFar'
    BY <1>1, <2>1, <2>2, <2>3, NodeFacts, EnterSweep
  <2> QED
    BY <1>1, <2>1, <2>2, <2>4, SameGraph DEF IInv, DoneUnchanged
<1>3. CASE ~ changed /\ rule' = "done" /\ UNCHANGED <<node, todo, changed>>
  <2>1. TypeOK'
    BY <1>1, <1>3, RuleFacts DEF IInv, TypeOK
  <2>2. SweepSoFar'
    <3> SUFFICES ASSUME NEW r \in RuleSet, NEW a \in V, NEW b \in V, <<a, b>> \in lines
                 PROVE  ~ Fires(r, a, b)'
      BY <1>1 DEF SweepSoFar
    <3>1. Rank[r] < Rank[rule] \/ r = rule
      BY <1>1, RankFacts DEF RuleSet
    <3>2. a < node \/ a = node
      BY <1>1, NodeFacts
    <3>3. Visited(r, a, b)
      BY <1>1, <3>1, <3>2 DEF Visited
    <3>4. ~ Fires(r, a, b)
      BY <1>3, <3>3 DEF IInv, SweepSoFar
    <3> QED
      BY <1>1, <3>4, SameFires
  <2> QED
    BY <1>1, <1>3, <2>1, <2>2, SameGraph DEF IInv, DoneUnchanged
<1> QED
  BY <1>2, <1>3 DEF EndSweep

LEMMA StepInvariant == IInv /\ [Next]_vars => IInv'
<1> SUFFICES ASSUME IInv, [Next]_vars PROVE IInv'
  OBVIOUS
<1>1. CASE OrientColliders
  BY <1>1, OrientCollidersKeeps
<1>2. ASSUME NEW b \in V, ApplyR1(b) \/ ApplyR2(b) \/ ApplyR3(b) \/ ApplyR4(b)
      PROVE  IInv'
  BY <1>2, ApplyKeeps
<1>3. CASE NextNode
  BY <1>3, NextNodeKeeps
<1>4. CASE NextRule
  BY <1>4, NextRuleKeeps
<1>5. CASE EndSweep
  BY <1>5, EndSweepKeeps
<1>6. CASE UNCHANGED vars
  <2>1. UNCHANGED <<input, guarded, arcs, lines, rule, node, todo, changed>>
    BY <1>6 DEF vars
  <2>2. SweepSoFar'
    <3> SUFFICES ASSUME ~ changed', NEW r \in RuleSet, NEW a \in V, NEW b \in V,
                        <<a, b>> \in lines', Visited(r, a, b)'
                 PROVE  ~ Fires(r, a, b)'
      BY DEF SweepSoFar
    <3>1. Visited(r, a, b)
      BY <2>1 DEF Visited
    <3>2. ~ Fires(r, a, b)
      BY <2>1, <3>1 DEF IInv, SweepSoFar
    <3> QED
      BY <2>1, <3>2, SameFires
  <2> QED
    BY <2>1, <2>2
       DEF IInv, TypeOK, InputOK, NoSelfLines, AtFirst, DoneUnchanged, ArcsStayAcyclic,
           SkeletonKept
<1> QED
  BY <1>1, <1>2, <1>3, <1>4, <1>5, <1>6 DEF Next

--------------------------------------------------------------------------------
(* The invariant of the loop: types, acyclicity, the skeleton, and what a   *)
(* sweep has found out so far, in every reachable state.                    *)
THEOREM MeekInvariant == Spec => []IInv
<1>1. Init => IInv
  BY InitInvariant
<1>2. IInv /\ [Next]_vars => IInv'
  BY StepInvariant
<1> QED
  BY <1>1, <1>2, PTL DEF Spec

(* meek.rs keeps pa, ch and und the sets of a graph.                       *)
THEOREM MeekTypes == Spec => []TypeOK
<1>1. IInv => TypeOK
  BY DEF IInv
<1> QED
  BY <1>1, MeekInvariant, PTL

(* try_orient() never closes a directed cycle, in whatever order rules and  *)
(* neighbours come.                                                         *)
THEOREM MeekAcyclic == Spec => []ArcsStayAcyclic
<1>1. IInv => ArcsStayAcyclic
  BY DEF IInv
<1> QED
  BY <1>1, MeekInvariant, PTL

(* Orientation neither adds nor loses an adjacency of the input. *)
THEOREM MeekSkeleton == Spec => []SkeletonKept
<1>1. IInv => SkeletonKept
  BY DEF IInv
<1> QED
  BY <1>1, MeekInvariant, PTL

LEMMA QuietSweepIsClosed ==
    ASSUME IInv, rule = "done"
    PROVE  MeekClosed(V, arcs, lines)
<1>1. ASSUME NEW r \in RuleSet, NEW a \in V, NEW b \in V, <<a, b>> \in lines
      PROVE  ~ Fires(r, a, b)
  <2>1. Rank[r] < Rank[rule]
    BY RankFacts DEF RuleSet
  <2>2. Visited(r, a, b)
    BY <2>1 DEF Visited
  <2> QED
    BY <1>1, <2>2 DEF IInv, DoneUnchanged, SweepSoFar
<1>2. /\ arcs \in SUBSET (V \X V) /\ lines \in SUBSET (V \X V) /\ Acyclic(V, arcs)
      /\ \A l \in lines : l[1] # l[2] /\ l = <<l[1], l[2]>> /\ l[1] \in V /\ l[2] \in V
  BY DEF IInv, TypeOK, NoSelfLines, ArcsStayAcyclic
<1>3. /\ "R1" \in RuleSet /\ "R2" \in RuleSet /\ "R3" \in RuleSet /\ "R4" \in RuleSet
  BY DEF RuleSet
<1>4. R4Blocked(V, arcs, lines)
  <2> SUFFICES ASSUME NEW l \in lines
               PROVE  ~ DirPath(V, arcs, l[1], l[2]) /\ ~ DirPath(V, arcs, l[2], l[1])
    BY DEF R4Blocked
  <2>1. /\ l[1] \in V /\ l[2] \in V /\ l[1] # l[2] /\ <<l[1], l[2]>> \in lines
        /\ <<l[2], l[1]>> \in lines
    BY <1>2 DEF IInv, TypeOK
  <2>2. ~ Fires("R4", l[1], l[2])
    BY <1>1, <1>3, <2>1
  <2>3. ~ (DirPath(V, arcs, l[1], l[2]) /\ DirPath(V, arcs, l[2], l[1]))
    BY <1>2, <2>1, NoWayBack DEF DirPath
  <2> QED
    BY <2>1, <2>2, <2>3 DEF Fires, R4Asks, Orientable, MayOrient
<1>5. R1Blocked(V, arcs, lines)
  <2> SUFFICES ASSUME NEW v \in V, NEW u \in Parents(arcs, v), NEW w \in Children(lines, v),
                      ~ Adjacent(arcs, lines, u, w), ~ DirPath(V, arcs, w, v)
               PROVE  \E p \in Parents(arcs, w) : p # v /\ ~ Adjacent(arcs, lines, v, p)
    BY DEF R1Blocked
  <2>1. <<v, w>> \in lines /\ w \in V
    BY <1>2 DEF Children
  <2>2. ~ Fires("R1", v, w)
    BY <1>1, <1>3, <2>1
  <2>3. NewCollider(arcs, lines, v, w)
    BY <2>1, <2>2 DEF Fires, R1Asks, Orientable, MayOrient
  <2> QED
    BY <2>3 DEF NewCollider
<1>6. R2Blocked(V, arcs, lines)
  <2> SUFFICES ASSUME NEW l \in lines, Children(arcs, l[1]) \cap Parents(arcs, l[2]) # {}
               PROVE  FALSE
    BY DEF R2Blocked
  <2>1. l[1] \in V /\ l[2] \in V /\ <<l[1], l[2]>> \in lines
    BY <1>2
  <2>2. ~ Fires("R2", l[1], l[2])
    BY <1>1, <1>3, <2>1
  <2> QED
    BY <1>4, <2>1, <2>2 DEF Fires, R2Asks, Orientable, MayOrient, R4Blocked
<1>7. R3Blocked(V, arcs, lines)
  <2> SUFFICES ASSUME NEW l \in lines, NEW w \in Parents(arcs, l[2]),
                      NEW x \in Parents(arcs, l[2]), w # x,
                      {<<l[1], w>>, <<l[1], x>>} \subseteq lines,
                      ~ Adjacent(arcs, lines, w, x)
               PROVE  FALSE
    BY DEF R3Blocked
  <2>1. l[1] \in V /\ l[2] \in V /\ <<l[1], l[2]>> \in lines
    BY <1>2
  <2>2. ~ Fires("R3", l[1], l[2])
    BY <1>1, <1>3, <2>1
  <2>3. R3Asks(arcs, lines, l[1], l[2])
    BY DEF R3Asks
  <2> QED
    BY <1>4, <2>1, <2>2, <2>3 DEF Fires, Orientable, MayOrient, R4Blocked
<1> QED
  BY <1>4, <1>5, <1>6, <1>7 DEF MeekClosed

(* When the loop stops, the test of Mpdag and Cpdag finds no rule to apply: *)
(* the graph handed to from_closed_unchecked() is closed.                   *)
THEOREM MeekClosedWhenDone == Spec => []ClosedWhenDone
<1>1. IInv => ClosedWhenDone
  BY QuietSweepIsClosed DEF ClosedWhenDone
<1> QED
  BY <1>1, MeekInvariant, PTL

--------------------------------------------------------------------------------
(* What the closure orients is implied.  The DAGs the input stands for are  *)
(* the extensions of a PDAG, or the DAGs equivalent to a DAG.               *)
Candidates ==
    IF guarded THEN Extensions(V, input.arcs, input.lines) ELSE MarkovEquivalent(V, input.arcs)

(* All v-structures of these DAGs are arcs of the graph. *)
HasColliders(B) ==
    \A t \in VStructures(V, B) : <<t[1], t[2]>> \in arcs /\ <<t[3], t[2]>> \in arcs

InputOnePerPair == input.arcs \cap input.lines = {}

InputLines ==
    /\ input.lines \in SUBSET (V \X V)
    /\ \A l \in input.lines : <<l[2], l[1]>> \in input.lines
    /\ ~ guarded => input.lines = {}
    /\ rule = "v-structures" => ~ guarded

ArcsImplied ==
    rule # "v-structures" =>
        /\ guarded => input.arcs \subseteq arcs
        /\ InputOnePerPair =>
            /\ arcs \cap lines = {}
            /\ \A B \in Candidates : arcs \subseteq B /\ HasColliders(B)

(* What any rule asks of a line. *)
Asked(a, b) == R1Asks(arcs, lines, guarded, a, b) \/ R2Asks(arcs, a, b) \/ R3Asks(arcs, lines, a, b) \/ R4Asks(V, arcs, a, b)

LEMMA LinesAreLined ==
    ASSUME TypeOK, NoSelfLines
    PROVE  Lined(V, lines)
  BY DEF TypeOK, NoSelfLines, Lined

LEMMA AskedAsks ==
    ASSUME TypeOK, NEW a \in V, NEW b \in V, Asked(a, b)
    PROVE  RuleAsks(V, arcs, lines, a, b)
<1>1. arcs \in SUBSET (V \X V)
  BY DEF TypeOK
<1>2. ASSUME NEW p \in Parents(arcs, a), ~ Adjacent(arcs, lines, p, b)
      PROVE  RuleAsks(V, arcs, lines, a, b)
  <2>1. <<p, a>> \in arcs
    BY <1>1, ParentsAre
  <2>2. p \in V
    BY <1>1, <2>1
  <2> QED
    BY <1>2, <2>1, <2>2 DEF RuleAsks
<1>3. ASSUME NEW c, c \in Children(arcs, a), c \in Parents(arcs, b)
      PROVE  RuleAsks(V, arcs, lines, a, b)
  <2>1. <<a, c>> \in arcs /\ <<c, b>> \in arcs
    BY <1>1, <1>3, ParentsAre
  <2>2. c \in V
    BY <1>1, <2>1
  <2>3. Reaches(V, arcs, a, b)
    BY <2>1, <2>2, ArcReaches, ReachesOneStep
  <2> QED
    BY <2>3 DEF RuleAsks
<1>4. ASSUME NEW c \in Parents(arcs, b), NEW d \in Parents(arcs, b), c # d,
             ~ Adjacent(arcs, lines, c, d), {<<a, c>>, <<a, d>>} \subseteq lines
      PROVE  RuleAsks(V, arcs, lines, a, b)
  <2>1. <<c, b>> \in arcs /\ <<d, b>> \in arcs
    BY <1>1, ParentsAre
  <2>2. c \in V /\ d \in V
    BY <1>1, <2>1
  <2> QED
    BY <1>4, <2>1, <2>2, Zenon DEF RuleAsks
<1>5. ASSUME R4Asks(V, arcs, a, b) PROVE RuleAsks(V, arcs, lines, a, b)
  BY <1>5 DEF R4Asks, DirPath, RuleAsks
<1>6. CASE R1Asks(arcs, lines, guarded, a, b)
  BY <1>2, <1>6 DEF R1Asks
<1>7. CASE R2Asks(arcs, a, b)
  BY <1>3, <1>7 DEF R2Asks
<1>8. CASE R3Asks(arcs, lines, a, b)
  BY <1>4, <1>8, Zenon DEF R3Asks
<1> QED
  BY <1>5, <1>6, <1>7, <1>8 DEF Asked

(* A DAG on the same skeleton that has the arcs, and no collider the graph  *)
(* does not have, orients the line as the rule does.                        *)
LEMMA RuleIsSound ==
    ASSUME TypeOK, NoSelfLines, arcs \cap lines = {},
           NEW B \in SUBSET (V \X V), Acyclic(V, B), arcs \subseteq B,
           Skeleton(B) = Skeleton(arcs \cup lines), HasColliders(B),
           NEW a \in V, NEW b \in V, Asked(a, b), Orientable(a, b)
    PROVE  <<a, b>> \in B
<1>1. /\ arcs \in SUBSET (V \X V) /\ lines \in SUBSET (V \X V)
      /\ \A l \in lines : <<l[2], l[1]>> \in lines
      /\ <<a, b>> \in lines
  BY DEF TypeOK, Orientable, MayOrient
<1>2. \A u, v : Adjacent(arcs, lines, u, v) <=> Adjacent(B, {}, u, v)
  <2>1. Skeleton(B \cup {}) = Skeleton(arcs \cup lines)
    BY Zenon
  <2> QED
    BY <1>1, <2>1, SameAdjacent
<1>3. ASSUME NEW u \in V, NEW v \in V, NEW w \in V, u # w,
             <<u, v>> \in B, <<w, v>> \in B, ~ Adjacent(B, {}, u, w)
      PROVE  <<u, v>> \in arcs
  <2>1. <<u, v, w>> \in VStructures(V, B)
    BY <1>3 DEF VStructures, UnshieldedColliders
  <2> QED
    BY <2>1 DEF HasColliders
<1>4. Lined(V, lines) /\ RuleAsks(V, arcs, lines, a, b)
  BY LinesAreLined, AskedAsks
<1> QED
  BY <1>1, <1>2, <1>3, <1>4, RuleHolds

(* A line is only oriented the way some rule asks for. *)
LEMMA ApplyAsks ==
    ASSUME NEW b \in V, ApplyR1(b) \/ ApplyR2(b) \/ ApplyR3(b) \/ ApplyR4(b)
    PROVE  \/ Asked(node, b) /\ Orientable(node, b) /\ Orient(node, b)
           \/ Asked(b, node) /\ Orientable(b, node) /\ Orient(b, node)
           \/ UNCHANGED <<arcs, lines>>
<1>1. CASE ApplyR1(b)
  BY <1>1 DEF ApplyR1, Try, Asked
<1>2. CASE ApplyR2(b)
  BY <1>2 DEF ApplyR2, Try, Asked
<1>3. CASE ApplyR3(b)
  BY <1>3 DEF ApplyR3, Try, Asked
<1>4. CASE ApplyR4(b)
  BY <1>4 DEF ApplyR4, Try, Asked
<1> QED
  BY <1>1, <1>2, <1>3, <1>4

LEMMA CandidateFacts ==
    ASSUME InputOK, InputLines, NEW B \in Candidates
    PROVE  /\ B \in SUBSET (V \X V) /\ Acyclic(V, B)
           /\ Skeleton(B) = Skeleton(input.arcs \cup input.lines)
<1>1. CASE guarded
  <2>1. B \in Orientations(V, Skeleton(input.arcs \cup input.lines))
    BY <1>1 DEF Candidates, Extensions
  <2>2. input.arcs \cup input.lines \in SUBSET (V \X V)
    BY DEF InputOK, InputLines
  <2> QED
    BY <2>1, <2>2, OrientationFacts
<1>2. CASE ~ guarded
  <2>1. B \in Orientations(V, Skeleton(input.arcs)) /\ input.lines = {}
    BY <1>2 DEF Candidates, MarkovEquivalent, InputLines
  <2>2. input.arcs \cup input.lines = input.arcs
    BY <2>1
  <2> QED
    BY <2>1, <2>2, OrientationFacts DEF InputOK
<1> QED
  BY <1>1, <1>2

LEMMA InitArcsImplied == Init => InputLines /\ ArcsImplied
<1> SUFFICES ASSUME Init PROVE InputLines /\ ArcsImplied
  OBVIOUS
<1>1. CASE InitToMpdag
  <2>1. /\ input.arcs \in SUBSET (V \X V) /\ input.lines \in SUBSET (V \X V)
        /\ \A a \in input.lines : <<a[2], a[1]>> \in input.lines
        /\ arcs = input.arcs /\ lines = input.lines /\ rule = "R1" /\ guarded = TRUE
    BY <1>1, PdagsAssumption DEF InitToMpdag
  <2>2. ASSUME NEW B \in Candidates PROVE arcs \subseteq B /\ HasColliders(B)
    BY <2>1, <2>2 DEF Candidates, Extensions, HasColliders, UnshieldedColliders
  <2> QED
    BY <2>1, <2>2 DEF InputLines, ArcsImplied, InputOnePerPair
<1>2. CASE InitToCpdag
  BY <1>2 DEF InitToCpdag, InputLines, ArcsImplied
<1> QED
  BY <1>1, <1>2 DEF Init

LEMMA SameCandidates == ASSUME UNCHANGED <<input, guarded>> PROVE Candidates' = Candidates
  BY DEF Candidates

(* The arcs of all v-structures, and no others, are in every equivalent DAG *)
(* to begin with.                                                           *)
LEMMA CollidersImplied ==
    ASSUME InputLines, OrientColliders
    PROVE  ArcsImplied'
<1> DEFINE into == UNION {{<<s[1], s[2]>>, <<s[3], s[2]>>} : s \in VStructures(V, input.arcs)}
<1>1. /\ arcs' = into /\ lines' = {a \in lines : {a, <<a[2], a[1]>>} \cap into = {}}
      /\ ~ guarded /\ UNCHANGED <<input, guarded>>
  BY DEF OrientColliders, InputLines
<1>2. arcs' \cap lines' = {}
  BY <1>1
<1>3. ASSUME NEW B \in Candidates PROVE arcs' \subseteq B /\ HasColliders(B)'
  <2>1. VStructures(V, B) = VStructures(V, input.arcs)
    BY <1>1, <1>3 DEF Candidates, MarkovEquivalent
  <2>2. \A s \in VStructures(V, B) : <<s[1], s[2]>> \in B /\ <<s[3], s[2]>> \in B
    BY DEF VStructures, UnshieldedColliders
  <2>3. into \subseteq B
    <3> SUFFICES ASSUME NEW a \in into PROVE a \in B
      OBVIOUS
    <3>1. PICK s \in VStructures(V, input.arcs) : a \in {<<s[1], s[2]>>, <<s[3], s[2]>>}
      OBVIOUS
    <3>2. <<s[1], s[2]>> \in B /\ <<s[3], s[2]>> \in B
      BY <2>1, <2>2
    <3> QED
      BY <3>1, <3>2
  <2>4. \A s \in VStructures(V, B) : <<s[1], s[2]>> \in into /\ <<s[3], s[2]>> \in into
    BY <2>1
  <2> QED
    BY <1>1, <2>3, <2>4 DEF HasColliders
<1> QED
  BY <1>1, <1>2, <1>3, SameCandidates DEF ArcsImplied

LEMMA OrientImplied ==
    ASSUME IInv, InputLines, ArcsImplied, UNCHANGED <<input, guarded, rule>>,
           rule # "v-structures", NEW a \in V, NEW b \in V,
           Asked(a, b), Orientable(a, b), Orient(a, b)
    PROVE  ArcsImplied'
<1>1. arcs' = arcs \cup {<<a, b>>} /\ lines' = lines \ {<<a, b>>, <<b, a>>}
  BY DEF Orient
<1>2. guarded => input.arcs \subseteq arcs'
  BY <1>1 DEF ArcsImplied
<1>3. ASSUME InputOnePerPair
      PROVE  arcs' \cap lines' = {} /\ \A B \in Candidates : arcs' \subseteq B /\ HasColliders(B)'
  <2>1. arcs \cap lines = {} /\ \A B \in Candidates : arcs \subseteq B /\ HasColliders(B)
    BY <1>3 DEF ArcsImplied
  <2>2. arcs' \cap lines' = {}
    BY <1>1, <2>1
  <2>3. ASSUME NEW B \in Candidates PROVE arcs' \subseteq B /\ HasColliders(B)'
    <3>1. /\ B \in SUBSET (V \X V) /\ Acyclic(V, B)
          /\ Skeleton(B) = Skeleton(arcs \cup lines)
      BY CandidateFacts DEF IInv, SkeletonKept
    <3>2. <<a, b>> \in B
      BY <2>1, <2>3, <3>1, RuleIsSound DEF IInv
    <3>3. HasColliders(B)'
      BY <1>1, <2>1, <2>3 DEF HasColliders
    <3> QED
      BY <1>1, <2>1, <2>3, <3>2, <3>3
  <2> QED
    BY <2>2, <2>3
<1> QED
  BY <1>2, <1>3, SameCandidates DEF ArcsImplied, InputOnePerPair

LEMMA SameArcsImplied ==
    ASSUME ArcsImplied, UNCHANGED <<input, guarded, arcs, lines>>, rule # "v-structures"
    PROVE  ArcsImplied'
<1>1. \A B : HasColliders(B)' <=> HasColliders(B)
  BY DEF HasColliders
<1> QED
  BY <1>1, SameCandidates DEF ArcsImplied, InputOnePerPair

LEMMA StepArcsImplied ==
    ASSUME IInv, InputLines, ArcsImplied, [Next]_vars
    PROVE  InputLines' /\ ArcsImplied'
<1>1. CASE OrientColliders
  <2>1. InputLines'
    BY <1>1 DEF OrientColliders, Enter, InputLines
  <2> QED
    BY <1>1, <2>1, CollidersImplied
<1>2. CASE \E b \in V : ApplyR1(b) \/ ApplyR2(b) \/ ApplyR3(b) \/ ApplyR4(b)
  <2>1. PICK b \in V : ApplyR1(b) \/ ApplyR2(b) \/ ApplyR3(b) \/ ApplyR4(b)
    BY <1>2
  <2>2. UNCHANGED <<input, guarded, rule>> /\ rule \in RuleSet
    BY <2>1, ApplyCases
  <2>3. rule # "v-structures" /\ node \in V
    BY <2>2 DEF RuleSet, IInv, TypeOK
  <2>4. ArcsImplied'
    <3>1. CASE Asked(node, b) /\ Orientable(node, b) /\ Orient(node, b)
      BY <2>2, <2>3, <3>1, OrientImplied
    <3>2. CASE Asked(b, node) /\ Orientable(b, node) /\ Orient(b, node)
      BY <2>2, <2>3, <3>2, OrientImplied
    <3>3. CASE UNCHANGED <<arcs, lines>>
      BY <2>2, <2>3, <3>3, SameArcsImplied
    <3> QED
      BY <2>1, <3>1, <3>2, <3>3, ApplyAsks
  <2> QED
    BY <2>2, <2>4 DEF InputLines
<1>3. CASE NextNode \/ NextRule \/ EndSweep
  <2>1. rule # "v-structures" /\ rule' # "v-structures" /\ UNCHANGED <<input, guarded, arcs, lines>>
    BY <1>3, RuleFacts DEF NextNode, NextRule, EndSweep, Enter, RuleSet
  <2> QED
    BY <2>1, SameArcsImplied DEF InputLines
<1>4. CASE UNCHANGED vars
  <2>1. UNCHANGED <<input, guarded, arcs, lines, rule>>
    BY <1>4 DEF vars
  <2>2. CASE rule = "v-structures"
    BY <2>1, <2>2 DEF InputLines, ArcsImplied
  <2>3. CASE rule # "v-structures"
    BY <2>1, <2>3, SameArcsImplied DEF InputLines
  <2> QED
    BY <2>2, <2>3
<1> QED
  BY <1>1, <1>2, <1>3, <1>4 DEF Next

(* The arcs drawn so far are in every DAG the input stands for: the         *)
(* strengthening that makes the next two theorems inductive.                *)
THEOREM MeekArcsAreImplied == Spec => []ArcsImplied
<1> DEFINE Inv == InputLines /\ ArcsImplied
<1>1. Init => Inv
  BY InitArcsImplied
<1>2. IInv /\ Inv /\ [Next]_vars => Inv'
  BY StepArcsImplied
<1>3. Inv => ArcsImplied
  OBVIOUS
<1> QED
  BY <1>1, <1>2, <1>3, MeekInvariant, PTL DEF Spec

LEMMA SpecInputLines == Spec => []InputLines
<1> DEFINE Inv == InputLines /\ ArcsImplied
<1>1. Init => Inv
  BY InitArcsImplied
<1>2. IInv /\ Inv /\ [Next]_vars => Inv'
  BY StepArcsImplied
<1>3. Inv => InputLines
  OBVIOUS
<1> QED
  BY <1>1, <1>2, <1>3, MeekInvariant, PTL DEF Spec

(* Graphs with one skeleton, one with the arcs of the other, that a DAG     *)
(* B has with no other collider, have the same colliders.                   *)
LEMMA SameColliders ==
    ASSUME TypeOK, InputOK, InputLines, SkeletonKept, input.arcs \subseteq arcs,
           NEW B \in SUBSET (V \X V), arcs \subseteq B,
           Skeleton(B) = Skeleton(input.arcs \cup input.lines),
           VStructures(V, B) = UnshieldedColliders(V, input.arcs, input.lines)
    PROVE  UnshieldedColliders(V, arcs, lines) = UnshieldedColliders(V, input.arcs, input.lines)
<1>1. \A u, v : Adjacent(arcs, lines, u, v) <=> Adjacent(input.arcs, input.lines, u, v)
  BY SameAdjacent DEF TypeOK, InputOK, InputLines, SkeletonKept
<1>2. \A u, v : Adjacent(B, {}, u, v) <=> Adjacent(arcs, lines, u, v)
  <2>1. B \cup {} = B
    OBVIOUS
  <2>2. Skeleton(B \cup {}) = Skeleton(arcs \cup lines)
    BY <2>1 DEF SkeletonKept
  <2>3. /\ arcs \in SUBSET (V \X V) /\ lines \in SUBSET (V \X V) /\ \A l \in lines : <<l[2], l[1]>> \in lines
        /\ {} \in SUBSET (V \X V) /\ \A l \in {} : <<l[2], l[1]>> \in {}
    BY DEF TypeOK
  <2> SUFFICES ASSUME NEW u, NEW v PROVE Adjacent(B, {}, u, v) <=> Adjacent(arcs, lines, u, v)
    OBVIOUS
  <2> QED
    BY <2>2, <2>3, SameAdjacent
<1>3. UnshieldedColliders(V, input.arcs, input.lines) \subseteq UnshieldedColliders(V, arcs, lines)
  BY <1>1 DEF UnshieldedColliders
<1>4. UnshieldedColliders(V, arcs, lines) \subseteq VStructures(V, B)
  BY <1>2 DEF UnshieldedColliders, VStructures
<1> QED
  BY <1>3, <1>4

LEMMA ExtensionsKept ==
    ASSUME IInv, InputLines, ArcsImplied, rule # "v-structures", guarded, InputOnePerPair,
           Extensions(V, input.arcs, input.lines) # {}
    PROVE  Extensions(V, arcs, lines) = Extensions(V, input.arcs, input.lines)
<1>1. input.arcs \subseteq arcs
  BY DEF ArcsImplied
<1>2. Skeleton(arcs \cup lines) = Skeleton(input.arcs \cup input.lines)
  BY DEF IInv, SkeletonKept
<1>3. \A B \in Extensions(V, input.arcs, input.lines) : arcs \subseteq B
  BY DEF ArcsImplied, Candidates
<1>4. UnshieldedColliders(V, arcs, lines) = UnshieldedColliders(V, input.arcs, input.lines)
  <2>1. PICK B \in Extensions(V, input.arcs, input.lines) : TRUE
    OBVIOUS
  <2>2. /\ B \in Orientations(V, Skeleton(input.arcs \cup input.lines))
        /\ VStructures(V, B) = UnshieldedColliders(V, input.arcs, input.lines)
    BY DEF Extensions
  <2>3. input.arcs \cup input.lines \in SUBSET (V \X V)
    BY DEF IInv, InputOK, InputLines
  <2>4. B \in SUBSET (V \X V) /\ Skeleton(B) = Skeleton(input.arcs \cup input.lines)
    BY <2>2, <2>3, OrientationFacts
  <2> QED
    BY <1>1, <1>3, <2>2, <2>4, SameColliders DEF IInv
<1>5. ASSUME NEW B \in Extensions(V, arcs, lines) PROVE B \in Extensions(V, input.arcs, input.lines)
  BY <1>1, <1>2, <1>4 DEF Extensions
<1>6. ASSUME NEW B \in Extensions(V, input.arcs, input.lines) PROVE B \in Extensions(V, arcs, lines)
  BY <1>2, <1>3, <1>4 DEF Extensions
<1> QED
  BY <1>5, <1>6

(* to_mpdag() loses no DAG the PDAG stands for and lets none in, in any     *)
(* order of rules and neighbours.                                           *)
THEOREM MeekKeepsExtensions == Spec => []NoExtensionIsLost
<1>1. IInv /\ InputLines /\ ArcsImplied => NoExtensionIsLost
  BY ExtensionsKept DEF NoExtensionIsLost, InputOnePerPair
<1> QED
  BY <1>1, MeekInvariant, SpecInputLines, MeekArcsAreImplied, PTL

--------------------------------------------------------------------------------
(* What to_cpdag() leaves a line is not compelled.  Each arc drawn has a    *)
(* reason, which later orientations leave standing: they add arcs, take     *)
(* lines and change no adjacency.                                           *)
ArcsHaveReasons ==
    (~ guarded /\ rule # "v-structures") =>
        \A a, b \in V : <<a, b>> \in arcs => Forced(V, input.arcs, arcs, lines, a, b)

(* The adjacencies are those of the input all along, and the colliders of   *)
(* the DAG are arcs from the first step on.                                 *)
LEMMA CpdagFacts ==
    ASSUME IInv, InputLines, ArcsImplied, ~ guarded, rule # "v-structures"
    PROVE  /\ input.lines = {} /\ input.arcs \in MarkovEquivalent(V, input.arcs)
           /\ \A B \in MarkovEquivalent(V, input.arcs) : arcs \subseteq B
           /\ arcs \cap lines = {}
           /\ \A u, v : Adjacent(arcs, lines, u, v) <=> Adjacent(input.arcs, {}, u, v)
           /\ \A u, v, w \in V :
                  /\ u # w /\ <<u, v>> \in input.arcs /\ <<w, v>> \in input.arcs
                  /\ ~ Adjacent(input.arcs, {}, u, w)
                  => <<u, v>> \in arcs
<1>1. input.lines = {} /\ input.arcs \cup input.lines = input.arcs
  BY DEF InputLines
<1>2. input.arcs \in SUBSET (V \X V) /\ Acyclic(V, input.arcs)
  BY DEF IInv, InputOK
<1>3. input.arcs \in MarkovEquivalent(V, input.arcs)
  <2>1. input.arcs \in Orientations(V, Skeleton(input.arcs))
    BY <1>2, DagOrientsItsSkeleton
  <2> QED
    BY <2>1 DEF MarkovEquivalent
<1>4. /\ arcs \cap lines = {}
      /\ \A B \in MarkovEquivalent(V, input.arcs) : arcs \subseteq B /\ HasColliders(B)
  BY <1>1 DEF ArcsImplied, InputOnePerPair, Candidates
<1>5. \A u, v : Adjacent(arcs, lines, u, v) <=> Adjacent(input.arcs, {}, u, v)
  <2>1. input.arcs \cup {} = input.arcs
    OBVIOUS
  <2>2. Skeleton(arcs \cup lines) = Skeleton(input.arcs \cup {})
    BY <1>1, <2>1 DEF IInv, SkeletonKept
  <2> QED
    BY <1>2, <2>2, SameAdjacent DEF IInv, TypeOK
<1>6. ASSUME NEW u \in V, NEW v \in V, NEW w \in V, u # w,
             <<u, v>> \in input.arcs, <<w, v>> \in input.arcs,
             ~ Adjacent(input.arcs, {}, u, w)
      PROVE  <<u, v>> \in arcs
  <2>1. <<u, v, w>> \in VStructures(V, input.arcs)
    BY <1>6 DEF VStructures, UnshieldedColliders
  <2> QED
    BY <1>3, <1>4, <2>1 DEF HasColliders
<1> QED
  BY <1>1, <1>3, <1>4, <1>5, <1>6

LEMMA DrawnIsAPattern ==
    ASSUME IInv, InputLines, ArcsImplied, ~ guarded, rule # "v-structures"
    PROVE  Pattern(V, input.arcs, arcs, lines)
<1>1. /\ \A B \in MarkovEquivalent(V, input.arcs) : arcs \subseteq B
      /\ input.arcs \in MarkovEquivalent(V, input.arcs)
      /\ arcs \cap lines = {}
      /\ \A u, v : Adjacent(arcs, lines, u, v) <=> Adjacent(input.arcs, {}, u, v)
      /\ \A u, v, w \in V :
             /\ u # w /\ <<u, v>> \in input.arcs /\ <<w, v>> \in input.arcs
             /\ ~ Adjacent(input.arcs, {}, u, w)
             => <<u, v>> \in arcs
  BY CpdagFacts
<1>2. IsFiniteSet(V)
  BY SizeAssumption, FS_Interval DEF V
<1>3. Lined(V, lines)
  BY LinesAreLined DEF IInv
<1>4. input.arcs \in SUBSET (V \X V) /\ Acyclic(V, input.arcs)
  BY DEF IInv, InputOK
<1> QED
  BY <1>1, <1>2, <1>3, <1>4, Zenon DEF Pattern

LEMMA AskedHasReason ==
    ASSUME IInv, InputLines, ArcsImplied, ~ guarded, rule # "v-structures",
           NEW a \in V, NEW b \in V, Asked(a, b), Orientable(a, b)
    PROVE  Forced(V, input.arcs, arcs, lines, a, b)
<1>1. <<a, b>> \in lines /\ RuleAsks(V, arcs, lines, a, b)
  BY AskedAsks DEF IInv, Orientable, MayOrient
<1> QED
  BY <1>1, DrawnIsAPattern, RuleIsReason

LEMMA OrientHasReason ==
    ASSUME IInv, InputLines, ArcsImplied, ArcsHaveReasons, UNCHANGED <<input, guarded, rule>>,
           rule # "v-structures", NEW a \in V, NEW b \in V,
           Asked(a, b), Orientable(a, b), Orient(a, b)
    PROVE  ArcsHaveReasons'
<1> SUFFICES ASSUME ~ guarded, NEW x \in V, NEW y \in V, <<x, y>> \in arcs'
             PROVE  Forced(V, input.arcs, arcs', lines', x, y)
  BY DEF ArcsHaveReasons
<1>1. arcs' = arcs \cup {<<a, b>>} /\ lines' = lines \ {<<a, b>>, <<b, a>>}
  BY DEF Orient
<1>2. \A u, v : Adjacent(arcs, lines, u, v) <=> Adjacent(arcs', lines', u, v)
  <2>1. <<a, b>> \in lines /\ \A l \in lines : <<l[2], l[1]>> \in lines
    BY DEF Orientable, MayOrient, IInv, TypeOK
  <2>2. <<b, a>> \in lines
    BY <2>1
  <2> QED
    BY <1>1, <2>1, <2>2 DEF Adjacent
<1>3. Forced(V, input.arcs, arcs, lines, x, y)
  <2>1. CASE <<x, y>> \in arcs
    BY <2>1 DEF ArcsHaveReasons
  <2>2. CASE x = a /\ y = b
    BY <2>2, AskedHasReason
  <2> QED
    BY <1>1, <2>1, <2>2
<1> QED
  BY <1>1, <1>2, <1>3, ReasonStands

LEMMA CollidersHaveReasons ==
    ASSUME IInv, InputLines, OrientColliders
    PROVE  ArcsHaveReasons'
<1> DEFINE into == UNION {{<<s[1], s[2]>>, <<s[3], s[2]>>} : s \in VStructures(V, input.arcs)}
<1>1. /\ arcs' = into /\ rule' = "R1" /\ UNCHANGED <<input, guarded>>
  BY DEF OrientColliders, Enter
<1>2. IInv' /\ InputLines' /\ ArcsImplied'
  BY OrientCollidersKeeps, CollidersImplied DEF OrientColliders, Enter, InputLines
<1> SUFFICES ASSUME ~ guarded, NEW a \in V, NEW b \in V, <<a, b>> \in arcs'
             PROVE  Forced(V, input.arcs, arcs', lines', a, b)
  BY <1>1 DEF ArcsHaveReasons
<1>3. PICK s \in VStructures(V, input.arcs) : <<a, b>> \in {<<s[1], s[2]>>, <<s[3], s[2]>>}
  BY <1>1
<1>4. /\ s[1] \in V /\ s[2] \in V /\ s[3] \in V /\ s[1] # s[3]
      /\ ~ Adjacent(input.arcs, {}, s[1], s[3])
  BY DEF VStructures, UnshieldedColliders
<1>5. <<s[1], s[2]>> \in arcs' /\ <<s[3], s[2]>> \in arcs'
  BY <1>1
<1>6. PICK c \in V : c # a /\ <<c, b>> \in arcs' /\ ~ Adjacent(input.arcs, {}, c, a)
  <2>1. ~ Adjacent(input.arcs, {}, s[3], s[1])
    BY <1>4 DEF Adjacent
  <2>2. CASE a = s[1] /\ b = s[2]
    BY <1>4, <1>5, <2>1, <2>2
  <2>3. CASE a = s[3] /\ b = s[2]
    BY <1>4, <1>5, <2>3
  <2> QED
    BY <1>3, <2>2, <2>3
<1>7. \A u, v : Adjacent(arcs', lines', u, v) <=> Adjacent(input.arcs, {}, u, v)
  <2>1. ~ guarded' /\ rule' # "v-structures" /\ input' = input
    BY <1>1
  <2>2. (IInv /\ InputLines /\ ArcsImplied /\ ~ guarded /\ rule # "v-structures"
         => \A u, v : Adjacent(arcs, lines, u, v) <=> Adjacent(input.arcs, {}, u, v))'
    BY CpdagFacts, PTL
  <2> QED
    BY <1>2, <2>1, <2>2
<1> QED
  BY <1>6, <1>7 DEF Forced

LEMMA StepReasons ==
    ASSUME IInv, InputLines, ArcsImplied, ArcsHaveReasons, [Next]_vars
    PROVE  ArcsHaveReasons'
<1>1. CASE OrientColliders
  BY <1>1, CollidersHaveReasons
<1>2. CASE \E b \in V : ApplyR1(b) \/ ApplyR2(b) \/ ApplyR3(b) \/ ApplyR4(b)
  <2>1. PICK b \in V : ApplyR1(b) \/ ApplyR2(b) \/ ApplyR3(b) \/ ApplyR4(b)
    BY <1>2
  <2>2. UNCHANGED <<input, guarded, rule>> /\ rule \in RuleSet
    BY <2>1, ApplyCases
  <2>3. rule # "v-structures" /\ node \in V
    BY <2>2 DEF RuleSet, IInv, TypeOK
  <2>4. CASE Asked(node, b) /\ Orientable(node, b) /\ Orient(node, b)
    BY <2>2, <2>3, <2>4, OrientHasReason
  <2>5. CASE Asked(b, node) /\ Orientable(b, node) /\ Orient(b, node)
    BY <2>2, <2>3, <2>5, OrientHasReason
  <2>6. CASE UNCHANGED <<arcs, lines>>
    BY <2>2, <2>3, <2>6 DEF ArcsHaveReasons
  <2> QED
    BY <2>1, <2>4, <2>5, <2>6, ApplyAsks
<1>3. CASE NextNode \/ NextRule \/ EndSweep
  <2>1. rule # "v-structures" /\ rule' # "v-structures" /\ UNCHANGED <<input, guarded, arcs, lines>>
    BY <1>3, RuleFacts DEF NextNode, NextRule, EndSweep, Enter, RuleSet
  <2> QED
    BY <2>1 DEF ArcsHaveReasons
<1>4. CASE UNCHANGED vars
  BY <1>4 DEF vars, ArcsHaveReasons
<1> QED
  BY <1>1, <1>2, <1>3, <1>4 DEF Next

(* The arcs to_cpdag() draws stand for a reason at every moment.            *)
THEOREM MeekArcsHaveReasons == Spec => []ArcsHaveReasons
<1> DEFINE Before == IInv /\ InputLines /\ ArcsImplied
<1>1. Init => ArcsHaveReasons
  BY DEF Init, InitToMpdag, InitToCpdag, ArcsHaveReasons
<1>2. Before /\ ArcsHaveReasons /\ [Next]_vars => ArcsHaveReasons'
  BY StepReasons
<1>3. Spec => []Before
  BY MeekInvariant, SpecInputLines, MeekArcsAreImplied, PTL
<1> QED
  BY <1>1, <1>2, <1>3, PTL DEF Spec

(* to_cpdag() returns the essential graph of the DAG, for any number of    *)
(* nodes and in any order of rules and neighbours: what is closed under     *)
(* the rules, with arcs that have a reason, leaves as lines only what some  *)
(* equivalent DAG turns round.                                              *)
THEOREM CpdagIsTheEssentialGraph == Spec => []CpdagIsEssential
<1>1. ASSUME IInv, InputLines, ArcsImplied, ArcsHaveReasons, ClosedWhenDone
      PROVE  CpdagIsEssential
  <2> SUFFICES ASSUME rule = "done", ~ guarded
               PROVE  <<arcs, lines>> = Essential(V, input.arcs)
    BY DEF CpdagIsEssential
  <2>1. rule # "v-structures"
    OBVIOUS
  <2>2. Pattern(V, input.arcs, arcs, lines)
    BY <1>1, <2>1, DrawnIsAPattern
  <2>3. MeekClosed(V, arcs, lines)
    BY <1>1 DEF ClosedWhenDone
  <2>4. \A a, b \in V : <<a, b>> \in arcs => Forced(V, input.arcs, arcs, lines, a, b)
    BY <1>1, <2>1 DEF ArcsHaveReasons
  <2>5. ClosedPattern(V, input.arcs, arcs, lines)
    BY <2>2, <2>3, <2>4, ClosedIsExhausted DEF ClosedPattern
  <2> QED
    BY <2>5, ClosedPatternIsEssential
<1> QED
  BY <1>1, MeekInvariant, SpecInputLines, MeekArcsAreImplied, MeekArcsHaveReasons,
     MeekClosedWhenDone, PTL
================================================================================
