------------------------------ MODULE MeekClosure ------------------------------
(***************************************************************************)
(* The loop of src/rust/src/graph/alg/meek.rs that closes a partially      *)
(* directed graph under Meek's rules, and its two callers:                 *)
(* Pdag::to_mpdag() closes a PDAG with a guard against new colliders,      *)
(* Dag::to_cpdag() first keeps only the v-structures of a DAG and closes   *)
(* that without the guard.                                                 *)
(*                                                                         *)
(* A sweep runs the rules R1, R2, R3, R4 in this order, each over the nodes*)
(* 0, 1, 2, ...  At a node the loop goes through a copy of the set of its  *)
(* undirected neighbours.  The set is a HashSet, whose order differs from  *)
(* run to run: the model takes the neighbours in every order.              *)
(***************************************************************************)
EXTENDS MarkovEquivalence, MeekRules

CONSTANTS
    Size,    \* number of nodes
    Pdags    \* the PDAGs to_mpdag() is called with, [arcs, lines]

ASSUME SizeAssumption == Size \in Nat /\ Size > 1

V == 0 .. (Size - 1)

ASSUME PdagsAssumption ==
    \A p \in Pdags :
        /\ p.arcs \in SUBSET (V \X V) /\ Acyclic(V, p.arcs)
        /\ p.lines \in SUBSET (V \X V)
        /\ \A a \in p.lines : a[1] # a[2] /\ <<a[2], a[1]>> \in p.lines

VARIABLES
    input,     \* the graph handed over
    guarded,   \* guard_new_colliders
    arcs,      \* pa and ch: directed edges <<parent, child>>
    lines,     \* und: undirected edges, both orientations
    rule,      \* the rule being applied
    node,      \* the node it is applied at
    todo,      \* the neighbours left in the copy of und[node]
    changed    \* whether this sweep has oriented a line

vars == <<input, guarded, arcs, lines, rule, node, todo, changed>>

Rules == <<"R1", "R2", "R3", "R4">>

Stage == ToSet(Rules) \cup {"v-structures", "done"}

(* The copy of und[v] a rule works on; R1 skips nodes without parents.      *)
Copy(r, v, A, U) == IF r = "R1" /\ Parents(A, v) = {} THEN {} ELSE Children(U, v)

Enter(r, v) ==
    /\ rule' = r
    /\ node' = v
    /\ todo' = Copy(r, v, arcs', lines')

InitToMpdag ==
    /\ input \in Pdags
    /\ guarded = TRUE
    /\ arcs = input.arcs
    /\ lines = input.lines
    /\ rule = "R1"
    /\ node = 0
    /\ todo = Copy("R1", 0, arcs, lines)

InitToCpdag ==
    /\ \E A \in Dags(V) : input = [arcs |-> A, lines |-> {}]
    /\ guarded = FALSE
    /\ arcs = {}
    /\ lines = Symmetric(V, Skeleton(input.arcs))
    /\ rule = "v-structures"
    /\ node = 0
    /\ todo = {}

Init == changed = FALSE /\ (InitToMpdag \/ InitToCpdag)

--------------------------------------------------------------------------------
(* Slip: one of two parents that are adjacent is oriented as well. *)
OrientCollidersLoosely ==
    /\ rule = "v-structures"
    /\ LET into == {a \in input.arcs : \E b \in input.arcs : b[2] = a[2] /\ b[1] # a[1]} IN
        /\ arcs' = into
        /\ lines' = {a \in lines : {a, <<a[2], a[1]>>} \cap into = {}}
    /\ Enter("R1", 0)
    /\ UNCHANGED <<input, guarded, changed>>

(* Slip: the second arc of a collider is taken off the lines only. *)
OrientFirstParentOnly ==
    /\ rule = "v-structures"
    /\ LET colliders == {s \in VStructures(V, input.arcs) : s[1] < s[3]}
           into == UNION {{<<s[1], s[2]>>, <<s[3], s[2]>>} : s \in colliders} IN
        /\ arcs' = {<<s[1], s[2]>> : s \in colliders}
        /\ lines' = {a \in lines : {a, <<a[2], a[1]>>} \cap into = {}}
    /\ Enter("R1", 0)
    /\ UNCHANGED <<input, guarded, changed>>

(* Orient the two arcs of every a -> b <- c with a and c apart. *)
OrientColliders ==
    /\ rule = "v-structures"
    /\ LET into == UNION {{<<s[1], s[2]>>, <<s[3], s[2]>>} : s \in VStructures(V, input.arcs)} IN
        /\ arcs' = into
        /\ lines' = {a \in lines : {a, <<a[2], a[1]>>} \cap into = {}}
    /\ Enter("R1", 0)
    /\ UNCHANGED <<input, guarded, changed>>

--------------------------------------------------------------------------------
(* Slip: a directed path back is not looked for. *)
OrientableLine(a, b) == <<a, b>> \in lines

Orientable(a, b) == MayOrient(V, arcs, lines, a, b)

(* orient(), and the sweep has changed something. *)
Orient(a, b) ==
    /\ arcs' = arcs \cup {<<a, b>>}
    /\ lines' = lines \ {<<a, b>>, <<b, a>>}
    /\ changed' = TRUE

(* Slip: a refused orientation counts as a change. *)
TryCountingRefusals(b, forward, backward) ==
    /\ b \in todo
    /\ todo' = todo \ {b}
    /\ \/ forward /\ Orientable(node, b) /\ Orient(node, b)
       \/ ~ (forward /\ Orientable(node, b)) /\ backward /\ Orientable(b, node) /\ Orient(b, node)
       \/ /\ ~ (forward /\ Orientable(node, b))
          /\ ~ (backward /\ Orientable(b, node))
          /\ changed' = TRUE
          /\ UNCHANGED <<arcs, lines>>
    /\ UNCHANGED <<input, guarded, rule, node>>

(* One neighbour b of node: a first way to orient the line, then a second. *)
Try(b, forward, backward) ==
    /\ b \in todo
    /\ todo' = todo \ {b}
    /\ \/ forward /\ Orientable(node, b) /\ Orient(node, b)
       \/ ~ (forward /\ Orientable(node, b)) /\ backward /\ Orientable(b, node) /\ Orient(b, node)
       \/ /\ ~ (forward /\ Orientable(node, b))
          /\ ~ (backward /\ Orientable(b, node))
          /\ UNCHANGED <<arcs, lines, changed>>
    /\ UNCHANGED <<input, guarded, rule, node>>

ApplyR1(b) == rule = "R1" /\ Try(b, R1Asks(arcs, lines, guarded, node, b), FALSE)

ApplyR2(b) == rule = "R2" /\ Try(b, R2Asks(arcs, node, b), R2Asks(arcs, b, node))

ApplyR3(b) == rule = "R3" /\ Try(b, R3Asks(arcs, lines, node, b), FALSE)

(* The way back is an else branch: it is tried when no path leads forward. *)
ApplyR4(b) ==
    rule = "R4" /\ Try(b, R4Asks(V, arcs, node, b), ~ R4Asks(V, arcs, node, b) /\ R4Asks(V, arcs, b, node))

NextNode ==
    /\ rule \in ToSet(Rules) /\ todo = {}
    /\ node < Size - 1
    /\ UNCHANGED <<input, guarded, arcs, lines, changed>>
    /\ Enter(rule, node + 1)

NextRule ==
    /\ todo = {} /\ node = Size - 1
    /\ UNCHANGED <<input, guarded, arcs, lines, changed>>
    /\ \E i \in 1 .. 3 : rule = Rules[i] /\ Enter(Rules[i + 1], 0)

(* Slip: a sweep that oriented something is the last one as well. *)
OneSweep ==
    /\ rule = "R4" /\ todo = {} /\ node = Size - 1
    /\ rule' = "done"
    /\ UNCHANGED <<input, guarded, arcs, lines, node, todo, changed>>

(* Sweep again if this sweep changed something, else stop. *)
EndSweep ==
    /\ rule = "R4" /\ todo = {} /\ node = Size - 1
    /\ UNCHANGED <<input, guarded, arcs, lines>>
    /\ \/ changed /\ changed' = FALSE /\ Enter("R1", 0)
       \/ ~ changed /\ rule' = "done" /\ UNCHANGED <<node, todo, changed>>

Next ==
    \/ OrientColliders
    \/ \E b \in V : ApplyR1(b) \/ ApplyR2(b) \/ ApplyR3(b) \/ ApplyR4(b)
    \/ NextNode
    \/ NextRule
    \/ EndSweep

(* One synchronous call that nothing interrupts: it keeps taking steps.     *)
Spec == Init /\ [][Next]_vars /\ WF_vars(Next)

--------------------------------------------------------------------------------
(* The sets pa, ch and und are those of a graph, and describe what is left  *)
(* of the sweep.                                                            *)
TypeOK ==
    /\ arcs \in SUBSET (V \X V)
    /\ lines \in SUBSET (V \X V)
    /\ \A a \in lines : <<a[2], a[1]>> \in lines
    /\ guarded \in BOOLEAN /\ changed \in BOOLEAN
    /\ rule \in Stage /\ node \in V /\ todo \in SUBSET V

(* No order of rules and neighbours ever closes a directed cycle, so that   *)
(* the Pdag::new() at the end of both callers cannot fail.                  *)
ArcsStayAcyclic == Acyclic(V, arcs)

(* Every adjacency of the input is kept and none is added, although the     *)
(* loop works on copies of neighbour sets that it changes meanwhile.        *)
SkeletonKept == Skeleton(arcs \cup lines) = Skeleton(input.arcs \cup input.lines)

(* The loop stops closed under the rules as is_meek_closed() tests them:    *)
(* Mpdag::from_closed_unchecked() is handed what it demands, although the   *)
(* loop reads stale copies and refuses orientations.                        *)
ClosedWhenDone == rule = "done" => MeekClosed(V, arcs, lines)

(* to_cpdag() returns the essential graph of the DAG, in whatever order the *)
(* hash sets were read: what Cpdag::from_valid_unchecked() demands.         *)
CpdagIsEssential ==
    (rule = "done" /\ ~ guarded) => <<arcs, lines>> = Essential(V, input.arcs)

(* to_mpdag() only orients what is implied: a PDAG that stands for some     *)
(* DAGs stands for the same DAGs when the loop is done.  (A graph in which  *)
(* a pair has an arc and a line may lose some: R3 takes the line for a line *)
(* of the premise.  R makes no PDAG that is not simple.)                    *)
NoExtensionIsLost ==
    /\ rule = "done" /\ guarded
    /\ input.arcs \cap input.lines = {}
    /\ Extensions(V, input.arcs, input.lines) # {}
    => Extensions(V, arcs, lines) = Extensions(V, input.arcs, input.lines)

(* The loop ends, though rules that ask for an orientation may be refused   *)
(* it again and again (try_orient() returning false).                       *)
Terminates == <>(rule = "done")

================================================================================
