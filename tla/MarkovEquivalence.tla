--------------------------- MODULE MarkovEquivalence ---------------------------
(***************************************************************************)
(* What a CPDAG is, by definition: the DAGs over the nodes N, their        *)
(* v-structures, their equivalence classes and the graph that represents a *)
(* class.  is_cpdag() and Dag::to_cpdag() are checked against it.          *)
(***************************************************************************)
EXTENDS GraphClasses, FiniteSetsExt

Symmetric(N, E) == {a \in N \X N : {a[1], a[2]} \in E}

Skeleton(A) == {{a[1], a[2]} : a \in A}

(* The acyclic sets of arcs that orient each edge of the skeleton E. *)
Orientations(N, E) ==
    {A \in SUBSET Symmetric(N, E) :
        /\ \A e \in E : Cardinality({a \in A : {a[1], a[2]} = e}) = 1
        /\ Acyclic(N, A)}

Dags(N) == UNION {Orientations(N, E) : E \in SUBSET (kSubset(2, N))}

(* a -> c <- b with a and b apart, the lines U counting as adjacencies. *)
UnshieldedColliders(N, A, U) ==
    {t \in N \X N \X N :
        t[1] # t[3] /\ {<<t[1], t[2]>>, <<t[3], t[2]>>} \subseteq A /\ ~ Adjacent(A, U, t[1], t[3])}

VStructures(N, A) == UnshieldedColliders(N, A, {})

MarkovEquivalent(N, A) ==
    {B \in Orientations(N, Skeleton(A)) : VStructures(N, B) = VStructures(N, A)}

(* An arc wherever every equivalent DAG has it, a line wherever they differ. *)
Essential(N, A) ==
    LET compelled == {a \in A : \A B \in MarkovEquivalent(N, A) : a \in B} IN
    <<compelled, Symmetric(N, Skeleton(A \ compelled))>>

EssentialGraphs(N) == {Essential(N, A) : A \in Dags(N)}

(* The DAGs a PDAG stands for: they orient its lines, keep its arcs and     *)
(* have no v-structure it does not have.                                    *)
Extensions(N, A, U) ==
    {B \in Orientations(N, Skeleton(A \cup U)) :
        A \subseteq B /\ VStructures(N, B) = UnshieldedColliders(N, A, U)}
================================================================================
