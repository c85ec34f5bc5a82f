------------------------------- MODULE MeekRules -------------------------------
(***************************************************************************)
(* What the rules of src/rust/src/graph/alg/meek.rs ask of a line a -- b   *)
(* before they orient it a -> b, in a graph of nodes N, arcs A and lines U. *)
(***************************************************************************)
EXTENDS GraphClasses

(* creates_new_unshielded_collider() *)
NewCollider(A, U, a, b) == \E p \in Parents(A, b) : p # a /\ ~ Adjacent(A, U, a, p)

(* Guarded against new colliders, when a PDAG is closed. *)
R1Asks(A, U, guard, a, b) ==
    /\ \E p \in Parents(A, a) : ~ Adjacent(A, U, p, b)
    /\ guard => ~ NewCollider(A, U, a, b)

R2Asks(A, a, b) == Children(A, a) \cap Parents(A, b) # {}

(* Slip: c and d may be adjacent. *)
R3AsksShielded(A, U, a, b) ==
    \E c, d \in Parents(A, b) : c # d /\ {<<a, c>>, <<a, d>>} \subseteq U

R3Asks(A, U, a, b) ==
    \E c, d \in Parents(A, b) :
        c # d /\ ~ Adjacent(A, U, c, d) /\ {<<a, c>>, <<a, d>>} \subseteq U

R4Asks(N, A, a, b) == DirPath(N, A, a, b)

(* try_orient(): the line is still there and no directed path leads back.   *)
MayOrient(N, A, U, a, b) == <<a, b>> \in U /\ ~ DirPath(N, A, b, a)
================================================================================
