----------------------------- MODULE MCGraphSession -----------------------------
(***************************************************************************)
(* GraphSession on two nodes, three edge types and two registries that     *)
(* disagree about one code; and on three nodes with one graph to cut, in   *)
(* which a row has two neighbours to renumber.                             *)
(***************************************************************************)
EXTENDS GraphSession

MCDefaultName == [i \in 0 .. 1 |-> IF i = 0 THEN "0" ELSE "1"]

MCName == {"0", "1"}

(* The right length, and too short. *)
MCNameLists == {<<"1", "0">>, <<"1">>}

(* Code 0 is --> in both; code 1 is --- in one, <-> in the other; code 2   *)
(* exists in neither.                                                      *)
MCRegistries ==
    {[c \in 0 .. 1 |-> IF c = 0 THEN DirectedSpec ELSE UndirectedSpec],
     [c \in 0 .. 1 |-> IF c = 0 THEN DirectedSpec ELSE BidirectedSpec]}

Bag(S) == [e \in S |-> 1]

(* Acceptable buffers, and one for each way a buffer can be wrong: a       *)
(* self-loop, an end that is no node, an unknown code, a repeated edge, a  *)
(* symmetric edge in both orientations, two edges on a pair.               *)
MCBuffers ==
    {NoEdges,
     Bag({<<0, 1, 0>>}),
     Bag({<<1, 0, 1>>}),
     Bag({<<0, 0, 0>>}),
     Bag({<<0, 1, 2>>}),
     [e \in {<<0, 1, 0>>} |-> 2],
     Bag({<<0, 1, 1>>, <<1, 0, 1>>}),
     Bag({<<0, 1, 0>>, <<0, 1, 1>>})}

MCBatches ==
    {<<2, TRUE, "DAG", r, Bag({<<0, 1, 0>>}), <<"1", "0">>>> : r \in MCRegistries}

--------------------------------------------------------------------------------
ThreeNames == {"0", "1", "2"}

ThreeDefaults == [i \in 0 .. 2 |-> <<"0", "1", "2">>[i + 1]]

ThreeRegistries == {[c \in {0} |-> DirectedSpec]}

(* 0 --> 1 and 0 --> 2: the row of 0 lists 1 and 2.                        *)
Fork == Bag({<<0, 1, 0>>, <<0, 2, 0>>})

ThreeBuffers == {NoEdges, Fork}

ThreeBatches == {<<3, TRUE, "DAG", r, Fork, <<"0", "1", "2">>>> : r \in ThreeRegistries}

ThreeLists == {<<"0", "1", "2">>}
================================================================================
