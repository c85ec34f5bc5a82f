--------------------------------- MODULE MCCpdag ---------------------------------
(***************************************************************************)
(* The tests of is_cpdag() on every PDAG of Size nodes, and the search of  *)
(* its chordality test, node by node, on every connected component of      *)
(* ComponentSize nodes: one behaviour runs the one or the other.           *)
(***************************************************************************)
EXTENDS CpdagCheck, ChordalityTest

allVars == <<vars, searchVars>>

TestsWait == arcs = {} /\ lines = {} /\ stage = "waiting"

SearchWaits == und = {} /\ order = <<>> /\ verdict = "waiting"

MCInit == (Init /\ SearchWaits) \/ (SearchInit /\ TestsWait)

MCNext == (Next /\ UNCHANGED searchVars) \/ (SearchNext /\ UNCHANGED vars)

MCSpec == MCInit /\ [][MCNext]_allVars
================================================================================
