---------------------------- MODULE MCOfficeEvents ----------------------------
(***************************************************************************)
(* Two steps of one task, each of its own agent, which differ in nothing.   *)
(***************************************************************************)
EXTENDS OfficeEvents, TLC

OneTask  == [s \in Step |-> "task"]
OwnAgent == [s \in Step |-> s]
SameSteps == Permutations(Step)
=============================================================================
