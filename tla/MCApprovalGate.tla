---------------------------- MODULE MCApprovalGate ----------------------------
(* Values for ApprovalGate. *)
EXTENDS ApprovalGate, TLC

\* Every action is sent to the same destination: one rule binds them all.
OneFamily == [a \in Action |-> "dest"]

\* The processes differ in nothing.
ProcSymmetry == Permutations(Proc)
===============================================================================
