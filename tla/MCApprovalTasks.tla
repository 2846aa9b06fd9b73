-------------------------- MODULE MCApprovalTasks --------------------------
(* Instances of ApprovalTasks for TLC.                                      *)
EXTENDS ApprovalTasks, TLC

CONSTANTS boss, chief, twoLevel

\* alice submits, boss is the approver of the first level and chief, a
\* superuser, of the second; the default workflow has no approver.
MCChain ==
  [w \in Workflows |-> IF w = twoLevel THEN <<boss, chief>> ELSE <<NoUser>>]

Symmetry == Permutations(Clients)
=============================================================================
