--------------------------- MODULE MCFundApproval ---------------------------
(* Instances of FundApproval for TLC.                                       *)
EXTENDS FundApproval, TLC

CONSTANTS boss, chief, twoLevel

\* alice files the fund; boss approves the first level, chief, a superuser,
\* the second; the default workflow has no approver.
MCChain ==
  [w \in Workflows |-> IF w = twoLevel THEN <<boss, chief>> ELSE <<NoUser>>]

Symmetry == Permutations(Clients)
=============================================================================
