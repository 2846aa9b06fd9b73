---------------------------- MODULE MCGatedChange ----------------------------
(* Instances of GatedChange for TLC.                                        *)
EXTENDS GatedChange, TLC

CONSTANTS boss, chief, twoLevel

\* boss, no administrator, files changes and approves the first level; chief is
\* an administrator and a superuser.
MCChain ==
  [w \in Workflows |-> IF w = twoLevel THEN <<boss, chief>> ELSE <<NoUser>>]
=============================================================================
