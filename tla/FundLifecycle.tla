---------------------------- MODULE FundLifecycle ----------------------------
(***************************************************************************)
(* What the requirements document promises of the status of a fund         *)
(* ("状态只能按图走, 不能跳步": the status follows its graph and skips no    *)
(* stage), without requests, tasks and histories: a fund gets to a stage   *)
(* only when it has been at a stage before it.                             *)
(*                                                                         *)
(* The stage before need not be the one the fund is at now: of two         *)
(* transitions that were checked on the same status both are written, so a *)
(* fund may be set back, and be taken on from where it was.                *)
(***************************************************************************)
CONSTANT Funds

VARIABLES
  stage,    \* where each fund is; "absent" before it is filed
  reached   \* the stages it has been at

cvars == <<stage, reached>>

\* The graph, with the edge from rejected to approved that a second task of
\* an edited fund takes.
Before ==
  [pending   |-> {"rejected"},
   approved  |-> {"pending", "rejected"},
   rejected  |-> {"pending"},
   allocated |-> {"approved"},
   in_use    |-> {"allocated"},
   completed |-> {"in_use"},
   audited   |-> {"completed"}]

LifecycleInit ==
  /\ stage = [f \in Funds |-> "absent"]
  /\ reached = [f \in Funds |-> {}]

File(f) ==
  /\ stage[f] = "absent"
  /\ stage' = [stage EXCEPT ![f] = "pending"]
  /\ reached' = [reached EXCEPT ![f] = {"pending"}]

Reach(f, to) ==
  /\ reached[f] \cap Before[to] # {}
  /\ stage' = [stage EXCEPT ![f] = to]
  /\ reached' = [reached EXCEPT ![f] = @ \cup {to}]

LifecycleNext ==
  \E f \in Funds : File(f) \/ \E to \in DOMAIN Before : Reach(f, to)

LifecycleSpec == LifecycleInit /\ [][LifecycleNext]_cvars
=============================================================================
