--------------------------- MODULE ApprovalLedger ---------------------------
(***************************************************************************)
(* What the approval workflow service promises, without requests, users,   *)
(* rows and failures: a task needs the approval of a number of levels, the *)
(* levels sign one at a time and in order, a signature is never taken      *)
(* back, and a task is granted only when all of its levels have signed.    *)
(*                                                                         *)
(* A task that was granted may stop being so (it is withdrawn, made again  *)
(* or decided again), and it may be granted again on its signatures.       *)
(***************************************************************************)
EXTENDS Naturals

CONSTANTS
  Tasks,    \* the tasks there may be
  Lengths   \* the numbers of levels of the workflows, none of them 0

VARIABLES
  needs,    \* the levels a task needs; 0 before it is submitted
  signed,   \* the levels that have approved it
  granted   \* the tasks that stand approved

lvars == <<needs, signed, granted>>

Complete(t) == 1..needs[t] \subseteq signed[t]

LedgerInit ==
  /\ needs = [t \in Tasks |-> 0]
  /\ signed = [t \in Tasks |-> {}]
  /\ granted = {}

Open(t) ==
  /\ needs[t] = 0
  /\ \E n \in Lengths : needs' = [needs EXCEPT ![t] = n]
  /\ UNCHANGED <<signed, granted>>

\* The signature that completes the task may grant it.
Sign(t, l) ==
  /\ l \in 1..needs[t]
  /\ 1..(l - 1) \subseteq signed[t]
  /\ signed' = [signed EXCEPT ![t] = @ \cup {l}]
  /\ \/ UNCHANGED granted
     \/ Complete(t)' /\ granted' = granted \cup {t}
  /\ UNCHANGED needs

Grant(t) ==
  /\ needs[t] # 0
  /\ Complete(t)
  /\ granted' = granted \cup {t}
  /\ UNCHANGED <<needs, signed>>

Revoke(t) ==
  /\ granted' = granted \ {t}
  /\ UNCHANGED <<needs, signed>>

LedgerNext ==
  \E t \in Tasks :
    \/ Open(t) \/ Grant(t) \/ Revoke(t)
    \/ \E l \in 1..needs[t] : Sign(t, l)

LedgerSpec == LedgerInit /\ [][LedgerNext]_lvars
=============================================================================
