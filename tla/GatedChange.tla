----------------------------- MODULE GatedChange -----------------------------
(***************************************************************************)
(* The approval gate of villages, schools and policies                     *)
(* (backend/app/services/approval_gate.py): an administrator's change is   *)
(* written at once, anybody else's becomes an approval task that carries   *)
(* the change, and the apply handler of the entity type writes it.         *)
(*                                                                         *)
(* A change is the new value of the entity's fields, or Deletion.  The     *)
(* handlers of the three entity types do not look at the status of the     *)
(* task they are called for, so every call of apply_entity_change writes   *)
(* the change.                                                             *)
(*                                                                         *)
(* Changes are those the gates of the endpoints put together, which the    *)
(* handlers can apply, and entities are rows that exist.  A purge and a    *)
(* direct call of /submit or /resubmit can bring about another case, for   *)
(* which the handlers return without a word while the task is approved all *)
(* the same: an entity that is not there, a target status that a policy    *)
(* cannot have, fields that are immutable or that the row does not have.   *)
(***************************************************************************)
EXTENDS ApprovalTasks

CONSTANTS
  Admins,      \* users whose changes take effect at once
  Deletion,    \* the change {"__deleted__": True}
  Original     \* the value an entity starts with

ASSUME GateAssumption ==
  /\ Superusers \subseteq Admins /\ Admins \subseteq Users
  /\ Deletion \in Changes
  /\ Original \notin Changes

VARIABLES
  entity,      \* the rows of the entity type
  greq         \* the direct write of each client, if it is in one

gvars == <<workflow, task, record, req, entity, greq>>

Value == (Changes \ {Deletion}) \cup {Original}
EntityRow == [value : Value, active : BOOLEAN]

GateInit ==
  /\ Init
  /\ entity = [e \in Entities |-> [value |-> Original, active |-> TRUE]]
  /\ greq = [c \in Clients |-> Idle]

(***************************************************************************)
(* The apply handler.                                                      *)
(***************************************************************************)
Changed(row, ch) ==
  IF ch = Deletion THEN [row EXCEPT !.active = FALSE]
  ELSE [row EXCEPT !.value = ch]

\* Mutant: the deletion marker is taken for a change without fields.
ApplyChangeFieldsOnly(r, ch, ok) ==
  entity' = IF ok /\ ch # Deletion
            THEN [entity EXCEPT ![r.seen.entity] = Changed(@, ch)]
            ELSE entity

\* The handler writes change ch of the task of request r, in a savepoint that
\* is rolled back when it raises; its silent returns are left out, see above.
ApplyChange(r, ch, ok) ==
  entity' = IF ok THEN [entity EXCEPT ![r.seen.entity] = Changed(@, ch)]
            ELSE entity

GateDecision(c, ok) ==
  LET r == req[c] IN
  /\ \/ ApproveLast(c, ok) \/ Reject(c, ok)
  /\ ApplyChange(r, task[r.id].change, ok)

GateResubmit(c, ok) ==
  LET r == req[c] IN
  /\ Resubmit(c, ok)
  /\ ApplyChange(r, IF r.arg = NoChange THEN r.seen.change ELSE r.arg, ok)

GateRetry(c, ok) ==
  /\ RetryApply(c, ok)
  /\ ApplyChange(req[c], req[c].seen.change, ok)

(***************************************************************************)
(* The endpoints of the entity.                                            *)
(***************************************************************************)
Available(c) == req[c] = Idle /\ greq[c] = Idle

\* open_change_approval, for a user who is no administrator.
OpenChange(c, e, u, ch) ==
  /\ Available(c)
  /\ u \notin Admins
  /\ SubmitRead(c, "business", e, u, ch)
  /\ UNCHANGED <<entity, greq>>

DirectRead(c, e, ch) ==
  /\ Available(c)
  /\ greq' = [greq EXCEPT ![c] = [op |-> "write", entity |-> e,
                                  seen |-> entity[e], change |-> ch]]
  /\ UNCHANGED <<workflow, task, record, req, entity>>

\* Mutant: the deletion marker is written as a value.
DirectWriteMarker(c) ==
  /\ greq[c].op = "write"
  /\ entity' = [entity EXCEPT ![greq[c].entity].value = greq[c].change]
  /\ greq' = [greq EXCEPT ![c] = Idle]
  /\ UNCHANGED <<workflow, task, record, req>>

DirectWrite(c) ==
  LET g == greq[c]
      new == Changed(g.seen, g.change)
  IN
  /\ g.op = "write"
  /\ entity' = [entity EXCEPT ![g.entity] =
                  [value |-> Flush(@.value, g.seen.value, new.value),
                   active |-> Flush(@.active, g.seen.active, new.active)]]
  /\ greq' = [greq EXCEPT ![c] = Idle]
  /\ UNCHANGED <<workflow, task, record, req>>

\* Out of the recycle bin; administrators only.
Restore(c, e) ==
  /\ Available(c)
  /\ ~entity[e].active
  /\ entity' = [entity EXCEPT ![e].active = TRUE]
  /\ UNCHANGED <<workflow, task, record, req, greq>>

GateCrash ==
  /\ \E c \in Clients : ~Available(c)
  /\ req' = [c \in Clients |-> Idle]
  /\ greq' = [c \in Clients |-> Idle]
  /\ UNCHANGED <<workflow, task, record, entity>>

(***************************************************************************)
(* Next-state relation.                                                    *)
(***************************************************************************)
GateRequests(c) ==
  /\ greq[c] = Idle
  /\ \/ \E e \in Entities, u \in Users, ch \in Changes :
          SubmitDirectly(c, e, u, ch)
     \/ \E t \in TaskIds, u \in Users :
          Exists(t) /\ Len(record[t]) < MaxRecords /\ Read(c, t, u)
  /\ UNCHANGED <<entity, greq>>

\* The steps of the workflow service that leave the entity alone.
GateTaskSteps(c) ==
  /\ \/ EnsureDefaultWorkflow(c) \/ SubmitAgain(c)
     \/ SubmitWrite(c) \/ SubmitFails(c)
     \/ ClaimFails(c) \/ ApproveNext(c) \/ AutoReload(c)
     \/ Withdraw(c) \/ Transfer(c) \/ RetryWrite(c)
  /\ UNCHANGED <<entity, greq>>

GateHandlers(c) ==
  /\ \E ok \in BOOLEAN :
       GateDecision(c, ok) \/ GateResubmit(c, ok) \/ GateRetry(c, ok)
  /\ UNCHANGED greq

GateNext ==
  \/ Configure /\ UNCHANGED <<entity, greq>>
  \/ GateCrash
  \/ \E c \in Clients :
       \/ \E e \in Entities, ch \in Changes :
            DirectRead(c, e, ch) \/ \E u \in Users : OpenChange(c, e, u, ch)
       \/ \E e \in Entities : Restore(c, e)
       \/ DirectWrite(c)
       \/ GateRequests(c) \/ GateTaskSteps(c) \/ GateHandlers(c)

GateSpec == GateInit /\ [][GateNext]_gvars

(* Every entity and direct write has its type. *)
GateTypeOK ==
  /\ entity \in [Entities -> EntityRow]
  /\ greq \in [Clients -> {Idle} \cup [op : {"write"}, entity : Entities,
                                       seen : EntityRow, change : Changes]]

(***************************************************************************)
(* Properties.                                                             *)
(***************************************************************************)
(* When requests do not overlap, the step that gives a task the status      *)
(* "approved" leaves its entity as the task's change demands, also when the *)
(* first write-back failed, the backend died between the two commits of a   *)
(* retry, or the entity was changed meanwhile.                              *)
ApprovedChangeInEffect ==
  [][\A t \in TaskIds :
       /\ Exists(t)
       /\ task[t].status # "approved"
       /\ task'[t].status = "approved"
       => LET e == task[t].entity IN
          entity'[e] = Changed(entity'[e], task[t].change)]_gvars

(* A rejection changes nothing: the entity keeps its values                 *)
(* (approval_gate.py:23).                                                   *)
RejectionChangesNothing ==
  [][(\E t \in TaskIds : task'[t].status = "rejected"
                         /\ task[t].status = "pending")
     => entity' = entity]_gvars
=============================================================================
