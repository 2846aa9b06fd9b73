------------------------- MODULE GatedChange_proofs -------------------------
(***************************************************************************)
(* Theorems about GatedChange, for every value of its constants.           *)
(*                                                                         *)
(* The endpoints of villages, schools and policies call the workflow       *)
(* service and nothing but it touches the tasks, so each step of the gate  *)
(* is a step of ApprovalTasks or leaves the tasks alone (GateStep): what   *)
(* is proved of the service holds behind the gate.  That an approved       *)
(* change is in effect needs requests that do not overlap, and an          *)
(* invariant about the time between the two commits of a retry (Applied).  *)
(***************************************************************************)
EXTENDS GatedChange, ApprovalSerial_proofs

(***************************************************************************)
(* The gate runs the workflow service.                                     *)
(***************************************************************************)
\* A step of the service by client c.
LEMMA ServiceStep ==
  ASSUME NEW c \in Clients, Submit(c) \/ Write(c)
  PROVE  Next
BY DEF Next

LEMMA TaskStepsServe ==
  ASSUME NEW c \in Clients, GateTaskSteps(c)
  PROVE  Submit(c) \/ Write(c)
BY DEF GateTaskSteps, Submit, Write

LEMMA HandlersServe ==
  ASSUME NEW c \in Clients, GateHandlers(c)
  PROVE  Write(c)
BY DEF GateHandlers, GateDecision, GateResubmit, GateRetry, Write

LEMMA RequestsServe ==
  ASSUME NEW c \in Clients, GateRequests(c)
  PROVE  \/ Submit(c)
         \/ \E t \in TaskIds, u \in Users :
              Exists(t) /\ Len(record[t]) < MaxRecords /\ Read(c, t, u)
BY DEF GateRequests, Submit

LEMMA OpenServes ==
  ASSUME NEW c \in Clients, NEW e \in Entities, NEW u \in Users,
         NEW ch \in Changes, OpenChange(c, e, u, ch)
  PROVE  Submit(c)
BY DEF OpenChange, Submit

\* A crash of the backend stops both the requests of the service and the
\* direct writes, if any.
LEMMA CrashServes ==
  ASSUME TypeOK, GateCrash
  PROVE  [Next]_vars
<1>1. CASE \E c \in Clients : req[c] # Idle
  BY <1>1 DEF GateCrash, Crash, Next
<1>2. CASE \A c \in Clients : req[c] = Idle
  <2>1. req' = req
    BY <1>2 DEF GateCrash, TypeOK
  <2> QED BY <2>1 DEF GateCrash, vars
<1> QED BY <1>1, <1>2

\* Each step of the gate is a step of the service or leaves the tasks alone.
LEMMA GateStep ==
  ASSUME TypeOK, [GateNext]_gvars
  PROVE  [Next]_vars
<1>1. CASE Configure /\ UNCHANGED <<entity, greq>>
  BY <1>1 DEF Next
<1>2. CASE GateCrash
  BY <1>2, CrashServes
<1>3. ASSUME NEW c \in Clients, NEW e \in Entities, NEW u \in Users,
             NEW ch \in Changes, OpenChange(c, e, u, ch)
      PROVE  Next
  BY <1>3, OpenServes, ServiceStep
<1>4. ASSUME NEW c \in Clients, GateRequests(c)
      PROVE  Next
  BY <1>4, RequestsServe DEF Next
<1>5. ASSUME NEW c \in Clients, GateTaskSteps(c) \/ GateHandlers(c)
      PROVE  Next
  BY <1>5, TaskStepsServe, HandlersServe, ServiceStep
<1>6. CASE \E c \in Clients, e \in Entities :
             Restore(c, e) \/ \E ch \in Changes : DirectRead(c, e, ch)
  BY <1>6 DEF DirectRead, Restore, vars
<1>7. CASE \E c \in Clients : DirectWrite(c)
  BY <1>7 DEF DirectWrite, vars
<1>8. CASE UNCHANGED gvars
  BY <1>8 DEF gvars, vars
<1> QED BY <1>1, <1>2, <1>3, <1>4, <1>5, <1>6, <1>7, <1>8 DEF GateNext

(* The approval gate implements the workflow service: no order of           *)
(* submissions, direct writes, handler calls, restores and crashes behind   *)
(* the gate shows the tasks a step that ApprovalTasks does not have         *)
(* (open_change_approval, apply_entity_change).                             *)
THEOREM GateRunsWorkflow == GateSpec => Spec
<1>1. GateInit => Init /\ IInv
  BY InitIInv DEF GateInit
<1>2. IInv /\ [GateNext]_gvars => [Next]_vars
  BY GateStep DEF IInv
<1>3. IInv /\ [Next]_vars => IInv'
  BY NextIInv
<1> QED BY <1>1, <1>2, <1>3, PTL DEF GateSpec, Spec

(* Behind the gate, too, each step signs at most one level of one task, in  *)
(* order, and a change counts as approved only when every level of its      *)
(* workflow has signed it.                                                  *)
THEOREM GateImplementsLedger == GateSpec => ImplementsLedger
BY GateRunsWorkflow, ServiceImplementsLedger, PTL

(***************************************************************************)
(* Type correctness.                                                       *)
(***************************************************************************)
LEMMA ChangedType ==
  ASSUME NEW row \in EntityRow, NEW ch \in Changes
  PROVE  Changed(row, ch) \in EntityRow
BY DEF EntityRow, Value, Changed

\* What a call of the handler writes.
LEMMA ApplyChangeType ==
  ASSUME GateTypeOK, TypeOK, NEW c \in Clients, HasTask(c), NEW ch \in Changes,
         NEW ok \in BOOLEAN, ApplyChange(req[c], ch, ok)
  PROVE  entity' \in [Entities -> EntityRow]
<1>1. req[c].seen.entity \in Entities
  BY SeenTask DEF TaskRow
<1>2. entity[req[c].seen.entity] \in EntityRow
  BY <1>1 DEF GateTypeOK
<1> QED BY <1>1, <1>2, ChangedType DEF ApplyChange, GateTypeOK

LEMMA HandlersType ==
  ASSUME GateTypeOK, TypeOK, SeenRows, NEW c \in Clients, GateHandlers(c)
  PROVE  GateTypeOK'
<1>1. ASSUME NEW ok \in BOOLEAN, GateDecision(c, ok)
      PROVE  entity' \in [Entities -> EntityRow]
  <2>1. HasTask(c)
    BY <1>1 DEF GateDecision, ApproveLast, Reject, HasTask, TaskOps
  <2>2. task[req[c].id].change \in Changes
    BY <2>1, SeenTask, TaskRows DEF SeenRows, TaskRow
  <2> QED BY <1>1, <2>1, <2>2, ApplyChangeType DEF GateDecision
<1>2. ASSUME NEW ok \in BOOLEAN, GateResubmit(c, ok)
      PROVE  entity' \in [Entities -> EntityRow]
  <2>1. HasTask(c) /\ req[c] \in ResubmitRequest
    BY <1>2, RequestKinds DEF GateResubmit, Resubmit, HasTask, TaskOps
  <2>2. /\ req[c].seen.change \in Changes
        /\ req[c].arg \in Changes \cup {NoChange}
    BY <2>1 DEF ResubmitRequest, TaskRequest, TaskRow
  <2>3. (IF req[c].arg = NoChange THEN req[c].seen.change ELSE req[c].arg) \in Changes
    BY <2>2
  <2> QED BY <1>2, <2>1, <2>3, ApplyChangeType DEF GateResubmit
<1>3. ASSUME NEW ok \in BOOLEAN, GateRetry(c, ok)
      PROVE  entity' \in [Entities -> EntityRow]
  <2>1. HasTask(c)
    BY <1>3 DEF GateRetry, RetryApply, HasTask, TaskOps
  <2>2. req[c].seen.change \in Changes
    BY <2>1, SeenTask DEF TaskRow
  <2> QED BY <1>3, <2>1, <2>2, ApplyChangeType DEF GateRetry
<1> QED BY <1>1, <1>2, <1>3 DEF GateHandlers, GateTypeOK

\* The endpoints that write the entity themselves.
LEMMA DirectType ==
  ASSUME GateTypeOK, NEW c \in Clients,
         \/ DirectWrite(c)
         \/ \E e \in Entities : Restore(c, e)
         \/ \E e \in Entities, ch \in Changes : DirectRead(c, e, ch)
  PROVE  GateTypeOK'
<1>1. CASE DirectWrite(c)
  <2> DEFINE g == greq[c]
             new == Changed(g.seen, g.change)
             row == [value |-> Flush(entity[g.entity].value, g.seen.value, new.value),
                     active |-> Flush(entity[g.entity].active, g.seen.active, new.active)]
  <2>1. /\ g.entity \in Entities /\ g.seen \in EntityRow
        /\ g.change \in Changes
    BY <1>1 DEF DirectWrite, GateTypeOK, Idle
  <2>2. entity[g.entity] \in EntityRow /\ new \in EntityRow
    BY <2>1, ChangedType DEF GateTypeOK
  <2>3. /\ entity[g.entity].value \in Value /\ new.value \in Value
        /\ entity[g.entity].active \in BOOLEAN /\ new.active \in BOOLEAN
    BY <2>2 DEF EntityRow
  <2> HIDE DEF new
  <2>4. row \in EntityRow
    <3>1. Flush(entity[g.entity].value, g.seen.value, new.value) \in Value
      BY <2>3 DEF Flush
    <3>2. Flush(entity[g.entity].active, g.seen.active, new.active) \in BOOLEAN
      BY <2>3 DEF Flush
    <3> QED BY <3>1, <3>2 DEF EntityRow
  <2>5. entity' = [entity EXCEPT ![g.entity] = row]
        /\ greq' = [greq EXCEPT ![c] = Idle]
    BY <1>1, <2>1 DEF DirectWrite, GateTypeOK, new
  <2> HIDE DEF row
  <2> QED BY <2>1, <2>4, <2>5 DEF GateTypeOK
<1>2. ASSUME NEW e \in Entities, Restore(c, e) PROVE GateTypeOK'
  <2>1. [entity[e] EXCEPT !.active = TRUE] \in EntityRow
    BY DEF GateTypeOK, EntityRow
  <2> QED BY <1>2, <2>1 DEF Restore, GateTypeOK
<1>3. ASSUME NEW e \in Entities, NEW ch \in Changes, DirectRead(c, e, ch)
      PROVE  GateTypeOK'
  <2>1. [op |-> "write", entity |-> e, seen |-> entity[e], change |-> ch]
          \in [op : {"write"}, entity : Entities, seen : EntityRow, change : Changes]
    BY DEF GateTypeOK
  <2> QED BY <1>3, <2>1 DEF DirectRead, GateTypeOK
<1> QED BY <1>1, <1>2, <1>3

LEMMA GateTypeStep ==
  ASSUME GateTypeOK, TypeOK, SeenRows, [GateNext]_gvars
  PROVE  GateTypeOK'
<1>1. CASE GateCrash
  BY <1>1 DEF GateCrash, GateTypeOK
<1>2. CASE UNCHANGED <<entity, greq>>
  BY <1>2 DEF GateTypeOK
<1>3. CASE \E c \in Clients : GateRequests(c) \/ GateTaskSteps(c)
  BY <1>2, <1>3 DEF GateRequests, GateTaskSteps
<1>4. ASSUME NEW c \in Clients, NEW e \in Entities, NEW ch \in Changes,
             NEW u \in Users, OpenChange(c, e, u, ch)
      PROVE  GateTypeOK'
  BY <1>2, <1>4 DEF OpenChange
<1>5. CASE UNCHANGED gvars
  BY <1>2, <1>5 DEF gvars
<1> QED BY <1>1, <1>2, <1>3, <1>4, <1>5, HandlersType, DirectType DEF GateNext

(* However requests interleave, every entity row and direct write keeps its *)
(* type: the value the handler writes is a change on record, never the      *)
(* deletion marker (_apply_* of approval_gate.py).                          *)
THEOREM GateTypeCorrect == GateSpec => []GateTypeOK
<1>1. GateInit => IInv /\ GateTypeOK
  <2>1. GateInit => GateTypeOK
    BY DEF GateInit, GateTypeOK, EntityRow, Value
  <2> QED BY <2>1, InitIInv DEF GateInit
<1>2. IInv /\ GateTypeOK /\ [GateNext]_gvars => IInv' /\ GateTypeOK'
  BY GateStep, NextIInv, GateTypeStep DEF IInv
<1> QED BY <1>1, <1>2, PTL DEF GateSpec

(***************************************************************************)
(* An approved change is in effect.                                        *)
(***************************************************************************)
\* A client serves a request of the service or a direct write, not both.
OneAtATime == \A c \in Clients : req[c] = Idle \/ greq[c] = Idle

\* Between the two commits of a retry, the change of its task is in effect.
Applied ==
  \A c \in Clients :
    req[c].op = "retried" =>
      LET e == req[c].seen.entity
      IN  entity[e] = Changed(entity[e], req[c].seen.change)

GInv == SInv /\ GateTypeOK /\ OneAtATime

\* Writing a change puts it into effect.
LEMMA ChangedOnce ==
  ASSUME NEW row \in EntityRow, NEW ch \in Changes
  PROVE  Changed(row, ch) = Changed(Changed(row, ch), ch)
BY DEF Changed, EntityRow

\* The op of the requests that a step of the service leaves.
LEMMA RetriedBy ==
  ASSUME TypeOK, SeenRows, NEW c \in Clients,
         \/ Submit(c)
         \/ \E t \in TaskIds, u \in Users : Read(c, t, u)
         \/ Write(c) /\ \A ok \in BOOLEAN : ~RetryApply(c, ok)
  PROVE  req'[c].op # "retried"
<1> USE DEF TypeOK
<1>1. ASSUME NEW q, q \in Query, SubmitReads(c, q) PROVE req'[c].op # "retried"
  BY <1>1 DEF SubmitReads, Continue, Idle, Query
<1>2. CASE Submit(c)
  <2>1. ASSUME NEW kind \in Kind, NEW e \in Entities, NEW u \in Users,
               NEW ch \in Changes, SubmitRead(c, kind, e, u, ch)
        PROVE  req'[c].op # "retried"
    <3>1. [op |-> "query", kind |-> kind, entity |-> e, user |-> u, change |-> ch]
            \in Query
      BY DEF Query
    <3> QED BY <1>1, <2>1, <3>1 DEF SubmitRead
  <2>2. CASE EnsureDefaultWorkflow(c)
    <3>1. req[c] \in Query
      BY <2>2, RequestKinds DEF EnsureDefaultWorkflow
    <3> QED BY <2>2, <3>1 DEF EnsureDefaultWorkflow, Query
  <2>3. CASE SubmitAgain(c)
    BY <1>1, <2>3, RequestKinds DEF SubmitAgain
  <2>4. CASE SubmitWrite(c) \/ SubmitFails(c)
    BY <2>4 DEF SubmitWrite, SubmitFails, Continue, Idle
  <2> QED BY <1>2, <2>1, <2>2, <2>3, <2>4 DEF Submit, SubmitDirectly, Kind
<1>3. CASE \E t \in TaskIds, u \in Users : Read(c, t, u)
  BY <1>3 DEF Read, ApproveRead, AutoRead, RejectRead, WithdrawRead,
              ResubmitRead, TransferRead, RetryRead, ReadTask
<1>4. CASE Write(c) /\ \A ok \in BOOLEAN : ~RetryApply(c, ok)
  <2>1. CASE ApproveNext(c)
    BY <2>1 DEF ApproveNext, Continue, Idle
  <2>2. CASE AutoReload(c)
    <3>1. req[c] \in ApproveRequest
      BY <2>2, RequestKinds DEF AutoReload
    <3> QED BY <2>2, <3>1 DEF AutoReload, ApproveRequest, TaskRequest, Idle
  <2>3. CASE req' = [req EXCEPT ![c] = Idle]
    BY <2>3 DEF Idle
  <2> QED BY <1>4, <2>1, <2>2, <2>3
       DEF Write, ClaimFails, Withdraw, Transfer, RetryWrite, ApproveLast, Reject,
           Resubmit
<1> QED BY <1>2, <1>3, <1>4

\* A client that takes a step of the service has a request, and so no direct
\* write.
LEMMA Busy ==
  ASSUME OneAtATime, NEW c \in Clients, GateTaskSteps(c) \/ GateHandlers(c)
  PROVE  greq[c] = Idle
<1>1. req[c].op # "idle"
  <2>1. CASE GateTaskSteps(c)
    BY <2>1
    DEF GateTaskSteps, EnsureDefaultWorkflow, SubmitAgain, SubmitWrite, SubmitFails,
        ClaimFails, Decides, ApproveNext, AutoReload, Withdraw, Transfer, RetryWrite
  <2>2. CASE GateHandlers(c)
    BY <2>2
    DEF GateHandlers, GateDecision, GateResubmit, GateRetry, ApproveLast, Reject,
        Resubmit, RetryApply
  <2> QED BY <2>1, <2>2
<1> QED BY <1>1 DEF OneAtATime, Idle

LEMMA OneAtATimeStep ==
  ASSUME Serial, GInv, [GateNext]_gvars
  PROVE  OneAtATime'
<1> USE DEF GInv, SInv, IInv
<1>1. CASE GateCrash
  BY <1>1 DEF GateCrash, OneAtATime
<1>2. ASSUME NEW c \in Clients, greq'[c] = Idle \/ req'[c] = Idle
      PROVE  OneAtATime'
  BY <1>2 DEF Serial, OneAtATime
<1>3. CASE \E c \in Clients, e \in Entities, u \in Users, ch \in Changes :
             OpenChange(c, e, u, ch)
  BY <1>2, <1>3 DEF OpenChange, Available
<1>4. CASE \E c \in Clients : GateRequests(c)
  BY <1>2, <1>4 DEF GateRequests
<1>5. CASE \E c \in Clients : GateTaskSteps(c) \/ GateHandlers(c)
  BY <1>2, <1>5, Busy DEF GateTaskSteps, GateHandlers
<1>6. CASE \E c \in Clients : DirectWrite(c)
  BY <1>2, <1>6 DEF DirectWrite, GateTypeOK
<1>7. CASE \E c \in Clients, e \in Entities :
             Restore(c, e) \/ \E ch \in Changes : DirectRead(c, e, ch)
  BY <1>2, <1>7 DEF Restore, DirectRead, Available
<1>8. CASE UNCHANGED <<req, greq>>
  BY <1>8 DEF OneAtATime
<1>9. Configure => UNCHANGED req
  BY DEF Configure, CreateWorkflow, UpdateWorkflow, DeleteWorkflow
<1> QED BY <1>1, <1>3, <1>4, <1>5, <1>6, <1>7, <1>8, <1>9 DEF GateNext, gvars

LEMMA AppliedStep ==
  ASSUME Serial, GInv, Applied, [GateNext]_gvars
  PROVE  Applied'
<1> USE DEF GInv, SInv, IInv
<1>1. ASSUME NEW c \in Clients, req'[c].op # "retried" PROVE Applied'
  BY <1>1 DEF Serial, Applied
<1>2. CASE GateCrash
  BY <1>1, <1>2 DEF GateCrash, Idle, Applied
<1>3. CASE \E c \in Clients, e \in Entities, u \in Users, ch \in Changes :
             OpenChange(c, e, u, ch)
  BY <1>1, <1>3, OpenServes, RetriedBy
<1>4. CASE \E c \in Clients : GateRequests(c)
  BY <1>1, <1>4, RequestsServe, RetriedBy
<1>5. ASSUME NEW c \in Clients, Submit(c) \/ Write(c),
             \A ok \in BOOLEAN : ~RetryApply(c, ok)
      PROVE  Applied'
  BY <1>1, <1>5, RetriedBy
<1>6. ASSUME NEW c \in Clients, NEW ok \in BOOLEAN, GateRetry(c, ok)
      PROVE  Applied'
  <2> DEFINE r == req[c]
             e == r.seen.entity
  <2>1. /\ r.op = "retry" /\ e \in Entities /\ r.seen.change \in Changes
    <3>1. HasTask(c)
      BY <1>6 DEF GateRetry, RetryApply, HasTask, TaskOps
    <3> QED BY <1>6, <3>1, SeenTask DEF GateRetry, RetryApply, TaskRow
  <2>2. CASE ok = FALSE
    <3>1. req'[c].op # "retried"
      BY <1>6, <2>2 DEF GateRetry, RetryApply, Idle, TypeOK
    <3> QED BY <1>1, <3>1
  <2>3. CASE ok = TRUE
    <3>1. req'[c].seen = r.seen
      <4>1. r \in RetryRequest
        BY <2>1, RequestKinds
      <4> QED BY <1>6, <2>3, <4>1
           DEF GateRetry, RetryApply, TypeOK, RetryRequest, TaskRequest
    <3>2. entity'[e] = Changed(entity[e], r.seen.change)
      BY <1>6, <2>1, <2>3 DEF GateRetry, ApplyChange, GateTypeOK
    <3>3. entity[e] \in EntityRow
      BY <2>1 DEF GateTypeOK
    <3>4. entity'[e] = Changed(entity'[e], r.seen.change)
      BY <2>1, <3>2, <3>3, ChangedOnce
    <3>5. \A d \in Clients : req'[d].seen = r.seen
      BY <3>1 DEF Serial
    <3> QED BY <3>4, <3>5 DEF Applied
  <2> QED BY <2>2, <2>3
<1>7. ASSUME NEW c \in Clients, GateTaskSteps(c)
      PROVE  Applied'
  <2>1. \A ok \in BOOLEAN : ~RetryApply(c, ok)
    BY <1>7, RequestKinds
    DEF GateTaskSteps, RetryApply, EnsureDefaultWorkflow, SubmitAgain, SubmitWrite,
        SubmitFails, ClaimFails, Decides, ApproveNext, AutoReload, Withdraw,
        Transfer, RetryWrite
  <2> QED BY <1>5, <1>7, <2>1, TaskStepsServe
<1>8. ASSUME NEW c \in Clients, NEW ok \in BOOLEAN,
             GateDecision(c, ok) \/ GateResubmit(c, ok)
      PROVE  Applied'
  <2>1. \A b \in BOOLEAN : ~RetryApply(c, b)
    BY <1>8 DEF GateDecision, GateResubmit, ApproveLast, Reject, Resubmit, RetryApply
  <2>2. Write(c)
    BY <1>8 DEF GateDecision, GateResubmit, Write
  <2> QED BY <1>5, <2>1, <2>2
<1>9. CASE \E c \in Clients : DirectWrite(c)
  <2>1. PICK c \in Clients : DirectWrite(c)
    BY <1>9
  <2>2. req'[c].op # "retried"
    BY <2>1 DEF DirectWrite, OneAtATime, Idle
  <2> QED BY <1>1, <2>2
<1>10. CASE \E c \in Clients, e \in Entities :
              Restore(c, e) \/ \E ch \in Changes : DirectRead(c, e, ch)
  <2>1. PICK c \in Clients : Available(c) /\ req' = req
    BY <1>10 DEF Restore, DirectRead
  <2>2. req'[c].op # "retried"
    BY <2>1 DEF Available, Idle
  <2> QED BY <1>1, <2>2
<1>11. CASE UNCHANGED <<req, entity>>
  BY <1>11 DEF Applied
<1>12. Configure => UNCHANGED req
  BY DEF Configure, CreateWorkflow, UpdateWorkflow, DeleteWorkflow
<1> QED BY <1>2, <1>3, <1>4, <1>6, <1>7, <1>8, <1>9, <1>10, <1>11, <1>12
     DEF GateNext, GateHandlers, gvars

\* A task gets approved by the last approval, whose handler writes its change,
\* or by a retry, whose handler has written it.
LEMMA EffectStep ==
  ASSUME GInv, Applied, [GateNext]_gvars, NEW t \in TaskIds, Exists(t),
         task[t].status # "approved", task'[t].status = "approved",
         NEW e, e = task[t].entity
  PROVE  entity'[e] = Changed(entity'[e], task[t].change)
<1> USE DEF GInv, SInv, IInv
<1> DEFINE Effect == entity'[e] = Changed(entity'[e], task[t].change)
<1>0. /\ e \in Entities /\ task[t].change \in Changes
      /\ entity[e] \in EntityRow
  BY TaskRows DEF TaskRow, GateTypeOK
<1>1. ASSUME NEW c \in Clients, HasTask(c)
      PROVE  req[c].seen.entity = task[req[c].id].entity
  BY <1>1 DEF SeenRows
<1>2. ASSUME NEW c \in Clients, NEW ok \in BOOLEAN, GateDecision(c, ok)
      PROVE  Effect
  <2>1. ~Reject(c, ok)
    BY StatusWritten DEF Outcome, ApplyFailed
  <2>2. ApproveLast(c, ok) /\ req[c].id = t /\ HasTask(c)
    BY <1>2, <2>1, StatusWritten DEF GateDecision, ApproveLast, HasTask, TaskOps
  <2>3. ok = TRUE
    BY <2>2, StatusWritten DEF Outcome, ApplyFailed
  <2>4. entity' = [entity EXCEPT ![e] = Changed(@, task[t].change)]
    BY <1>1, <1>2, <2>2, <2>3 DEF GateDecision, ApplyChange
  <2>5. entity'[e] = Changed(entity[e], task[t].change)
    BY <1>0, <2>4 DEF GateTypeOK
  <2> QED BY <1>0, <2>5, ChangedOnce
<1>3. ASSUME NEW c \in Clients, RetryWrite(c), entity' = entity
      PROVE  Effect
  <2>1. /\ req[c].id = t
        /\ HasTask(c) /\ req[c].op = "retried"
    BY <1>3, StatusWritten DEF RetryWrite, HasTask, TaskOps
  <2>2. req[c].seen = task[t]
    BY <2>1 DEF Fresh, UpToDate, WritingOps
  <2> QED BY <1>3, <2>1, <2>2 DEF Applied
<1>4. ASSUME NEW c \in Clients, NEW ok \in BOOLEAN,
             GateResubmit(c, ok) \/ GateRetry(c, ok)
      PROVE  FALSE
  BY <1>4, StatusKept, StatusWritten DEF GateResubmit, GateRetry, Outcome, ApplyFailed
<1>5. ASSUME NEW c \in Clients, GateTaskSteps(c)
      PROVE  Effect
  <2>1. ~Withdraw(c)
    BY StatusWritten
  <2>2. RetryWrite(c) /\ entity' = entity
    BY <1>5, <2>1, StatusKept DEF GateTaskSteps, Submit
  <2> QED BY <1>3, <2>2
<1>6. ASSUME NEW c \in Clients, GateRequests(c) PROVE FALSE
  BY <1>6, RequestsServe, StatusKept
<1>7. ASSUME NEW c \in Clients, NEW d \in Entities, NEW u \in Users,
             NEW ch \in Changes, OpenChange(c, d, u, ch)
      PROVE  FALSE
  BY <1>7, OpenServes, StatusKept
<1>8. ~UNCHANGED task
  OBVIOUS
<1>9. ~(Configure \/ GateCrash \/ UNCHANGED gvars)
  BY <1>8 DEF Configure, CreateWorkflow, UpdateWorkflow, DeleteWorkflow, GateCrash,
              gvars
<1>10. \A c \in Clients :
         /\ ~DirectWrite(c)
         /\ \A d \in Entities : /\ ~Restore(c, d)
                                /\ \A ch \in Changes : ~DirectRead(c, d, ch)
  BY <1>8 DEF DirectWrite, Restore, DirectRead
<1> HIDE DEF Effect
<1>11. Effect
  BY <1>2, <1>4, <1>5, <1>6, <1>7, <1>9, <1>10 DEF GateNext, GateHandlers
<1> QED BY <1>11 DEF Effect

(* When requests do not overlap, the step that makes a task "approved"      *)
(* leaves its entity as the change demands, for any number of entities and  *)
(* changes: whether the first write-back raised, the backend died between   *)
(* the two commits of a retry, or the entity was changed meanwhile          *)
(* (apply_entity_change, retry_apply_entity_change).                        *)
THEOREM ApprovalTakesEffect ==
  ASSUME Serial
  PROVE  GateSpec => ApprovedChangeInEffect
<1>1. GateInit => GInv /\ Applied
  <2> SUFFICES ASSUME GateInit PROVE GInv /\ Applied
    OBVIOUS
  <2>1. SInv
    BY InitSInv DEF GateInit
  <2>2. GateTypeOK
    BY DEF GateInit, GateTypeOK, EntityRow, Value
  <2>3. OneAtATime /\ Applied
    BY DEF GateInit, Init, OneAtATime, Applied, Idle
  <2> QED BY <2>1, <2>2, <2>3 DEF GInv
<1>2. GInv /\ Applied /\ [GateNext]_gvars => GInv' /\ Applied'
  <2> SUFFICES ASSUME GInv, Applied, [GateNext]_gvars PROVE GInv' /\ Applied'
    OBVIOUS
  <2>1. SInv'
    BY GateStep, NextSInv DEF GInv, SInv, IInv
  <2>2. GateTypeOK'
    BY GateTypeStep DEF GInv, SInv, IInv
  <2> QED BY <2>1, <2>2, OneAtATimeStep, AppliedStep DEF GInv
<1>3. GInv /\ Applied /\ [GateNext]_gvars =>
        [\A t \in TaskIds :
           /\ Exists(t)
           /\ task[t].status # "approved"
           /\ task'[t].status = "approved"
           => LET e == task[t].entity IN
              entity'[e] = Changed(entity'[e], task[t].change)]_gvars
  BY EffectStep
<1> QED BY <1>1, <1>2, <1>3, PTL DEF GateSpec, ApprovedChangeInEffect
=============================================================================
