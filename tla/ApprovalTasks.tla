--------------------------- MODULE ApprovalTasks ---------------------------
(***************************************************************************)
(* The multi-level approval workflow service of                            *)
(* backend/app/services/approval_workflow_service.py.                      *)
(*                                                                         *)
(* A request is served by a thread of the web server and reaches the       *)
(* database in two steps: it reads the rows it needs outside any           *)
(* transaction (pysqlite opens one only at the first write), then writes   *)
(* and commits.  A client c is such a thread: the XxxRead action is the    *)
(* read with the early returns it decides, the XxxWrite action is the      *)
(* transaction.  A write through the ORM updates by primary key only the   *)
(* columns whose value differs from the one that was read, so what a       *)
(* request read stays with it (req[c].seen).  approve and reject instead   *)
(* claim the row with a conditional UPDATE.                                *)
(*                                                                         *)
(* The business entity a task is about is left to the modules that extend  *)
(* this one: here its apply handler is a step that succeeds or raises.     *)
(***************************************************************************)
EXTENDS Integers, Sequences, FiniteSets

CONSTANTS
  Clients,     \* threads that serve requests
  Users,       \* users of the system
  Superusers,  \* users whose requests skip the check of the assigned approver
  NoUser,      \* the NULL of current_approver_id
  Entities,    \* entities of one entity type
  Changes,     \* values of change_data
  NoChange,    \* a resubmission that sends no change_data
  Workflows,   \* rows of approval_workflows that may ever exist
  Chain,       \* Chain[w]: the approver of each node of w, first level first
  FailOn,      \* statuses at which the apply handler of the entity may raise
  MaxTasks,    \* bound: tasks ever created
  MaxRecords   \* bound: a task with this many records gets no further request

ASSUME ParamAssumption ==
  /\ Superusers \subseteq Users
  /\ NoUser \notin Users
  /\ NoChange \notin Changes
  /\ Chain \in [Workflows -> Seq(Users \cup {NoUser}) \ {<<>>}]
  /\ FailOn \subseteq {"pending", "approved", "rejected"}
  /\ MaxTasks \in Nat
  /\ MaxRecords \in Nat

VARIABLES
  workflow,    \* approval_workflows: "absent", "active" or "inactive"
  task,        \* approval_tasks, by id
  record,      \* approval_records of each task, oldest first
  req          \* what each client is doing

vars == <<workflow, task, record, req>>

(***************************************************************************)
(* Rows and requests.                                                      *)
(***************************************************************************)
TaskIds == 1..MaxTasks
Approver == Users \cup {NoUser}

\* The status a task gets when its final write-back to the entity raised.
ApplyFailed == [approved |-> "approved_apply_failed",
                rejected |-> "rejected_apply_failed",
                pending  |-> "pending_apply_failed"]

\* The status a retried write-back restores: the suffix is cut off.
Restored == [approved_apply_failed |-> "approved",
             rejected_apply_failed |-> "rejected",
             pending_apply_failed  |-> "pending"]

FailedStatus == DOMAIN Restored
Status == {"pending", "approved", "rejected", "withdrawn"} \cup FailedStatus

\* level is only bounded by the chain of the task's own workflow.
TaskRow == [status : Status, level : Nat \ {0}, approver : Approver,
            entity : Entities, submitter : Users, change : Changes,
            wf : Workflows]
NoTask == [status |-> "absent"]

Record == [level : Nat \ {0}, by : Users,
           action : {"approve", "reject", "transfer", "resubmit"}]

Idle == [op |-> "idle"]

\* POST /approval/submit is "direct"; the business modules ("business") and
\* /submit-auto ("auto") create a default workflow when there is none.
Kind == {"direct", "business", "auto"}
Query == [op : {"query", "ensure", "again"}, kind : Kind, entity : Entities,
          user : Users, change : Changes]
Insert == [op : {"insert"}, kind : Kind, entity : Entities,
           user : Users, change : Changes, wf : Workflows]

\* Requests on a task: seen is the row the request read.  arg of an approval
\* says how many more levels the request goes on to approve.
TaskRequest(ops, rows, args) ==
  [op : ops, id : TaskIds, user : Users, seen : rows, arg : args]
ApproveRequest == TaskRequest({"approve", "reload"}, TaskRow, Int)
PlainRequest == TaskRequest({"reject", "withdraw"}, TaskRow, {NoUser})
ResubmitRequest == TaskRequest({"resubmit"}, TaskRow, Changes \cup {NoChange})
TransferRequest == TaskRequest({"transfer"}, TaskRow, Users)
RetryRequest ==
  TaskRequest({"retry", "retried"},
              {row \in TaskRow : row.status \in FailedStatus}, {NoUser})

Request == {Idle} \cup Query \cup Insert \cup ApproveRequest \cup PlainRequest
             \cup ResubmitRequest \cup TransferRequest \cup RetryRequest

WhilePending == -1
Left(rounds) == IF rounds = WhilePending THEN rounds ELSE rounds - 1

Exists(t) == task[t] # NoTask
LastLevelOffByOne(w) == Len(Chain[w]) - 1           \* mutant
LastLevel(w) == Len(Chain[w])
Active == {w \in Workflows : workflow[w] = "active"}

PendingOf(e) == {t \in TaskIds : Exists(t) /\ task[t].entity = e
                                           /\ task[t].status = "pending"}
Newest(e, t) == t \in PendingOf(e) /\ \A u \in PendingOf(e) : u <= t

Init ==
  /\ workflow = [w \in Workflows |-> "absent"]
  /\ task = [t \in TaskIds |-> NoTask]
  /\ record = [t \in TaskIds |-> <<>>]
  /\ req = [c \in Clients |-> Idle]

(***************************************************************************)
(* Workflow configuration.                                                 *)
(***************************************************************************)
CreateWorkflow(w) ==
  /\ workflow[w] = "absent"
  /\ workflow' = [workflow EXCEPT ![w] = "active"]
  /\ UNCHANGED <<task, record, req>>

\* update_workflow with is_active: the nodes of a workflow never change.
UpdateWorkflow(w) ==
  /\ workflow[w] # "absent"
  /\ workflow' = [workflow EXCEPT ![w] =
                    IF @ = "active" THEN "inactive" ELSE "active"]
  /\ UNCHANGED <<task, record, req>>

\* The ORM sets workflow_id of the workflow's tasks to NULL before it deletes
\* the workflow; the column is NOT NULL, so the delete of a used workflow
\* rolls back.
DeleteWorkflow(w) ==
  /\ workflow[w] # "absent"
  /\ \A t \in TaskIds : Exists(t) => task[t].wf # w
  /\ workflow' = [workflow EXCEPT ![w] = "absent"]
  /\ UNCHANGED <<task, record, req>>

(***************************************************************************)
(* submit_approval: nothing is created when the newest pending task of the *)
(* entity carries the same change, or when no workflow is active.          *)
(***************************************************************************)
AlreadyPending(e, ch, t) == Newest(e, t) /\ task[t].change = ch
NewContent(e, ch) == \A t \in TaskIds : ~AlreadyPending(e, ch, t)

\* What a client does once a task is committed: the requests that approve
\* several levels read it again, the others answer.
Continue(c, rounds, t, u, row) ==
  req' = [req EXCEPT ![c] =
            IF rounds = 0 THEN Idle
            ELSE [op |-> "reload", id |-> t, user |-> u, seen |-> row,
                  arg |-> rounds]]

\* submit_and_auto_approve makes one approval for each level of the workflow.
Rounds(kind, w) == IF kind = "auto" THEN Len(Chain[w]) ELSE 0

\* The reads of submit_approval, for the query q of the client.
SubmitReads(c, q) ==
  /\ \/ \E t \in TaskIds :
          /\ AlreadyPending(q.entity, q.change, t)
          /\ Continue(c, Rounds(q.kind, task[t].wf), t, q.user, task[t])
     \/ /\ NewContent(q.entity, q.change)
        /\ \E w \in Active :
             req' = [req EXCEPT ![c] =
                       [op |-> "insert", kind |-> q.kind, entity |-> q.entity,
                        user |-> q.user, change |-> q.change, wf |-> w]]
     \/ /\ NewContent(q.entity, q.change)
        /\ Active = {}
        /\ req' = [req EXCEPT ![c] = IF q.kind = "direct" \/ q.op = "again"
                                    THEN Idle ELSE [q EXCEPT !.op = "ensure"]]
  /\ UNCHANGED <<workflow, task, record>>

\* Bound: there is an id left for the task.
HasRoom ==
  Cardinality({t \in TaskIds : Exists(t)})
    + Cardinality({c \in Clients : req[c].op \in {"ensure", "again", "insert"}})
  < MaxTasks

SubmitRead(c, kind, e, u, ch) ==
  /\ req[c] = Idle
  /\ HasRoom
  /\ SubmitReads(c, [op |-> "query", kind |-> kind, entity |-> e, user |-> u,
                     change |-> ch])

\* ensure_default_workflow: a workflow whose only node has no approver, unless
\* some workflow is active by now.
EnsureDefaultWorkflow(c) ==
  /\ req[c].op = "ensure"
  /\ IF Active # {} THEN UNCHANGED workflow
     ELSE \E w \in Workflows :
            /\ workflow[w] = "absent"
            /\ Chain[w] = <<NoUser>>
            /\ workflow' = [workflow EXCEPT ![w] = "active"]
  /\ req' = [req EXCEPT ![c].op = "again"]
  /\ UNCHANGED <<task, record>>

SubmitAgain(c) ==
  /\ req[c].op = "again"
  /\ SubmitReads(c, req[c])

\* Mutant: levels counted from 0.
NewTaskLevel0(r) == [status |-> "pending", level |-> 0,
                     approver |-> Chain[r.wf][1], entity |-> r.entity,
                     submitter |-> r.user, change |-> r.change, wf |-> r.wf]

NewTask(r) == [status |-> "pending", level |-> 1, approver |-> Chain[r.wf][1],
               entity |-> r.entity, submitter |-> r.user, change |-> r.change,
               wf |-> r.wf]

SubmitWrite(c) ==
  LET r == req[c] IN
  /\ r.op = "insert"
  /\ workflow[r.wf] # "absent"
  /\ \E t \in TaskIds :
       /\ \A u \in TaskIds : Exists(u) <=> u < t     \* AUTOINCREMENT
       /\ task' = [task EXCEPT ![t] = NewTask(r)]
       /\ Continue(c, Rounds(r.kind, r.wf), t, r.user, NewTask(r))
  /\ UNCHANGED <<workflow, record>>

\* The INSERT breaks the foreign key: the request answers 500.
SubmitFails(c) ==
  /\ req[c].op = "insert"
  /\ workflow[req[c].wf] = "absent"
  /\ req' = [req EXCEPT ![c] = Idle]
  /\ UNCHANGED <<workflow, task, record>>

(***************************************************************************)
(* The read half of the requests on a task.                                *)
(***************************************************************************)
ReadTask(c, op, t, u, arg) ==
  /\ req[c] = Idle
  /\ req' = [req EXCEPT ![c] = [op |-> op, id |-> t, user |-> u,
                                seen |-> task[t], arg |-> arg]]
  /\ UNCHANGED <<workflow, task, record>>

\* Mutant: an unassigned task is anyone's.
MayDecideUnassigned(t, u, standalone) ==
  standalone \/ task[t].approver \in {NoUser, u}

\* approve_task and reject_task fail closed on a task without approver.
MayDecide(t, u, standalone) ==
  standalone \/ task[t].approver = u

ApproveRead(c, t, u, standalone) ==
  /\ task[t].status = "pending"
  /\ MayDecide(t, u, standalone)
  /\ ReadTask(c, "approve", t, u, 0)

\* auto_approve_single_task: approve_task while the task is pending, standalone.
AutoRead(c, t, u) ==
  /\ task[t].status = "pending"
  /\ ReadTask(c, "approve", t, u, WhilePending)

\* The next round of that loop, or of the one of submit_and_auto_approve.
AutoReload(c) ==
  LET r == req[c] IN
  /\ r.op = "reload"
  /\ req' = [req EXCEPT ![c] =
               IF task[r.id].status = "pending"
               THEN [r EXCEPT !.op = "approve", !.seen = task[r.id],
                              !.arg = Left(@)]
               ELSE Idle]
  /\ UNCHANGED <<workflow, task, record>>

RejectRead(c, t, u, standalone) ==
  /\ task[t].status = "pending"
  /\ MayDecide(t, u, standalone)
  /\ ReadTask(c, "reject", t, u, NoUser)

WithdrawRead(c, t, u) ==
  /\ task[t].status = "pending"
  /\ task[t].submitter = u
  /\ ReadTask(c, "withdraw", t, u, NoUser)

ResubmitRead(c, t, u, ch) ==
  /\ task[t].status \in {"rejected", "withdrawn"}
  /\ task[t].submitter = u
  /\ ReadTask(c, "resubmit", t, u, ch)

\* Unlike a decision, a transfer of an unassigned task is anyone's.
TransferRead(c, t, u, to, standalone) ==
  /\ task[t].status = "pending"
  /\ standalone \/ task[t].approver \in {NoUser, u}
  /\ ReadTask(c, "transfer", t, u, to)

RetryRead(c, t, u) ==
  /\ task[t].status \in FailedStatus
  /\ ReadTask(c, "retry", t, u, NoUser)

(***************************************************************************)
(* The write half.  ok: the apply handler of the entity, if it is called,  *)
(* does not raise.                                                         *)
(***************************************************************************)
Outcome(s, ok) == IF ok THEN s ELSE ApplyFailed[s]
MayApply(s, ok) == ok \/ s \in FailOn

Log(t, level, u, action) ==
  record' = [record EXCEPT ![t] =
               Append(@, [level |-> level, by |-> u, action |-> action])]

\* Mutant: the claim does not compare the level.
ClaimsAnyLevel(c) == task[req[c].id].status = "pending"

\* UPDATE ... WHERE status = 'pending' AND current_level = <level read>
Claims(c) ==
  /\ task[req[c].id].status = "pending"
  /\ task[req[c].id].level = req[c].seen.level

Decides(c) == req[c].op \in {"approve", "reject"}

\* The claim matches no row: another request was first.
ClaimFails(c) ==
  /\ Decides(c)
  /\ ~Claims(c)
  /\ req' = [req EXCEPT ![c] = Idle]
  /\ UNCHANGED <<workflow, task, record>>

\* approve_task below the last level.
ApproveNext(c) ==
  LET r == req[c]
      next == r.seen.level + 1
  IN
  /\ r.op = "approve"
  /\ Claims(c)
  /\ next <= LastLevel(r.seen.wf)
  /\ task' = [task EXCEPT ![r.id].level = next,
                          ![r.id].approver = Chain[r.seen.wf][next]]
  /\ Log(r.id, r.seen.level, r.user, "approve")
  /\ Continue(c, r.arg, r.id, r.user, r.seen)
  /\ UNCHANGED workflow

\* approve_task at the last level: the entity is written in a savepoint of the
\* same transaction.
ApproveLast(c, ok) ==
  LET r == req[c] IN
  /\ r.op = "approve"
  /\ Claims(c)
  /\ r.seen.level >= LastLevel(r.seen.wf)
  /\ MayApply("approved", ok)
  /\ task' = [task EXCEPT ![r.id].status = Outcome("approved", ok)]
  /\ Log(r.id, r.seen.level, r.user, "approve")
  /\ req' = [req EXCEPT ![c] = Idle]
  /\ UNCHANGED workflow

Reject(c, ok) ==
  LET r == req[c] IN
  /\ r.op = "reject"
  /\ Claims(c)
  /\ MayApply("rejected", ok)
  /\ task' = [task EXCEPT ![r.id].status = Outcome("rejected", ok)]
  /\ Log(r.id, r.seen.level, r.user, "reject")
  /\ req' = [req EXCEPT ![c] = Idle]
  /\ UNCHANGED workflow

\* No claim: the row is written whatever its status is by now.
Withdraw(c) ==
  /\ req[c].op = "withdraw"
  /\ task' = [task EXCEPT ![req[c].id].status = "withdrawn"]
  /\ req' = [req EXCEPT ![c] = Idle]
  /\ UNCHANGED <<workflow, record>>

\* The value of a column after an ORM write of new by a request that read old.
Flush(current, old, new) == IF new = old THEN current ELSE new

\* Mutant: the level is not reset.
ResubmitKeepsLevel(c, ok) ==
  LET r == req[c]
      change == IF r.arg = NoChange THEN r.seen.change ELSE r.arg
  IN
  /\ r.op = "resubmit"
  /\ MayApply("pending", ok)
  /\ task' = [task EXCEPT
       ![r.id].status = Outcome("pending", ok),
       ![r.id].change = Flush(@, r.seen.change, change),
       ![r.id].approver = Flush(@, r.seen.approver, Chain[r.seen.wf][1])]
  /\ Log(r.id, 1, r.user, "resubmit")
  /\ req' = [req EXCEPT ![c] = Idle]
  /\ UNCHANGED workflow

\* Mutant: the task is not given back to the first approver.
ResubmitKeepsApprover(c, ok) ==
  LET r == req[c]
      change == IF r.arg = NoChange THEN r.seen.change ELSE r.arg
  IN
  /\ r.op = "resubmit"
  /\ MayApply("pending", ok)
  /\ task' = [task EXCEPT
       ![r.id].status = Outcome("pending", ok),
       ![r.id].level = Flush(@, r.seen.level, 1),
       ![r.id].change = Flush(@, r.seen.change, change)]
  /\ Log(r.id, 1, r.user, "resubmit")
  /\ req' = [req EXCEPT ![c] = Idle]
  /\ UNCHANGED workflow

Resubmit(c, ok) ==
  LET r == req[c]
      change == IF r.arg = NoChange THEN r.seen.change ELSE r.arg
  IN
  /\ r.op = "resubmit"
  /\ MayApply("pending", ok)
  /\ task' = [task EXCEPT
       ![r.id].status = Outcome("pending", ok),
       ![r.id].level = Flush(@, r.seen.level, 1),
       ![r.id].change = Flush(@, r.seen.change, change),
       ![r.id].approver = Flush(@, r.seen.approver, Chain[r.seen.wf][1])]
  /\ Log(r.id, 1, r.user, "resubmit")
  /\ req' = [req EXCEPT ![c] = Idle]
  /\ UNCHANGED workflow

Transfer(c) ==
  LET r == req[c] IN
  /\ r.op = "transfer"
  /\ task' = [task EXCEPT ![r.id].approver = Flush(@, r.seen.approver, r.arg)]
  /\ Log(r.id, r.seen.level, r.user, "transfer")
  /\ req' = [req EXCEPT ![c] = Idle]
  /\ UNCHANGED workflow

\* retry_apply_entity_change: the savepoint of the handler is the outermost
\* transaction here, its release commits the entity before the status is
\* written.  The handler sees the task with its *_apply_failed status.
RetryApply(c, ok) ==
  LET r == req[c] IN
  /\ r.op = "retry"
  /\ MayApply(Restored[r.seen.status], ok)
  /\ req' = [req EXCEPT ![c] = IF ok THEN [r EXCEPT !.op = "retried"] ELSE Idle]
  /\ UNCHANGED <<workflow, task, record>>

RetryWrite(c) ==
  LET r == req[c] IN
  /\ r.op = "retried"
  /\ task' = [task EXCEPT ![r.id].status = Restored[r.seen.status]]
  /\ req' = [req EXCEPT ![c] = Idle]
  /\ UNCHANGED <<workflow, record>>

\* The backend process dies; what was committed stays.
Crash ==
  /\ \E c \in Clients : req[c] # Idle
  /\ req' = [c \in Clients |-> Idle]
  /\ UNCHANGED <<workflow, task, record>>

(***************************************************************************)
(* Next-state relation.                                                    *)
(***************************************************************************)
Configure ==
  \E w \in Workflows :
    CreateWorkflow(w) \/ UpdateWorkflow(w) \/ DeleteWorkflow(w)

\* POST /approval/submit, and /submit-auto, which is for superusers.
SubmitDirectly(c, e, u, ch) ==
  \/ SubmitRead(c, "direct", e, u, ch)
  \/ u \in Superusers /\ SubmitRead(c, "auto", e, u, ch)

Submit(c) ==
  \/ \E e \in Entities, u \in Users, ch \in Changes :
       SubmitDirectly(c, e, u, ch) \/ SubmitRead(c, "business", e, u, ch)
  \/ EnsureDefaultWorkflow(c)
  \/ SubmitAgain(c)
  \/ SubmitWrite(c)
  \/ SubmitFails(c)

Read(c, t, u) ==
  LET super == u \in Superusers IN
  \/ ApproveRead(c, t, u, super)
  \/ super /\ AutoRead(c, t, u)
  \/ RejectRead(c, t, u, super)
  \/ WithdrawRead(c, t, u)
  \/ \E ch \in Changes \cup {NoChange} : ResubmitRead(c, t, u, ch)
  \/ \E to \in Users : TransferRead(c, t, u, to, super)
  \/ super /\ RetryRead(c, t, u)

Write(c) ==
  \/ ClaimFails(c)
  \/ ApproveNext(c)
  \/ Withdraw(c)
  \/ Transfer(c)
  \/ AutoReload(c)
  \/ RetryWrite(c)
  \/ \E ok \in BOOLEAN :
       ApproveLast(c, ok) \/ Reject(c, ok) \/ Resubmit(c, ok) \/ RetryApply(c, ok)

Next ==
  \/ Configure
  \/ Crash
  \/ \E c \in Clients :
       \/ Submit(c)
       \/ Write(c)
       \/ \E t \in TaskIds, u \in Users :
            Exists(t) /\ Len(record[t]) < MaxRecords /\ Read(c, t, u)

Spec == Init /\ [][Next]_vars

(* Every row and request has its type. *)
TypeOK ==
  /\ workflow \in [Workflows -> {"absent", "active", "inactive"}]
  /\ task \in [TaskIds -> TaskRow \cup {NoTask}]
  /\ record \in [TaskIds -> Seq(Record)]
  /\ req \in [Clients -> Request]

(***************************************************************************)
(* Properties.                                                             *)
(***************************************************************************)
Decision(r) == r.action \in {"approve", "reject"}
Approved == {"approved", "approved_apply_failed"}

\* A round of a task starts with its submission or a resubmission.
SameRound(t, i, j) ==
  \A k \in i..j : record[t][k].action # "resubmit"

(* Concurrent or replayed approve and reject requests never decide the same *)
(* level of a round twice: the conditional UPDATE lets one of them through  *)
(* and only that one leaves a record (approve_task, reject_task).           *)
OneDecisionPerLevel ==
  \A t \in TaskIds : \A i, j \in 1..Len(record[t]) :
    /\ i < j
    /\ Decision(record[t][i])
    /\ Decision(record[t][j])
    /\ SameRound(t, i, j)
    => record[t][i].level < record[t][j].level

(* However requests interleave, a task ends approved only when an approval  *)
(* of every level of its workflow is on record.                             *)
ApprovedAtEveryLevel ==
  \A t \in TaskIds :
    Exists(t) /\ task[t].status \in Approved =>
      \A l \in 1..Len(Chain[task[t].wf]) :
        \E i \in 1..Len(record[t]) :
          record[t][i].action = "approve" /\ record[t][i].level = l

(* The service implements the ledger of approvals: however requests         *)
(* interleave, fail and crash, each step signs at most one level of one     *)
(* task, in order, no signature is lost, and a task becomes approved only   *)
(* when every level has signed (approve_task, resubmit_approval,            *)
(* retry_apply_entity_change).                                              *)
Signed(t) ==
  {record[t][i].level : i \in {j \in 1..Len(record[t]) : record[t][j].action = "approve"}}

Ledger == INSTANCE ApprovalLedger WITH
  Tasks <- TaskIds,
  Lengths <- {Len(Chain[w]) : w \in Workflows},
  needs <- [t \in TaskIds |-> IF Exists(t) THEN Len(Chain[task[t].wf]) ELSE 0],
  signed <- [t \in TaskIds |-> Signed(t)],
  granted <- {t \in TaskIds : Exists(t) /\ task[t].status \in Approved}

ImplementsLedger == Ledger!LedgerSpec

(* When requests do not overlap, those approvals all come after the last    *)
(* resubmission: resubmit_approval starts over at the first level.          *)
ApprovedInThisRound ==
  \A t \in TaskIds :
    Exists(t) /\ task[t].status \in Approved =>
      \A l \in 1..Len(Chain[task[t].wf]) :
        \E i \in 1..Len(record[t]) :
          /\ record[t][i].action = "approve"
          /\ record[t][i].level = l
          /\ SameRound(t, i, Len(record[t]))

(* When requests do not overlap, a level is decided by the approver the     *)
(* task is assigned to at that moment, transfers included, or by a          *)
(* superuser.                                                               *)
DecidedByAssignee ==
  [][\A t \in TaskIds :
       LET r == record'[t][Len(record'[t])] IN
       record'[t] # record[t] /\ Decision(r) =>
         r.by \in Superusers \/ r.by = task[t].approver]_vars

\* The level that record i decides was transferred before, by record j.
Transferred(t, i, j) ==
  /\ record[t][j].action = "transfer"
  /\ record[t][j].level = record[t][i].level
  /\ SameRound(t, j, i)

(* When requests do not overlap, a level is decided by the approver the     *)
(* workflow names for it, by a superuser, or after a transfer of that level *)
(* in the same round: neither the next level nor a resubmission leaves a    *)
(* task with somebody an earlier level or round was transferred to          *)
(* (approve_task, transfer_task, resubmit_approval).                        *)
LevelOwnersDecide ==
  \A t \in TaskIds : Exists(t) =>
    \A i \in 1..Len(record[t]) : Decision(record[t][i]) =>
      \/ record[t][i].by \in Superusers
      \/ record[t][i].by = Chain[task[t].wf][record[t][i].level]
      \/ \E j \in 1..(i - 1) : Transferred(t, i, j)

(* A withdrawal takes effect on a pending task only (withdraw_task; the     *)
(* user manual, docs/02-用户手册/审批管理操作流程.md:31).                    *)
WithdrawOnlyPending ==
  [][\A t \in TaskIds :
       task'[t].status = "withdrawn" =>
         task[t].status \in {"pending", "withdrawn"}]_vars
=============================================================================
