------------------------ MODULE ApprovalTasks_proofs ------------------------
(***************************************************************************)
(* Proofs about ApprovalTasks for every value of its constants.            *)
(*                                                                         *)
(* A request writes what it decided from a row read earlier, so the        *)
(* invariant speaks of the rows in flight too: IInv is inductive.          *)
(* StepEffect reduces the actions to six kinds of step on one task (Opens, *)
(* Advances, Approves, Rejects, Reopens, Amends); the rest of the proof    *)
(* only looks at those.  DInv adds what OneDecisionPerLevel needs, LInv    *)
(* what the refinement of ApprovalLedger needs.                            *)
(***************************************************************************)
EXTENDS ApprovalTasks, TLAPS

(***************************************************************************)
(* The inductive invariant.                                                *)
(***************************************************************************)
TaskOps == {"approve", "reload", "reject", "withdraw", "resubmit", "transfer",
            "retry", "retried"}
HasTask(c) == req[c].op \in TaskOps

\* A request is about a task that exists, whose workflow and entity never change.
SeenRows ==
  \A c \in Clients :
    HasTask(c) => /\ Exists(req[c].id)
                  /\ req[c].seen.wf = task[req[c].id].wf
                  /\ req[c].seen.entity = task[req[c].id].entity

\* An approval of each of the first n levels is on record.
Climbed(t, n) ==
  \A l \in 1..n : \E i \in 1..Len(record[t]) :
    record[t][i].action = "approve" /\ record[t][i].level = l

\* The levels below the current one are approved, also after a resubmission.
LevelsClimbed == \A t \in TaskIds : Exists(t) => Climbed(t, task[t].level - 1)

\* A task that is approved has them all.
ApprovedClimbed ==
  \A t \in TaskIds : Exists(t) /\ task[t].status \in Approved =>
                       Climbed(t, Len(Chain[task[t].wf]))

\* A retry that read a failed approval makes the task approved later.
RetryClimbed ==
  \A c \in Clients :
    HasTask(c) /\ req[c].seen.status = "approved_apply_failed" =>
      Climbed(req[c].id, Len(Chain[req[c].seen.wf]))

IInv == TypeOK /\ SeenRows /\ LevelsClimbed /\ ApprovedClimbed /\ RetryClimbed

\* For decisions: no task is pending again without a resubmission on record.
NeverReopened ==
  /\ \A t \in TaskIds : Exists(t) => task[t].status # "pending_apply_failed"
  /\ \A c \in Clients :
       HasTask(c) => req[c].seen.status # "pending_apply_failed"

\* Records belong to tasks.
NoEarlyRecord == \A t \in TaskIds : ~Exists(t) => record[t] = <<>>

\* The decisions of the current round are below the current level.
PendingAbove ==
  \A t \in TaskIds : Exists(t) /\ task[t].status = "pending" =>
    \A i \in 1..Len(record[t]) :
      Decision(record[t][i]) /\ SameRound(t, i, Len(record[t])) =>
        record[t][i].level < task[t].level

DInv == IInv /\ NeverReopened /\ NoEarlyRecord /\ PendingAbove /\ OneDecisionPerLevel

\* Every workflow has a first level, and each level an approver or none.
LEMMA ChainType ==
  ASSUME NEW w \in Workflows
  PROVE  /\ Len(Chain[w]) \in Nat \ {0}
         /\ \A l \in 1..Len(Chain[w]) : Chain[w][l] \in Approver
BY ParamAssumption DEF Approver

\* The op of a request tells which kind of request it is.
LEMMA RequestKinds ==
  ASSUME TypeOK, NEW c \in Clients
  PROVE  /\ req[c].op = "ensure" \/ req[c].op = "again" => req[c] \in Query
         /\ req[c].op = "insert" => req[c] \in Insert
         /\ req[c].op = "approve" \/ req[c].op = "reload" => req[c] \in ApproveRequest
         /\ req[c].op = "reject" \/ req[c].op = "withdraw" => req[c] \in PlainRequest
         /\ req[c].op = "resubmit" => req[c] \in ResubmitRequest
         /\ req[c].op = "transfer" => req[c] \in TransferRequest
         /\ req[c].op = "retry" \/ req[c].op = "retried" => req[c] \in RetryRequest
BY DEF TypeOK, Request, Idle, Query, Insert, TaskRequest, ApproveRequest,
       PlainRequest, ResubmitRequest, TransferRequest, RetryRequest

\* A task that exists is a row.
LEMMA TaskRows ==
  ASSUME TypeOK, NEW t \in TaskIds, Exists(t)
  PROVE  task[t] \in TaskRow
BY DEF TypeOK, Exists

\* A request on a task carries a task, a user and the row it has read.
LEMMA SeenTask ==
  ASSUME TypeOK, NEW c \in Clients, HasTask(c)
  PROVE  /\ req[c].id \in TaskIds
         /\ req[c].user \in Users
         /\ req[c].seen \in TaskRow
BY RequestKinds DEF HasTask, TaskOps, TaskRequest, ApproveRequest,
       PlainRequest, ResubmitRequest, TransferRequest, RetryRequest

(***************************************************************************)
(* What a step does to the tasks and their records.                        *)
(***************************************************************************)
Logged(t, l, a) ==
  \E u \in Users :
    record' = [record EXCEPT ![t] =
                 Append(@, [level |-> l, by |-> u, action |-> a])]

Written(t, row) ==
  /\ Exists(t)
  /\ row \in TaskRow
  /\ row.wf = task[t].wf
  /\ row.entity = task[t].entity
  /\ task' = [task EXCEPT ![t] = row]

Opens(t, row) ==
  /\ ~Exists(t)
  /\ row \in TaskRow
  /\ row.status = "pending"
  /\ row.level = 1
  /\ task' = [task EXCEPT ![t] = row]
  /\ record' = record

Advances(t, row) ==
  /\ Written(t, row)
  /\ task[t].status = "pending"
  /\ row.status = "pending"
  /\ row.level = task[t].level + 1
  /\ row.level <= Len(Chain[row.wf])
  /\ Logged(t, task[t].level, "approve")

Approves(t, row) ==
  /\ Written(t, row)
  /\ task[t].status = "pending"
  /\ task[t].level >= Len(Chain[task[t].wf])
  /\ row.status \in Approved
  /\ row.level = task[t].level
  /\ Logged(t, task[t].level, "approve")

Rejects(t, row) ==
  /\ Written(t, row)
  /\ task[t].status = "pending"
  /\ row.status \in {"rejected", "rejected_apply_failed"}
  /\ row.level = task[t].level
  /\ Logged(t, task[t].level, "reject")

Reopens(t, row) ==
  /\ Written(t, row)
  /\ row.status = "pending" \/ (row.status = "pending_apply_failed"
                                /\ "pending" \in FailOn)
  /\ row.level = 1 \/ row.level = task[t].level
  /\ Logged(t, 1, "resubmit")

\* Withdrawals, transfers, and retries that succeed.
Amends(t, row) ==
  /\ Written(t, row)
  /\ row.level = task[t].level
  /\ \/ row.status \in {task[t].status, "withdrawn"}
     \/ \E c \in Clients : /\ req[c].op = "retried"
                           /\ req[c].id = t
                           /\ row.status = Restored[req[c].seen.status]
  /\ record' = record \/ \E l \in Nat \ {0} : Logged(t, l, "transfer")

StepKind ==
  \/ UNCHANGED <<task, record>>
  \/ \E t \in TaskIds, row \in TaskRow :
       \/ Opens(t, row) \/ Advances(t, row) \/ Approves(t, row)
       \/ Rejects(t, row) \/ Reopens(t, row) \/ Amends(t, row)

\* Where the row a request has read comes from.
Keeps(c, r) == HasTask(c) /\ r.id = req[c].id /\ r.seen = req[c].seen
Reads(r) == r.id \in TaskIds /\ Exists(r.id) /\ r.seen = task[r.id]

SeenKind ==
  \A d \in Clients : HasTask(d)' =>
    \/ Keeps(d, req'[d])
    \/ req'[d].seen.status = "pending"
    \/ UNCHANGED <<task, record>> /\ Reads(req'[d])

Sound == TypeOK' /\ SeenRows' /\ SeenKind

(***************************************************************************)
(* Type correctness.                                                       *)
(***************************************************************************)
\* A step that only gives client c a new request.
LEMMA SetRequest ==
  ASSUME TypeOK, SeenRows, NEW c \in Clients, NEW r \in Request,
         req' = [req EXCEPT ![c] = r],
         UNCHANGED <<task, record>>,
         workflow' \in [Workflows -> {"absent", "active", "inactive"}],
         r.op \in TaskOps => Keeps(c, r) \/ Reads(r)
  PROVE  Sound
<1>1. TypeOK'
  BY DEF TypeOK
<1>2. ASSUME NEW d \in Clients, HasTask(d)'
      PROVE  /\ Exists(req[d].id)' /\ (req[d].seen.wf = task[req[d].id].wf)'
             /\ (req[d].seen.entity = task[req[d].id].entity)'
             /\ Keeps(d, req'[d]) \/ Reads(req'[d])
  <2>1. CASE d = c
    <3>1. req'[d] = r /\ r.op \in TaskOps
      BY <1>2, <2>1 DEF TypeOK, HasTask
    <3> QED BY <2>1, <3>1 DEF Keeps, Reads, SeenRows, Exists
  <2>2. CASE d # c
    BY <1>2, <2>2 DEF TypeOK, SeenRows, HasTask, Exists, Keeps
  <2> QED BY <2>1, <2>2
<1> QED BY <1>1, <1>2 DEF Sound, SeenRows, SeenKind

\* A step that writes the row of task t and gives client c a new request.
LEMMA WriteRow ==
  ASSUME TypeOK, SeenRows, NEW c \in Clients, NEW t \in TaskIds,
         NEW row \in TaskRow, NEW r \in Request,
         task' = [task EXCEPT ![t] = row],
         Exists(t) => row.wf = task[t].wf /\ row.entity = task[t].entity,
         record' \in [TaskIds -> Seq(Record)],
         req' = [req EXCEPT ![c] = r],
         UNCHANGED workflow,
         r.op \in TaskOps => /\ r.id = t
                             /\ r.seen.wf = row.wf /\ r.seen.entity = row.entity
                             /\ Keeps(c, r) \/ r.seen.status = "pending"
  PROVE  Sound
<1>0. row # NoTask
  BY DEF TaskRow, NoTask, Status, FailedStatus, Restored
<1>1. TypeOK'
  BY DEF TypeOK
<1>2. ASSUME NEW d \in Clients, HasTask(d)'
      PROVE  /\ Exists(req[d].id)' /\ (req[d].seen.wf = task[req[d].id].wf)'
             /\ (req[d].seen.entity = task[req[d].id].entity)'
             /\ Keeps(d, req'[d]) \/ req'[d].seen.status = "pending"
  <2>1. CASE d = c
    <3>1. req'[d] = r /\ r.op \in TaskOps
      BY <1>2, <2>1 DEF TypeOK, HasTask
    <3> QED BY <1>0, <2>1, <3>1 DEF TypeOK, Exists
  <2>2. CASE d # c
    <3>1. req'[d] = req[d] /\ HasTask(d)
      BY <1>2, <2>2 DEF TypeOK, HasTask
    <3>2. req[d].id \in TaskIds /\ Exists(req[d].id)
          /\ req[d].seen.wf = task[req[d].id].wf
          /\ req[d].seen.entity = task[req[d].id].entity
      BY <3>1, SeenTask DEF SeenRows
    <3> QED BY <1>0, <3>1, <3>2 DEF TypeOK, Exists, Keeps
  <2> QED BY <2>1, <2>2
<1> QED BY <1>1, <1>2 DEF Sound, SeenRows, SeenKind

\* Writing a record keeps the records typed.
LEMMA LogType ==
  ASSUME TypeOK, NEW t \in TaskIds, NEW l \in Nat \ {0}, NEW u \in Users,
         NEW a \in {"approve", "reject", "transfer", "resubmit"}, Log(t, l, u, a)
  PROVE  record' \in [TaskIds -> Seq(Record)]
<1> DEFINE r == [level |-> l, by |-> u, action |-> a]
<1>1. r \in Record
  BY DEF Record
<1>2. Append(record[t], r) \in Seq(Record)
  BY <1>1 DEF TypeOK
<1> QED BY <1>2 DEF TypeOK, Log

\* The reads of a submission leave a well-formed request.
LEMMA SubmitReadsType ==
  ASSUME TypeOK, SeenRows, NEW c \in Clients, NEW q \in Query, SubmitReads(c, q)
  PROVE  Sound
<1> USE DEF SubmitReads
<1>1. ASSUME NEW t \in TaskIds, AlreadyPending(q.entity, q.change, t),
             Continue(c, Rounds(q.kind, task[t].wf), t, q.user, task[t])
      PROVE  Sound
  <2>1. Exists(t) /\ task[t] \in TaskRow
    BY <1>1, TaskRows DEF AlreadyPending, Newest, PendingOf
  <2>2. Rounds(q.kind, task[t].wf) \in Int
    BY <2>1, ChainType DEF Rounds, TaskRow
  <2> DEFINE r == [op |-> "reload", id |-> t, user |-> q.user,
                   seen |-> task[t], arg |-> Rounds(q.kind, task[t].wf)]
  <2>3. r \in Request
    BY <2>1, <2>2 DEF Query, Request, ApproveRequest, TaskRequest
  <2>4. CASE req' = [req EXCEPT ![c] = r]
    BY <2>1, <2>3, <2>4, SetRequest DEF TypeOK, Reads
  <2>5. CASE req' = [req EXCEPT ![c] = Idle]
    BY <2>5, SetRequest DEF TypeOK, Request, Idle, TaskOps
  <2> QED BY <1>1, <2>4, <2>5 DEF Continue
<1>2. ASSUME NEW w \in Workflows,
             req' = [req EXCEPT ![c] =
                       [op |-> "insert", kind |-> q.kind, entity |-> q.entity,
                        user |-> q.user, change |-> q.change, wf |-> w]]
      PROVE  Sound
  <2> DEFINE r == [op |-> "insert", kind |-> q.kind, entity |-> q.entity,
                   user |-> q.user, change |-> q.change, wf |-> w]
  <2>1. r \in Request /\ r.op \notin TaskOps
    BY DEF Query, Request, Insert, TaskOps
  <2> QED BY <1>2, <2>1, SetRequest DEF TypeOK
<1>3. ASSUME req' = [req EXCEPT ![c] = Idle] \/
             req' = [req EXCEPT ![c] = [q EXCEPT !.op = "ensure"]]
      PROVE  Sound
  <2>1. Idle \in Request /\ Idle.op \notin TaskOps
    BY DEF Request, Idle, TaskOps
  <2> DEFINE r == [q EXCEPT !.op = "ensure"]
  <2>2. r \in Query /\ r.op = "ensure"
    BY DEF Query
  <2>3. r \in Request /\ r.op \notin TaskOps
    BY <2>2 DEF Request, TaskOps
  <2> HIDE DEF r
  <2> QED BY <1>3, <2>1, <2>3, SetRequest DEF TypeOK, r
<1> QED BY <1>1, <1>2, <1>3 DEF Active

\* So does the read of a task.
LEMMA ReadTaskType ==
  ASSUME TypeOK, SeenRows, NEW c \in Clients, NEW t \in TaskIds, NEW u \in Users,
         NEW op, NEW arg, Exists(t), ReadTask(c, op, t, u, arg),
         [op |-> op, id |-> t, user |-> u, seen |-> task[t], arg |-> arg] \in Request
  PROVE  Sound
<1> DEFINE r == [op |-> op, id |-> t, user |-> u, seen |-> task[t], arg |-> arg]
<1>1. /\ r \in Request
      /\ Reads(r)
      /\ req' = [req EXCEPT ![c] = r]
      /\ UNCHANGED <<workflow, task, record>>
  BY DEF ReadTask, Reads
<1> HIDE DEF r
<1> QED BY <1>1, SetRequest DEF TypeOK

\* Every read of a task: the row read is the row in the table.
LEMMA ReadType ==
  ASSUME TypeOK, SeenRows, NEW c \in Clients, NEW t \in TaskIds, NEW u \in Users,
         Exists(t), Read(c, t, u)
  PROVE  Sound
<1> USE DEF Request, TaskRequest
<1>0. task[t] \in TaskRow
  BY TaskRows
<1>1. ASSUME NEW standalone, ApproveRead(c, t, u, standalone)
      PROVE  Sound
  <2>1. [op |-> "approve", id |-> t, user |-> u, seen |-> task[t], arg |-> 0]
          \in ApproveRequest
    BY <1>0 DEF ApproveRequest
  <2>2. ApproveRequest \subseteq Request
    OBVIOUS
  <2> HIDE DEF Request
  <2> QED BY <1>1, <2>1, <2>2, ReadTaskType DEF ApproveRead
<1>2. CASE AutoRead(c, t, u)
  <2>1. [op |-> "approve", id |-> t, user |-> u, seen |-> task[t],
         arg |-> WhilePending] \in ApproveRequest
    BY <1>0 DEF ApproveRequest, WhilePending
  <2>2. ApproveRequest \subseteq Request
    OBVIOUS
  <2> HIDE DEF Request
  <2> QED BY <1>2, <2>1, <2>2, ReadTaskType DEF AutoRead
<1>3. ASSUME NEW standalone, RejectRead(c, t, u, standalone)
      PROVE  Sound
  BY <1>0, <1>3, ReadTaskType DEF RejectRead, PlainRequest
<1>4. CASE WithdrawRead(c, t, u)
  BY <1>0, <1>4, ReadTaskType DEF WithdrawRead, PlainRequest
<1>5. ASSUME NEW ch \in Changes \cup {NoChange}, ResubmitRead(c, t, u, ch)
      PROVE  Sound
  BY <1>0, <1>5, ReadTaskType DEF ResubmitRead, ResubmitRequest
<1>6. ASSUME NEW to \in Users, NEW standalone, TransferRead(c, t, u, to, standalone)
      PROVE  Sound
  BY <1>0, <1>6, ReadTaskType DEF TransferRead, TransferRequest
<1>7. CASE RetryRead(c, t, u)
  BY <1>0, <1>7, ReadTaskType DEF RetryRead, RetryRequest
<1> QED BY <1>1, <1>2, <1>3, <1>4, <1>5, <1>6, <1>7 DEF Read

\* Every step of a submission is sound.
LEMMA SubmitType ==
  ASSUME TypeOK, SeenRows, NEW c \in Clients, Submit(c)
  PROVE  Sound
<1>1. ASSUME NEW kind \in Kind, NEW e \in Entities, NEW u \in Users,
             NEW ch \in Changes, SubmitRead(c, kind, e, u, ch)
      PROVE  Sound
  <2> DEFINE q == [op |-> "query", kind |-> kind, entity |-> e, user |-> u,
                   change |-> ch]
  <2>1. q \in Query /\ SubmitReads(c, q)
    BY <1>1 DEF Query, SubmitRead
  <2> QED BY <2>1, SubmitReadsType
<1>2. CASE EnsureDefaultWorkflow(c)
  <2>1. req[c] \in Query
    BY <1>2, RequestKinds DEF EnsureDefaultWorkflow
  <2> DEFINE r == [req[c] EXCEPT !.op = "again"]
  <2>2. r \in Query /\ r.op = "again"
    BY <2>1 DEF Query
  <2>3. r \in Request /\ r.op \notin TaskOps
    BY <2>2 DEF Request, TaskOps
  <2>4. req' = [req EXCEPT ![c] = r]
    BY <1>2 DEF EnsureDefaultWorkflow, TypeOK
  <2>5. workflow' \in [Workflows -> {"absent", "active", "inactive"}]
    BY <1>2 DEF EnsureDefaultWorkflow, TypeOK
  <2> HIDE DEF r
  <2> QED BY <1>2, <2>3, <2>4, <2>5, SetRequest DEF EnsureDefaultWorkflow
<1>3. CASE SubmitAgain(c)
  BY <1>3, RequestKinds, SubmitReadsType DEF SubmitAgain
<1>4. CASE SubmitWrite(c)
  <2> DEFINE q == req[c]
             row == NewTask(q)
  <2>1. q \in Insert
    BY <1>4, RequestKinds DEF SubmitWrite
  <2>2. row \in TaskRow
    BY <2>1, ChainType DEF NewTask, Insert, TaskRow, Status
  <2>3. PICK t \in TaskIds :
          /\ \A u \in TaskIds : Exists(u) <=> u < t
          /\ task' = [task EXCEPT ![t] = row]
          /\ Continue(c, Rounds(q.kind, q.wf), t, q.user, row)
    BY <1>4 DEF SubmitWrite
  <2>4. ~Exists(t)
    BY <2>3 DEF TaskIds
  <2>5. Rounds(q.kind, q.wf) \in Int
    BY <2>1, ChainType DEF Rounds, Insert
  <2> DEFINE r == [op |-> "reload", id |-> t, user |-> q.user, seen |-> row,
                   arg |-> Rounds(q.kind, q.wf)]
  <2>6. r \in Request /\ r.id = t /\ r.seen = row /\ row.status = "pending"
    BY <2>1, <2>2, <2>5 DEF NewTask, Insert, Request, ApproveRequest, TaskRequest
  <2>7. Idle \in Request /\ Idle.op \notin TaskOps
    BY DEF Request, Idle, TaskOps
  <2>8. req' = [req EXCEPT ![c] = r] \/ req' = [req EXCEPT ![c] = Idle]
    BY <2>3 DEF Continue
  <2>9. record' \in [TaskIds -> Seq(Record)] /\ workflow' = workflow
    BY <1>4 DEF SubmitWrite, TypeOK
  <2> HIDE DEF r, row, q
  <2> QED BY <2>2, <2>3, <2>4, <2>6, <2>7, <2>8, <2>9, WriteRow
<1>5. CASE SubmitFails(c)
  BY <1>5, SetRequest DEF SubmitFails, TypeOK, Request, Idle, TaskOps
<1> QED BY <1>1, <1>2, <1>3, <1>4, <1>5 DEF Submit, SubmitDirectly, Kind

\* A client without a request has no task in hand.
LEMMA IdleRequest == Idle \in Request /\ Idle.op \notin TaskOps
BY DEF Request, Idle, TaskOps

\* An approval below the last level advances the task by one level.
LEMMA ApproveNextEffect ==
  ASSUME TypeOK, SeenRows, NEW c \in Clients, ApproveNext(c)
  PROVE  Sound /\ \E t \in TaskIds, row \in TaskRow : Advances(t, row)
<1> DEFINE r == req[c]
           t == r.id
           next == r.seen.level + 1
           row == [task[t] EXCEPT !.level = next,
                                  !.approver = Chain[r.seen.wf][next]]
<1>1. r \in ApproveRequest /\ HasTask(c)
  BY RequestKinds DEF ApproveNext, HasTask, TaskOps
<1>2. /\ t \in TaskIds /\ r.user \in Users /\ r.seen \in TaskRow /\ r.arg \in Int
      /\ Exists(t) /\ r.seen.wf = task[t].wf /\ r.seen.entity = task[t].entity
  BY <1>1 DEF SeenRows, ApproveRequest, TaskRequest
<1>3. task[t] \in TaskRow /\ task[t].status = "pending"
      /\ task[t].level = r.seen.level
  BY <1>2, TaskRows DEF ApproveNext, Claims
<1>4. r.seen.level \in Nat \ {0} /\ r.seen.wf \in Workflows
  BY <1>2 DEF TaskRow
<1>5. next \in Nat \ {0} /\ next \in 1..Len(Chain[r.seen.wf])
  BY <1>4, ChainType DEF ApproveNext, LastLevel
<1>6. row \in TaskRow /\ row.wf = task[t].wf /\ row.entity = task[t].entity
      /\ row.status = "pending"
      /\ row.level = task[t].level + 1
  BY <1>3, <1>4, <1>5, ChainType DEF TaskRow
<1>7. task' = [task EXCEPT ![t] = row]
  BY <1>2, <1>3 DEF ApproveNext, TypeOK
<1>8. Log(t, task[t].level, r.user, "approve")
  BY <1>3 DEF ApproveNext
<1>9. record' \in [TaskIds -> Seq(Record)]
  BY <1>2, <1>3, <1>4, <1>8, LogType
<1>10. Logged(t, task[t].level, "approve")
  BY <1>2, <1>8 DEF Log, Logged
<1> DEFINE n == [op |-> "reload", id |-> t, user |-> r.user, seen |-> r.seen,
                 arg |-> r.arg]
<1>11. n \in Request /\ n.id = t /\ n.seen = r.seen
  BY <1>2 DEF Request, ApproveRequest, TaskRequest
<1>12. UNCHANGED workflow
       /\ (req' = [req EXCEPT ![c] = n] \/ req' = [req EXCEPT ![c] = Idle])
  BY DEF ApproveNext, Continue
<1>13. Sound
  <2> HIDE DEF row, n
  <2>1. CASE req' = [req EXCEPT ![c] = n]
    BY <1>1, <1>2, <1>6, <1>7, <1>9, <1>11, <1>12, <2>1, WriteRow DEF Keeps
  <2>2. CASE req' = [req EXCEPT ![c] = Idle]
    BY <1>2, <1>6, <1>7, <1>9, <1>12, <2>2, WriteRow, IdleRequest
  <2> QED BY <1>12, <2>1, <2>2
<1>14. row.level <= Len(Chain[row.wf])
  BY <1>2, <1>3, <1>5, <1>6
<1>15. Advances(t, row)
  BY <1>2, <1>3, <1>6, <1>7, <1>10, <1>14 DEF Advances, Written
<1> QED BY <1>2, <1>6, <1>13, <1>15

\* The last approval and a rejection close the task.
LEMMA DecideEffect ==
  ASSUME TypeOK, SeenRows, NEW c \in Clients, NEW ok \in BOOLEAN,
         ApproveLast(c, ok) \/ Reject(c, ok)
  PROVE  Sound /\ \E t \in TaskIds, row \in TaskRow :
                    Approves(t, row) \/ Rejects(t, row)
<1> DEFINE r == req[c]
           t == r.id
           s == IF ApproveLast(c, ok) THEN Outcome("approved", ok)
                ELSE Outcome("rejected", ok)
           row == [task[t] EXCEPT !.status = s]
<1>1. HasTask(c)
  BY DEF ApproveLast, Reject, HasTask, TaskOps
<1>2. /\ t \in TaskIds /\ r.user \in Users /\ r.seen \in TaskRow
      /\ Exists(t) /\ r.seen.wf = task[t].wf /\ r.seen.entity = task[t].entity
  BY <1>1, SeenTask DEF SeenRows
<1>3. task[t] \in TaskRow /\ task[t].status = "pending"
      /\ task[t].level = r.seen.level /\ task[t].level \in Nat \ {0}
  BY <1>2, TaskRows DEF ApproveLast, Reject, Claims, TaskRow
<1>4. /\ ApproveLast(c, ok) => s \in Approved
      /\ ~ApproveLast(c, ok) => s \in {"rejected", "rejected_apply_failed"}
      /\ s \in Status
  BY DEF Outcome, ApplyFailed, Approved, Status, FailedStatus, Restored
<1>5. row \in TaskRow /\ row.wf = task[t].wf /\ row.entity = task[t].entity
      /\ row.level = task[t].level
      /\ row.status = s
  BY <1>3, <1>4 DEF TaskRow
<1>6. task' = [task EXCEPT ![t] = row]
  BY <1>2, <1>3 DEF ApproveLast, Reject, TypeOK
<1>7. UNCHANGED workflow /\ req' = [req EXCEPT ![c] = Idle]
  BY DEF ApproveLast, Reject
<1>8. CASE ApproveLast(c, ok)
  <2>1. Log(t, task[t].level, r.user, "approve")
    BY <1>3, <1>8 DEF ApproveLast
  <2>2. record' \in [TaskIds -> Seq(Record)]
    BY <1>2, <1>3, <2>1, LogType
  <2>3. Logged(t, task[t].level, "approve")
    BY <1>2, <2>1 DEF Log, Logged
  <2>4. task[t].level >= Len(Chain[task[t].wf])
    BY <1>2, <1>3, <1>8 DEF ApproveLast, LastLevel
  <2>5. Approves(t, row)
    BY <1>2, <1>3, <1>4, <1>5, <1>6, <1>8, <2>3, <2>4 DEF Approves, Written
  <2> HIDE DEF row, s
  <2>6. Sound
    BY <1>2, <1>5, <1>6, <1>7, <2>2, WriteRow, IdleRequest
  <2> QED BY <1>2, <1>5, <2>5, <2>6
<1>9. CASE ~ApproveLast(c, ok)
  <2>1. Log(t, task[t].level, r.user, "reject")
    BY <1>3, <1>9 DEF Reject
  <2>2. record' \in [TaskIds -> Seq(Record)]
    BY <1>2, <1>3, <2>1, LogType
  <2>3. Logged(t, task[t].level, "reject")
    BY <1>2, <2>1 DEF Log, Logged
  <2>5. Rejects(t, row)
    BY <1>2, <1>3, <1>4, <1>5, <1>6, <1>9, <2>3 DEF Rejects, Written
  <2> HIDE DEF row, s
  <2>6. Sound
    BY <1>2, <1>5, <1>6, <1>7, <2>2, WriteRow, IdleRequest
  <2> QED BY <1>2, <1>5, <2>5, <2>6
<1> QED BY <1>8, <1>9

\* A resubmission reopens the task.
LEMMA ResubmitEffect ==
  ASSUME TypeOK, SeenRows, NEW c \in Clients, NEW ok \in BOOLEAN, Resubmit(c, ok)
  PROVE  /\ Sound
         /\ req[c].id \in TaskIds
         /\ \E row \in TaskRow : Reopens(req[c].id, row)
<1> DEFINE r == req[c]
           t == r.id
           change == IF r.arg = NoChange THEN r.seen.change ELSE r.arg
           level == Flush(task[t].level, r.seen.level, 1)
           newChange == Flush(task[t].change, r.seen.change, change)
           approver == Flush(task[t].approver, r.seen.approver, Chain[r.seen.wf][1])
           row == [task[t] EXCEPT !.status = Outcome("pending", ok),
                                  !.level = level,
                                  !.change = newChange,
                                  !.approver = approver]
<1>1. r \in ResubmitRequest /\ HasTask(c)
  BY RequestKinds DEF Resubmit, HasTask, TaskOps
<1>2. /\ t \in TaskIds /\ r.user \in Users /\ r.seen \in TaskRow
      /\ r.arg \in Changes \cup {NoChange}
      /\ Exists(t) /\ r.seen.wf = task[t].wf /\ r.seen.entity = task[t].entity
  BY <1>1 DEF SeenRows, ResubmitRequest, TaskRequest
<1>3. task[t] \in TaskRow
  BY <1>2, TaskRows
<1>4. change \in Changes /\ r.seen.wf \in Workflows
  BY <1>2 DEF TaskRow
<1>5. Chain[r.seen.wf][1] \in Approver
  BY <1>4, ChainType
<1>6. Outcome("pending", ok) \in {"pending", "pending_apply_failed"}
  BY DEF Outcome, ApplyFailed
<1>7. Outcome("pending", ok) = "pending" \/ "pending" \in FailOn
  BY DEF Resubmit, MayApply, Outcome
<1>8. row \in TaskRow /\ row.wf = task[t].wf /\ row.entity = task[t].entity
      /\ row.status = Outcome("pending", ok)
      /\ (row.level = 1 \/ row.level = task[t].level)
  <2>1. level = 1 \/ level = task[t].level
    BY DEF Flush
  <2>2. newChange \in Changes /\ approver \in Approver
    BY <1>3, <1>4, <1>5 DEF TaskRow, Flush
  <2>3. Outcome("pending", ok) \in Status /\ level \in Nat \ {0}
    BY <1>3, <1>6, <2>1 DEF TaskRow, Status, FailedStatus, Restored
  <2> HIDE DEF level, newChange, approver
  <2> QED BY <1>3, <2>1, <2>2, <2>3 DEF TaskRow
<1>9. task' = [task EXCEPT ![t] = row]
  BY <1>2, <1>3 DEF Resubmit, TypeOK
<1>10. Log(t, 1, r.user, "resubmit") /\ UNCHANGED workflow
       /\ req' = [req EXCEPT ![c] = Idle]
  BY DEF Resubmit
<1>11. record' \in [TaskIds -> Seq(Record)]
  BY <1>2, <1>10, LogType
<1>12. Logged(t, 1, "resubmit")
  BY <1>2, <1>10 DEF Log, Logged
<1> HIDE DEF row
<1>13. Reopens(t, row)
  BY <1>2, <1>6, <1>7, <1>8, <1>9, <1>12 DEF Reopens, Written
<1>14. Sound
  BY <1>2, <1>8, <1>9, <1>10, <1>11, WriteRow, IdleRequest
<1> QED BY <1>2, <1>8, <1>13, <1>14

\* A withdrawal, a transfer and a retry keep the level.
LEMMA AmendEffect ==
  ASSUME TypeOK, SeenRows, NEW c \in Clients,
         Withdraw(c) \/ Transfer(c) \/ RetryWrite(c)
  PROVE  /\ Sound
         /\ req[c].id \in TaskIds
         /\ \E row \in TaskRow : Amends(req[c].id, row)
<1> DEFINE r == req[c]
           t == r.id
<1>1. HasTask(c)
  BY DEF Withdraw, Transfer, RetryWrite, HasTask, TaskOps
<1>2. /\ t \in TaskIds /\ r.user \in Users /\ r.seen \in TaskRow
      /\ Exists(t) /\ r.seen.wf = task[t].wf /\ r.seen.entity = task[t].entity
  BY <1>1, SeenTask DEF SeenRows
<1>3. task[t] \in TaskRow
  BY <1>2, TaskRows
<1>4. UNCHANGED workflow /\ req' = [req EXCEPT ![c] = Idle]
  BY DEF Withdraw, Transfer, RetryWrite
<1>5. ASSUME NEW row \in TaskRow, row.wf = task[t].wf, row.entity = task[t].entity,
             task' = [task EXCEPT ![t] = row],
             record' \in [TaskIds -> Seq(Record)]
      PROVE  Sound /\ Written(t, row)
  BY <1>2, <1>4, <1>5, WriteRow, IdleRequest DEF Written
<1>6. CASE Withdraw(c)
  <2> DEFINE row == [task[t] EXCEPT !.status = "withdrawn"]
  <2>1. row \in TaskRow /\ row.wf = task[t].wf /\ row.entity = task[t].entity
        /\ row.level = task[t].level
        /\ row.status = "withdrawn"
    BY <1>3 DEF TaskRow, Status
  <2>2. task' = [task EXCEPT ![t] = row] /\ record' = record
    BY <1>2, <1>3, <1>6 DEF Withdraw, TypeOK
  <2> HIDE DEF row
  <2>3. Sound /\ Written(t, row)
    BY <1>5, <2>1, <2>2 DEF TypeOK
  <2> QED BY <1>2, <2>1, <2>2, <2>3 DEF Amends
<1>7. CASE Transfer(c)
  <2> DEFINE row == [task[t] EXCEPT !.approver = Flush(@, r.seen.approver, r.arg)]
  <2>0. r.arg \in Approver
    BY <1>7, RequestKinds DEF Transfer, TransferRequest, TaskRequest, Approver
  <2>1. row \in TaskRow /\ row.wf = task[t].wf /\ row.entity = task[t].entity
        /\ row.level = task[t].level
        /\ row.status = task[t].status
    BY <1>3, <2>0 DEF TaskRow, Flush
  <2>2. task' = [task EXCEPT ![t] = row]
    BY <1>2, <1>3, <1>7 DEF Transfer, TypeOK
  <2>3. Log(t, r.seen.level, r.user, "transfer") /\ r.seen.level \in Nat \ {0}
    BY <1>2, <1>7 DEF Transfer, TaskRow
  <2>4. record' \in [TaskIds -> Seq(Record)]
    BY <1>2, <2>3, LogType
  <2>5. Logged(t, r.seen.level, "transfer")
    BY <1>2, <2>3 DEF Log, Logged
  <2> HIDE DEF row
  <2>6. Sound /\ Written(t, row)
    BY <1>5, <2>1, <2>2, <2>4
  <2> QED BY <1>2, <2>1, <2>3, <2>5, <2>6 DEF Amends
<1>8. CASE RetryWrite(c)
  <2> DEFINE row == [task[t] EXCEPT !.status = Restored[r.seen.status]]
  <2>0. r.op = "retried" /\ Restored[r.seen.status] \in Status
    BY <1>8, RequestKinds
    DEF RetryWrite, RetryRequest, TaskRequest, FailedStatus, Restored, Status
  <2>1. row \in TaskRow /\ row.wf = task[t].wf /\ row.entity = task[t].entity
        /\ row.level = task[t].level
        /\ row.status = Restored[r.seen.status]
    BY <1>3, <2>0 DEF TaskRow
  <2>2. task' = [task EXCEPT ![t] = row] /\ record' = record
    BY <1>2, <1>3, <1>8 DEF RetryWrite, TypeOK
  <2> HIDE DEF row
  <2>3. Sound /\ Written(t, row)
    BY <1>5, <2>1, <2>2 DEF TypeOK
  <2> QED BY <1>2, <2>0, <2>1, <2>2, <2>3 DEF Amends
<1> QED BY <1>6, <1>7, <1>8

\* The writes that leave the tasks alone.
LEMMA QuietWriteEffect ==
  ASSUME TypeOK, SeenRows, NEW c \in Clients, NEW ok \in BOOLEAN,
         ClaimFails(c) \/ AutoReload(c) \/ RetryApply(c, ok)
  PROVE  Sound /\ UNCHANGED <<task, record>>
<1>1. UNCHANGED <<workflow, task, record>>
  BY DEF ClaimFails, AutoReload, RetryApply
<1>2. workflow' \in [Workflows -> {"absent", "active", "inactive"}]
  BY <1>1 DEF TypeOK
<1>3. CASE req' = [req EXCEPT ![c] = Idle]
  BY <1>1, <1>2, <1>3, SetRequest, IdleRequest
<1>4. CASE AutoReload(c) /\ req' # [req EXCEPT ![c] = Idle]
  <2> DEFINE r == [req[c] EXCEPT !.op = "approve", !.seen = task[req[c].id],
                                 !.arg = Left(@)]
  <2>1. req[c] \in ApproveRequest /\ HasTask(c)
    BY <1>4, RequestKinds DEF AutoReload, HasTask, TaskOps
  <2>2. req[c].id \in TaskIds /\ Exists(req[c].id) /\ req[c].arg \in Int
        /\ req[c].user \in Users
    BY <2>1 DEF SeenRows, ApproveRequest, TaskRequest
  <2>3. task[req[c].id] \in TaskRow /\ Left(req[c].arg) \in Int
    BY <2>2, TaskRows DEF Left
  <2>4. r \in ApproveRequest /\ Reads(r)
    BY <2>1, <2>2, <2>3 DEF ApproveRequest, TaskRequest, Reads
  <2>5. req' = [req EXCEPT ![c] = r]
    BY <1>4 DEF AutoReload
  <2> HIDE DEF r
  <2>6. r \in Request
    BY <2>4 DEF Request
  <2> QED BY <1>1, <1>2, <2>4, <2>5, <2>6, SetRequest
<1>5. CASE RetryApply(c, ok) /\ req' # [req EXCEPT ![c] = Idle]
  <2> DEFINE r == [req[c] EXCEPT !.op = "retried"]
  <2>1. req[c] \in RetryRequest /\ HasTask(c)
    BY <1>5, RequestKinds DEF RetryApply, HasTask, TaskOps
  <2>2. r \in RetryRequest /\ Keeps(c, r)
    BY <2>1 DEF RetryRequest, TaskRequest, Keeps
  <2>3. req' = [req EXCEPT ![c] = r]
    BY <1>5 DEF RetryApply
  <2> HIDE DEF r
  <2>4. r \in Request
    BY <2>2 DEF Request
  <2> QED BY <1>1, <1>2, <2>2, <2>3, <2>4, SetRequest
<1> QED BY <1>1, <1>3, <1>4, <1>5 DEF ClaimFails

\* SubmitWrite opens a task; no other step of a submission touches one.
LEMMA SubmitEffect ==
  ASSUME TypeOK, SeenRows, NEW c \in Clients, Submit(c)
  PROVE  \/ UNCHANGED <<task, record>>
         \/ \E t \in TaskIds, row \in TaskRow : Opens(t, row)
<1>1. CASE SubmitWrite(c)
  <2> DEFINE row == NewTask(req[c])
  <2>1. req[c] \in Insert
    BY <1>1, RequestKinds DEF SubmitWrite
  <2>2. row \in TaskRow /\ row.status = "pending" /\ row.level = 1
    BY <2>1, ChainType DEF NewTask, Insert, TaskRow, Status
  <2>3. PICK t \in TaskIds : /\ \A u \in TaskIds : Exists(u) <=> u < t
                             /\ task' = [task EXCEPT ![t] = row]
    BY <1>1 DEF SubmitWrite
  <2>4. ~Exists(t)
    BY <2>3 DEF TaskIds
  <2>5. record' = record
    BY <1>1 DEF SubmitWrite
  <2> HIDE DEF row
  <2>6. Opens(t, row)
    BY <2>2, <2>3, <2>4, <2>5 DEF Opens
  <2> QED BY <2>2, <2>6
<1>2. ASSUME NEW q, SubmitReads(c, q) PROVE UNCHANGED <<task, record>>
  BY <1>2 DEF SubmitReads
<1>3. CASE EnsureDefaultWorkflow(c) \/ SubmitFails(c)
  BY <1>3 DEF EnsureDefaultWorkflow, SubmitFails
<1>4. CASE \E kind \in Kind, e \in Entities, u \in Users, ch \in Changes :
             SubmitRead(c, kind, e, u, ch)
  BY <1>2, <1>4 DEF SubmitRead
<1>5. CASE SubmitAgain(c)
  BY <1>2, <1>5 DEF SubmitAgain
<1> QED BY <1>1, <1>3, <1>4, <1>5 DEF Submit, SubmitDirectly, Kind

\* Every write half is sound and of one of the six kinds.
LEMMA WriteEffect ==
  ASSUME TypeOK, SeenRows, NEW c \in Clients, Write(c)
  PROVE  Sound /\ StepKind
<1>1. CASE ApproveNext(c)
  BY <1>1, ApproveNextEffect DEF StepKind
<1>2. CASE \E ok \in BOOLEAN : ApproveLast(c, ok) \/ Reject(c, ok)
  BY <1>2, DecideEffect DEF StepKind
<1>3. CASE \E ok \in BOOLEAN : Resubmit(c, ok)
  BY <1>3, ResubmitEffect DEF StepKind
<1>4. CASE Withdraw(c) \/ Transfer(c) \/ RetryWrite(c)
  BY <1>4, AmendEffect DEF StepKind
<1>5. CASE \E ok \in BOOLEAN :
             ClaimFails(c) \/ AutoReload(c) \/ RetryApply(c, ok)
  BY <1>5, QuietWriteEffect DEF StepKind
<1> QED BY <1>1, <1>2, <1>3, <1>4, <1>5 DEF Write

\* So is every step of the system.
LEMMA StepEffect ==
  ASSUME TypeOK, SeenRows, [Next]_vars
  PROVE  Sound /\ StepKind
<1>1. CASE Configure
  <2>1. workflow' \in [Workflows -> {"absent", "active", "inactive"}]
        /\ UNCHANGED <<task, record, req>>
    BY <1>1 DEF Configure, CreateWorkflow, UpdateWorkflow, DeleteWorkflow, TypeOK
  <2> QED BY <2>1 DEF TypeOK, SeenRows, HasTask, Exists, Sound, SeenKind, Keeps,
                      StepKind
<1>2. CASE Crash
  BY <1>2, IdleRequest DEF Crash, TypeOK, SeenRows, HasTask, Sound, SeenKind,
                           StepKind
<1>3. CASE \E c \in Clients : Submit(c)
  BY <1>3, SubmitType, SubmitEffect DEF StepKind
<1>4. CASE \E c \in Clients : Write(c)
  BY <1>4, WriteEffect
<1>5. ASSUME NEW c \in Clients, NEW t \in TaskIds, NEW u \in Users,
             Exists(t), Read(c, t, u)
      PROVE  Sound /\ StepKind
  <2>1. UNCHANGED <<task, record>>
    BY <1>5 DEF Read, ApproveRead, AutoRead, RejectRead, WithdrawRead,
                ResubmitRead, TransferRead, RetryRead, ReadTask
  <2> QED BY <1>5, <2>1, ReadType DEF StepKind
<1>6. CASE UNCHANGED vars
  BY <1>6 DEF vars, TypeOK, SeenRows, HasTask, Exists, Sound, SeenKind, Keeps,
              StepKind
<1> QED BY <1>1, <1>2, <1>3, <1>4, <1>5, <1>6 DEF Next

(***************************************************************************)
(* Which write changes the status of a task.                               *)
(***************************************************************************)
\* Outside the decisions and amendments of the task itself its status stays.
LEMMA StatusKept ==
  ASSUME TypeOK, SeenRows, NEW c \in Clients, NEW t \in TaskIds, Exists(t),
         task'[t].status # task[t].status
  PROVE  /\ ~Submit(c) /\ ~ClaimFails(c) /\ ~AutoReload(c) /\ ~Transfer(c)
         /\ ~ApproveNext(c)
         /\ \A ok \in BOOLEAN : ~RetryApply(c, ok)
         /\ \A s \in TaskIds, u \in Users : ~Read(c, s, u)
<1>0. task[t] \in TaskRow
  BY TaskRows
<1>1. ~UNCHANGED task
  OBVIOUS
<1>2. ~Submit(c)
  <2>1. ASSUME NEW s \in TaskIds, NEW row \in TaskRow, Opens(s, row) PROVE FALSE
    BY <2>1 DEF Opens, TypeOK
  <2> QED BY <1>1, <2>1, SubmitEffect
<1>3. \A ok \in BOOLEAN : ~ClaimFails(c) /\ ~AutoReload(c) /\ ~RetryApply(c, ok)
  BY <1>1 DEF ClaimFails, AutoReload, RetryApply
<1>4. ASSUME NEW s \in TaskIds, NEW u \in Users, Read(c, s, u) PROVE FALSE
  BY <1>1, <1>4 DEF Read, ApproveRead, AutoRead, RejectRead, WithdrawRead,
                    ResubmitRead, TransferRead, RetryRead, ReadTask
<1>5. ASSUME Transfer(c) PROVE FALSE
  <2>1. req[c].id \in TaskIds
    BY <1>5, SeenTask DEF Transfer, HasTask, TaskOps
  <2> QED BY <1>0, <1>5, <2>1 DEF Transfer, TypeOK, TaskRow
<1>6. ASSUME ApproveNext(c) PROVE FALSE
  <2>1. PICK s \in TaskIds, row \in TaskRow : Advances(s, row)
    BY <1>6, ApproveNextEffect
  <2>2. task' = [task EXCEPT ![s] = row] /\ task[s].status = row.status
    BY <2>1 DEF Advances, Written
  <2> QED BY <2>2 DEF TypeOK
<1> QED BY <1>2, <1>3, <1>4, <1>5, <1>6

\* The others give the task of their request the status they decide.
LEMMA StatusWritten ==
  ASSUME TypeOK, SeenRows, NEW c \in Clients, NEW t \in TaskIds, Exists(t),
         task'[t].status # task[t].status
  PROVE  /\ \A ok \in BOOLEAN :
              /\ ApproveLast(c, ok) =>
                   req[c].id = t /\ task'[t].status = Outcome("approved", ok)
              /\ Reject(c, ok) =>
                   req[c].id = t /\ task'[t].status = Outcome("rejected", ok)
              /\ Resubmit(c, ok) =>
                   req[c].id = t /\ task'[t].status = Outcome("pending", ok)
         /\ Withdraw(c) => req[c].id = t /\ task'[t].status = "withdrawn"
         /\ RetryWrite(c) =>
              req[c].id = t /\ task'[t].status = Restored[req[c].seen.status]
<1>0. task[t] \in TaskRow
  BY TaskRows
<1>1. ASSUME HasTask(c), NEW x, task' = [task EXCEPT ![req[c].id].status = x]
      PROVE  req[c].id = t /\ task'[t].status = x
  <2>1. req[c].id \in TaskIds
    BY <1>1, SeenTask
  <2> QED BY <1>0, <1>1, <2>1 DEF TypeOK, TaskRow
<1>2. ASSUME NEW ok \in BOOLEAN, Resubmit(c, ok)
      PROVE  req[c].id = t /\ task'[t].status = Outcome("pending", ok)
  <2>1. req[c].id \in TaskIds
    BY <1>2, SeenTask DEF Resubmit, HasTask, TaskOps
  <2>2. req[c].id = t
    BY <1>2, <2>1 DEF Resubmit, TypeOK
  <2> QED BY <1>0, <1>2, <2>2 DEF Resubmit, TypeOK, TaskRow
<1>3. ASSUME NEW ok \in BOOLEAN, ApproveLast(c, ok)
      PROVE  req[c].id = t /\ task'[t].status = Outcome("approved", ok)
  BY <1>1, <1>3 DEF ApproveLast, HasTask, TaskOps
<1>4. ASSUME NEW ok \in BOOLEAN, Reject(c, ok)
      PROVE  req[c].id = t /\ task'[t].status = Outcome("rejected", ok)
  BY <1>1, <1>4 DEF Reject, HasTask, TaskOps
<1>5. ASSUME Withdraw(c)
      PROVE  req[c].id = t /\ task'[t].status = "withdrawn"
  BY <1>1, <1>5 DEF Withdraw, HasTask, TaskOps
<1>6. ASSUME RetryWrite(c)
      PROVE  req[c].id = t /\ task'[t].status = Restored[req[c].seen.status]
  BY <1>1, <1>6 DEF RetryWrite, HasTask, TaskOps
<1> QED BY <1>2, <1>3, <1>4, <1>5, <1>6

\* The invariant holds when no task exists.
LEMMA InitIInv == Init => IInv
<1> SUFFICES ASSUME Init PROVE IInv
  OBVIOUS
<1>1. TypeOK
  <2>1. record \in [TaskIds -> Seq(Record)]
    BY DEF Init
  <2> QED BY <2>1, IdleRequest DEF Init, TypeOK
<1>2. \A c \in Clients : ~HasTask(c)
  BY IdleRequest DEF Init, HasTask
<1>3. \A t \in TaskIds : ~Exists(t)
  BY DEF Init, Exists
<1> QED BY <1>1, <1>2, <1>3
     DEF IInv, SeenRows, LevelsClimbed, ApprovedClimbed, RetryClimbed

(***************************************************************************)
(* Approved at every level.                                                *)
(***************************************************************************)
\* Records are only added.
LEMMA RecordsGrow ==
  ASSUME TypeOK, SeenRows, StepKind, NEW t \in TaskIds
  PROVE  /\ Len(record'[t]) >= Len(record[t])
         /\ \A i \in 1..Len(record[t]) :
              i \in 1..Len(record'[t]) /\ record'[t][i] = record[t][i]
<1>0. record[t] \in Seq(Record)
  BY DEF TypeOK
<1>1. CASE record' = record
  BY <1>0, <1>1
<1>2. ASSUME NEW s \in TaskIds, NEW l \in Nat \ {0}, NEW a, Logged(s, l, a)
      PROVE  /\ Len(record'[t]) >= Len(record[t])
             /\ \A i \in 1..Len(record[t]) :
                  i \in 1..Len(record'[t]) /\ record'[t][i] = record[t][i]
  BY <1>0, <1>2 DEF Logged, TypeOK
<1>3. ASSUME NEW s \in TaskIds, Exists(s) PROVE task[s].level \in Nat \ {0}
  BY <1>3, TaskRows DEF TaskRow
<1>4. ASSUME NEW s \in TaskIds, NEW row \in TaskRow,
             \/ Opens(s, row) \/ Advances(s, row) \/ Approves(s, row)
             \/ Rejects(s, row) \/ Reopens(s, row) \/ Amends(s, row)
      PROVE  record' = record \/ \E l \in Nat \ {0} : \E b : Logged(s, l, b)
  <2>1. CASE Opens(s, row)
    BY <2>1 DEF Opens
  <2>2. CASE Advances(s, row)
    <3>1. Exists(s) /\ Logged(s, task[s].level, "approve")
      BY <2>2 DEF Advances, Written
    <3> QED BY <1>3, <3>1
  <2>3. CASE Approves(s, row)
    <3>1. Exists(s) /\ Logged(s, task[s].level, "approve")
      BY <2>3 DEF Approves, Written
    <3> QED BY <1>3, <3>1
  <2>4. CASE Rejects(s, row)
    <3>1. Exists(s) /\ Logged(s, task[s].level, "reject")
      BY <2>4 DEF Rejects, Written
    <3> QED BY <1>3, <3>1
  <2>5. CASE Reopens(s, row)
    <3>1. Logged(s, 1, "resubmit")
      BY <2>5 DEF Reopens
    <3> QED BY <3>1
  <2>6. CASE Amends(s, row)
    <3>1. record' = record \/ \E l \in Nat \ {0} : Logged(s, l, "transfer")
      BY <2>6 DEF Amends
    <3> QED BY <3>1
  <2> QED BY <1>4, <2>1, <2>2, <2>3, <2>4, <2>5, <2>6
<1> QED BY <1>1, <1>2, <1>4 DEF StepKind

\* An approval on record stays on record.
LEMMA ClimbedStays ==
  ASSUME TypeOK, SeenRows, StepKind, NEW t \in TaskIds, NEW n, Climbed(t, n)
  PROVE  Climbed(t, n)'
BY RecordsGrow DEF Climbed

\* A record of an approval is the next step of the climb.
LEMMA Climbs ==
  ASSUME TypeOK, NEW t \in TaskIds, NEW l \in Nat \ {0},
         Climbed(t, l - 1), Logged(t, l, "approve")
  PROVE  Climbed(t, l)'
<1>1. record[t] \in Seq(Record)
  BY DEF TypeOK
<1>2. PICK u \in Users :
        record'[t] = Append(record[t], [level |-> l, by |-> u, action |-> "approve"])
  BY DEF Logged, TypeOK
<1>3. /\ Len(record'[t]) = Len(record[t]) + 1
      /\ \A i \in 1..Len(record[t]) : record'[t][i] = record[t][i]
      /\ record'[t][Len(record'[t])].action = "approve"
      /\ record'[t][Len(record'[t])].level = l
  BY <1>1, <1>2
<1>4. Len(record[t]) \in Nat
  BY <1>1
<1>5. ASSUME NEW m \in 1..l
      PROVE  \E i \in 1..Len(record'[t]) :
               record'[t][i].action = "approve" /\ record'[t][i].level = m
  <2>1. CASE m = l
    <3>1. Len(record'[t]) \in 1..Len(record'[t])
      BY <1>3, <1>4
    <3> QED BY <1>3, <2>1, <3>1
  <2>2. CASE m # l
    <3>1. m \in 1..(l - 1)
      BY <2>2
    <3>2. PICK i \in 1..Len(record[t]) :
            record[t][i].action = "approve" /\ record[t][i].level = m
      BY <3>1 DEF Climbed
    <3>3. i \in 1..Len(record'[t])
      BY <1>3, <1>4
    <3> QED BY <1>3, <3>2, <3>3
  <2> QED BY <2>1, <2>2
<1> QED BY <1>5 DEF Climbed

\* What a step does to one task and its records.
LEMMA RowStep ==
  ASSUME TypeOK, StepKind, NEW t \in TaskIds
  PROVE  \/ task'[t] = task[t] /\ record'[t] = record[t]
         \/ \E row \in TaskRow :
              /\ task'[t] = row
              /\ \/ Opens(t, row) \/ Advances(t, row) \/ Approves(t, row)
                 \/ Rejects(t, row) \/ Reopens(t, row) \/ Amends(t, row)
<1>1. CASE UNCHANGED <<task, record>>
  BY <1>1
<1>2. ASSUME NEW s \in TaskIds, NEW row \in TaskRow,
             \/ Opens(s, row) \/ Advances(s, row) \/ Approves(s, row)
             \/ Rejects(s, row) \/ Reopens(s, row) \/ Amends(s, row)
      PROVE  \/ task'[t] = task[t] /\ record'[t] = record[t]
             \/ s = t /\ task'[t] = row
  <2>1. task' = [task EXCEPT ![s] = row]
    BY <1>2 DEF Opens, Advances, Approves, Rejects, Reopens, Amends, Written
  <2>2. s # t => record'[t] = record[t]
    BY <1>2 DEF Opens, Advances, Approves, Rejects, Reopens, Amends, Logged, TypeOK
  <2> QED BY <2>1, <2>2 DEF TypeOK
<1> QED BY <1>1, <1>2 DEF StepKind

\* The levels below the current one stay approved.
LEMMA LevelsStep ==
  ASSUME IInv, StepKind
  PROVE  LevelsClimbed'
<1> USE DEF IInv
<1> SUFFICES ASSUME NEW t \in TaskIds, Exists(t)'
             PROVE  Climbed(t, task[t].level - 1)'
  BY DEF LevelsClimbed
<1>1. CASE task'[t].level = 1
  BY <1>1 DEF Climbed
<1>2. ASSUME Exists(t) PROVE task[t].level \in Nat \ {0}
  BY <1>2, TaskRows DEF TaskRow
<1>3. CASE Exists(t) /\ task'[t].level = task[t].level
  <2>1. PICK n : n = task[t].level - 1
    OBVIOUS
  <2>2. Climbed(t, n)
    BY <1>3, <2>1 DEF LevelsClimbed
  <2>3. Climbed(t, n)'
    BY <2>2, ClimbedStays
  <2> QED BY <1>3, <2>1, <2>3 DEF Climbed
<1>4. CASE \E row \in TaskRow : task'[t] = row /\ Advances(t, row)
  <2>1. PICK l \in Nat \ {0} : l = task[t].level
    BY <1>2, <1>4 DEF Advances, Written
  <2>2. Climbed(t, l - 1) /\ Logged(t, l, "approve") /\ task'[t].level = l + 1
    BY <1>4, <2>1 DEF LevelsClimbed, Advances, Written
  <2>3. Climbed(t, l)'
    BY <2>2, Climbs
  <2>4. task'[t].level - 1 = l
    BY <2>2
  <2> QED BY <2>3, <2>4 DEF Climbed
<1> QED BY <1>1, <1>3, <1>4, RowStep
     DEF Exists, Opens, Approves, Rejects, Reopens, Amends, Written

\* A task that gets approved has passed its last level, or a retry that read
\* it approved makes it approved again.
LEMMA ApprovedStep ==
  ASSUME IInv, StepKind
  PROVE  ApprovedClimbed'
<1> USE DEF IInv
<1> SUFFICES ASSUME NEW t \in TaskIds, Exists(t)', task'[t].status \in Approved
             PROVE  Climbed(t, Len(Chain[task[t].wf]))'
  BY DEF ApprovedClimbed
<1>0. PICK n : n = Len(Chain[task'[t].wf])
  OBVIOUS
<1>1. CASE Climbed(t, n)
  BY <1>0, <1>1, ClimbedStays DEF Climbed
<1>2. CASE Exists(t) /\ task'[t].wf = task[t].wf /\ task'[t].status = task[t].status
  BY <1>0, <1>1, <1>2 DEF ApprovedClimbed
<1>3. ASSUME NEW row \in TaskRow, task'[t] = row, Approves(t, row)
      PROVE  Climbed(t, Len(Chain[task[t].wf]))'
  <2>1. task[t] \in TaskRow
    BY <1>3, TaskRows DEF Approves, Written
  <2>2. PICK l \in Nat \ {0} : l = task[t].level
    BY <2>1 DEF TaskRow
  <2>3. Climbed(t, l - 1) /\ Logged(t, l, "approve") /\ l >= n
    BY <1>0, <1>3, <2>2 DEF LevelsClimbed, Approves, Written
  <2>4. Climbed(t, l)'
    BY <2>3, Climbs
  <2>5. n \in Nat
    BY <1>0, <1>3, <2>1, ChainType DEF TaskRow
  <2>6. 1..n \subseteq 1..l
    BY <2>3, <2>5
  <2>7. Climbed(t, n)'
    BY <2>4, <2>6 DEF Climbed
  <2> QED BY <1>0, <2>7 DEF Climbed
<1>4. ASSUME NEW row \in TaskRow, task'[t] = row, Amends(t, row)
      PROVE  Climbed(t, Len(Chain[task[t].wf]))'
  <2>1. CASE row.status = task[t].status
    BY <1>2, <1>4, <2>1 DEF Amends, Written
  <2>2. ASSUME NEW c \in Clients, req[c].op = "retried", req[c].id = t,
               row.status = Restored[req[c].seen.status]
        PROVE  Climbed(t, Len(Chain[task[t].wf]))'
    <3>1. req[c] \in RetryRequest /\ HasTask(c)
      BY <2>2, RequestKinds DEF HasTask, TaskOps
    <3>2. req[c].seen.status = "approved_apply_failed"
      BY <1>4, <2>2, <3>1
      DEF RetryRequest, TaskRequest, FailedStatus, Restored, Approved
    <3>3. req[c].seen.wf = task'[t].wf
      BY <1>4, <2>2, <3>1 DEF SeenRows, Amends, Written
    <3> QED BY <1>0, <1>1, <2>2, <3>1, <3>2, <3>3 DEF RetryClimbed
  <2> QED BY <1>4, <2>1, <2>2 DEF Amends, Approved
<1> QED BY <1>2, <1>3, <1>4, RowStep
     DEF Exists, Opens, Advances, Rejects, Reopens, Approved

\* The row a retry carries was approved when it was read.
LEMMA RetryStep ==
  ASSUME IInv, Sound, StepKind
  PROVE  RetryClimbed'
<1> USE DEF IInv
<1> SUFFICES ASSUME NEW c \in Clients, HasTask(c)',
                    req'[c].seen.status = "approved_apply_failed"
             PROVE  Climbed(req[c].id, Len(Chain[req[c].seen.wf]))'
  BY DEF RetryClimbed
<1>1. PICK t, n : t = req'[c].id /\ n = Len(Chain[req'[c].seen.wf])
  OBVIOUS
<1>2. t \in TaskIds
  BY <1>1, SeenTask DEF Sound, SeenKind, Keeps, Reads
<1>3. Climbed(t, n)
  <2>1. CASE Keeps(c, req'[c])
    BY <1>1, <2>1 DEF RetryClimbed, Keeps
  <2>2. CASE Reads(req'[c])
    BY <1>1, <2>2 DEF ApprovedClimbed, Approved, Reads
  <2> QED BY <2>1, <2>2 DEF Sound, SeenKind
<1>4. Climbed(t, n)'
  BY <1>2, <1>3, ClimbedStays
<1> QED BY <1>1, <1>4 DEF Climbed

\* The invariant is inductive.
LEMMA NextIInv == IInv /\ [Next]_vars => IInv'
<1> SUFFICES ASSUME IInv, [Next]_vars PROVE IInv'
  OBVIOUS
<1>1. Sound /\ StepKind
  BY StepEffect DEF IInv
<1> QED BY <1>1, LevelsStep, ApprovedStep, RetryStep DEF IInv, Sound

(* Every row and request keeps its type, whatever the interleaving. *)
THEOREM TypeCorrect == Spec => []TypeOK
<1>1. IInv => TypeOK
  BY DEF IInv
<1> QED BY <1>1, InitIInv, NextIInv, PTL DEF Spec

(* However approve, reject, resubmit, transfer, withdraw and retry requests *)
(* interleave and crash, a task is approved only when an approval of every  *)
(* level of its workflow is on record (approve_task,                        *)
(* retry_apply_entity_change).                                              *)
THEOREM ApprovedNeedsEveryLevel == Spec => []ApprovedAtEveryLevel
<1>1. IInv => ApprovedAtEveryLevel
  BY DEF IInv, ApprovedClimbed, ApprovedAtEveryLevel, Climbed
<1> QED BY <1>1, InitIInv, NextIInv, PTL DEF Spec

(***************************************************************************)
(* What a step leaves alone, for the modules that add a business entity.   *)
(***************************************************************************)
\* A step of the service for one client.
Serves(c) ==
  \/ Submit(c)
  \/ Write(c)
  \/ \E t \in TaskIds, u \in Users : Exists(t) /\ Read(c, t, u)

\* It is sound and of one of the six kinds, whatever bounds the reads.
LEMMA ServesEffect ==
  ASSUME TypeOK, SeenRows, NEW c \in Clients, Serves(c)
  PROVE  Sound /\ StepKind
<1>1. CASE Submit(c)
  BY <1>1, SubmitType, SubmitEffect DEF StepKind
<1>2. CASE Write(c)
  BY <1>2, WriteEffect
<1>3. ASSUME NEW t \in TaskIds, NEW u \in Users, Exists(t), Read(c, t, u)
      PROVE  Sound /\ StepKind
  <2>1. UNCHANGED <<task, record>>
    BY <1>3 DEF Read, ApproveRead, AutoRead, RejectRead, WithdrawRead,
                ResubmitRead, TransferRead, RetryRead, ReadTask
  <2> QED BY <1>3, <2>1, ReadType DEF StepKind
<1> QED BY <1>1, <1>2, <1>3 DEF Serves

\* It changes the request of that client only.
LEMMA OthersKept ==
  ASSUME TypeOK, NEW c \in Clients, Serves(c)
  PROVE  req' = [req EXCEPT ![c] = req'[c]]
<1> USE DEF TypeOK
<1>1. ASSUME NEW q, SubmitReads(c, q) PROVE req' = [req EXCEPT ![c] = req'[c]]
  BY <1>1 DEF SubmitReads, Continue
<1>2. CASE Submit(c)
  BY <1>1, <1>2 DEF Submit, SubmitDirectly, SubmitRead, EnsureDefaultWorkflow,
                    SubmitAgain, SubmitWrite, SubmitFails, Continue
<1>3. CASE Write(c)
  BY <1>3 DEF Write, ClaimFails, ApproveNext, Continue, Withdraw, Transfer,
              AutoReload, RetryWrite, ApproveLast, Reject, Resubmit, RetryApply
<1>4. CASE \E t \in TaskIds, u \in Users : Read(c, t, u)
  BY <1>4 DEF Read, ApproveRead, AutoRead, RejectRead, WithdrawRead,
              ResubmitRead, TransferRead, RetryRead, ReadTask
<1> QED BY <1>2, <1>3, <1>4 DEF Serves

\* A task stays, and is about the same entity.
LEMMA EntityKept ==
  ASSUME TypeOK, StepKind, NEW t \in TaskIds, Exists(t)
  PROVE  Exists(t)' /\ task'[t].entity = task[t].entity
<1>1. ASSUME NEW row \in TaskRow, task'[t] = row, Written(t, row)
      PROVE  Exists(t)' /\ task'[t].entity = task[t].entity
  BY <1>1 DEF Written, Exists, TaskRow, NoTask, Status, FailedStatus, Restored
<1> QED BY <1>1, RowStep
     DEF Exists, Opens, Advances, Approves, Rejects, Reopens, Amends

\* A client that approves or rejects goes on with the same task or is done.
LEMMA GoesOn ==
  ASSUME TypeOK, NEW c \in Clients, Write(c),
         req[c].op \in {"approve", "reload", "reject"}
  PROVE  \/ req'[c] = Idle
         \/ /\ req[c].op \in {"approve", "reload"}
            /\ req'[c].op \in {"approve", "reload"}
            /\ req'[c].id = req[c].id
            /\ req[c].arg = WhilePending => req'[c].arg = WhilePending
<1> USE DEF TypeOK
<1>1. CASE ApproveNext(c)
  BY <1>1 DEF ApproveNext, Continue
<1>2. CASE AutoReload(c)
  <2>1. req[c] \in ApproveRequest
    BY <1>2, RequestKinds DEF AutoReload
  <2>2. Left(WhilePending) = WhilePending
    BY DEF Left
  <2>3. CASE req' = [req EXCEPT ![c] = Idle]
    BY <2>3
  <2>4. CASE req' = [req EXCEPT ![c] = [req[c] EXCEPT !.op = "approve",
                                          !.seen = task[req[c].id], !.arg = Left(@)]]
    BY <1>2, <2>1, <2>2, <2>4 DEF AutoReload, ApproveRequest, TaskRequest
  <2> QED BY <1>2, <2>3, <2>4 DEF AutoReload
<1>3. CASE req' = [req EXCEPT ![c] = Idle]
  BY <1>3
<1> QED BY <1>1, <1>2, <1>3
     DEF Write, ClaimFails, Withdraw, Transfer, RetryWrite, ApproveLast, Reject,
         Resubmit, RetryApply

(***************************************************************************)
(* One decision for each level of a round.                                 *)
(***************************************************************************)
\* What one more record does to the rounds of a task.
LEMMA LoggedRound ==
  ASSUME TypeOK, NEW t \in TaskIds, NEW l \in Nat \ {0},
         NEW a \in {"approve", "reject", "transfer", "resubmit"}, Logged(t, l, a)
  PROVE  /\ Len(record[t]) \in Nat
         /\ Len(record'[t]) = Len(record[t]) + 1
         /\ \A i \in 1..Len(record[t]) : record'[t][i] = record[t][i]
         /\ record'[t][Len(record'[t])].action = a
         /\ record'[t][Len(record'[t])].level = l
         /\ \A i, j \in 1..Len(record[t]) :
              SameRound(t, i, j)' => SameRound(t, i, j)
         /\ \A i, j \in 1..Len(record'[t]) :
              SameRound(t, i, j)' /\ j = Len(record'[t]) =>
                a # "resubmit" /\ (i < j => SameRound(t, i, j - 1))
<1>1. record[t] \in Seq(Record)
  BY DEF TypeOK
<1>2. PICK u \in Users :
        record'[t] = Append(record[t], [level |-> l, by |-> u, action |-> a])
  BY DEF Logged, TypeOK
<1>3. Len(record[t]) \in Nat
  BY <1>1
<1>4. /\ Len(record'[t]) = Len(record[t]) + 1
      /\ \A i \in 1..Len(record[t]) : record'[t][i] = record[t][i]
      /\ record'[t][Len(record'[t])].action = a
      /\ record'[t][Len(record'[t])].level = l
  BY <1>1, <1>2
<1>5. ASSUME NEW i \in 1..Len(record[t]), NEW j \in 1..Len(record[t]),
             SameRound(t, i, j)'
      PROVE  SameRound(t, i, j)
  BY <1>3, <1>4, <1>5 DEF SameRound
<1>6. ASSUME NEW i \in 1..Len(record'[t]), NEW j \in 1..Len(record'[t]),
             SameRound(t, i, j)', j = Len(record'[t])
      PROVE  a # "resubmit" /\ (i < j => SameRound(t, i, j - 1))
  <2>1. j \in i..j /\ i \in Nat /\ j \in Nat
    BY <1>3, <1>4, <1>6
  <2>2. a # "resubmit"
    BY <1>4, <1>6, <2>1 DEF SameRound
  <2>3. ASSUME NEW k \in i..(j - 1) PROVE record[t][k].action # "resubmit"
    <3>1. k \in 1..Len(record[t]) /\ k \in i..j
      BY <1>3, <1>4, <1>6, <2>1
    <3> QED BY <1>4, <1>6, <3>1 DEF SameRound
  <2> QED BY <2>2, <2>3 DEF SameRound
<1> QED BY <1>3, <1>4, <1>5, <1>6

\* A task is never pending_apply_failed when its handler does not raise for a
\* resubmission, so no retry makes a task pending.
LEMMA ReopenedStep ==
  ASSUME DInv, Sound, StepKind, "pending" \notin FailOn
  PROVE  NeverReopened'
<1> USE DEF DInv, IInv
<1>1. ASSUME NEW t \in TaskIds, Exists(t)'
      PROVE  task'[t].status # "pending_apply_failed"
  <2>1. ASSUME NEW row \in TaskRow, task'[t] = row, Amends(t, row)
        PROVE  row.status # "pending_apply_failed"
    <3>1. ASSUME NEW c \in Clients, req[c].op = "retried",
                 row.status = Restored[req[c].seen.status]
          PROVE  row.status # "pending_apply_failed"
      BY <3>1, RequestKinds DEF RetryRequest, TaskRequest, FailedStatus, Restored
    <3> QED BY <2>1, <3>1 DEF Amends, Written, NeverReopened
  <2> QED BY <1>1, <2>1, RowStep
       DEF NeverReopened, Exists, Opens, Advances, Approves, Approved, Rejects, Reopens
<1>2. ASSUME NEW c \in Clients, HasTask(c)'
      PROVE  req'[c].seen.status # "pending_apply_failed"
  BY <1>2 DEF Sound, SeenKind, Keeps, Reads, NeverReopened
<1> QED BY <1>1, <1>2 DEF NeverReopened

\* A task that does not exist has no records.
LEMMA EarlyStep ==
  ASSUME DInv, StepKind
  PROVE  NoEarlyRecord'
<1> USE DEF DInv, IInv
<1> SUFFICES ASSUME NEW t \in TaskIds, ~Exists(t)' PROVE record'[t] = <<>>
  BY DEF NoEarlyRecord
<1>1. ASSUME NEW row \in TaskRow, task'[t] = row PROVE FALSE
  BY <1>1 DEF Exists, TaskRow, NoTask, Status, FailedStatus, Restored
<1> QED BY <1>1, RowStep DEF NoEarlyRecord, Exists

\* An amendment of a pending task, but for a withdrawal, leaves it pending.
LEMMA AmendsPending ==
  ASSUME DInv, NEW t \in TaskIds, NEW row \in TaskRow, Amends(t, row),
         row.status = "pending"
  PROVE  task[t].status = "pending"
<1> USE DEF DInv, IInv
<1>1. ASSUME NEW c \in Clients, req[c].op = "retried",
             row.status = Restored[req[c].seen.status]
      PROVE  FALSE
  BY <1>1, RequestKinds DEF RetryRequest, TaskRequest, FailedStatus, Restored,
                            NeverReopened, HasTask, TaskOps
<1> QED BY <1>1 DEF Amends

\* The decisions of the round stay below the level that is pending.
LEMMA PendingStep ==
  ASSUME DInv, StepKind
  PROVE  PendingAbove'
<1> USE DEF DInv, IInv
<1> SUFFICES ASSUME NEW t \in TaskIds, Exists(t)', task'[t].status = "pending",
                    NEW i \in 1..Len(record'[t]), Decision(record'[t][i]),
                    NEW n, n = Len(record'[t]), SameRound(t, i, n)'
             PROVE  record'[t][i].level < task'[t].level
  BY DEF PendingAbove, SameRound
<1>1. CASE task'[t] = task[t] /\ record'[t] = record[t]
  BY <1>1 DEF PendingAbove, Exists, SameRound
<1>2. ASSUME NEW row \in TaskRow, task'[t] = row, Opens(t, row) PROVE FALSE
  BY <1>2 DEF Opens, NoEarlyRecord
<1>3. ASSUME Exists(t), task[t].status = "pending",
             NEW l \in Nat \ {0}, NEW a \in {"approve", "transfer"}, Logged(t, l, a),
             task'[t].level \in Nat \ {0}, task[t].level \in Nat \ {0},
             task'[t].level >= task[t].level,
             a = "approve" => l < task'[t].level
      PROVE  record'[t][i].level < task'[t].level
  <2>1. CASE i = n
    BY <1>3, <2>1, LoggedRound DEF Decision
  <2>2. CASE i # n
    <3>1. i \in 1..Len(record[t]) /\ n - 1 = Len(record[t]) /\ n \in 1..n /\ i < n
      BY <1>3, <2>2, LoggedRound
    <3>2. SameRound(t, i, n - 1) /\ record'[t][i] = record[t][i]
      BY <1>3, <3>1, LoggedRound
    <3>3. record[t][i].level < task[t].level
      BY <1>3, <3>1, <3>2 DEF PendingAbove
    <3>4. record[t][i].level \in Nat
      <4>1. record[t] \in Seq(Record)
        BY DEF TypeOK
      <4>2. record[t][i] \in Record
        BY <3>1, <4>1
      <4> QED BY <4>2 DEF Record
    <3> QED BY <1>3, <3>2, <3>3, <3>4
  <2> QED BY <2>1, <2>2
<1>4. ASSUME NEW row \in TaskRow, task'[t] = row, Advances(t, row)
      PROVE  record'[t][i].level < task'[t].level
  <2>1. task[t].level \in Nat \ {0}
    BY <1>4, TaskRows DEF Advances, Written, TaskRow
  <2> QED BY <1>3, <1>4, <2>1 DEF Advances, Written
<1>5. ASSUME NEW row \in TaskRow, task'[t] = row, Reopens(t, row) PROVE FALSE
  BY <1>5, LoggedRound DEF Reopens
<1>6. ASSUME NEW row \in TaskRow, task'[t] = row, Amends(t, row)
      PROVE  record'[t][i].level < task'[t].level
  <2>1. /\ Exists(t) /\ task[t].status = "pending"
        /\ task[t].level \in Nat \ {0} /\ task'[t].level = task[t].level
    BY <1>6, AmendsPending, TaskRows DEF Amends, Written, TaskRow
  <2>2. CASE record' = record
    BY <2>1, <2>2 DEF PendingAbove, SameRound
  <2>3. CASE \E l \in Nat \ {0} : Logged(t, l, "transfer")
    BY <1>3, <2>1, <2>3
  <2> QED BY <1>6, <2>2, <2>3 DEF Amends
<1> QED BY <1>1, <1>2, <1>4, <1>5, <1>6, RowStep
     DEF Approves, Rejects, Approved

\* A decision is of the pending level, above those of the round so far.
LEMMA DecisionStep ==
  ASSUME DInv, StepKind
  PROVE  OneDecisionPerLevel'
<1> USE DEF DInv, IInv
<1> SUFFICES ASSUME NEW t \in TaskIds,
                    NEW i \in 1..Len(record'[t]), NEW j \in 1..Len(record'[t]),
                    i < j, Decision(record'[t][i]), Decision(record'[t][j]),
                    SameRound(t, i, j)'
             PROVE  record'[t][i].level < record'[t][j].level
  BY DEF OneDecisionPerLevel
<1>1. CASE record'[t] = record[t]
  BY <1>1 DEF OneDecisionPerLevel, SameRound
<1>2. ASSUME NEW l \in Nat \ {0}, NEW a \in {"approve", "reject", "transfer", "resubmit"},
             Logged(t, l, a),
             a \in {"approve", "reject"} =>
               Exists(t) /\ task[t].status = "pending" /\ task[t].level = l
      PROVE  record'[t][i].level < record'[t][j].level
  <2>1. i \in 1..Len(record[t])
    BY <1>2, LoggedRound
  <2>2. CASE j = Len(record'[t])
    <3>1. SameRound(t, i, j - 1) /\ j - 1 = Len(record[t])
      BY <1>2, <2>2, LoggedRound
    <3>2. record'[t][j].level = l /\ record'[t][j].action = a
          /\ record'[t][i] = record[t][i]
      BY <1>2, <2>1, <2>2, LoggedRound
    <3> QED BY <1>2, <2>1, <3>1, <3>2 DEF PendingAbove, Decision
  <2>3. CASE j # Len(record'[t])
    <3>1. j \in 1..Len(record[t])
      BY <1>2, <2>3, LoggedRound
    <3>2. SameRound(t, i, j)
      BY <1>2, <2>1, <3>1, LoggedRound
    <3>3. record'[t][i] = record[t][i] /\ record'[t][j] = record[t][j]
      BY <1>2, <2>1, <3>1, LoggedRound
    <3> QED BY <2>1, <3>1, <3>2, <3>3 DEF OneDecisionPerLevel
  <2> QED BY <2>2, <2>3
<1>3. ASSUME NEW row \in TaskRow, Advances(t, row) \/ Approves(t, row) \/ Rejects(t, row)
      PROVE  record'[t][i].level < record'[t][j].level
  <2>1. Exists(t) /\ task[t].status = "pending"
    BY <1>3 DEF Advances, Approves, Rejects, Written
  <2>2. task[t].level \in Nat \ {0}
    BY <2>1, TaskRows DEF TaskRow
  <2>3. Logged(t, task[t].level, "approve") \/ Logged(t, task[t].level, "reject")
    BY <1>3 DEF Advances, Approves, Rejects
  <2> QED BY <1>2, <2>1, <2>2, <2>3
<1>4. ASSUME NEW row \in TaskRow, Reopens(t, row)
      PROVE  record'[t][i].level < record'[t][j].level
  BY <1>2, <1>4 DEF Reopens
<1>5. ASSUME NEW row \in TaskRow, Amends(t, row)
      PROVE  record'[t][i].level < record'[t][j].level
  BY <1>1, <1>2, <1>5 DEF Amends
<1>6. ASSUME NEW row \in TaskRow, Opens(t, row)
      PROVE  record'[t][i].level < record'[t][j].level
  BY <1>1, <1>6 DEF Opens
<1> QED BY <1>1, <1>3, <1>4, <1>5, <1>6, RowStep

LEMMA InitDInv == Init => DInv
<1> SUFFICES ASSUME Init PROVE DInv
  OBVIOUS
<1>1. \A t \in TaskIds : ~Exists(t) /\ record[t] = <<>>
  BY DEF Init, Exists
<1>2. \A c \in Clients : ~HasTask(c)
  BY IdleRequest DEF Init, HasTask
<1> QED BY <1>1, <1>2, InitIInv DEF DInv, NeverReopened, NoEarlyRecord,
                                    PendingAbove, OneDecisionPerLevel

(* The conditional UPDATE of approve_task and reject_task lets no level of  *)
(* a round be decided twice, for any number of clients, provided the apply  *)
(* handler does not raise for a resubmission: a retry of a                  *)
(* pending_apply_failed task makes it pending again without a record.       *)
THEOREM DecisionsOnce ==
  ASSUME "pending" \notin FailOn
  PROVE  Spec => []OneDecisionPerLevel
<1>1. Init => DInv
  BY InitDInv
<1>2. DInv /\ [Next]_vars => DInv'
  <2> SUFFICES ASSUME DInv, [Next]_vars PROVE DInv'
    OBVIOUS
  <2>1. Sound /\ StepKind
    BY StepEffect DEF DInv, IInv
  <2> QED BY <2>1, NextIInv, ReopenedStep, EarlyStep, PendingStep, DecisionStep
       DEF DInv
<1>3. DInv => OneDecisionPerLevel
  BY DEF DInv
<1> QED BY <1>1, <1>2, <1>3, PTL DEF Spec

(***************************************************************************)
(* The service implements ApprovalLedger.  Each of the six kinds of step   *)
(* is a step of the ledger or leaves it alone: an approval signs the level *)
(* the task is at, whose predecessors have signed (LevelsClimbed); a task  *)
(* that becomes approved, also by a retry that another request overtook,   *)
(* has every signature (ApprovedClimbed after the step).                   *)
(***************************************************************************)
\* No task is above the last level of its workflow.
LevelsBounded ==
  \A t \in TaskIds : Exists(t) => task[t].level <= Len(Chain[task[t].wf])

LInv == IInv /\ LevelsBounded

LEMMA InitLInv == Init => LInv
<1> SUFFICES ASSUME Init PROVE LInv
  OBVIOUS
<1>1. IInv
  BY InitIInv
<1>2. \A t \in TaskIds : ~Exists(t)
  BY DEF Init, Exists
<1> QED BY <1>1, <1>2 DEF LInv, LevelsBounded

\* A task starts at level 1, climbs to levels its workflow has and goes back
\* to level 1.
LEMMA BoundedStep ==
  ASSUME IInv, LevelsBounded, StepKind
  PROVE  LevelsBounded'
<1> SUFFICES ASSUME NEW t \in TaskIds, Exists(t)'
             PROVE  task'[t].level <= Len(Chain[task'[t].wf])
  BY DEF LevelsBounded
<1>1. CASE task'[t] = task[t]
  BY <1>1 DEF LevelsBounded, Exists
<1>2. ASSUME NEW row \in TaskRow, task'[t] = row, row.level = 1
      PROVE  task'[t].level <= Len(Chain[task'[t].wf])
  <2>1. Len(Chain[row.wf]) \in Nat \ {0}
    BY ChainType DEF TaskRow
  <2> QED BY <1>2, <2>1
<1>3. ASSUME NEW row \in TaskRow, task'[t] = row, Written(t, row),
             row.level = task[t].level
      PROVE  task'[t].level <= Len(Chain[task'[t].wf])
  BY <1>3 DEF LevelsBounded, Written
<1> QED BY <1>1, <1>2, <1>3, RowStep
     DEF IInv, Opens, Advances, Approves, Rejects, Reopens, Amends

LEMMA NextLInv == LInv /\ [Next]_vars => LInv'
<1> SUFFICES ASSUME LInv, [Next]_vars PROVE LInv'
  OBVIOUS
<1>1. StepKind
  BY StepEffect DEF LInv, IInv
<1> QED BY <1>1, NextIInv, BoundedStep DEF LInv

(***************************************************************************)
(* The refinement.                                                         *)
(***************************************************************************)
needs == [t \in TaskIds |-> IF Exists(t) THEN Len(Chain[task[t].wf]) ELSE 0]
signed == [t \in TaskIds |-> Signed(t)]
granted == {t \in TaskIds : Exists(t) /\ task[t].status \in Approved}

\* The levels that have signed, and those of a climb.
LEMMA SignedLevels ==
  ASSUME TypeOK, NEW t \in TaskIds
  PROVE  /\ \A l : l \in Signed(t) <=>
               \E i \in 1..Len(record[t]) :
                 record[t][i].action = "approve" /\ record[t][i].level = l
         /\ \A n \in Nat : Climbed(t, n) <=> 1..n \subseteq Signed(t)
BY DEF Signed, Climbed

\* One more record signs its level if it is an approval.
LEMMA LoggedSigned ==
  ASSUME TypeOK, TypeOK', NEW t \in TaskIds, NEW l \in Nat \ {0}, NEW a,
         Logged(t, l, a)
  PROVE  /\ Signed(t)' = IF a = "approve" THEN Signed(t) \cup {l} ELSE Signed(t)
         /\ \A s \in TaskIds \ {t} : Signed(s)' = Signed(s)
<1>1. record[t] \in Seq(Record) /\ record'[t] \in Seq(Record)
  BY DEF TypeOK
<1>2. PICK u \in Users :
        record' = [record EXCEPT ![t] =
                     Append(@, [level |-> l, by |-> u, action |-> a])]
  BY DEF Logged
<1>3. /\ Len(record'[t]) = Len(record[t]) + 1
      /\ Len(record[t]) \in Nat
      /\ \A i \in 1..Len(record[t]) : record'[t][i] = record[t][i]
      /\ record'[t][Len(record[t]) + 1] = [level |-> l, by |-> u, action |-> a]
  BY <1>1, <1>2 DEF TypeOK
<1>4. \A m : m \in Signed(t)' <=> m \in Signed(t) \/ (a = "approve" /\ m = l)
  <2>1. ASSUME NEW m, m \in Signed(t)'
        PROVE  m \in Signed(t) \/ (a = "approve" /\ m = l)
    <3>1. PICK i \in 1..Len(record'[t]) :
            record'[t][i].action = "approve" /\ record'[t][i].level = m
      BY <2>1 DEF Signed
    <3>2. CASE i = Len(record[t]) + 1
      BY <1>3, <3>1, <3>2
    <3>3. CASE i \in 1..Len(record[t])
      BY <1>3, <3>1, <3>3, SignedLevels
    <3> QED BY <1>3, <3>1, <3>2, <3>3
  <2>2. ASSUME NEW m, m \in Signed(t)
        PROVE  m \in Signed(t)'
    <3>1. PICK i \in 1..Len(record[t]) :
            record[t][i].action = "approve" /\ record[t][i].level = m
      BY <2>2, SignedLevels
    <3>2. i \in 1..Len(record'[t]) /\ record'[t][i] = record[t][i]
      BY <1>3
    <3> QED BY <3>1, <3>2 DEF Signed
  <2>3. ASSUME a = "approve"
        PROVE  l \in Signed(t)'
    <3>1. Len(record[t]) + 1 \in 1..Len(record'[t])
      BY <1>3
    <3> QED BY <1>3, <2>3, <3>1 DEF Signed
  <2> QED BY <2>1, <2>2, <2>3
<1>5. \A s \in TaskIds \ {t} : record'[s] = record[s]
  BY <1>2 DEF TypeOK
<1> QED BY <1>4, <1>5 DEF Signed

\* What the ledger sees of a row that is written, and of a record.
LEMMA RowMapping ==
  ASSUME TypeOK, NEW t \in TaskIds, NEW row \in TaskRow,
         task' = [task EXCEPT ![t] = row]
  PROVE  /\ needs' = [needs EXCEPT ![t] = Len(Chain[row.wf])]
         /\ granted' = IF row.status \in Approved THEN granted \cup {t} ELSE granted \ {t}
<1>1. row # NoTask
  BY DEF TaskRow, NoTask, Status, FailedStatus, Restored
<1>2. task'[t] = row /\ \A s \in TaskIds \ {t} : task'[s] = task[s]
  BY DEF TypeOK
<1>3. Exists(t)' /\ \A s \in TaskIds \ {t} : Exists(s)' <=> Exists(s)
  BY <1>1, <1>2 DEF Exists
<1>4. needs' = [needs EXCEPT ![t] = Len(Chain[row.wf])]
  <2>1. \A s \in TaskIds :
          needs'[s] = IF s = t THEN Len(Chain[row.wf]) ELSE needs[s]
    BY <1>2, <1>3 DEF needs
  <2> QED BY <2>1 DEF needs
<1>5. \A s : s \in granted' <=> IF s = t THEN row.status \in Approved ELSE s \in granted
  BY <1>2, <1>3 DEF granted
<1> QED BY <1>4, <1>5

LEMMA RecordMapping ==
  ASSUME TypeOK, TypeOK'
  PROVE  /\ record' = record => signed' = signed
         /\ \A t \in TaskIds, l \in Nat \ {0} :
              Logged(t, l, "approve") =>
                signed' = [signed EXCEPT ![t] = @ \cup {l}]
         /\ \A t \in TaskIds, l \in Nat \ {0}, a \in {"reject", "resubmit", "transfer"} :
              Logged(t, l, a) => signed' = signed
<1>1. record' = record => signed' = signed
  BY DEF signed, Signed
<1>2. ASSUME NEW t \in TaskIds, NEW l \in Nat \ {0}, Logged(t, l, "approve")
      PROVE  signed' = [signed EXCEPT ![t] = @ \cup {l}]
  <2>1. Signed(t)' = Signed(t) \cup {l} /\ \A s \in TaskIds \ {t} : Signed(s)' = Signed(s)
    BY <1>2, LoggedSigned
  <2> QED BY <2>1 DEF signed
<1>3. ASSUME NEW t \in TaskIds, NEW l \in Nat \ {0},
             NEW a \in {"reject", "resubmit", "transfer"}, Logged(t, l, a)
      PROVE  signed' = signed
  <2>1. \A s \in TaskIds : Signed(s)' = Signed(s)
    BY <1>3, LoggedSigned
  <2> QED BY <2>1 DEF signed
<1> QED BY <1>1, <1>2, <1>3

\* The mapping of a task that exists.
LEMMA Mapped ==
  ASSUME LInv, NEW t \in TaskIds, Exists(t)
  PROVE  /\ needs[t] = Len(Chain[task[t].wf])
         /\ needs[t] \in Nat \ {0}
         /\ task[t].level \in 1..needs[t]
         /\ 1..(task[t].level - 1) \subseteq signed[t]
         /\ (t \in granted <=> task[t].status \in Approved)
         /\ t \in granted => 1..needs[t] \subseteq signed[t]
<1>1. task[t] \in TaskRow
  BY TaskRows DEF LInv, IInv
<1>2. /\ needs[t] = Len(Chain[task[t].wf])
      /\ signed[t] = Signed(t)
      /\ (t \in granted <=> task[t].status \in Approved)
  BY DEF needs, signed, granted
<1>3. needs[t] \in Nat \ {0} /\ task[t].level \in Nat \ {0}
  BY <1>1, <1>2, ChainType DEF TaskRow
<1>4. task[t].level <= needs[t]
  BY <1>2 DEF LInv, LevelsBounded
<1>5. Climbed(t, task[t].level - 1)
  BY DEF LInv, IInv, LevelsClimbed
<1>6. t \in granted => Climbed(t, Len(Chain[task[t].wf]))
  BY <1>2 DEF LInv, IInv, ApprovedClimbed
<1>7. \A n : Climbed(t, n) => 1..n \subseteq signed[t]
  BY <1>2 DEF Climbed, Signed
<1> QED BY <1>2, <1>3, <1>4, <1>5, <1>6, <1>7

\* The step of the ledger that each kind of step is.
LEMMA LedgerStep ==
  ASSUME LInv, LInv', StepKind
  PROVE  [Ledger!LedgerNext]_<<needs, signed, granted>>
<1> DEFINE Step == [Ledger!LedgerNext]_<<needs, signed, granted>>
<1>0. TypeOK /\ TypeOK'
  BY DEF LInv, IInv
<1>1. CASE UNCHANGED <<task, record>>
  BY <1>1 DEF needs, signed, granted, Signed, Exists
<1>2. ASSUME NEW t \in TaskIds, NEW row \in TaskRow, Opens(t, row)
      PROVE  Ledger!Open(t)
  <2>1. /\ needs[t] = 0 /\ t \notin granted /\ row.status \notin Approved
        /\ task' = [task EXCEPT ![t] = row] /\ record' = record
    BY <1>2 DEF Opens, needs, granted, Approved
  <2>2. /\ needs' = [needs EXCEPT ![t] = Len(Chain[row.wf])]
        /\ granted' = granted
    <3>1. granted' = granted \ {t}
      BY <1>0, <2>1, RowMapping
    <3> QED BY <1>0, <2>1, <3>1, RowMapping
  <2>3. signed' = signed
    BY <1>0, <2>1, RecordMapping
  <2>4. row.wf \in Workflows
    BY DEF TaskRow
  <2> QED BY <2>1, <2>2, <2>3, <2>4 DEF Ledger!Open, needs, signed, granted
<1>3. ASSUME NEW t \in TaskIds, NEW row \in TaskRow, Written(t, row)
      PROVE  /\ needs' = needs
             /\ granted' = IF row.status \in Approved THEN granted \cup {t} ELSE granted \ {t}
             /\ row.status \in Approved => 1..needs[t] \subseteq signed'[t]
  <2>1. /\ needs' = [needs EXCEPT ![t] = Len(Chain[row.wf])]
        /\ granted' = IF row.status \in Approved THEN granted \cup {t} ELSE granted \ {t}
    BY <1>0, <1>3, RowMapping DEF Written
  <2>2. needs[t] = Len(Chain[row.wf])
    BY <1>3 DEF Written, needs
  <2>3. needs' = needs
    BY <2>1, <2>2 DEF needs
  <2>4. ASSUME row.status \in Approved
        PROVE  1..needs[t] \subseteq signed'[t]
    <3>1. task'[t] = row /\ row # NoTask
      BY <1>0, <1>3 DEF Written, TypeOK, TaskRow, NoTask, Status, FailedStatus, Restored
    <3>2. Climbed(t, Len(Chain[row.wf]))'
      BY <2>4, <3>1 DEF LInv, IInv, ApprovedClimbed, Exists, Climbed
    <3> QED BY <2>2, <3>2 DEF Climbed, signed, Signed
  <2> QED BY <2>1, <2>3, <2>4
\* An approval signs the level the task is at.
<1>4. ASSUME NEW t \in TaskIds, NEW row \in TaskRow,
             Advances(t, row) \/ Approves(t, row)
      PROVE  \E l \in 1..needs[t] : Ledger!Sign(t, l)
  <2>1. /\ Written(t, row) /\ Exists(t)
        /\ task[t].status = "pending"
        /\ Logged(t, task[t].level, "approve")
    BY <1>4 DEF Advances, Approves, Written
  <2>2. PICK l : l = task[t].level
    OBVIOUS
  <2>3. /\ l \in 1..needs[t] /\ needs[t] \in Nat \ {0}
        /\ 1..(l - 1) \subseteq signed[t]
        /\ t \notin granted
    BY <2>1, <2>2, Mapped DEF Approved
  <2>4. signed' = [signed EXCEPT ![t] = @ \cup {l}]
    BY <1>0, <2>1, <2>2, <2>3, RecordMapping
  <2>5. needs' = needs /\ (granted' = granted \/
                             (granted' = granted \cup {t} /\ 1..needs[t] \subseteq signed'[t]))
    BY <1>3, <2>1, <2>3
  <2>6. needs'[t] = needs[t]
    BY <2>5
  <2> QED BY <2>3, <2>4, <2>5, <2>6 DEF Ledger!Sign, Ledger!Complete, needs, signed, granted
\* Nothing else signs; a task that becomes approved again has its signatures.
<1>5. ASSUME NEW t \in TaskIds, NEW row \in TaskRow,
             Rejects(t, row) \/ Reopens(t, row) \/ Amends(t, row)
      PROVE  Ledger!Grant(t) \/ Ledger!Revoke(t)
  <2>1. Written(t, row) /\ Exists(t)
    BY <1>5 DEF Rejects, Reopens, Amends, Written
  <2>2. task[t].level \in Nat \ {0}
    BY <1>0, <2>1, TaskRows DEF TaskRow
  <2>3. signed' = signed
    BY <1>0, <1>5, <2>2, RecordMapping DEF Rejects, Reopens, Amends
  <2>4. /\ needs' = needs
        /\ granted' = IF row.status \in Approved THEN granted \cup {t} ELSE granted \ {t}
        /\ row.status \in Approved => 1..needs[t] \subseteq signed[t]
    BY <1>3, <2>1, <2>3
  <2>5. needs[t] # 0
    BY <2>1, Mapped
  <2> QED BY <2>3, <2>4, <2>5
       DEF Ledger!Grant, Ledger!Revoke, Ledger!Complete, needs, signed, granted
<1>6. CASE \E t \in TaskIds, row \in TaskRow :
             \/ Opens(t, row) \/ Advances(t, row) \/ Approves(t, row)
             \/ Rejects(t, row) \/ Reopens(t, row) \/ Amends(t, row)
  <2>1. \E t \in TaskIds :
          \/ Ledger!Open(t) \/ Ledger!Grant(t) \/ Ledger!Revoke(t)
          \/ \E l \in 1..needs[t] : Ledger!Sign(t, l)
    BY <1>2, <1>4, <1>5, <1>6
  <2> QED BY <2>1 DEF Ledger!LedgerNext, needs
<1> QED BY <1>1, <1>6 DEF StepKind

\* The service starts with an empty ledger.
LEMMA LedgerStart == Init => Ledger!LedgerInit
<1> SUFFICES ASSUME Init PROVE Ledger!LedgerInit
  OBVIOUS
<1>1. \A t \in TaskIds : ~Exists(t) /\ Signed(t) = {}
  BY DEF Init, Exists, Signed
<1> QED BY <1>1 DEF Ledger!LedgerInit

(* The approval workflow service implements the ledger of approvals: every  *)
(* step, however requests interleave, fail and crash, signs at most one     *)
(* level of one task, in order, loses no signature, and lets a task become  *)
(* approved only when every level of its workflow has signed.               *)
THEOREM ServiceImplementsLedger == Spec => ImplementsLedger
<1>1. LInv /\ LInv' /\ [Next]_vars => [Ledger!LedgerNext]_<<needs, signed, granted>>
  BY StepEffect, LedgerStep DEF LInv, IInv
<1>2. LInv /\ LInv' /\ [Next]_vars => [Ledger!LedgerNext]_(Ledger!lvars)
  BY <1>1 DEF Ledger!lvars, needs, signed, granted
<1> QED BY <1>2, InitLInv, NextLInv, LedgerStart, PTL
     DEF Spec, ImplementsLedger, Ledger!LedgerSpec
=============================================================================
