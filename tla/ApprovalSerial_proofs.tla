------------------------ MODULE ApprovalSerial_proofs ------------------------
(***************************************************************************)
(* What the approval workflow service promises when requests do not        *)
(* overlap: proofs of three properties that overlapping requests break.    *)
(*                                                                         *)
(* With one request at a time the row a request has read is still the row  *)
(* in the table when it writes (Fresh), and its user may make it           *)
(* (Rightful).  So a decision is made by the approver assigned at that     *)
(* moment, and a resubmission really starts over at the first level, which *)
(* makes the levels below the current one approved in this round           *)
(* (RoundClimbed) and the assigned approver the one of the level, or one   *)
(* it was transferred to in this round (Owned).                            *)
(***************************************************************************)
EXTENDS ApprovalTasks_proofs

\* Requests do not overlap: at most one thread serves them.
Serial == \A c, d \in Clients : c = d

(***************************************************************************)
(* The inductive invariant.                                                *)
(***************************************************************************)
WritingOps == {"approve", "reject", "withdraw", "transfer", "resubmit",
               "retry", "retried"}

\* What request r knows of the rows.
UpToDate(r, rows) ==
  /\ r.op \in WritingOps => r.seen = rows[r.id]
  /\ r.op = "withdraw" => r.seen.status = "pending"

Fresh == \A c \in Clients : UpToDate(req[c], task)

\* Request r is one its user may make.
Entitled(r) ==
  /\ r.op \in {"approve", "reject"} =>
       r.user \in Superusers \/ r.seen.approver = r.user
  /\ r.op = "reload" \/ (r.op = "approve" /\ r.arg # 0) => r.user \in Superusers
  /\ r.op \in {"query", "ensure", "again", "insert"} /\ r.kind = "auto" =>
       r.user \in Superusers

Rightful == \A c \in Clients : Entitled(req[c])

\* An approval of each of the first n levels is on record in this round.
ClimbedNow(t, n) ==
  \A l \in 1..n : \E i \in 1..Len(record[t]) :
    /\ record[t][i].action = "approve"
    /\ record[t][i].level = l
    /\ SameRound(t, i, Len(record[t]))

Open == {"pending", "pending_apply_failed"}

RoundClimbed ==
  \A t \in TaskIds : Exists(t) =>
    /\ task[t].status \in Open => ClimbedNow(t, task[t].level - 1)
    /\ task[t].status \in Approved => ClimbedNow(t, Len(Chain[task[t].wf]))

SInv == IInv /\ Fresh /\ RoundClimbed

(***************************************************************************)
(* The requests stay up to date.                                           *)
(***************************************************************************)
\* The only client gets request r.
LEMMA OnlyRequest ==
  ASSUME Serial, TypeOK, NEW c \in Clients, NEW r, req' = [req EXCEPT ![c] = r]
  PROVE  /\ UpToDate(r, task') => Fresh'
         /\ Entitled(r) => Rightful'
<1>1. \A d \in Clients : req'[d] = r
  BY DEF Serial, TypeOK
<1> QED BY <1>1 DEF Fresh, Rightful

LEMMA IdleUpToDate ==
  ASSUME NEW rows
  PROVE  UpToDate(Idle, rows) /\ Entitled(Idle)
BY DEF UpToDate, Entitled, Idle, WritingOps

\* The request that reads a submission or a task again.
LEMMA ContinueFresh ==
  ASSUME Serial, TypeOK, NEW c \in Clients, NEW rounds, NEW t, NEW u, NEW row,
         Continue(c, rounds, t, u, row)
  PROVE  /\ Fresh'
         /\ (rounds # 0 => u \in Superusers) => Rightful'
<1> DEFINE r == [op |-> "reload", id |-> t, user |-> u, seen |-> row,
                 arg |-> rounds]
<1>1. CASE rounds = 0
  BY <1>1, OnlyRequest, IdleUpToDate DEF Continue
<1>2. CASE rounds # 0
  <2>1. UpToDate(r, task') /\ (u \in Superusers => Entitled(r))
    BY DEF UpToDate, Entitled, WritingOps
  <2> QED BY <1>2, <2>1, OnlyRequest DEF Continue
<1> QED BY <1>1, <1>2

LEMMA SubmitReadsFresh ==
  ASSUME Serial, TypeOK, NEW c \in Clients, NEW q \in Query, SubmitReads(c, q)
  PROVE  /\ Fresh'
         /\ (q.kind = "auto" => q.user \in Superusers) => Rightful'
<1> USE DEF SubmitReads
<1> DEFINE Goal == /\ Fresh'
                   /\ (q.kind = "auto" => q.user \in Superusers) => Rightful'
<1>1. ASSUME NEW t \in TaskIds,
             Continue(c, Rounds(q.kind, task[t].wf), t, q.user, task[t])
      PROVE  Goal
  BY <1>1, ContinueFresh DEF Rounds
<1>2. ASSUME NEW w \in Workflows,
             req' = [req EXCEPT ![c] =
                       [op |-> "insert", kind |-> q.kind, entity |-> q.entity,
                        user |-> q.user, change |-> q.change, wf |-> w]]
      PROVE  Goal
  <2> DEFINE r == [op |-> "insert", kind |-> q.kind, entity |-> q.entity,
                   user |-> q.user, change |-> q.change, wf |-> w]
  <2>1. UpToDate(r, task')
        /\ ((q.kind = "auto" => q.user \in Superusers) => Entitled(r))
    BY DEF UpToDate, Entitled, WritingOps
  <2> HIDE DEF r
  <2>2. req' = [req EXCEPT ![c] = r]
    BY <1>2 DEF r
  <2> QED BY <2>1, <2>2, OnlyRequest
<1>3. CASE req' = [req EXCEPT ![c] = Idle]
  BY <1>3, OnlyRequest, IdleUpToDate
<1>4. CASE req' = [req EXCEPT ![c] = [q EXCEPT !.op = "ensure"]]
  <2> DEFINE r == [q EXCEPT !.op = "ensure"]
  <2>1. UpToDate(r, task')
        /\ ((q.kind = "auto" => q.user \in Superusers) => Entitled(r))
    BY DEF UpToDate, Entitled, WritingOps, Query
  <2> HIDE DEF r
  <2>2. req' = [req EXCEPT ![c] = r]
    BY <1>4 DEF r
  <2> QED BY <2>1, <2>2, OnlyRequest
<1> QED BY <1>1, <1>2, <1>3, <1>4 DEF Active

LEMMA SubmitFresh ==
  ASSUME Serial, TypeOK, NEW c \in Clients, Submit(c)
  PROVE  Fresh' /\ (Rightful => Rightful')
<1>1. ASSUME NEW kind \in Kind, NEW e \in Entities, NEW u \in Users,
             NEW ch \in Changes, SubmitRead(c, kind, e, u, ch)
      PROVE  Fresh' /\ ((kind = "auto" => u \in Superusers) => Rightful')
  <2> DEFINE q == [op |-> "query", kind |-> kind, entity |-> e, user |-> u,
                   change |-> ch]
  <2>1. q \in Query /\ SubmitReads(c, q) /\ q.kind = kind /\ q.user = u
    BY <1>1 DEF Query, SubmitRead
  <2> HIDE DEF q
  <2> QED BY <1>1, <2>1, SubmitReadsFresh
<1>2. CASE EnsureDefaultWorkflow(c)
  <2>1. req[c] \in Query
    BY <1>2, RequestKinds DEF EnsureDefaultWorkflow
  <2> DEFINE r == [req[c] EXCEPT !.op = "again"]
  <2>2. UpToDate(r, task') /\ (Rightful => Entitled(r))
    BY <1>2, <2>1
    DEF EnsureDefaultWorkflow, UpToDate, WritingOps, Query, Rightful, Entitled
  <2>3. req' = [req EXCEPT ![c] = r]
    BY <1>2 DEF EnsureDefaultWorkflow, TypeOK
  <2> HIDE DEF r
  <2> QED BY <2>2, <2>3, OnlyRequest
<1>3. CASE SubmitAgain(c)
  <2>1. /\ req[c] \in Query
        /\ Rightful => (req[c].kind = "auto" => req[c].user \in Superusers)
    BY <1>3, RequestKinds DEF SubmitAgain, Rightful, Entitled
  <2> QED BY <1>3, <2>1, SubmitReadsFresh DEF SubmitAgain
<1>4. CASE SubmitWrite(c)
  <2>1. Rightful => (req[c].kind = "auto" => req[c].user \in Superusers)
    BY <1>4 DEF SubmitWrite, Rightful, Entitled
  <2>2. PICK t \in TaskIds :
          Continue(c, Rounds(req[c].kind, req[c].wf), t, req[c].user, NewTask(req[c]))
    BY <1>4 DEF SubmitWrite
  <2> QED BY <2>1, <2>2, ContinueFresh DEF Rounds
<1>5. CASE SubmitFails(c)
  BY <1>5, OnlyRequest, IdleUpToDate DEF SubmitFails
<1> QED BY <1>1, <1>2, <1>3, <1>4, <1>5 DEF Submit, SubmitDirectly, Kind

\* A read of a task takes the row that is in the table.
LEMMA ReadTaskFresh ==
  ASSUME Serial, TypeOK, NEW c \in Clients, NEW t, NEW u, NEW op, NEW arg,
         ReadTask(c, op, t, u, arg),
         op = "withdraw" => task[t].status = "pending"
  PROVE  /\ Fresh'
         /\ /\ op \in {"approve", "reject"} => u \in Superusers \/ task[t].approver = u
            /\ op # "reload"
            /\ op = "approve" /\ arg # 0 => u \in Superusers
            /\ op \notin {"query", "ensure", "again", "insert"}
            => Rightful'
<1> DEFINE r == [op |-> op, id |-> t, user |-> u, seen |-> task[t], arg |-> arg]
<1>1. UpToDate(r, task')
  BY DEF UpToDate, ReadTask
<1>2. req' = [req EXCEPT ![c] = r]
  BY DEF ReadTask
<1>3. /\ r.op = op /\ r.user = u /\ r.seen = task[t] /\ r.arg = arg
  OBVIOUS
<1> HIDE DEF r
<1> QED BY <1>1, <1>2, <1>3, OnlyRequest DEF Entitled

LEMMA ReadFresh ==
  ASSUME Serial, TypeOK, NEW c \in Clients, NEW t \in TaskIds, NEW u \in Users,
         Read(c, t, u)
  PROVE  Fresh' /\ Rightful'
<1>1. CASE ApproveRead(c, t, u, u \in Superusers)
  BY <1>1, ReadTaskFresh DEF ApproveRead, MayDecide
<1>2. CASE u \in Superusers /\ AutoRead(c, t, u)
  BY <1>2, ReadTaskFresh DEF AutoRead
<1>3. CASE RejectRead(c, t, u, u \in Superusers)
  BY <1>3, ReadTaskFresh DEF RejectRead, MayDecide
<1>4. CASE WithdrawRead(c, t, u)
  BY <1>4, ReadTaskFresh DEF WithdrawRead
<1>5. CASE \E ch \in Changes \cup {NoChange} : ResubmitRead(c, t, u, ch)
  BY <1>5, ReadTaskFresh DEF ResubmitRead
<1>6. CASE \E to \in Users : TransferRead(c, t, u, to, u \in Superusers)
  BY <1>6, ReadTaskFresh DEF TransferRead
<1>7. CASE RetryRead(c, t, u)
  BY <1>7, ReadTaskFresh DEF RetryRead
<1> QED BY <1>1, <1>2, <1>3, <1>4, <1>5, <1>6, <1>7 DEF Read

\* A write ends the request, or goes on to approve the next level.
LEMMA WriteFresh ==
  ASSUME Serial, TypeOK, Fresh, NEW c \in Clients, Write(c)
  PROVE  Fresh' /\ (Rightful => Rightful')
<1>1. CASE req' = [req EXCEPT ![c] = Idle]
  BY <1>1, OnlyRequest, IdleUpToDate
<1>2. CASE ApproveNext(c)
  <2>1. Rightful => (req[c].arg # 0 => req[c].user \in Superusers)
    BY <1>2 DEF ApproveNext, Rightful, Entitled
  <2> QED BY <1>2, <2>1, ContinueFresh DEF ApproveNext
<1>3. CASE AutoReload(c) /\ task[req[c].id].status = "pending"
  <2> DEFINE r == [req[c] EXCEPT !.op = "approve", !.seen = task[req[c].id],
                                 !.arg = Left(@)]
  <2>1. req[c] \in ApproveRequest /\ (Rightful => req[c].user \in Superusers)
    BY <1>3, RequestKinds DEF AutoReload, Rightful, Entitled
  <2>2. UpToDate(r, task') /\ (Rightful => Entitled(r))
    BY <1>3, <2>1 DEF AutoReload, UpToDate, Entitled, ApproveRequest, TaskRequest
  <2>3. req' = [req EXCEPT ![c] = r]
    BY <1>3 DEF AutoReload
  <2> HIDE DEF r
  <2> QED BY <2>2, <2>3, OnlyRequest
<1>4. CASE \E ok \in BOOLEAN : RetryApply(c, ok) /\ req' = [req EXCEPT ![c].op = "retried"]
  <2> DEFINE r == [req[c] EXCEPT !.op = "retried"]
  <2>1. req[c] \in RetryRequest /\ req[c].seen = task[req[c].id] /\ task' = task
    BY <1>4, RequestKinds DEF RetryApply, Fresh, UpToDate, WritingOps
  <2>2. UpToDate(r, task') /\ Entitled(r)
    BY <2>1 DEF UpToDate, Entitled, RetryRequest, TaskRequest
  <2>3. req' = [req EXCEPT ![c] = r]
    BY <1>4 DEF TypeOK
  <2> HIDE DEF r
  <2> QED BY <2>2, <2>3, OnlyRequest
<1>5. ASSUME NEW ok \in BOOLEAN, RetryApply(c, ok)
      PROVE  \/ req' = [req EXCEPT ![c] = Idle]
             \/ req' = [req EXCEPT ![c].op = "retried"]
  BY <1>5 DEF RetryApply, TypeOK
<1>6. AutoReload(c) => req' = [req EXCEPT ![c] = Idle]
                       \/ task[req[c].id].status = "pending"
  BY DEF AutoReload
<1> QED BY <1>1, <1>2, <1>3, <1>4, <1>5, <1>6
     DEF Write, ClaimFails, Withdraw, Transfer, RetryWrite, ApproveLast, Reject,
         Resubmit

LEMMA FreshStep ==
  ASSUME Serial, SInv, [Next]_vars
  PROVE  Fresh' /\ (Rightful => Rightful')
<1> USE DEF SInv, IInv
<1>1. CASE Configure \/ UNCHANGED vars
  <2>1. UNCHANGED <<task, req>>
    BY <1>1 DEF Configure, CreateWorkflow, UpdateWorkflow, DeleteWorkflow, vars
  <2> QED BY <2>1 DEF Fresh, Rightful
<1>2. CASE Crash
  BY <1>2, IdleUpToDate DEF Crash, Fresh, Rightful
<1> QED BY <1>1, <1>2, SubmitFresh, ReadFresh, WriteFresh DEF Next

(***************************************************************************)
(* What a step does to the tasks when the row it writes is the row read.   *)
(***************************************************************************)
Restarts(t, row) == Reopens(t, row) /\ row.level = 1

\* A withdrawal of a pending task, a transfer, or a retry that succeeds.
Corrects(t, row) ==
  /\ Amends(t, row)
  /\ \/ row.status = task[t].status
     \/ row.status = "withdrawn" /\ task[t].status = "pending"
     \/ task[t].status \in FailedStatus /\ row.status = Restored[task[t].status]

SerialKind ==
  \/ UNCHANGED <<task, record>>
  \/ \E t \in TaskIds, row \in TaskRow :
       \/ Opens(t, row) \/ Advances(t, row) \/ Approves(t, row)
       \/ Rejects(t, row) \/ Restarts(t, row) \/ Corrects(t, row)

LEMMA ResubmitRestarts ==
  ASSUME SInv, NEW c \in Clients, NEW ok \in BOOLEAN, Resubmit(c, ok)
  PROVE  SerialKind
<1> USE DEF SInv, IInv
<1> DEFINE t == req[c].id
<1>1. t \in TaskIds /\ req[c].seen = task[t]
  BY ResubmitEffect DEF Fresh, UpToDate, WritingOps, Resubmit
<1>2. PICK row \in TaskRow : Reopens(t, row)
  BY ResubmitEffect
<1>3. task[t] \in TaskRow
  BY <1>1, <1>2, TaskRows DEF Reopens, Written
<1>4. task'[t].level = 1
  BY <1>1, <1>3 DEF Resubmit, Flush, TypeOK, TaskRow
<1>5. row.level = 1
  BY <1>1, <1>2, <1>4 DEF Reopens, Written, TypeOK
<1> QED BY <1>1, <1>2, <1>5 DEF SerialKind, Restarts

LEMMA AmendCorrects ==
  ASSUME SInv, NEW c \in Clients, Withdraw(c) \/ Transfer(c) \/ RetryWrite(c)
  PROVE  SerialKind
<1> USE DEF SInv, IInv
<1> DEFINE t == req[c].id
<1>1. t \in TaskIds /\ req[c].seen = task[t]
  BY AmendEffect DEF Fresh, UpToDate, WritingOps, Withdraw, Transfer, RetryWrite
<1>2. PICK row \in TaskRow : Amends(t, row)
  BY AmendEffect
<1>3. task[t] \in TaskRow /\ task'[t] = row
  BY <1>1, <1>2, TaskRows DEF Amends, Written, TypeOK
<1>4. CASE Withdraw(c)
  <2>1. task'[t].status = "withdrawn"
    BY <1>1, <1>3, <1>4 DEF Withdraw, TypeOK, TaskRow
  <2>2. task[t].status = "pending"
    BY <1>1, <1>4 DEF Withdraw, Fresh, UpToDate
  <2> QED BY <1>1, <1>2, <1>3, <2>1, <2>2 DEF SerialKind, Corrects
<1>5. CASE Transfer(c)
  <2>1. task'[t].status = task[t].status
    BY <1>1, <1>3, <1>5 DEF Transfer, TypeOK, TaskRow
  <2> QED BY <1>1, <1>2, <1>3, <2>1 DEF SerialKind, Corrects
<1>6. CASE RetryWrite(c)
  <2>1. task'[t].status = Restored[task[t].status]
    BY <1>1, <1>3, <1>6 DEF RetryWrite, TypeOK, TaskRow
  <2>2. task[t].status \in FailedStatus
    BY <1>1, <1>6, RequestKinds DEF RetryWrite, RetryRequest, TaskRequest
  <2> QED BY <1>1, <1>2, <1>3, <2>1, <2>2 DEF SerialKind, Corrects
<1> QED BY <1>4, <1>5, <1>6

LEMMA WriteCorrects ==
  ASSUME SInv, NEW c \in Clients, Write(c)
  PROVE  SerialKind
<1> USE DEF SInv, IInv
<1>1. CASE ApproveNext(c)
  BY <1>1, ApproveNextEffect DEF SerialKind
<1>2. ASSUME NEW ok \in BOOLEAN, ApproveLast(c, ok) \/ Reject(c, ok)
      PROVE  SerialKind
  BY <1>2, DecideEffect DEF SerialKind
<1>3. CASE \E ok \in BOOLEAN :
             ClaimFails(c) \/ AutoReload(c) \/ RetryApply(c, ok)
  BY <1>3, QuietWriteEffect DEF SerialKind
<1> QED BY <1>1, <1>2, <1>3, ResubmitRestarts, AmendCorrects DEF Write

LEMMA SerialEffect ==
  ASSUME SInv, [Next]_vars
  PROVE  SerialKind
<1> USE DEF SInv, IInv
<1>1. ASSUME NEW c \in Clients, Submit(c) PROVE SerialKind
  BY <1>1, SubmitEffect DEF SerialKind
<1>2. ASSUME NEW c \in Clients, NEW t \in TaskIds, NEW u \in Users, Read(c, t, u)
      PROVE  UNCHANGED <<task, record>>
  BY <1>2 DEF Read, ApproveRead, AutoRead, RejectRead, WithdrawRead,
              ResubmitRead, TransferRead, RetryRead, ReadTask
<1>3. CASE Configure \/ Crash \/ UNCHANGED vars
  BY <1>3 DEF Configure, CreateWorkflow, UpdateWorkflow, DeleteWorkflow, Crash,
              vars, SerialKind
<1> QED BY <1>1, <1>2, <1>3, WriteCorrects DEF Next, SerialKind

\* What a step does to one task and its records.
LEMMA SerialRowStep ==
  ASSUME TypeOK, SerialKind, NEW t \in TaskIds
  PROVE  \/ task'[t] = task[t] /\ record'[t] = record[t]
         \/ \E row \in TaskRow :
              /\ task'[t] = row
              /\ \/ Opens(t, row) \/ Advances(t, row) \/ Approves(t, row)
                 \/ Rejects(t, row) \/ Restarts(t, row) \/ Corrects(t, row)
<1>1. CASE UNCHANGED <<task, record>>
  BY <1>1
<1>2. ASSUME NEW s \in TaskIds, NEW row \in TaskRow,
             \/ Opens(s, row) \/ Advances(s, row) \/ Approves(s, row)
             \/ Rejects(s, row) \/ Restarts(s, row) \/ Corrects(s, row)
      PROVE  \/ task'[t] = task[t] /\ record'[t] = record[t]
             \/ s = t /\ task'[t] = row
  <2>1. task' = [task EXCEPT ![s] = row]
    BY <1>2 DEF Opens, Advances, Approves, Rejects, Restarts, Reopens, Corrects,
                Amends, Written
  <2>2. s # t => record'[t] = record[t]
    BY <1>2 DEF Opens, Advances, Approves, Rejects, Restarts, Reopens, Corrects,
                Amends, Logged, TypeOK
  <2> QED BY <2>1, <2>2 DEF TypeOK
<1> QED BY <1>1, <1>2 DEF SerialKind

(***************************************************************************)
(* Approved in this round.                                                 *)
(***************************************************************************)
\* A record that is no resubmission keeps the round, an approval of the next
\* level adds to it.
LEMMA RoundGrows ==
  ASSUME TypeOK, NEW t \in TaskIds, NEW n \in Nat, ClimbedNow(t, n),
         NEW l \in Nat \ {0}, NEW a \in {"approve", "reject", "transfer"},
         Logged(t, l, a)
  PROVE  /\ ClimbedNow(t, n)'
         /\ a = "approve" /\ l = n + 1 => ClimbedNow(t, l)'
<1>1. /\ Len(record[t]) \in Nat
      /\ Len(record'[t]) = Len(record[t]) + 1
      /\ \A i \in 1..Len(record[t]) : record'[t][i] = record[t][i]
      /\ record'[t][Len(record'[t])].action = a
      /\ record'[t][Len(record'[t])].level = l
  BY LoggedRound
<1>2. ASSUME NEW i \in 1..Len(record[t]), SameRound(t, i, Len(record[t]))
      PROVE  SameRound(t, i, Len(record[t]))'
  <2>1. ASSUME NEW k \in i..Len(record'[t]) PROVE record'[t][k].action # "resubmit"
    <3>1. CASE k = Len(record'[t])
      BY <1>1, <3>1
    <3>2. CASE k # Len(record'[t])
      <4>1. k \in i..Len(record[t]) /\ k \in 1..Len(record[t])
        BY <1>1, <2>1, <3>2
      <4> QED BY <1>1, <1>2, <4>1 DEF SameRound
    <3> QED BY <3>1, <3>2
  <2> QED BY <2>1 DEF SameRound
<1>3. ASSUME NEW m \in 1..n
      PROVE  \E i \in 1..Len(record'[t]) :
               /\ record'[t][i].action = "approve"
               /\ record'[t][i].level = m
               /\ SameRound(t, i, Len(record[t]))'
  <2>1. PICK i \in 1..Len(record[t]) :
          /\ record[t][i].action = "approve"
          /\ record[t][i].level = m
          /\ SameRound(t, i, Len(record[t]))
    BY DEF ClimbedNow
  <2>2. i \in 1..Len(record'[t])
    BY <1>1
  <2> QED BY <1>1, <1>2, <2>1, <2>2
<1>4. ASSUME a = "approve"
      PROVE  \E i \in 1..Len(record'[t]) :
               /\ record'[t][i].action = "approve"
               /\ record'[t][i].level = l
               /\ SameRound(t, i, Len(record[t]))'
  <2>1. Len(record'[t]) \in 1..Len(record'[t])
    BY <1>1
  <2>2. SameRound(t, Len(record[t]), Len(record[t]))'
    BY <1>1, <1>4 DEF SameRound
  <2> QED BY <1>1, <1>4, <2>1, <2>2
<1>5. l = n + 1 => \A m \in 1..l : m \in 1..n \/ m = l
  OBVIOUS
<1> QED BY <1>3, <1>4, <1>5 DEF ClimbedNow

LEMMA RoundStays ==
  ASSUME TypeOK, NEW t \in TaskIds, NEW n \in Nat, ClimbedNow(t, n),
         record'[t] = record[t] \/ \E l \in Nat \ {0} : Logged(t, l, "transfer")
  PROVE  ClimbedNow(t, n)'
<1>1. CASE record'[t] = record[t]
  <2>1. ASSUME NEW i, SameRound(t, i, Len(record[t]))
        PROVE  SameRound(t, i, Len(record[t]))'
    BY <1>1, <2>1 DEF SameRound
  <2>2. ASSUME NEW l \in 1..n
        PROVE  \E i \in 1..Len(record'[t]) :
                 /\ record'[t][i].action = "approve"
                 /\ record'[t][i].level = l
                 /\ SameRound(t, i, Len(record[t]))'
    <3>1. PICK i \in 1..Len(record[t]) :
            /\ record[t][i].action = "approve"
            /\ record[t][i].level = l
            /\ SameRound(t, i, Len(record[t]))
      BY DEF ClimbedNow
    <3> QED BY <1>1, <2>1, <3>1
  <2> QED BY <2>2 DEF ClimbedNow
<1>2. CASE \E l \in Nat \ {0} : Logged(t, l, "transfer")
  BY <1>2, RoundGrows
<1> QED BY <1>1, <1>2

LEMMA RoundStep ==
  ASSUME SInv, SerialKind
  PROVE  RoundClimbed'
<1> USE DEF SInv, IInv
<1> SUFFICES ASSUME NEW t \in TaskIds, Exists(t)'
             PROVE  /\ task'[t].status \in Open => ClimbedNow(t, task[t].level - 1)'
                    /\ task'[t].status \in Approved =>
                         ClimbedNow(t, Len(Chain[task[t].wf]))'
  BY DEF RoundClimbed
<1>0. ASSUME Exists(t)
      PROVE  /\ task[t].level \in Nat \ {0}
             /\ Len(Chain[task[t].wf]) \in Nat
             /\ task[t].status \in Open => ClimbedNow(t, task[t].level - 1)
             /\ task[t].status \in Approved => ClimbedNow(t, Len(Chain[task[t].wf]))
  <2>1. task[t] \in TaskRow
    BY <1>0, TaskRows
  <2> QED BY <1>0, <2>1, ChainType DEF RoundClimbed, TaskRow
<1>1. ASSUME Exists(t), task'[t].level = task[t].level, task'[t].wf = task[t].wf,
             task'[t].status \in Open => task[t].status \in Open,
             task'[t].status \in Approved => task[t].status \in Approved,
             \/ record'[t] = record[t]
             \/ \E l \in Nat \ {0} : Logged(t, l, "transfer")
      PROVE  /\ task'[t].status \in Open => ClimbedNow(t, task[t].level - 1)'
             /\ task'[t].status \in Approved =>
                  ClimbedNow(t, Len(Chain[task[t].wf]))'
  <2>1. ASSUME NEW n \in Nat, ClimbedNow(t, n) PROVE ClimbedNow(t, n)'
    BY <1>1, <2>1, RoundStays
  <2>2. ASSUME task'[t].status \in Open PROVE ClimbedNow(t, task[t].level - 1)'
    <3>1. PICK n \in Nat : n = task[t].level - 1
      BY <1>0, <1>1
    <3>2. ClimbedNow(t, n)'
      BY <1>0, <1>1, <2>1, <2>2, <3>1
    <3> QED BY <1>1, <3>1, <3>2 DEF ClimbedNow
  <2>3. ASSUME task'[t].status \in Approved
        PROVE  ClimbedNow(t, Len(Chain[task[t].wf]))'
    <3>1. PICK n \in Nat : n = Len(Chain[task[t].wf])
      BY <1>0, <1>1
    <3>2. ClimbedNow(t, n)'
      BY <1>0, <1>1, <2>1, <2>3, <3>1
    <3> QED BY <1>1, <3>1, <3>2 DEF ClimbedNow
  <2> QED BY <2>2, <2>3
<1>2. CASE task'[t] = task[t] /\ record'[t] = record[t]
  BY <1>1, <1>2 DEF Exists
<1>3. CASE task'[t].status = "pending" \/ task'[t].status = "pending_apply_failed"
  <2>1. task'[t].level = 1 => ClimbedNow(t, task[t].level - 1)'
    BY DEF ClimbedNow
  <2>2. task'[t].status \notin Approved
    BY <1>3 DEF Approved
  <2>3. ASSUME NEW row \in TaskRow, task'[t] = row, Advances(t, row)
        PROVE  ClimbedNow(t, task[t].level - 1)'
    <3>1. PICK l \in Nat \ {0}, n \in Nat : l = task[t].level /\ n = l - 1
      BY <1>0, <2>3 DEF Advances, Written
    <3>2. ClimbedNow(t, n) /\ Logged(t, l, "approve")
      BY <1>0, <2>3, <3>1 DEF Advances, Written, Open
    <3>3. ClimbedNow(t, l)'
      BY <3>1, <3>2, RoundGrows
    <3>4. task'[t].level - 1 = l
      BY <2>3, <3>1 DEF Advances
    <3> QED BY <3>3, <3>4 DEF ClimbedNow
  <2>4. ASSUME NEW row \in TaskRow, task'[t] = row, Corrects(t, row)
        PROVE  ClimbedNow(t, task[t].level - 1)'
    BY <1>1, <1>3, <2>2, <2>4
    DEF Corrects, Amends, Written, Open, Approved, FailedStatus, Restored
  <2> QED BY <1>2, <2>1, <2>2, <2>3, <2>4, SerialRowStep, <1>3
       DEF Opens, Approves, Approved, Rejects, Restarts
<1>4. CASE task'[t].status \in Approved
  <2>1. ASSUME NEW row \in TaskRow, task'[t] = row, Approves(t, row)
        PROVE  ClimbedNow(t, Len(Chain[task[t].wf]))'
    <3>1. PICK l \in Nat \ {0}, n \in Nat : l = task[t].level /\ n = l - 1
      BY <1>0, <2>1 DEF Approves, Written
    <3>2. ClimbedNow(t, n) /\ Logged(t, l, "approve")
      BY <1>0, <2>1, <3>1 DEF Approves, Written, Open
    <3>3. ClimbedNow(t, l)'
      BY <3>1, <3>2, RoundGrows
    <3>4. PICK k \in Nat : k = Len(Chain[task'[t].wf]) /\ l >= k
      BY <1>0, <2>1, <3>1 DEF Approves, Written
    <3>5. ClimbedNow(t, k)'
      <4>1. 1..k \subseteq 1..l
        BY <3>4
      <4> QED BY <3>3, <4>1 DEF ClimbedNow
    <3> QED BY <3>4, <3>5 DEF ClimbedNow
  <2>2. ASSUME NEW row \in TaskRow, task'[t] = row, Corrects(t, row)
        PROVE  ClimbedNow(t, Len(Chain[task[t].wf]))'
    BY <1>1, <1>4, <2>2
    DEF Corrects, Amends, Written, Open, Approved, FailedStatus, Restored
  <2>3. task'[t].status \notin Open
    BY <1>4 DEF Open, Approved
  <2> QED BY <1>2, <1>4, <2>1, <2>2, <2>3, SerialRowStep
       DEF Opens, Advances, Approved, Rejects, Restarts, Reopens
<1> QED BY <1>3, <1>4 DEF Open

(***************************************************************************)
(* The theorems.                                                           *)
(***************************************************************************)
LEMMA InitSInv == Init => SInv
<1> SUFFICES ASSUME Init PROVE SInv
  OBVIOUS
<1>1. Fresh
  BY IdleUpToDate DEF Init, Fresh
<1>2. RoundClimbed
  BY DEF Init, RoundClimbed, Exists
<1> QED BY <1>1, <1>2, InitIInv DEF SInv

LEMMA NextSInv == ASSUME Serial PROVE SInv /\ [Next]_vars => SInv'
<1> SUFFICES ASSUME SInv, [Next]_vars PROVE SInv'
  OBVIOUS
<1>1. IInv'
  BY NextIInv DEF SInv
<1> QED BY <1>1, FreshStep, SerialEffect, RoundStep DEF SInv

(* When requests do not overlap, a task is approved only when every level   *)
(* of its workflow has approved it since its last resubmission, however the *)
(* requests fail and crash: resubmit_approval takes the task back to the    *)
(* first level, and no approval of an earlier round counts again.           *)
THEOREM RoundsStartOver ==
  ASSUME Serial
  PROVE  Spec => []ApprovedInThisRound
<1>1. SInv => ApprovedInThisRound
  BY DEF SInv, RoundClimbed, ClimbedNow, ApprovedInThisRound
<1> QED BY <1>1, InitSInv, NextSInv, PTL DEF Spec

\* The record of a decision is one of the assigned approver or a superuser.
LEMMA DecisionStepSerial ==
  ASSUME SInv, Rightful, [Next]_vars, NEW t \in TaskIds, record'[t] # record[t],
         NEW r, r = record'[t][Len(record'[t])], Decision(r)
  PROVE  r.by \in Superusers \/ r.by = task[t].approver
<1> USE DEF SInv, IInv
<1>1. ASSUME NEW s \in TaskIds, NEW l, NEW u, NEW a, Log(s, l, u, a)
      PROVE  s = t /\ r.by = u /\ r.action = a
  BY <1>1 DEF Log, TypeOK
<1>2. ASSUME NEW c \in Clients, NEW l, NEW a,
             HasTask(c), Log(req[c].id, l, req[c].user, a),
             req[c].op \in {"approve", "reject"}
      PROVE  r.by \in Superusers \/ r.by = task[t].approver
  <2>1. req[c].id = t /\ r.by = req[c].user
    BY <1>1, <1>2, SeenTask
  <2>2. req[c].user \in Superusers \/ task[t].approver = req[c].user
    BY <1>2, <2>1 DEF Fresh, UpToDate, WritingOps, Rightful, Entitled
  <2> QED BY <2>1, <2>2
<1>3. ASSUME NEW c \in Clients, NEW ok \in BOOLEAN,
             ApproveNext(c) \/ ApproveLast(c, ok) \/ Reject(c, ok)
      PROVE  r.by \in Superusers \/ r.by = task[t].approver
  BY <1>2, <1>3 DEF ApproveNext, ApproveLast, Reject, HasTask, TaskOps
<1>4. ASSUME NEW c \in Clients, NEW l, NEW u, NEW a \in {"transfer", "resubmit"},
             HasTask(c), Log(req[c].id, l, u, a)
      PROVE  FALSE
  BY <1>1, <1>4, SeenTask DEF Decision
<1>5. ASSUME NEW c \in Clients, NEW ok \in BOOLEAN, Transfer(c) \/ Resubmit(c, ok)
      PROVE  FALSE
  BY <1>4, <1>5 DEF Transfer, Resubmit, HasTask, TaskOps
<1>6. ASSUME NEW c \in Clients, Write(c)
      PROVE  r.by \in Superusers \/ r.by = task[t].approver
  BY <1>3, <1>5, <1>6
  DEF Write, ClaimFails, Withdraw, AutoReload, RetryWrite, RetryApply
<1>7. ASSUME NEW c \in Clients, Submit(c) PROVE record' = record
  <2>1. ASSUME NEW q, SubmitReads(c, q) PROVE record' = record
    BY <2>1 DEF SubmitReads
  <2>2. ASSUME NEW kind, NEW e, NEW u, NEW ch, SubmitRead(c, kind, e, u, ch)
        PROVE  record' = record
    BY <2>1, <2>2 DEF SubmitRead
  <2>3. CASE \/ EnsureDefaultWorkflow(c) \/ SubmitAgain(c) \/ SubmitFails(c)
             \/ SubmitWrite(c)
    BY <2>1, <2>3 DEF EnsureDefaultWorkflow, SubmitAgain, SubmitFails, SubmitWrite
  <2> QED BY <1>7, <2>2, <2>3 DEF Submit, SubmitDirectly
<1>8. ASSUME NEW c \in Clients, NEW s \in TaskIds, NEW u \in Users, Read(c, s, u)
      PROVE  record' = record
  BY <1>8 DEF Read, ApproveRead, AutoRead, RejectRead, WithdrawRead,
              ResubmitRead, TransferRead, RetryRead, ReadTask
<1>9. CASE Configure \/ Crash \/ UNCHANGED vars
  BY <1>9 DEF Configure, CreateWorkflow, UpdateWorkflow, DeleteWorkflow, Crash, vars
<1> QED BY <1>6, <1>7, <1>8, <1>9 DEF Next

(* When requests do not overlap, each level is decided by the approver the  *)
(* task is assigned to at that moment, transfers included, or by a          *)
(* superuser (approve_task, reject_task, transfer_task).                    *)
THEOREM DecidesAssignee ==
  ASSUME Serial
  PROVE  Spec => DecidedByAssignee
<1>1. SInv /\ Rightful /\ [Next]_vars =>
        [\A t \in TaskIds :
           LET r == record'[t][Len(record'[t])] IN
           record'[t] # record[t] /\ Decision(r) =>
             r.by \in Superusers \/ r.by = task[t].approver]_vars
  BY DecisionStepSerial
<1>2. Init => Rightful
  BY IdleUpToDate DEF Init, Rightful
<1>3. SInv /\ Rightful /\ [Next]_vars => Rightful'
  BY FreshStep
<1> QED BY <1>1, <1>2, <1>3, InitSInv, NextSInv, PTL DEF Spec, DecidedByAssignee

(***************************************************************************)
(* Each level is decided by its owner.                                     *)
(***************************************************************************)
\* Level l was transferred in the current round of the task.
TransferredNow(t, l) ==
  \E j \in 1..Len(record[t]) :
    /\ record[t][j].action = "transfer"
    /\ record[t][j].level = l
    /\ SameRound(t, j, Len(record[t]))

Held(t) ==
  \/ task[t].approver = Chain[task[t].wf][task[t].level]
  \/ TransferredNow(t, task[t].level)

Owned == \A t \in TaskIds : Exists(t) /\ task[t].status \in Open => Held(t)

OInv == SInv /\ Rightful /\ Owned /\ NoEarlyRecord /\ LevelOwnersDecide

\* The tasks a step does not write stay as they are.
LEMMA OwnedKept ==
  ASSUME NEW t \in TaskIds, task'[t] = task[t], record'[t] = record[t],
         Exists(t) /\ task[t].status \in Open => Held(t)
  PROVE  (Exists(t) /\ task[t].status \in Open => Held(t))'
<1>1. ASSUME NEW j, SameRound(t, j, Len(record[t]))
      PROVE  SameRound(t, j, Len(record[t]))'
  BY <1>1 DEF SameRound
<1>2. ASSUME NEW l, TransferredNow(t, l) PROVE TransferredNow(t, l)'
  BY <1>1, <1>2 DEF TransferredNow
<1>3. Held(t) => Held(t)'
  <2>1. CASE task[t].approver = Chain[task[t].wf][task[t].level]
    BY <2>1 DEF Held
  <2>2. CASE TransferredNow(t, task[t].level)
    BY <1>2, <2>2 DEF Held, TransferredNow
  <2> QED BY <2>1, <2>2 DEF Held
<1> QED BY <1>3 DEF Exists

\* A task whose approver is the one of its level, or that is not open.
LEMMA OwnedWritten ==
  ASSUME TypeOK, Owned, NEW s \in TaskIds, NEW row,
         task' = [task EXCEPT ![s] = row],
         \A t \in TaskIds \ {s} : record'[t] = record[t],
         row.status \in Open => row.approver = Chain[row.wf][row.level]
  PROVE  Owned'
<1>1. ASSUME NEW t \in TaskIds, t # s
      PROVE  (Exists(t) /\ task[t].status \in Open => Held(t))'
  BY <1>1, OwnedKept DEF TypeOK, Owned
<1>2. (Exists(s) /\ task[s].status \in Open => Held(s))'
  BY DEF TypeOK, Held
<1> QED BY <1>1, <1>2 DEF Owned

LEMMA TransferHeld ==
  ASSUME SInv, Owned, NEW c \in Clients, Transfer(c)
  PROVE  Owned'
<1> USE DEF SInv, IInv
<1>1. PICK s \in TaskIds : s = req[c].id /\ req[c].seen = task[s]
  BY AmendEffect DEF Fresh, UpToDate, WritingOps, Transfer
<1>2. PICK row \in TaskRow : Amends(s, row)
  BY <1>1, AmendEffect
<1>3. row.level = task[s].level /\ row.level \in Nat \ {0}
  BY <1>2 DEF Amends, TaskRow
<1>4. Logged(s, row.level, "transfer")
  <2>1. req[c].user \in Users
    BY SeenTask DEF Transfer, HasTask, TaskOps
  <2> QED BY <1>1, <1>3, <2>1 DEF Transfer, Log, Logged
<1>5. ASSUME NEW t \in TaskIds, t # s
      PROVE  (Exists(t) /\ task[t].status \in Open => Held(t))'
  <2>1. task'[t] = task[t] /\ record'[t] = record[t]
    BY <1>2, <1>4, <1>5 DEF Amends, Written, Logged, TypeOK
  <2> QED BY <2>1, OwnedKept DEF Owned
<1>6. Held(s)'
  <2>1. /\ Len(record[s]) \in Nat
        /\ Len(record'[s]) = Len(record[s]) + 1
        /\ record'[s][Len(record'[s])].action = "transfer"
        /\ record'[s][Len(record'[s])].level = row.level
    BY <1>1, <1>3, <1>4, LoggedRound
  <2>2. task'[s].level = row.level
    BY <1>1, <1>2 DEF Amends, Written, TypeOK
  <2>3. SameRound(s, Len(record[s]), Len(record[s]))'
    BY <2>1 DEF SameRound
  <2>4. Len(record'[s]) \in 1..Len(record'[s])
    BY <2>1
  <2> QED BY <2>1, <2>2, <2>3, <2>4 DEF Held, TransferredNow
<1> QED BY <1>5, <1>6 DEF Owned

LEMMA WriteOwned ==
  ASSUME SInv, Owned, NEW c \in Clients, Write(c)
  PROVE  Owned'
<1> USE DEF SInv, IInv
<1> DEFINE s == req[c].id
<1>1. ASSUME HasTask(c), req[c].op \in WritingOps
      PROVE  s \in TaskIds /\ req[c].seen = task[s] /\ task[s] \in TaskRow
  BY <1>1, SeenTask DEF Fresh, UpToDate
<1>2. ASSUME NEW row, task' = [task EXCEPT ![s] = row], HasTask(c),
             record' = record \/ \E l, u, a : Log(s, l, u, a),
             row.status \in Open => row.approver = Chain[row.wf][row.level]
      PROVE  Owned'
  <2>1. s \in TaskIds
    BY <1>2, SeenTask
  <2>2. \A t \in TaskIds \ {s} : record'[t] = record[t]
    BY <1>2, <2>1 DEF Log, TypeOK
  <2> QED BY <1>2, <2>1, <2>2, OwnedWritten
<1>3. CASE ApproveNext(c)
  <2> DEFINE next == req[c].seen.level + 1
             row == [task[s] EXCEPT !.level = next,
                                    !.approver = Chain[req[c].seen.wf][next]]
  <2>1. HasTask(c) /\ req[c].op \in WritingOps
    BY <1>3 DEF ApproveNext, HasTask, TaskOps, WritingOps
  <2>2. task' = [task EXCEPT ![s] = row]
    BY <1>1, <1>3, <2>1 DEF ApproveNext, TypeOK
  <2>3. row.approver = Chain[row.wf][row.level]
    BY <1>1, <2>1 DEF TaskRow
  <2> HIDE DEF row
  <2> QED BY <1>2, <1>3, <2>1, <2>2, <2>3 DEF ApproveNext
<1>4. ASSUME NEW ok \in BOOLEAN, ApproveLast(c, ok) \/ Reject(c, ok)
      PROVE  Owned'
  <2>1. HasTask(c) /\ req[c].op \in WritingOps
    BY <1>4 DEF ApproveLast, Reject, HasTask, TaskOps, WritingOps
  <2>2. PICK row : /\ task' = [task EXCEPT ![s] = row]
                   /\ \/ row = [task[s] EXCEPT !.status = Outcome("approved", ok)]
                      \/ row = [task[s] EXCEPT !.status = Outcome("rejected", ok)]
    BY <1>1, <1>4, <2>1 DEF ApproveLast, Reject, TypeOK
  <2>3. row.status \notin Open
    BY <1>1, <2>1, <2>2 DEF Outcome, ApplyFailed, Open, TaskRow
  <2> QED BY <1>2, <1>4, <2>1, <2>2, <2>3 DEF ApproveLast, Reject
<1>5. CASE Withdraw(c)
  <2> DEFINE row == [task[s] EXCEPT !.status = "withdrawn"]
  <2>1. HasTask(c) /\ req[c].op \in WritingOps
    BY <1>5 DEF Withdraw, HasTask, TaskOps, WritingOps
  <2>2. task' = [task EXCEPT ![s] = row] /\ record' = record
    BY <1>1, <1>5, <2>1 DEF Withdraw, TypeOK
  <2>3. row.status \notin Open
    BY <1>1, <2>1 DEF Open, TaskRow
  <2> HIDE DEF row
  <2> QED BY <1>2, <2>1, <2>2, <2>3
<1>6. ASSUME NEW ok \in BOOLEAN, Resubmit(c, ok)
      PROVE  Owned'
  <2>1. HasTask(c) /\ req[c].op \in WritingOps
    BY <1>6 DEF Resubmit, HasTask, TaskOps, WritingOps
  <2>2. PICK row \in TaskRow : task' = [task EXCEPT ![s] = row] /\ row.wf = task[s].wf
    BY <1>6, ResubmitEffect DEF Reopens, Written
  <2>3. row = task'[s]
    BY <1>1, <2>1, <2>2 DEF TypeOK
  <2>4. task'[s].level = 1 /\ task'[s].approver = Chain[task[s].wf][1]
    BY <1>1, <1>6, <2>1 DEF Resubmit, Flush, TypeOK, TaskRow
  <2>5. row.approver = Chain[row.wf][row.level]
    BY <2>2, <2>3, <2>4
  <2> QED BY <1>2, <1>6, <2>1, <2>2, <2>5 DEF Resubmit
<1>7. CASE RetryWrite(c)
  <2>1. HasTask(c) /\ req[c].op \in WritingOps
    BY <1>7 DEF RetryWrite, HasTask, TaskOps, WritingOps
  <2>2. /\ task' = [task EXCEPT ![s].status = Restored[task[s].status]]
        /\ task[s].status \in FailedStatus
        /\ record' = record
    BY <1>1, <1>7, <2>1, RequestKinds DEF RetryWrite, RetryRequest, TaskRequest
  <2>3. /\ task'[s].level = task[s].level
        /\ task'[s].wf = task[s].wf
        /\ task'[s].approver = task[s].approver
        /\ task'[s].status \in Open => task[s].status \in Open
    BY <1>1, <2>1, <2>2 DEF TypeOK, TaskRow, FailedStatus, Restored, Open
  <2>4. PICK u \in TaskIds : u = s
    BY <1>1, <2>1
  <2>5. ASSUME NEW t \in TaskIds, t # u
        PROVE  (Exists(t) /\ task[t].status \in Open => Held(t))'
    BY <2>2, <2>4, <2>5, OwnedKept DEF TypeOK, Owned
  <2>6. ASSUME NEW l, TransferredNow(u, l) PROVE TransferredNow(u, l)'
    BY <2>2, <2>6 DEF TransferredNow, SameRound
  <2>7. Held(u) => Held(u)'
    <3>1. CASE task[u].approver = Chain[task[u].wf][task[u].level]
      BY <2>3, <2>4, <3>1 DEF Held
    <3>2. ASSUME NEW l, l = task[u].level, TransferredNow(u, l)
          PROVE  Held(u)'
      <4>1. task'[u].level = l /\ TransferredNow(u, l)'
        BY <2>3, <2>4, <2>6, <3>2
      <4> QED BY <4>1 DEF Held, TransferredNow
    <3> QED BY <3>1, <3>2 DEF Held
  <2>8. Exists(u)
    BY <2>1, <2>4 DEF SeenRows
  <2> QED BY <2>3, <2>4, <2>5, <2>7, <2>8 DEF Owned
<1>8. CASE UNCHANGED <<task, record>>
  BY <1>8, OwnedKept DEF Owned
<1>9. CASE \E ok \in BOOLEAN : ClaimFails(c) \/ AutoReload(c) \/ RetryApply(c, ok)
  BY <1>8, <1>9, QuietWriteEffect
<1> QED BY <1>3, <1>4, <1>5, <1>6, <1>7, <1>9, TransferHeld DEF Write

LEMMA OwnedStep ==
  ASSUME SInv, Owned, [Next]_vars
  PROVE  Owned'
<1> USE DEF SInv, IInv
<1>1. CASE UNCHANGED <<task, record>>
  BY <1>1, OwnedKept DEF Owned
<1>2. ASSUME NEW c \in Clients, Submit(c) PROVE Owned'
  <2>1. CASE SubmitWrite(c)
    <3>1. PICK t \in TaskIds : task' = [task EXCEPT ![t] = NewTask(req[c])]
      BY <2>1 DEF SubmitWrite
    <3>2. NewTask(req[c]).approver = Chain[NewTask(req[c]).wf][NewTask(req[c]).level]
      BY DEF NewTask
    <3>3. record' = record
      BY <2>1 DEF SubmitWrite
    <3> QED BY <3>1, <3>2, <3>3, OwnedWritten
  <2>2. ASSUME NEW q, SubmitReads(c, q) PROVE UNCHANGED <<task, record>>
    BY <2>2 DEF SubmitReads
  <2>3. ASSUME NEW kind, NEW e, NEW u, NEW ch, SubmitRead(c, kind, e, u, ch)
        PROVE  UNCHANGED <<task, record>>
    BY <2>2, <2>3 DEF SubmitRead
  <2>4. CASE EnsureDefaultWorkflow(c) \/ SubmitAgain(c) \/ SubmitFails(c)
    BY <1>1, <2>2, <2>4 DEF EnsureDefaultWorkflow, SubmitAgain, SubmitFails
  <2> QED BY <1>1, <1>2, <2>1, <2>3, <2>4 DEF Submit, SubmitDirectly
<1>3. ASSUME NEW c \in Clients, NEW t \in TaskIds, NEW u \in Users, Read(c, t, u)
      PROVE  UNCHANGED <<task, record>>
  BY <1>3 DEF Read, ApproveRead, AutoRead, RejectRead, WithdrawRead,
              ResubmitRead, TransferRead, RetryRead, ReadTask
<1>4. CASE Configure \/ Crash \/ UNCHANGED vars
  BY <1>1, <1>4 DEF Configure, CreateWorkflow, UpdateWorkflow, DeleteWorkflow,
                    Crash, vars
<1> QED BY <1>1, <1>2, <1>3, <1>4, WriteOwned DEF Next

LEMMA EarlySerial ==
  ASSUME SInv, NoEarlyRecord, SerialKind
  PROVE  NoEarlyRecord'
<1> SUFFICES ASSUME NEW t \in TaskIds, ~Exists(t)' PROVE record'[t] = <<>>
  BY DEF NoEarlyRecord
<1>1. ASSUME NEW row \in TaskRow, task'[t] = row PROVE FALSE
  BY <1>1 DEF Exists, TaskRow, NoTask, Status, FailedStatus, Restored
<1> QED BY <1>1, SerialRowStep DEF NoEarlyRecord, Exists, SInv, IInv

\* The owner of the level that record i of task t decides made it.
OwnerDecides(t, i) ==
  \/ record[t][i].by \in Superusers
  \/ record[t][i].by = Chain[task[t].wf][record[t][i].level]
  \/ \E j \in 1..(i - 1) : Transferred(t, i, j)

LEMMA OwnersStep ==
  ASSUME OInv, [Next]_vars
  PROVE  LevelOwnersDecide'
<1> USE DEF OInv, SInv, IInv
<1> SUFFICES ASSUME NEW t \in TaskIds, Exists(t)',
                    NEW i \in 1..Len(record'[t]), Decision(record'[t][i])
             PROVE  OwnerDecides(t, i)'
  BY DEF LevelOwnersDecide, OwnerDecides
<1>0. SerialKind
  BY SerialEffect
<1>1. Len(record[t]) \in Nat
  BY DEF TypeOK
<1>2. ASSUME Exists(t), task'[t].wf = task[t].wf, i \in 1..Len(record[t]),
             \A k \in 1..Len(record[t]) : record'[t][k] = record[t][k]
      PROVE  OwnerDecides(t, i)'
  <2>1. OwnerDecides(t, i)
    BY <1>2 DEF LevelOwnersDecide, OwnerDecides
  <2>2. ASSUME NEW j \in 1..(i - 1), Transferred(t, i, j)
        PROVE  Transferred(t, i, j)'
    <3>1. j \in 1..Len(record[t]) /\ \A k \in j..i : k \in 1..Len(record[t])
      BY <1>1, <1>2
    <3>2. SameRound(t, j, i)'
      BY <1>2, <2>2, <3>1 DEF Transferred, SameRound
    <3> QED BY <1>2, <2>2, <3>1, <3>2 DEF Transferred
  <2> QED BY <1>2, <2>1, <2>2 DEF OwnerDecides
<1>3. ASSUME NEW l \in Nat \ {0},
             NEW a \in {"approve", "reject", "transfer", "resubmit"},
             Logged(t, l, a), Exists(t), task'[t].wf = task[t].wf,
             a \in {"approve", "reject"} =>
               task[t].status = "pending" /\ l = task[t].level
      PROVE  OwnerDecides(t, i)'
  <2>1. /\ Len(record'[t]) = Len(record[t]) + 1
        /\ \A k \in 1..Len(record[t]) : record'[t][k] = record[t][k]
        /\ record'[t][Len(record'[t])].action = a
        /\ record'[t][Len(record'[t])].level = l
    BY <1>3, LoggedRound
  <2>2. CASE i \in 1..Len(record[t])
    BY <1>2, <1>3, <2>1, <2>2
  <2>3. CASE i = Len(record'[t])
    <3>1. a \in {"approve", "reject"} /\ task[t].status \in Open /\ l = task[t].level
      BY <1>3, <2>1, <2>3 DEF Decision, Open
    <3>2. record'[t] # record[t]
      BY <1>1, <2>1
    <3>3. record'[t][i].by \in Superusers \/ record'[t][i].by = task[t].approver
      BY <2>3, <3>2, DecisionStepSerial
    <3>4. CASE task[t].approver = Chain[task[t].wf][task[t].level]
      BY <1>3, <2>1, <2>3, <3>1, <3>3, <3>4 DEF OwnerDecides
    <3>5. ASSUME TransferredNow(t, l)
          PROVE  \E j \in 1..(i - 1) : Transferred(t, i, j)'
      <4>1. PICK j \in 1..Len(record[t]) :
              /\ record[t][j].action = "transfer"
              /\ record[t][j].level = l
              /\ SameRound(t, j, Len(record[t]))
        BY <3>5 DEF TransferredNow
      <4>2. ASSUME NEW k \in j..i PROVE record'[t][k].action # "resubmit"
        <5>1. CASE k = i
          BY <2>1, <2>3, <3>1, <5>1
        <5>2. CASE k # i
          <6>1. k \in j..Len(record[t]) /\ k \in 1..Len(record[t])
            BY <1>1, <2>1, <2>3, <4>2, <5>2
          <6> QED BY <2>1, <4>1, <6>1 DEF SameRound
        <5> QED BY <5>1, <5>2
      <4>3. j \in 1..(i - 1)
        BY <1>1, <2>1, <2>3, <4>1
      <4> QED BY <2>1, <2>3, <4>1, <4>2, <4>3 DEF Transferred, SameRound
    <3>6. CASE TransferredNow(t, task[t].level)
      BY <3>1, <3>5, <3>6 DEF OwnerDecides
    <3> QED BY <1>3, <3>1, <3>4, <3>6 DEF Owned, Held
  <2> QED BY <1>1, <2>1, <2>2, <2>3
<1>4. CASE task'[t] = task[t] /\ record'[t] = record[t]
  BY <1>2, <1>4 DEF Exists
<1>5. ASSUME NEW row \in TaskRow, task'[t] = row, Opens(t, row) PROVE FALSE
  BY <1>5 DEF Opens, NoEarlyRecord
<1>6. ASSUME NEW row \in TaskRow, task'[t] = row,
             \/ Advances(t, row) \/ Approves(t, row) \/ Rejects(t, row)
             \/ Restarts(t, row) \/ Corrects(t, row)
      PROVE  OwnerDecides(t, i)'
  <2>1. Exists(t) /\ task'[t].wf = task[t].wf /\ task[t].level \in Nat \ {0}
    BY <1>6, TaskRows
    DEF Advances, Approves, Rejects, Restarts, Reopens, Corrects, Amends, Written,
        TaskRow
  <2>2. CASE Advances(t, row) \/ Approves(t, row)
    BY <1>3, <2>1, <2>2 DEF Advances, Approves
  <2>3. CASE Rejects(t, row)
    BY <1>3, <2>1, <2>3 DEF Rejects
  <2>4. CASE Restarts(t, row)
    BY <1>3, <2>1, <2>4 DEF Restarts, Reopens
  <2>5. CASE Corrects(t, row)
    <3>1. CASE record' = record
      BY <1>2, <2>1, <3>1
    <3>2. CASE \E l \in Nat \ {0} : Logged(t, l, "transfer")
      BY <1>3, <2>1, <3>2
    <3> QED BY <2>5, <3>1, <3>2 DEF Corrects, Amends
  <2> QED BY <1>6, <2>2, <2>3, <2>4, <2>5
<1> QED BY <1>0, <1>4, <1>5, <1>6, SerialRowStep

(* When requests do not overlap, each level of a task is decided by the     *)
(* approver its workflow names, by a superuser, or after a transfer of that *)
(* level in the same round: moving to the next level and resubmitting both  *)
(* take the task away from whoever it had been transferred to               *)
(* (approve_task, transfer_task, resubmit_approval).                        *)
THEOREM OwnersDecide ==
  ASSUME Serial
  PROVE  Spec => []LevelOwnersDecide
<1>1. Init => OInv
  <2> SUFFICES ASSUME Init PROVE OInv
    OBVIOUS
  <2>1. \A t \in TaskIds : ~Exists(t) /\ record[t] = <<>>
    BY DEF Init, Exists
  <2>2. Rightful
    BY IdleUpToDate DEF Init, Rightful
  <2> QED BY <2>1, <2>2, InitSInv DEF OInv, Owned, NoEarlyRecord, LevelOwnersDecide
<1>2. OInv /\ [Next]_vars => OInv'
  <2> SUFFICES ASSUME OInv, [Next]_vars PROVE OInv'
    OBVIOUS
  <2>1. SInv' /\ Rightful'
    BY NextSInv, FreshStep DEF OInv
  <2> QED BY <2>1, OwnedStep, EarlySerial, SerialEffect, OwnersStep DEF OInv
<1> QED BY <1>1, <1>2, PTL DEF Spec, OInv
=============================================================================
