---------------------------- MODULE FundApproval ----------------------------
(***************************************************************************)
(* Funds and their approval: the fund endpoints of                         *)
(* backend/app/api/v1/funds.py over the workflow service.  The two are     *)
(* coupled in both directions: the final decision on a task writes the     *)
(* status of its fund, and approving or rejecting a fund directly settles  *)
(* the pending tasks of that fund, each in a transaction of its own.       *)
(*                                                                         *)
(* A fund endpoint, too, reads (and checks the status it read) before it   *)
(* writes by primary key; freq[c] is where client c is in it, and req[c]   *)
(* the call of the workflow service it is making, if any.                  *)
(***************************************************************************)
EXTENDS ApprovalTasks

VARIABLES
  fund,     \* funds: status, and whether the row is out of the recycle bin
  history,  \* fund_status_history of each fund, oldest first
  freq      \* the fund request of each client

fvars == <<workflow, task, record, req, fund, history, freq>>

FundStatus == {"pending", "approved", "rejected", "allocated", "in_use",
               "completed", "audited"}
FundRow == [status : FundStatus, active : BOOLEAN, creator : Users]
NoFund == [status |-> "absent", active |-> FALSE]

FundInit ==
  /\ Init
  /\ fund = [f \in Entities |-> NoFund]
  /\ history = [f \in Entities |-> <<>>]
  /\ freq = [c \in Clients |-> Idle]

Free(c) == req[c] = Idle /\ freq[c] = Idle
Visible(f) == fund[f].active             \* _get_fund_or_404
LogMove(f, from, to) ==
  history' = [history EXCEPT ![f] = Append(@, [from |-> from, to |-> to])]

(***************************************************************************)
(* _apply_fund_approval_result, the apply handler of funds: what a task    *)
(* status makes of a fund status.  It reads the fund whether or not it is  *)
(* in the recycle bin, and does nothing for an *_apply_failed status.      *)
(***************************************************************************)
\* Mutant: an approval does not reach a rejected fund.
TargetOfPendingOnly(taskStatus, fundStatus) ==
  CASE taskStatus = "approved" /\ fundStatus = "pending" -> "approved"
    [] taskStatus = "rejected" /\ fundStatus = "pending" -> "rejected"
    [] taskStatus = "pending" /\ fundStatus = "rejected" -> "pending"
    [] OTHER -> fundStatus

Target(taskStatus, fundStatus) ==
  CASE taskStatus = "approved" /\ fundStatus \in {"pending", "rejected"} -> "approved"
    [] taskStatus = "rejected" /\ fundStatus = "pending" -> "rejected"
    [] taskStatus = "pending" /\ fundStatus = "rejected" -> "pending"
    [] OTHER -> fundStatus

\* The status of the fund as the session of client c knows it: settling the
\* tasks of a fund starts with the row loaded by its query, until a commit
\* expires it.
KnownStatus(c, f) ==
  IF freq[c].op = "resolve" /\ freq[c].loaded THEN freq[c].status
  ELSE fund[f].status

\* Mutant: funds in the recycle bin are skipped.
FundHandlerVisibleOnly(c, f, taskStatus) ==
  LET from == KnownStatus(c, f)
      to == Target(taskStatus, from)
  IN
  IF to = from \/ ~Visible(f) THEN UNCHANGED <<fund, history>>
  ELSE fund' = [fund EXCEPT ![f].status = to] /\ LogMove(f, from, to)

FundHandler(c, f, taskStatus) ==
  LET from == KnownStatus(c, f)
      to == Target(taskStatus, from)
  IN
  IF to = from THEN UNCHANGED <<fund, history>>
  ELSE fund' = [fund EXCEPT ![f].status = to] /\ LogMove(f, from, to)

\* A commit of client c expires what its session has loaded.
Expire(c) ==
  freq' = [freq EXCEPT ![c] =
             IF @.op = "resolve" THEN [@ EXCEPT !.loaded = FALSE] ELSE @]

\* The savepoint of the handler is rolled back when it raises.
Apply(c, taskStatus, ok) ==
  /\ IF ok THEN FundHandler(c, task[req[c].id].entity, taskStatus)
     ELSE UNCHANGED <<fund, history>>
  /\ Expire(c)

FundApproveNext(c) == ApproveNext(c) /\ Expire(c) /\ UNCHANGED <<fund, history>>
FundApproveLast(c, ok) == ApproveLast(c, ok) /\ Apply(c, "approved", ok)
FundReject(c, ok) == Reject(c, ok) /\ Apply(c, "rejected", ok)
FundResubmit(c, ok) == Resubmit(c, ok) /\ Apply(c, "pending", ok)
FundRetry(c, ok) == RetryApply(c, ok) /\ Apply(c, req[c].seen.status, ok)

(***************************************************************************)
(* Creating, editing, deleting and restoring funds.                        *)
(***************************************************************************)
\* Mutant: the fund starts in a status outside the workflow.
CreateFundAsDraft(c, f, u, ch) ==
  /\ Free(c)
  /\ HasRoom
  /\ fund[f] = NoFund
  /\ fund' = [fund EXCEPT ![f] = [status |-> "draft", active |-> TRUE,
                                  creator |-> u]]
  /\ freq' = [freq EXCEPT ![c] = [op |-> "submit", fund |-> f, user |-> u,
                                  change |-> ch]]
  /\ UNCHANGED <<workflow, task, record, req, history>>

\* create_fund and apply_fund commit the fund, then submit it for approval.
CreateFund(c, f, u, ch) ==
  /\ Free(c)
  /\ HasRoom
  /\ fund[f] = NoFund
  /\ fund' = [fund EXCEPT ![f] = [status |-> "pending", active |-> TRUE,
                                  creator |-> u]]
  /\ freq' = [freq EXCEPT ![c] = [op |-> "submit", fund |-> f, user |-> u,
                                  change |-> ch]]
  /\ UNCHANGED <<workflow, task, record, req, history>>

\* update_fund writes fields the workflow does not depend on, then submits the
\* changed summary of the fund.
UpdateFund(c, f, u, ch) ==
  /\ Free(c)
  /\ HasRoom
  /\ Visible(f)
  /\ fund[f].status \in {"pending", "rejected"}
  /\ freq' = [freq EXCEPT ![c] = [op |-> "submit", fund |-> f, user |-> u,
                                  change |-> ch]]
  /\ UNCHANGED <<workflow, task, record, req, fund, history>>

\* _submit_fund_approval_task
SubmitFund(c) ==
  LET q == freq[c] IN
  /\ q.op = "submit"
  /\ SubmitReads(c, [op |-> "query", kind |-> "business", entity |-> q.fund,
                     user |-> q.user, change |-> q.change])
  /\ freq' = [freq EXCEPT ![c] = Idle]
  /\ UNCHANGED <<fund, history>>

DeleteRead(c, f) ==
  /\ Free(c)
  /\ Visible(f)
  /\ fund[f].status = "pending"
  /\ freq' = [freq EXCEPT ![c] = [op |-> "delete", fund |-> f]]
  /\ UNCHANGED <<workflow, task, record, req, fund, history>>

DeleteFund(c) ==
  /\ freq[c].op = "delete"
  /\ fund' = [fund EXCEPT ![freq[c].fund].active = FALSE]
  /\ freq' = [freq EXCEPT ![c] = Idle]
  /\ UNCHANGED <<workflow, task, record, req, history>>

\* The recycle bin gives the record back.
RestoreFund(f) ==
  /\ fund[f] # NoFund
  /\ ~fund[f].active
  /\ fund' = [fund EXCEPT ![f].active = TRUE]
  /\ UNCHANGED <<workflow, task, record, req, history, freq>>

(***************************************************************************)
(* _transition_status: the endpoints that move a fund along.  The check of *)
(* the attachments and of the milestone may refuse any of them; a refusal  *)
(* leaves no trace.                                                        *)
(***************************************************************************)
\* Mutant: a fund is allocated before it is approved.
AllowedEarlyAllocation ==
           [approved  |-> {"pending"},
            rejected  |-> {"pending"},
            allocated |-> {"pending", "approved"},
            in_use    |-> {"allocated"},
            completed |-> {"in_use"},
            audited   |-> {"completed"}]

Allowed == [approved  |-> {"pending"},
            rejected  |-> {"pending"},
            allocated |-> {"approved"},
            in_use    |-> {"allocated"},
            completed |-> {"in_use"},
            audited   |-> {"completed"}]

\* _assert_can_approve_fund
MayApprove(f, u) == u \in Superusers \/ u # fund[f].creator

MoveRead(c, f, u, to) ==
  /\ Free(c)
  /\ Visible(f)
  /\ to = "approved" => MayApprove(f, u)
  /\ fund[f].status \in Allowed[to]
  /\ freq' = [freq EXCEPT ![c] = [op |-> "move", fund |-> f, user |-> u,
                                  from |-> fund[f].status, to |-> to]]
  /\ UNCHANGED <<workflow, task, record, req, fund, history>>

\* Only approve_fund and reject_fund go on to settle the tasks of the fund.
NextAfterMove(m) ==
  IF m.to \in {"approved", "rejected"}
  THEN [op |-> "query", fund |-> m.fund, user |-> m.user, verdict |-> m.to]
  ELSE Idle

\* Mutant: the history is not written.
MoveUnlogged(c) ==
  LET m == freq[c] IN
  /\ m.op = "move"
  /\ fund' = [fund EXCEPT ![m.fund].status = m.to]
  /\ freq' = [freq EXCEPT ![c] = NextAfterMove(m)]
  /\ UNCHANGED <<workflow, task, record, req, history>>

Move(c) ==
  LET m == freq[c] IN
  /\ m.op = "move"
  /\ fund' = [fund EXCEPT ![m.fund].status = m.to]
  /\ LogMove(m.fund, m.from, m.to)
  /\ freq' = [freq EXCEPT ![c] = NextAfterMove(m)]
  /\ UNCHANGED <<workflow, task, record, req>>

(***************************************************************************)
(* _resolve_fund_approval_tasks: every pending task of the fund is         *)
(* approved through all its levels, or rejected, as a superuser would.     *)
(***************************************************************************)
Oldest(S) == CHOOSE t \in S : \A u \in S : t <= u

\* Mutant: one level of each task is approved.
SettleOneLevel(c, verdict, t, u) ==
  IF verdict = "approved" THEN ApproveRead(c, t, u, TRUE)
  ELSE RejectRead(c, t, u, TRUE)

Settle(c, verdict, t, u) ==
  IF verdict = "approved" THEN AutoRead(c, t, u)
  ELSE RejectRead(c, t, u, TRUE)

Without(todo, t) == [s \in DOMAIN todo \ {t} |-> todo[s]]

\* The rows of the fund and of its pending tasks are loaded together.
ResolveQuery(c) ==
  LET q == freq[c]
      found == [t \in PendingOf(q.fund) |-> task[t]]
      first == Oldest(DOMAIN found)
  IN
  /\ q.op = "query"
  /\ IF DOMAIN found = {}
     THEN /\ freq' = [freq EXCEPT ![c] = Idle]
          /\ UNCHANGED <<workflow, task, record, req>>
     ELSE /\ Settle(c, q.verdict, first, q.user)
          /\ freq' = [freq EXCEPT ![c] =
                        [op |-> "resolve", fund |-> q.fund, user |-> q.user,
                         verdict |-> q.verdict, todo |-> Without(found, first),
                         status |-> fund[q.fund].status, loaded |-> TRUE]]
  /\ UNCHANGED <<fund, history>>

\* The next of the tasks that were found.  It is left alone when it was decided
\* meanwhile, and may be when it changed: after a claim that failed the session
\* still holds the row its query loaded, and that row makes this claim fail too.
ResolveNext(c) ==
  LET q == freq[c]
      t == Oldest(DOMAIN q.todo)
  IN
  /\ q.op = "resolve"
  /\ req[c] = Idle
  /\ DOMAIN q.todo # {}
  /\ freq' = [freq EXCEPT ![c].todo = Without(@, t)]
  /\ \/ Settle(c, q.verdict, t, q.user)
     \/ /\ task[t].status # "pending" \/ task[t] # q.todo[t]
        /\ UNCHANGED <<workflow, task, record, req>>
  /\ UNCHANGED <<fund, history>>

ResolveEnd(c) ==
  /\ freq[c].op = "resolve"
  /\ req[c] = Idle
  /\ DOMAIN freq[c].todo = {}
  /\ freq' = [freq EXCEPT ![c] = Idle]
  /\ UNCHANGED <<workflow, task, record, req, fund, history>>

(***************************************************************************)
(* Next-state relation.                                                    *)
(***************************************************************************)
FundCrash ==
  /\ \E c \in Clients : ~Free(c)
  /\ req' = [c \in Clients |-> Idle]
  /\ freq' = [c \in Clients |-> Idle]
  /\ UNCHANGED <<workflow, task, record, fund, history>>

\* Requests to the approval endpoints, by a client that serves no other.
\* Submissions are for entities that exist (_assert_entity_submittable).
TaskRequests(c) ==
  /\ freq[c] = Idle
  /\ \/ \E f \in Entities, u \in Users, ch \in Changes :
          fund[f] # NoFund /\ SubmitDirectly(c, f, u, ch)
     \/ \E t \in TaskIds, u \in Users :
          Exists(t) /\ Len(record[t]) < MaxRecords /\ Read(c, t, u)
  /\ UNCHANGED <<fund, history, freq>>

\* The steps of the workflow service that leave the fund alone.
TaskSteps(c) ==
  /\ \/ EnsureDefaultWorkflow(c) \/ SubmitAgain(c)
     \/ SubmitWrite(c) \/ SubmitFails(c)
     \/ ClaimFails(c) \/ AutoReload(c)
     \/ Withdraw(c) \/ Transfer(c) \/ RetryWrite(c)
  /\ UNCHANGED <<fund, history, freq>>

Decide(c) ==
  \/ FundApproveNext(c)
  \/ \E ok \in BOOLEAN :
       \/ FundApproveLast(c, ok) \/ FundReject(c, ok)
       \/ FundResubmit(c, ok) \/ FundRetry(c, ok)

FundRequests(c) ==
  \/ \E f \in Entities, u \in Users, ch \in Changes :
       CreateFund(c, f, u, ch) \/ UpdateFund(c, f, u, ch)
  \/ \E f \in Entities : DeleteRead(c, f)
  \/ \E f \in Entities, u \in Users, to \in DOMAIN Allowed : MoveRead(c, f, u, to)

FundSteps(c) ==
  \/ SubmitFund(c) \/ DeleteFund(c) \/ Move(c)
  \/ ResolveQuery(c) \/ ResolveNext(c) \/ ResolveEnd(c)

FundNext ==
  \/ Configure /\ UNCHANGED <<fund, history, freq>>
  \/ FundCrash
  \/ \E f \in Entities : RestoreFund(f)
  \/ \E c \in Clients :
       TaskRequests(c) \/ TaskSteps(c) \/ Decide(c) \/ FundRequests(c) \/ FundSteps(c)

FundSpec == FundInit /\ [][FundNext]_fvars

(***************************************************************************)
(* Types.                                                                  *)
(***************************************************************************)
Entry == [from : FundStatus, to : FundStatus]
Verdict == {"approved", "rejected"}

FundRequest ==
  {Idle}
    \cup [op : {"submit"}, fund : Entities, user : Users, change : Changes]
    \cup [op : {"delete"}, fund : Entities]
    \cup [op : {"move"}, fund : Entities, user : Users, from : FundStatus,
          to : DOMAIN Allowed]
    \cup [op : {"query"}, fund : Entities, user : Users, verdict : Verdict]

\* A direct decision with the tasks S still to settle, as its query loaded them.
Resolving(S) ==
  [op : {"resolve"}, fund : Entities, user : Users, verdict : Verdict,
   todo : [S -> TaskRow], status : FundStatus, loaded : BOOLEAN]

(* Every fund, history and fund request has its type. *)
FundTypeOK ==
  /\ fund \in [Entities -> FundRow \cup {NoFund}]
  /\ history \in [Entities -> Seq(Entry)]
  /\ freq = [c \in Clients |-> freq[c]]
  /\ \A c \in Clients :
       freq[c] \in FundRequest \/ \E S \in SUBSET TaskIds : freq[c] \in Resolving(S)

(***************************************************************************)
(* Properties.                                                             *)
(***************************************************************************)
(* When requests do not overlap, the fund of a task that ended approved has *)
(* left the approval stage and never falls back, whatever else is           *)
(* submitted, rejected, withdrawn or resubmitted for it                     *)
(* (_apply_fund_approval_result, defect R23 of its docstring).              *)
ApprovedTaskApprovedFund ==
  \A t \in TaskIds :
    Exists(t) /\ task[t].status = "approved" =>
      fund[task[t].entity].status \notin {"pending", "rejected"}

(* When requests do not overlap, each decision on a task whose write-back   *)
(* does not raise takes effect on its fund in the same step: a rejection    *)
(* ends the pending state, a resubmission the rejected one.                 *)
VerdictTakesEffect ==
  [][\A t \in TaskIds :
       LET now == fund'[task[t].entity].status IN
       /\ Exists(t)
       /\ task[t].status \notin FailedStatus
       /\ task'[t].status # task[t].status
       => /\ task'[t].status = "rejected" => now # "pending"
          /\ task'[t].status = "pending" => now # "rejected"
          /\ task'[t].status = "approved" => now \notin {"pending", "rejected"}]_fvars

(* When requests do not overlap, the status history of a fund is an         *)
(* unbroken chain from "pending" to the status it has now.                  *)
HistoryIsChain ==
  \A f \in Entities :
    LET h == history[f] IN
    /\ \A i \in 1..Len(h) :
         h[i].from = IF i = 1 THEN "pending" ELSE h[i - 1].to
    /\ fund[f] # NoFund =>
         fund[f].status = IF h = <<>> THEN "pending" ELSE h[Len(h)].to

(* When requests do not overlap, approving or rejecting a fund directly     *)
(* leaves none of its tasks pending once all of them have been settled      *)
(* (_resolve_fund_approval_tasks).                                          *)
DirectDecisionSettlesTasks ==
  \A c \in Clients :
    freq[c].op = "resolve" /\ DOMAIN freq[c].todo = {} /\ req[c] = Idle =>
      PendingOf(freq[c].fund) = {}

(* However requests interleave, the last entry of the status history is the *)
(* status of the fund: no write of the status goes unrecorded.              *)
LastEntryIsStatus ==
  \A f \in Entities :
    history[f] # <<>> => history[f][Len(history[f])].to = fund[f].status

(* However requests interleave, a fund gets to a stage only when it has     *)
(* been at one before it in the graph (_transition_status and               *)
(* _FUND_APPROVAL_TARGETS; "不能跳步" of the requirements document): funds    *)
(* and histories implement FundLifecycle, whose stages reached are those in *)
(* the history.                                                             *)
Recorded(h) == {h[i].to : i \in 1..Len(h)}

Reached(f) ==
  IF fund[f] = NoFund THEN {} ELSE {"pending"} \cup Recorded(history[f])

Stages == [f \in Entities |-> fund[f].status]
StagesReached == [f \in Entities |-> Reached(f)]

Lifecycle ==
  INSTANCE FundLifecycle WITH
    Funds <- Entities, stage <- Stages, reached <- StagesReached

SkipsNoStage == Lifecycle!LifecycleSpec

(* However requests interleave, no fund is allocated, used, completed or    *)
(* audited that was not approved at some time before.                       *)
MoneyNeedsApproval ==
  \A f \in Entities :
    fund[f].status \in {"allocated", "in_use", "completed", "audited"} =>
      \E i \in 1..Len(history[f]) : history[f][i].to = "approved"

(* A task whose retried write-back succeeded has been applied to its fund:  *)
(* "不会批了没生效" of the requirements document.                            *)
RetryTakesEffect ==
  [][\A t \in TaskIds :
       /\ Exists(t)
       /\ task[t].status = "approved_apply_failed"
       /\ task'[t].status = "approved"
       => fund[task[t].entity].status # "pending"]_fvars
=============================================================================
