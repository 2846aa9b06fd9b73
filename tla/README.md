# Formal models of MRRS

TLA+ models, TLC runs and TLAPS proofs for the Rural Revitalisation record
system (`backend/app`, FastAPI over SQLAlchemy and SQLite).  They cover the
parts of the program in which several actors meet: the approval workflow and
the entities that depend on it, restoring a backup under load, asynchronous
exports, chunked uploads, and the packages machines exchange.  Paths below are
relative to the repository; those of the first table to `backend/app`.

Contents: the system, the modules and how they correspond to the code, the
runs, the disagreements found, the proofs, what is not modelled, what is left.

## The system

One backend process serves a web or Electron front end.  Synchronous endpoints
run in a thread pool, so requests overlap; each has a session of its own
(`get_db`) on one SQLite database.  pysqlite opens a transaction at the first
write only: what a request reads before is not protected by anything, and the
unit of work then updates by primary key the columns whose value differs from
the one that was read.  Asynchronous endpoints are coroutines of one event
loop and change state in memory and in files between awaits; schedulers and
executors add threads of their own, and the process may be stopped at any time.

| Component | State | Operations | Interaction | Hard behaviour | What makes it correct |
|---|---|---|---|---|---|
| Approval workflow service `services/approval_workflow_service.py`, endpoints `api/v1/approval.py` | workflows and nodes, tasks, records | submit, approve, reject, withdraw, resubmit, transfer, retry of a write-back, ensure-default | calls the apply handler of the entity type when a task is decided or resubmitted | overlapping decisions, stale rows, two commits in one request, a handler that raises | one decision per level and round; approved only with every level; who decides |
| Funds `api/v1/funds.py` | fund status, status history | create, edit, delete, approve, reject, allocate, use, complete, audit | submits tasks, is written by their handler, settles them after a direct decision | status kept twice (fund and task), each side writing the other in separate transactions | the fund follows its tasks; nothing spent without approval; history is complete |
| Approval gate `services/approval_gate.py` with villages, schools, policies | the entity rows | update, delete, restore, publish, archive | administrators write, others file a task that carries the change | the change is applied long after it was read | an approved change is in effect, a rejected one is not |
| Recycle bin `api/v1/recycle_bin.py` | active flag | restore, purge | gives funds and villages back | approval of a deleted row | |
| Sessions `core/transaction.py`, `core/database.py` | sessions, exclusive writer | commit, rollback | under every endpoint | expiry on commit, savepoints | |
| Maintenance window, backup, restore `core/maintenance.py`, `services/backup_service.py` | maintenance flag, requests in flight, database file, snapshots, connection pool | enter, drain, overwrite, migrate, roll back, leave | gate in front of every write | overlapping restores, drain timeout, pooled connections to a replaced file, crash halfway | acknowledged writes survive a failed restore; the system is usable afterwards; maintenance ends |
| Task queue, asynchronous export `services/task_queue.py`, `services/async_export_service.py` | in-memory queue, persisted export rows, files | submit, run, stop, recover, purge | worker threads beside requests | rows that outlive the queue, files and rows written in separate steps | every export ends; a completed row has its file |
| Chunked upload `services/chunked_upload_service.py` | sessions, chunks, merge locks | upload, merge, delete, evict, expire | awaits between check and write; cleanup in a thread | status overwritten after an await, directories and merge locks removed under a merge | one merge at a time; a merged file is whole and stays |
| Data packages `services/data_package_service.py`, `api/v1/data/data/data_packages.py` | the rows of each machine, package records, files carried by hand | export (full, incremental), register, confirm | exclusive writer beside ordinary writes | ids that collide, late and repeated packages, statements of an import that fail, edits meanwhile | no row is taken over, no edit undone, nothing lost without a word, references follow |
| Lockout, token blacklist | counters, expiring sets | count, lock, revoke | login | wall-clock expiry | |
| Projects, permissions, reports, statistics, search, AI, front end | | | | conversion, queries, UI | |

`PROJECT.json` lists each of them with its status.  The recycle bin and the
sessions appear as parts of the approval modules; the last two rows of the
table are not modelled, for the reasons under "Not modelled".

## Modules

Every component is a module; its `MC` module and `.cfg` files instantiate it
for TLC, and its `_proofs` module, where there is one, proves about it.  Within
a module, a definition marked "Mutant" is the code with a plausible bug (a
dropped guard, a missing report): no action uses it, and putting it in the place
of the definition after it makes a property of the module fail.

| Module | Models | Composed with |
|---|---|---|
| `ApprovalTasks` | the workflow service | |
| `ApprovalLedger` | what the service promises, abstractly | refined by `ApprovalTasks` |
| `FundLifecycle` | the stages of a fund, abstractly | refined by `FundApproval` |
| `FundApproval` | funds, written by tasks and writing them | extends `ApprovalTasks`: their actions are conjoined where one transaction does both |
| `GatedChange` | entities whose changes wait for approval | extends `ApprovalTasks` likewise |
| `MaintenanceRestore` | maintenance window, restore, pool, writing requests and jobs | |
| `ExportTasks` | export rows, queue, workers, executor, purge | |
| `ChunkedUpload` | upload sessions, chunks, merges, cleanup | |
| `DataPackages` | machines exchanging packages | |

### ApprovalTasks

The workflow service.  `task`, `record` and `workflow` are the three tables
(the nodes of a workflow never change after its creation, so they are the
constant `Chain`); `req[c]` is the request that thread `c` serves.  A request
is a read action (`ApproveRead`, `WithdrawRead`, ...: the checks and the early
returns) and a write action (one transaction).  In between, `req[c].seen` is
the row it has read.

| Code | Action |
|---|---|
| `create_workflow`, `update_workflow`, `delete_workflow` | `CreateWorkflow`, `UpdateWorkflow`, `DeleteWorkflow` |
| `submit_approval` | `SubmitRead`, `SubmitWrite`, `SubmitFails` (foreign key broken) |
| `submit_entity_change_approval`: ensure a workflow, submit again | `EnsureDefaultWorkflow`, `SubmitAgain` |
| `submit_and_auto_approve`, `/auto-approve` | kind `"auto"`, `AutoRead`, `AutoReload`: one approval per round |
| `approve_task` | `ApproveRead`, `ClaimFails`, `ApproveNext`, `ApproveLast` |
| `reject_task` | `RejectRead`, `ClaimFails`, `Reject` |
| `withdraw_task`, `resubmit_approval`, `transfer_task` | `WithdrawRead`/`Withdraw`, `ResubmitRead`/`Resubmit`, `TransferRead`/`Transfer` |
| `retry_apply_entity_change` | `RetryRead`, `RetryApply`, `RetryWrite` |
| the process dies | `Crash` |

`Claims` is the conditional UPDATE of a decision.  `Flush` is the unit of work:
a column is written only when the new value differs from the value that was
read.  The retry takes two steps because its savepoint is the outermost
transaction there: releasing it commits the entity before the status.  The
handler is abstract here: it succeeds, or raises if the status is in `FailOn`.

### ApprovalLedger

What a task promises when requests, users, rows and failures are left out: it
needs a number of levels (`needs`), levels sign one at a time and in order
(`signed`), and it stands approved (`granted`) only when all have signed.  The
ledger is deliberately about signatures ever given, not about rounds: a round
can be cut short by a stale resubmission (see Overlap below), a signature is
never taken back.  `ApprovalTasks` implements it under the mapping at its end:
`needs` is the length of the chain of the task's workflow, `signed` the levels
for which an approval is recorded, `granted` the tasks that are approved.

### FundApproval

Extends ApprovalTasks with the funds (entities of the workflow), their status
history, and where each thread is in a fund endpoint (`freq`).  `Move` is
`_transition_status`; `Target` and `FundHandler` are the apply handler
`_apply_fund_approval_result`, conjoined to the decision whose transaction it
is part of.  `ResolveQuery`, `ResolveNext` and `ResolveEnd` are
`_resolve_fund_approval_tasks`, which calls the workflow service for each
pending task, in a transaction each.  `KnownStatus` and `Expire` are the fund
row the session keeps until a commit expires it.

### FundLifecycle

The graph of stages of the requirements document
(`docs/03-开发文档/00-需求规格说明书/01-需求规格说明书.md`), of which it says that no
stage is skipped, with the edges that the code adds to it: from rejected back to
pending, and on to approved.  A fund gets to a stage only from one
it *has been* at, which need not be the one it is at: `_transition_status` does
not claim the row, so of two transitions that were checked on one status the
later one sets the fund back.  `FundApproval` implements it, with the stages reached
read off the status history.

### GatedChange

Extends ApprovalTasks with the rows of a gated entity type.  `OpenChange` is
the gate, `DirectRead`/`DirectWrite` an administrator's change, `ApplyChange`
the handler of schools, villages and policies, `Restore` the recycle bin.
Deletion is a change like any other, marked as in `change_data`.  The handlers
return in silence when the entity is gone, when a policy would get a status it
cannot have, and for fields that are unknown or may not be changed; a change of
the model is one the handler can write, of an entity that is there.

### MaintenanceRestore

Restores, writing requests and jobs are threads with a `pc`.  What they share
is the flag, the database file with its schema, the attachments, the snapshots
and the connection pool.  A connection is fresh while the file it has open is
the one in place; `pool` says which kinds of idle connections there are, and
`pooled` whose connection will come back to the pool in use.

| Code | Action |
|---|---|
| gate and counter in two middlewares | `Admit`, `Count` |
| a transaction of a request or a job | `Checkout`, `CommitWrite`, `FailWrite`; `Read` leaves a connection in the pool |
| `maintenance_window`: enter, wait for idle, timeout, leave | `Enter`, `Drained`, `GiveUpWaiting`, `Leave` |
| `_restore_backup_impl`: open, snapshot, unpack and check the revision | `Open`, `TakeSnapshot`, `Unpack` |
| `_restore_database_from_backup`: unlink the log, copy over the file | `StartOverwrite`, `EndOverwrite` |
| integrity check, migration, attachments | `Verify`, `Migrate`, `Attach` |
| `_rollback_to_snapshots` | `Rollback`, `FailRollback` |
| the process ends; `_init_database_tables` | `Crash`, `Restart` |

A backup of before the program had versions is stamped with the current one and
not migrated (`Upgraded`), at a restore as at a start; with
`ENABLE_AUTO_MIGRATION` off, as it is by default, a start adds no columns either.
So `UsableAfterRestore` promises the version, not the columns.

Every step of the restore has its failure.  Three history variables carry the
promise: `promised` (acknowledged writes no successful restore replaced),
`unguarded` (writes the window makes no promise about: not waited for after the
ten seconds, between the gate and the counter, jobs no middleware sees during a
restore, connections a rollback left in the pool) and `spoiled` (something
happened that the code has no answer to: a second restore inside a window, a
failing rollback, a crash while the file is being replaced, a log that falls on
another file).  The properties speak about the rest.

### ExportTasks

A row of `export_tasks`, an entry of the in-memory queue, a worker coroutine, a
thread of the executor, and a file with its `.part`.

| Code | Action |
|---|---|
| start: `recover_stale_export_tasks` (may fail), then the queue | `Start` with `Recover` |
| `LocalTaskQueue.stop`; the process ends | `Stop`, `Die` |
| request: commit the row, read it back, submit it | `CreateExport`, `Submit`; `SubmitFails` when the read raises |
| `_worker` | `Take`, `Finish` |
| `_run_export_task` in the executor | `Begin`, `Build`, `WritePart`, `Replace`, `Commit`, `Fail`, `WriteFailure` |
| 24 hours pass; `purge_expired_exports`, `cleanup` | `Expire`, `PurgeFiles`, `PurgeRows` |

A request that fails between its commit and its submit answers 500
(`api/v1/import_export/async_export.py`) and leaves a pending row that nobody
holds until the next start settles it; `aborted` names those rows, and the two
properties about unfinished rows except exactly them.

### ChunkedUpload

Sessions and merge locks are objects in memory, requests are coroutines, and a
step is what runs between two awaits.  The cleanup, every half hour
(`backup_scheduler.py:1055`), is a thread of its own and takes its steps between
any two of theirs, and also where a merge has no await: between its checks and
its lock, the one place where that matters (`LoopFree` keeps the other requests
out there).

The table has one lock of a session while the session is listed.
`delete_session` drops it with the session, whoever holds it, and who asks
afterwards is given another one (`LockOf`).  Only a merge that has passed
`get_session` can still ask; `undercut` names the sessions of which the cleanup
took the lock in that moment.  Then a second merge may write the file beside the
first, and what they leave there is `"mixed"`: the checks of size and hash may
find it out or not (`Passes`).

| Code | Action |
|---|---|
| `create_session` with eviction, `delete_session`, `get_session` | `CreateSession`, `DeleteSession`, `GetSession` |
| `cleanup_expired_sessions`: chunks, then the entry | `CleanChunks`, `CleanSession` |
| 24 hours pass | `Age` |
| `upload_chunk` | `UploadChunk`, `OpenChunk`, `WriteChunk`, `FinishChunk` |
| `merge_chunks`: the checks, `_acquire_merge_lock`, the copying, the comparison | `MergeChunks`, `AcquireLock`, `CreateFinal`, `CopyChunk`, `CheckFinal`, `FailMerge` |

A chunk file is missing, partial or whole, a merged file knows how many chunks
it holds and whether all were whole; sizes and hashes tell no more than that.

### DataPackages

Machines with tables of their own (`db[m]`), numbered from 1 by SQLite, and
files that travel by hand: a package, once written, may be registered on any
receiver, at any time and again.  Villages and projects stand for the four
tables: a parent whose business key is complete, and a child with a reference
and a unique code that may be missing.

| Code | Action |
|---|---|
| a row is entered or edited on a machine (`updated_at`) | `Create`, `Edit` |
| `export_package`, `incremental_export`: a statement for each table, then the record | `StartExport`, `ReadTable`, `RecordPackage` |
| `import_package`, `incremental_import` up to the record | `Register` |
| `_confirm_import_sync`: the status, then lock and snapshot | `Ask`, `Begin` |
| one data type: validation, `_apply_fk_remap`, `_classify_import_records`, `_bulk_upsert_records` | `ImportType` with `Accepted`, `Rows`, `FreeIds`/`SameIds`/`TakenIds`, `Upserted`, `Relocated` |
| success; any exception | `Commit`, `Fail` |
| the process ends | `Stop` |

The import is one SQLite transaction that reads before it writes.  `fresh` says
whether another transaction has committed since its first read (then its first
write fails) and `wrote` whether it holds the write lock (then nobody else
commits).  Within it, the statement that writes the free and the matching ids is
all or nothing (`GroupSucceeds`), the relocated rows go in one by one, and what
fails is reported while the import goes on.  An incremental package holds what
changed since its base was recorded.

`receipts` are the imports that were answered without errors
(`AnswersWithoutErrors`), with their mode.  The confirm endpoint passes on the
errors of `_confirm_import_sync`, and `ReceiptIsTrue` is about its answers;
`incremental_import`, which alone imports with the guard by time (mode
`"newer"`), drops them, and its answer promises nothing.

`Fail` is one step: the code releases the lock before it rolls back and marks
the package, and an import that takes the lock in between can only wait for the
write lock of SQLite or fail itself.  The two tables hide that funds are imported
before schools, and the whole-number time that `updated_at` is written in one
format.

### What the models leave out

Names, amounts, opinions, dates, notifications, and logs.
Attachments and data scopes may refuse a request; a refusal changes nothing, so
the model without it has all the states of the program.
A change is a model value; equality of changes is what the code compares.  The
loops of `/batch-approve` and `/auto-approve-all` are sequences of modelled
requests.  Interruption of a transaction is no step: SQLite commits it or not.

## Runs

| Run | Shows | Bounds |
|---|---|---|
| `claims` | one decision per level and round, and no approval without every level, when two requests overlap with failing handlers, retries and crashes | 2 threads, 1 task of 2 levels, 3 users, reads while a task has less than 4 records |
| `serial` | without overlap: approvals are of this round; each level is decided by the approver of its workflow, by whom it was transferred to in this round, or by a superuser; the service implements `ApprovalLedger` | 1 thread, 2 workflows (one without approver), 2 changes, every kind of failing handler |
| `fundSerial` | the fund follows its tasks, history is a chain, a direct decision settles every task, the funds implement `FundLifecycle` | 1 thread, 1 fund, 2 tasks of 2 levels |
| `fundRaces` | with overlap: every write of the status is recorded, money needs an approval | 2 threads, 1 fund, 1 task |
| `gateSerial` | an approved change is in effect, over failures, retries, crashes and deletions | 1 thread, 1 entity, a change and a deletion |
| `exports` | a downloadable export has its file, no row is forgotten and every export ends, but those whose request failed before its submit | 2 exports, 1 worker, any number of stops and starts |
| `uploads` | one merge of a session at a time unless the cleanup took its lock away under one, a merging session is being merged, a merge completes a whole file and the file stays | 2 requests, 2 sessions of 2 chunks, room for 1 session |
| `restore` | acknowledged writes survive, the system is usable after every restore, maintenance ends | 2 restores, 1 writing request, 1 job, backups of the current version, an older one and none |
| `packages` | ids are not taken over, guarded imports undo no edit, an answer of the confirm endpoint without errors is true, projects follow their villages | 2 machines with the same ids, 2 overlapping confirms, 2 packages (full or incremental), 2 records each, statements of 1 row, 1 edit after the start |
| `lateWithdraw`, `fundRetry`, `gateReject` | disagreements with a document or docstring, below | |

**Why the bounds are enough.**  Two threads are the smallest number at which a
row that was read is stale when it is written.  Two levels are the smallest
number at which levels can be skipped, repeated or left over.  Two tasks per
fund are needed for decisions on different tasks of one fund in either order.
`MaxTasks` bounds the tasks; `MaxRecords` bounds the records at which a task
still gets requests, and with 4 a task can be approved, rejected, resubmitted
and approved again.  One thread (`serial`, `fundSerial`, `gateSerial`) still
crashes between the transactions of a request, and workflows are still
reconfigured in between.  Two exports on one worker make one wait in the queue
while the other runs, is stopped or is recovered.  Room for one session makes
the second one evict the first; two chunks make a merge that can be half done.
Two restores are the number that overlaps; one request and one job are the two
kinds of writers, those the middleware counts and those it does not.  Statements
of one row (`GroupLimit`) fail for some packages and not for others, as the
statements of the program do at SQLite's limit of parameters; two records make a
machine hold the same package twice, or a full one and an increment; one edit
after the start is what a late or repeated package can undo.  The run does not
interleave the export of one machine with the confirms of the other
(`ExportsApart`): they touch different tables and records, so their order makes
no difference to either.

Symmetry permutes requests, which appear in no property as individuals; it is
not used in the runs that check liveness.

**Overlap.**  Several natural statements hold for requests one after the other
and not for overlapping ones; the comment of each property says which.  A
resubmission, transfer or withdrawal that read its row early overwrites what
happened since (only decisions claim the row), and `_transition_status` has the
same gap: of two transitions checked on the same status both succeed.

**Deadlock** is checked in every approval run and in `exports`, where the
program can always go on.  `uploads` and `packages` stop when their bounds are
reached, and `restore` when every thread has run or when a torn database keeps
the process down: these three switch the check off.

**Fairness.**  None is assumed for the approval modules and the packages: what
must happen next is a person's act, which nothing in the code schedules.  In
`exports` it is weak: a request that has committed its row submits it or fails
(`Submit` or `SubmitFails`, the same coroutine; which of them is left open), a
worker that can go on does (`Work`, the event
loop resumes what is ready), a thread of the executor runs (`Run`).  Stops,
crashes, starts and purges are not fair.  In `restore` only the thread of a
restore runs on (`Restoring`); requests and jobs may stop anywhere, and the
wait for them ends by its timeout, which is a step of the restore.

**Refinement.**  `serial` checks that `ApprovalTasks` implements
`ApprovalLedger`; `ServiceImplementsLedger` proves it for any number of
overlapping requests, `FundImplementsLedger` and `GateImplementsLedger` for the
service under the funds and under the gate.  `fundSerial` checks that the funds
implement `FundLifecycle`, and `FundsFollowLifecycle` proves it for requests
that overlap.

### Disagreements found

1. `lateWithdraw`: an approved task becomes withdrawn (`withdraw_task` does not
   claim the row).  The user manual allows it for pending tasks only.
2. `fundRetry`: the retry of a failed write-back to a fund calls the handler
   with the status `approved_apply_failed`, which the handler skips: the task is
   approved, the fund stays pending.
3. `gateReject`: rejecting a gated change writes the change, against the
   docstring of `approval_gate.py`.

Also met, without a run of their own.

- Approval: content A, B, A leaves two pending tasks for A, against the
  docstring at `approval_workflow_service.py:220`; a withdrawal writes no record
  although the user manual (`docs/02-用户手册/审批管理操作流程.md:32`) says it
  does; a fund in the recycle bin is approved through its task; a rejected fund
  that was edited goes from rejected to approved, an edge the requirements do
  not draw; a crash after `approve_fund` committed the status leaves the task of
  the fund pending.
- Uploads: a late re-upload of a chunk, or the expiry that `get_session` marks,
  takes a merged session back, and asking for the merge again empties the file
  that was good.  `SettledMergeStays` stops where that begins.  The comment at
  `chunked_upload_service.py:479-482` says that a lock of each session keeps
  merges apart; the cleanup removes the lock from the table while it is held or
  asked for (lines 337-339), and then two merges may run.
- Restore: two restores share one flag that is not counted, so the first to
  leave admits writes under the second, and each waits for the other until the
  timeout; connections idle in the pool keep the replaced file open on POSIX, and
  what is written through them after a rollback is lost; a rollback leaves the
  write-ahead log of the file it replaces.  These are the states `spoiled` and
  `unguarded` mark.  `Restart` takes a migration that fails at start for a start
  that is refused.  A backup without a version is stamped with the current one
  and lacks the new columns: the first query on one of them fails, which is what
  the docstring at `backup_service.py:1264-1267` says the migration is there to
  prevent.
- Exports: a process that ends between putting a file in place and committing
  its row leaves a file no row names; a refresh that fails after the commit
  (`async_export_service.py:622`) leaves a pending row that no worker takes
  before the next start, though the request answered an error; a failure that
  cannot be written leaves its row processing likewise.
- Packages: of two confirms that overlap both import, because the status is
  read before the lock, and rows that were relocated come in twice; an edit
  during an export falls between two packages; imported rows keep their older
  `updated_at` and are not passed on by the next incremental package; an import
  of some types only, or an increment whose village was sent before, attaches a
  project to whatever has the village's id, because the map of moved ids lives
  for one import; an update of a row that was relocated is relocated again.  A
  package refused with 409 by `check_org_code` is recorded as validated and can
  be confirmed.
- Packages, against what is written there: the docstring at
  `data_package_service.py:1056-1057` has a row without a business key treated
  as the same record; the code and the comments at 109 and 1075-1078 give it an
  id of its own, which is what `NoRowIsTakenOver` demands and what its mutant
  `SameIdsOrUnknown` undoes. `incremental_import` (`data_packages.py:1050`)
  answers that the import succeeded also when rows failed.
  `approve_data_report` (`data_reports.py:386`) tests whether the result of the
  import is a `dict`, which it never is, so it answers 400 after the import was
  committed; data reports are not modelled.

## Proofs

The theorems hold for every value of the constants that satisfies the named
assumptions of the module they are about (`ParamAssumption`,
`PackageAssumption`, `StartAssumption`, ...): any number of threads, tasks,
levels, exports, sessions, chunks, restores, machines, rows.  TLC checks the
same formulas on the instances above, and evaluates the assumptions there.

| Module | Theorems |
|---|---|
| `ApprovalTasks_proofs` | `TypeCorrect`, `ApprovedNeedsEveryLevel`, `DecisionsOnce`, `ServiceImplementsLedger` |
| `ApprovalSerial_proofs` | `RoundsStartOver`, `OwnersDecide`, `DecidesAssignee` |
| `FundApproval_proofs`, any interleaving | `EveryMoveIsLogged`, `MoneyIsApproved`, `FundTypeCorrect`, `FundsFollowLifecycle`, `FundApprovedEveryLevel`, `FundDecisionsOnce`, `FundImplementsLedger` |
| `FundApproval_proofs`, no overlap | `FundRoundsStartOver`, `HistoriesAreChains`, `VerdictsTakeEffect`, `ApprovedTasksApprovedFunds`, `DirectDecisionsSettle` |
| `GatedChange_proofs` | `GateRunsWorkflow`, `GateImplementsLedger`, `GateTypeCorrect`, `ApprovalTakesEffect` |
| `ExportTasks_proofs` | `ExportTypes`, `DownloadsHaveFiles`, `NoRowForgotten` |
| `ChunkedUpload_proofs` | `UploadTypes`, `MergesAlone`, `NoMergeLeftBehind`, `MergesAreWhole`, `MergesStay` |
| `MaintenanceRestore_proofs` | `RestoreTypes`, `PromisesKept`, `UsableAgain` |
| `DataPackages_proofs` | `PackageTypeOKHolds`, `NoRowIsTakenOverHolds`, `GuardedImportKeepsEditsHolds`, `ReceiptIsTrueHolds`, `ProjectsFollowVillagesHolds` |

**Approval.**  `DecisionsOnce` assumes that the handler does not raise for a
resubmission.  The hypothesis is needed: the retry of a `pending_apply_failed`
task makes it pending again without a record, and when that retry read its row
before another one and the decisions after it, the same level is decided twice
in what the records show as one round.

`ApprovedAtEveryLevel` is not inductive: an approval writes from a row read
earlier, and a retry makes a task approved that may have been resubmitted
since.  `IInv` adds what the requests in flight know: the row they read belongs
to the same workflow as the task (`SeenRows`), every level below the current
one is approved in *some* round, which survives a stale resubmission that leaves
the level alone (`LevelsClimbed`), and a retry carries a row whose levels were
all approved (`RetryClimbed`).  `DInv` adds that decisions of the current round
are below the current level while the task is pending (`PendingAbove`), that
records belong to tasks, and that no task is `pending_apply_failed`.
`StepEffect` reduces every action to one of six kinds of step on one task
(opens, advances, approves, rejects, reopens, amends) and where the row a
request carries comes from; the invariants are then shown for the kinds.

**Requests one at a time.**  Overlapping requests break three natural
statements (see "Overlap" above); the theorems of `ApprovalSerial_proofs` prove
them under the hypothesis `Serial`, at most one thread, for any number of tasks,
users and levels and with every failure and crash.  `Fresh` says that the row a
request carries is the row in the table, with the status and the approver its
read asked for; `RoundClimbed` that the levels below the current one were
approved since the last resubmission while the task is open, and all levels once
it is approved.  A fresh resubmission resets the level, which a stale one may
not: that is the step where the proof uses `Serial`.  For `OwnersDecide`,
`Owned` says that an open task is with the approver its workflow names for the
level it is at, or that this level was transferred since the last resubmission.

**Refinement.**  `LInv` adds to `IInv` that no level outside the chain is ever
signed (`LevelsBounded`).  Of the six kinds of step, opening opens in the ledger,
advancing signs or repeats a signature, the last approval signs and may grant,
and rejecting, reopening and amending grant or revoke, possibly with no effect.

**Funds.**  `FInv` says that a fund past its approval has an approved entry in
its history (`EarnedFunds`), that so has every move in progress (`EarnedMoves`),
and that the last entry is the status.  The handler of a task moves a fund
within the approval stage only, which is why overlapping decisions cannot bring
money out of it.  `BInv` joins `IInv` with the types of the funds and with
`FundsExist`: tasks, submissions and fund requests are about funds that were
created, so a status is never written of a row that is not there.
`FundStepEffect` shows that a step of the funds is a step of the service or
leaves its tasks alone, while a direct decision hands it requests like any
other; the six kinds of step, and with them the theorems about tasks, carry over
without being proved again.  `CInv` adds what old knowledge is still
good for: a status read by a transition, or kept by a session, is one the fund
has been at (`KnowsReached`), so what is written comes after it in the graph.

When requests do not overlap, `SInv` of the service carries over
(`FundSInvStep`).  `Settling`, which holds under any interleaving, says where a
client is: while it settles the tasks of a fund, the request it makes is about a
task of that fund.  `FreshFunds` says that the status a transition or a
session has read is the status of the fund; hence every write moves the fund on from
its current status and none leads back into the approval stage
(`SerialFundKind`).  `HistoriesAreChains` and `VerdictsTakeEffect`
follow from that and hold with every failure.  `ApprovedTasksApprovedFunds`
assumes that the write-back of an approval does not raise: disagreement 2 below
the runs is its counterexample otherwise, because the retry of such a task
makes it approved and not its fund.  For `DirectDecisionsSettle`, `AllInHand`
says that every pending task of a fund being settled is still to do or in the
hands of the request that settles it, level after level.

**Gate.**  Each step of `GatedChange` is a step of `ApprovalTasks` or leaves its
variables alone, so `GateSpec` implies `Spec` (`GateRunsWorkflow`) and every
theorem about the service holds of it.  `ApprovalTakesEffect` needs requests that
do not overlap: `GInv` joins `SInv` with the types and with the fact that a client
is in the gate or in the service, not in both (`OneAtATime`), and `Applied`
covers the time between the two commits of a retry, when the change is in effect
and the task does not say so yet.

**Exports.**  `EInv` relates requests, queue, threads and purge to the rows and
files: what waits is pending and in the queue once (`Waiting`, `Submitting`), a row in
progress is not finished (`InProgress`), after `Replace` the file is in place
(`Placed`), the purge deals with finished and expired rows only (`Purging`), and
nothing in memory survives the process (`Down`).  A row whose request failed
before the submit stays in `aborted` until a start settles it.

**Uploads.**  `UInv` says who holds a merge lock: every merge past
`AcquireLock` holds one of its session (`MergeHasLock`), alone (`OneHolder`),
nobody else does (`LockIsUsed`), and a merging session is being merged
(`MergingIsMerged`).  The locks and not the status carry the proof, because an
upload may overwrite the status.  A session has two locks at most, the one in
the table while it is listed and the one made afterwards; who asks for a lock
asks for that of a listed session, unless the cleanup has come in between
(`AskedIsListed`), so the second lock is held only for a session that was
undercut (`FreshIsUndercut`).  Hence two merges there (`TwoMerges`) and one
elsewhere, and a file with two writers only there (`MixedIsUndercut`).

**Restore.**  `RInv` holds the snapshots of a restore (`SnapshotsHeld`) and, as
long as nothing the code has no answer to has happened, that one restore runs
(`OneRestore`), under the flag (`FlagIsUp`), and what is in the file at each of
its steps (`FileIsSound`, `HalfWay`, `SnapshotIsSound`, `RowsInFile`,
`RowsInSnapshot`), with the requests that were not waited for
(`GivenUp`, `StaleGivenUp`).

**Packages.**  `PInv` says of an import in progress that it has the lock of its
machine, that its tables are good, that they keep every row of the machine as
long as its snapshot is fresh, and that every row of a type it wrote without an
error is where the map of moved ids says (`AllLanded`).  `ImportedRows` shows
what writing one type does to a table; a commit needs a fresh snapshot, so it
keeps the rows of the machine too.  Steps then carry imports on, possibly as
stale, and `StepKeeps` does the rest.

**Only model-checked.**  `EveryExportEnds` and `MaintenanceEnds`: fairness and
`ENABLED` are out of the prover's reach (TLAPS 1.4.5), as is induction over
data; no module has a RECURSIVE operator.  Of the three runs that expect a
violation, two refute properties that hold in no setting worth a theorem; that
of `lateWithdraw` holds for requests one at a time, where it is no more than the
guard of `withdraw_task`.  Every
other property of a run is stated by a theorem, those that need requests one at
a time under the hypothesis `Serial`.

## Not modelled

- What the file system does below `rmtree`, `unlink`, `os.replace` and `copy2`
  is assumed to be POSIX; a copy that is interrupted leaves a torn file.
- `cancel_task` and `update_progress` of the task queue, and its generic
  wrapper: nothing in the repository calls them.
- Making backups, their schedule, verification and retention: they read the
  database and write files of their own.
- Packages: the names of villages (renaming one changes its business key),
  ids reused after a hard purge, organisations and owners, encrypted packages,
  the interactive conflict resolver, versions and deletion of packages,
  `data_sync_service`.
- The publishing of a policy as a change of its own, the creation of gated
  entities and their imports, the purge of the recycle bin.
- Lockout and the token blacklist: counters and sets that expire by the wall
  clock, in one process and under one lock, where no order of steps matters.
- Projects and rural works: two more handlers of the shape of `ApplyChange` and
  `FundHandler`; their other endpoints are single writes of a row.
- Users, roles and permissions are lookup tables; reports, statistics,
  analytics, search and AI only read; the front end reaches the state through
  the endpoints.  They are most of the lines of the repository and hold none of
  its concurrency.
- Liveness of the approval workflow: a task ends when people decide it.

## What is left

1. The publication of policies and the purge of the recycle bin, beside
   `GatedChange` and `FundApproval`.
2. Making backups beside a restore: the snapshots and the scheduled backup read
   the database at the same time.
3. Versions and deletion of packages, and three machines in a row, for which the
   run of `DataPackages` would need other bounds.
