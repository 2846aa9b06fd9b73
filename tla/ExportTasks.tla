---------------------------- MODULE ExportTasks ----------------------------
(***************************************************************************)
(* Asynchronous exports: the persisted rows of                             *)
(* backend/app/services/async_export_service.py and the in-memory queue of *)
(* backend/app/services/task_queue.py that makes them.                     *)
(*                                                                         *)
(* An export is a row, an entry of the queue, a file.  The row outlives    *)
(* the process, the entry does not, and the file is written in two steps.  *)
(* Workers are coroutines of the event loop; the export itself runs in a   *)
(* thread of the executor, which goes on when the worker is cancelled.     *)
(***************************************************************************)
EXTENDS Naturals, Sequences, FiniteSets

CONSTANTS
  Exports,   \* export requests
  Workers,   \* worker coroutines (max_workers)
  NoExport   \* a worker that waits for the queue; no request being submitted

ASSUME ExportAssumption == NoExport \notin Exports

VARIABLES
  process,     \* "up", "stopping" (the queue has stopped) or "down"
  recovered,   \* whether the last start could settle the rows it found
  row,         \* export_tasks: status, and whether file_path is set
  old,         \* exports whose row is past its expires_at
  file,        \* exports whose file is in the export directory
  part,        \* exports with a .part file there
  submitting,  \* the request between its commit and its submit
  aborted,     \* auxiliary: exports whose request failed between the two
  entry,       \* the Task object of each export in the queue's table
  queue,       \* the entries waiting for a worker, oldest first
  worker,      \* the export each worker waits for
  thread,      \* where the executor is in _run_export_task
  purge        \* the daily purge: its step, the rows it will mark

xvars == <<process, recovered, row, old, file, part, submitting, aborted, entry,
           queue, worker, thread, purge>>
memory == <<submitting, aborted, entry, queue, worker>>

ExportStatus == {"pending", "processing", "completed", "failed", "expired"}
Unfinished == {"pending", "processing"}
NoRow == [status |-> "absent", path |-> "null"]
NoPurge == [step |-> "none", rows |-> {}]
ExportRow == [status : ExportStatus, path : {"null", "set"}]

\* What a thread does next; "lost": it could not even write the failure.
Working == {"begin", "build", "write", "replace", "commit", "failing"}
Ended == {"done", "lost"}

IsUnfinished(i) == row[i].status \in Unfinished
SetStatus(i, s) == row' = [row EXCEPT ![i].status = s]
GoTo(i, step) == thread' = [thread EXCEPT ![i] = step]

ExportInit ==
  /\ process = "down"
  /\ recovered = FALSE
  /\ row = [i \in Exports |-> NoRow]
  /\ old = {}
  /\ file = {}
  /\ part = {}
  /\ submitting = NoExport
  /\ aborted = {}
  /\ entry = [i \in Exports |-> "none"]
  /\ queue = <<>>
  /\ worker = [w \in Workers |-> NoExport]
  /\ thread = [i \in Exports |-> "none"]
  /\ purge = NoPurge

(***************************************************************************)
(* The process.                                                            *)
(***************************************************************************)
\* Mutant: only the exports that were being made are settled.
RecoverProcessing(i) ==
  IF row[i].status = "processing" THEN [row[i] EXCEPT !.status = "failed"] ELSE row[i]

\* recover_stale_export_tasks
Recover(i) == IF IsUnfinished(i) THEN [row[i] EXCEPT !.status = "failed"] ELSE row[i]

\* lifespan: an error of the recovery is only logged; then the queue starts.
\* Rows that an aborted request left are settled with the others.
Start(ok) ==
  /\ process = "down"
  /\ process' = "up"
  /\ recovered' = ok
  /\ row' = IF ok THEN [i \in Exports |-> Recover(i)] ELSE row
  /\ aborted' = IF ok THEN {} ELSE aborted
  /\ UNCHANGED <<old, file, part, submitting, entry, queue, worker, thread, purge>>

\* LocalTaskQueue.stop: the queue is dropped with what waits in it and the
\* workers are cancelled; their threads are not.
Stop ==
  /\ process = "up"
  /\ submitting = NoExport
  /\ process' = "stopping"
  /\ queue' = <<>>
  /\ worker' = [w \in Workers |-> NoExport]
  /\ UNCHANGED <<recovered, row, old, file, part, submitting, aborted, entry, thread,
                 purge>>

\* The process ends, in order (the interpreter waits for the executor) or not.
Die ==
  /\ process # "down"
  /\ process' = "down"
  /\ submitting' = NoExport
  /\ entry' = [i \in Exports |-> "none"]
  /\ queue' = <<>>
  /\ worker' = [w \in Workers |-> NoExport]
  /\ thread' = [i \in Exports |-> "none"]
  /\ purge' = NoPurge
  /\ UNCHANGED <<recovered, row, old, file, part, aborted>>

(***************************************************************************)
(* A request: the row is committed, then the export is submitted; the      *)
(* event loop runs no coroutine in between.                                *)
(***************************************************************************)
LoopFree == process = "up" /\ submitting = NoExport

\* Mutant: a status the row does not have.
CreateExportQueued(i) ==
  /\ LoopFree
  /\ row[i] = NoRow
  /\ row' = [row EXCEPT ![i].status = "queued"]
  /\ submitting' = i
  /\ UNCHANGED <<process, recovered, old, file, part, aborted, entry, queue, worker,
                 thread, purge>>

CreateExport(i) ==
  /\ LoopFree
  /\ row[i] = NoRow
  /\ row' = [row EXCEPT ![i].status = "pending"]
  /\ submitting' = i
  /\ UNCHANGED <<process, recovered, old, file, part, aborted, entry, queue, worker,
                 thread, purge>>

Submit ==
  /\ submitting # NoExport
  /\ entry' = [entry EXCEPT ![submitting] = "pending"]
  /\ queue' = Append(queue, submitting)
  /\ submitting' = NoExport
  /\ UNCHANGED <<process, recovered, row, old, file, part, aborted, worker, thread,
                 purge>>

\* The row is read back before it is submitted: the read may raise, and the
\* row is then left as it is, pending, with nobody to make it.
SubmitFails ==
  /\ submitting # NoExport
  /\ aborted' = aborted \cup {submitting}
  /\ submitting' = NoExport
  /\ UNCHANGED <<process, recovered, row, old, file, part, entry, queue, worker,
                 thread, purge>>

(***************************************************************************)
(* _worker                                                                 *)
(***************************************************************************)
Take(w) ==
  /\ LoopFree
  /\ worker[w] = NoExport
  /\ queue # <<>>
  /\ worker' = [worker EXCEPT ![w] = Head(queue)]
  /\ queue' = Tail(queue)
  /\ entry' = [entry EXCEPT ![Head(queue)] = "running"]
  /\ GoTo(Head(queue), "begin")
  /\ UNCHANGED <<process, recovered, row, old, file, part, submitting, aborted, purge>>

\* Mutant: an export that could not write its failure ends its worker.
FinishDoneOnly(w) ==
  /\ LoopFree
  /\ worker[w] # NoExport
  /\ thread[worker[w]] = "done"
  /\ entry' = [entry EXCEPT ![worker[w]] = "completed"]
  /\ worker' = [worker EXCEPT ![w] = NoExport]
  /\ UNCHANGED <<process, recovered, row, old, file, part, submitting, aborted, queue,
                 thread, purge>>

\* _run_export_task lets no exception out.
Finish(w) ==
  /\ LoopFree
  /\ worker[w] # NoExport
  /\ thread[worker[w]] \in Ended
  /\ entry' = [entry EXCEPT ![worker[w]] = "completed"]
  /\ worker' = [worker EXCEPT ![w] = NoExport]
  /\ UNCHANGED <<process, recovered, row, old, file, part, submitting, aborted, queue,
                 thread, purge>>

(***************************************************************************)
(* _run_export_task: each step may raise, and then the failure is written. *)
(***************************************************************************)
Raises(i, step) == thread[i] = step /\ GoTo(i, "failing")
Unwritten == UNCHANGED <<process, recovered, old, memory, purge>>

Begin(i) ==
  /\ thread[i] = "begin"
  /\ SetStatus(i, "processing")
  /\ GoTo(i, "build")
  /\ UNCHANGED <<file, part>>
  /\ Unwritten

Build(i) ==
  /\ thread[i] = "build"
  /\ GoTo(i, "write")
  /\ UNCHANGED <<row, file, part>>
  /\ Unwritten

WritePart(i) ==
  /\ thread[i] = "write"
  /\ part' = part \cup {i}
  /\ GoTo(i, "replace")
  /\ UNCHANGED <<row, file>>
  /\ Unwritten

Replace(i) ==
  /\ thread[i] = "replace"
  /\ file' = file \cup {i}
  /\ part' = part \ {i}
  /\ GoTo(i, "commit")
  /\ UNCHANGED row
  /\ Unwritten

Commit(i) ==
  /\ thread[i] = "commit"
  /\ row' = [row EXCEPT ![i].status = "completed", ![i].path = "set"]
  /\ GoTo(i, "done")
  /\ UNCHANGED <<file, part>>
  /\ Unwritten

Fail(i) ==
  /\ \E step \in Working \ {"failing"} : Raises(i, step)
  /\ part' \in IF thread[i] = "write" THEN {part, part \cup {i}} ELSE {part}
  /\ UNCHANGED <<row, file>>
  /\ Unwritten

\* The session was rolled back: only the failure is written, if it can be.
WriteFailure(i, ok) ==
  /\ thread[i] = "failing"
  /\ IF ok THEN SetStatus(i, "failed") /\ GoTo(i, "done")
     ELSE GoTo(i, "lost") /\ UNCHANGED row
  /\ UNCHANGED <<file, part>>
  /\ Unwritten

(***************************************************************************)
(* export_purge_job: purge_expired_exports, then the queue's cleanup.      *)
(***************************************************************************)
\* Time: 24 hours after the request.
Expire(i) ==
  /\ row[i] # NoRow
  /\ i \notin old
  /\ old' = old \cup {i}
  /\ UNCHANGED <<process, recovered, row, file, part, memory, thread, purge>>

\* Mutant: the files of all completed exports are removed.
PurgeableAnyAge == {i \in Exports : row[i] # NoRow /\ ~IsUnfinished(i)}

Purgeable == {i \in old : ~IsUnfinished(i)}

\* Files that cannot be deleted keep their rows for the next day.
PurgeFiles ==
  /\ process # "down"
  /\ purge.step = "none"
  /\ \E marked \in SUBSET Purgeable :
       /\ \A i \in Purgeable \ marked : row[i].path = "set"
       /\ file' = file \ {i \in marked : row[i].path = "set"}
       /\ purge' = [step |-> "marking", rows |-> marked]
  /\ UNCHANGED <<process, recovered, row, old, part, memory, thread>>

Marked(i) ==
  IF i \in purge.rows THEN [status |-> "expired", path |-> "null"]
  ELSE row[i]

\* The commit, then the .part files and the entries that are old enough; no
\* export in progress is as old as that.
PurgeRows(ok) ==
  /\ process # "down"
  /\ purge.step = "marking"
  /\ purge' = NoPurge
  /\ row' = IF ok THEN [i \in Exports |-> Marked(i)] ELSE row
  /\ \E stale \in SUBSET {i \in part \cap old : thread[i] \notin Working} :
       part' = IF ok THEN part \ stale ELSE part
  /\ \E gone \in SUBSET {i \in Exports : entry[i] = "completed"} :
       entry' = [i \in Exports |-> IF i \in gone THEN "none" ELSE entry[i]]
  /\ UNCHANGED <<process, recovered, old, file, submitting, aborted, queue, worker,
                 thread>>

(***************************************************************************)
(* Next-state relation.                                                    *)
(***************************************************************************)
Run(i) ==
  \/ Begin(i) \/ Build(i) \/ WritePart(i) \/ Replace(i) \/ Commit(i) \/ Fail(i)
  \/ \E ok \in BOOLEAN : WriteFailure(i, ok)

Work(w) == Take(w) \/ Finish(w)

ExportNext ==
  \/ \E ok \in BOOLEAN : Start(ok) \/ PurgeRows(ok)
  \/ Stop \/ Die \/ Submit \/ SubmitFails \/ PurgeFiles
  \/ \E i \in Exports : CreateExport(i) \/ Expire(i) \/ Run(i)
  \/ \E w \in Workers : Work(w)

ExportSpec == ExportInit /\ [][ExportNext]_xvars

\* The event loop resumes what is ready and the executor runs its threads;
\* whether the read before a submit raises is left open.
ExportFairness ==
  /\ WF_xvars(Submit \/ SubmitFails)
  /\ \A w \in Workers : WF_xvars(Work(w))
  /\ \A i \in Exports : WF_xvars(Run(i))

FairExportSpec == ExportSpec /\ ExportFairness

(* Every row, entry and thread has its type. *)
ExportTypeOK ==
  /\ process \in {"up", "stopping", "down"}
  /\ recovered \in BOOLEAN
  /\ row \in [Exports -> ExportRow \cup {NoRow}]
  /\ old \in SUBSET Exports
  /\ file \in SUBSET Exports
  /\ part \in SUBSET Exports
  /\ submitting \in Exports \cup {NoExport}
  /\ aborted \in SUBSET Exports
  /\ entry \in [Exports -> {"none", "pending", "running", "completed"}]
  /\ queue \in Seq(Exports)
  /\ worker \in [Workers -> Exports \cup {NoExport}]
  /\ thread \in [Exports -> Working \cup Ended \cup {"none"}]
  /\ purge \in [step : {"none", "marking"}, rows : SUBSET Exports]

(***************************************************************************)
(* Properties.                                                             *)
(***************************************************************************)
InQueue(i) == \E n \in 1..Len(queue) : queue[n] = i

(* A row whose export a client may download (is_downloadable) has its file, *)
(* whole, whatever was interrupted: the file is in place before the row     *)
(* says so, and the purge removes it only when the row is past its expiry.  *)
DownloadableHasFile ==
  \A i \in Exports : row[i].status = "completed" /\ i \notin old => i \in file

(* In a process that could settle the rows it found, a row that is not      *)
(* finished is one that the request, the queue or a thread still holds:     *)
(* there is no row that nobody will finish, but one whose failure could not *)
(* be written and one whose request broke off, in this process, between its *)
(* commit and its submit (recover_stale_export_tasks,                       *)
(* export_supported_villages_async).                                        *)
NoZombieRow ==
  \A i \in Exports :
    process = "up" /\ recovered /\ IsUnfinished(i) =>
      \/ submitting = i
      \/ InQueue(i)
      \/ thread[i] \in Working \cup {"lost"}
      \/ i \in aborted

(* While the process runs, every export that is requested ends, completed   *)
(* or failed, unless writing the failure itself fails or its request broke  *)
(* off before the submit (_worker, _run_export_task).                       *)
EveryExportEnds ==
  \A i \in Exports :
    recovered /\ IsUnfinished(i)
      ~> ~IsUnfinished(i) \/ process # "up" \/ thread[i] = "lost" \/ i \in aborted
=============================================================================
