------------------------- MODULE ExportTasks_proofs -------------------------
(***************************************************************************)
(* Theorems about ExportTasks, for any number of exports and workers: the  *)
(* types, that a downloadable row has its file, and that no unfinished row *)
(* is forgotten.                                                           *)
(***************************************************************************)
EXTENDS ExportTasks, TLAPS

(***************************************************************************)
(* The inductive invariant: an export is at one place only, and its row    *)
(* agrees with the place.                                                  *)
(***************************************************************************)
\* A waiting export waits once, its row is pending and nothing makes it.
Waiting ==
  /\ \A m, n \in 1..Len(queue) : queue[m] = queue[n] => m = n
  /\ \A n \in 1..Len(queue) :
       /\ row[queue[n]].status = "pending"
       /\ thread[queue[n]] = "none"
       /\ queue[n] # submitting

\* So does the export that is being submitted.
Submitting ==
  submitting \in Exports =>
    row[submitting].status = "pending" /\ thread[submitting] = "none"

\* The row of an export in progress is not finished, and not purged.
InProgress ==
  \A i \in Exports :
    /\ row[i].status = "absent" => thread[i] = "none"
    /\ thread[i] = "begin" => row[i].status = "pending"
    /\ thread[i] \in {"build", "write", "replace", "commit"} =>
         row[i].status = "processing"
    /\ thread[i] = "failing" => IsUnfinished(i)

\* The file is in place before the row says so.
Placed == \A i \in Exports : thread[i] = "commit" => i \in file

\* The purge deals with rows that are past their expiry and finished.
Purging ==
  /\ \A i \in purge.rows : i \in old /\ ~IsUnfinished(i)
  /\ \A i \in old : row[i].status # "absent"

\* Nothing in memory survives the process.
Down ==
  process = "down" =>
    /\ submitting = NoExport
    /\ queue = <<>>
    /\ \A i \in Exports : thread[i] = "none"
    /\ purge.rows = {}

EInv ==
  /\ ExportTypeOK
  /\ Waiting
  /\ Submitting
  /\ InProgress
  /\ Placed
  /\ Purging
  /\ Down
  /\ DownloadableHasFile
  /\ NoZombieRow

(***************************************************************************)
(* Lemmas about rows and sequences.                                        *)
(***************************************************************************)
\* A row, or no row yet, with a status set is a row.
LEMMA RowStatus ==
  ASSUME NEW r \in ExportRow \cup {NoRow}, NEW s \in ExportStatus
  PROVE  /\ [r EXCEPT !.status = s] \in ExportRow
         /\ [r EXCEPT !.status = s].status = s
  BY DEF ExportRow, NoRow, ExportStatus

\* What Append adds to the elements of a sequence.
LEMMA AppendElements ==
  ASSUME NEW S, NEW q \in Seq(S), NEW x \in S
  PROVE  /\ Append(q, x) \in Seq(S)
         /\ Len(Append(q, x)) = Len(q) + 1
         /\ \A n \in 1..Len(q) : Append(q, x)[n] = q[n]
         /\ Append(q, x)[Len(q) + 1] = x
  OBVIOUS

\* What Tail leaves of them.
LEMMA TailElements ==
  ASSUME NEW S, NEW q \in Seq(S), q # <<>>
  PROVE  /\ Tail(q) \in Seq(S)
         /\ Head(q) \in S
         /\ Head(q) = q[1]
         /\ Len(q) \in Nat \ {0}
         /\ Len(Tail(q)) = Len(q) - 1
         /\ \A n \in 1..Len(Tail(q)) : Tail(q)[n] = q[n + 1]
  OBVIOUS

(***************************************************************************)
(* Type correctness.                                                       *)
(***************************************************************************)
LEMMA TypeInit == ExportInit => ExportTypeOK
<1> SUFFICES ASSUME ExportInit
             PROVE  ExportTypeOK
  OBVIOUS
<1>1. queue \in Seq(Exports)
  BY DEF ExportInit
<1>2. purge \in [step : {"none", "marking"}, rows : SUBSET Exports]
  BY DEF ExportInit, NoPurge
<1>4. recovered \in BOOLEAN
  BY DEF ExportInit
<1>5. row \in [Exports -> ExportRow \cup {NoRow}]
  BY DEF ExportInit
<1>6. /\ entry \in [Exports -> {"none", "pending", "running", "completed"}]
      /\ worker \in [Workers -> Exports \cup {NoExport}]
      /\ thread \in [Exports -> Working \cup Ended \cup {"none"}]
  BY DEF ExportInit
<1>3. QED
  BY <1>1, <1>2,<1>4,<1>5,<1>6 DEF ExportInit, ExportTypeOK

LEMMA TypeStep == ExportTypeOK /\ [ExportNext]_xvars => ExportTypeOK'
<1> SUFFICES ASSUME ExportTypeOK, [ExportNext]_xvars
             PROVE  ExportTypeOK'
  OBVIOUS
<1> USE DEF ExportTypeOK
<1>1. ASSUME NEW ok \in BOOLEAN, Start(ok)
      PROVE  ExportTypeOK'
  <2>1. \A i \in Exports : Recover(i) \in ExportRow \cup {NoRow}
    BY RowStatus DEF Recover, ExportStatus
  <2>2. row' \in [Exports -> ExportRow \cup {NoRow}]
    BY <1>1, <2>1 DEF Start
  <2>3. aborted' \in SUBSET Exports
    BY <1>1 DEF Start
  <2>4. QED
    BY <1>1, <2>2, <2>3 DEF Start
<1>2. ASSUME NEW ok \in BOOLEAN, PurgeRows(ok)
      PROVE  ExportTypeOK'
  <2>1. \A i \in Exports : Marked(i) \in ExportRow \cup {NoRow}
    BY DEF Marked, ExportRow, ExportStatus
  <2>2. row' \in [Exports -> ExportRow \cup {NoRow}]
    BY <1>2, <2>1 DEF PurgeRows
  <2>3. part' \in SUBSET Exports
    BY <1>2 DEF PurgeRows
  <2>4. entry' \in [Exports -> {"none", "pending", "running", "completed"}]
    BY <1>2 DEF PurgeRows
  <2>5. QED
    BY <1>2, <2>2, <2>3, <2>4 DEF PurgeRows, NoPurge
<1>3. CASE Stop
  BY <1>3 DEF Stop
<1>4. CASE Die
  <2>1. queue' \in Seq(Exports)
    BY <1>4 DEF Die
  <2>2. purge' \in [step : {"none", "marking"}, rows : SUBSET Exports]
    BY <1>4 DEF Die, NoPurge
  <2>3. QED
    BY <1>4, <2>1, <2>2 DEF Die
<1>5. CASE Submit
  BY <1>5, AppendElements DEF Submit
<1>6. CASE PurgeFiles
  BY <1>6 DEF PurgeFiles, Purgeable, memory
<1>7. ASSUME NEW i \in Exports, CreateExport(i)
      PROVE  ExportTypeOK'
  <2>1. row' \in [Exports -> ExportRow \cup {NoRow}]
    BY <1>7, RowStatus DEF CreateExport, ExportStatus
  <2>2. QED
    BY <1>7, <2>1 DEF CreateExport
<1>8. ASSUME NEW i \in Exports, Expire(i)
      PROVE  ExportTypeOK'
  BY <1>8 DEF Expire, memory
<1>9. ASSUME NEW i \in Exports, Run(i)
      PROVE  ExportTypeOK'
  <2>1. \A s \in ExportStatus :
          [row EXCEPT ![i].status = s] \in [Exports -> ExportRow \cup {NoRow}]
    BY RowStatus
  <2>2. CASE Begin(i)
    BY <2>1, <2>2 DEF Begin, SetStatus, GoTo, Unwritten, memory, Working, ExportStatus
  <2>3. CASE Build(i)
    BY <2>3 DEF Build, GoTo, Unwritten, memory, Working
  <2>4. CASE WritePart(i)
    BY <2>4 DEF WritePart, GoTo, Unwritten, memory, Working
  <2>5. CASE Replace(i)
    BY <2>5 DEF Replace, GoTo, Unwritten, memory, Working
  <2>6. CASE Commit(i)
    <3>1. [[row[i] EXCEPT !.status = "completed"] EXCEPT !.path = "set"] \in ExportRow
      <4>1. [row[i] EXCEPT !.status = "completed"] \in ExportRow
        BY RowStatus DEF ExportStatus
      <4>2. QED
        BY <4>1 DEF ExportRow
    <3>2. row' = [row EXCEPT ![i] = [[row[i] EXCEPT !.status = "completed"] EXCEPT !.path = "set"]]
      BY <2>6 DEF Commit
    <3>3. row' \in [Exports -> ExportRow \cup {NoRow}]
      BY <3>1, <3>2
    <3>4. QED
      BY <2>6, <3>3 DEF Commit, GoTo, Unwritten, memory, Ended
  <2>7. CASE Fail(i)
    BY <2>7 DEF Fail, Raises, GoTo, Unwritten, memory, Working
  <2>8. ASSUME NEW ok \in BOOLEAN, WriteFailure(i, ok)
        PROVE  ExportTypeOK'
    <3>1. thread' \in [Exports -> Working \cup Ended \cup {"none"}]
      BY <2>8 DEF WriteFailure, GoTo, Ended
    <3>2. row' \in [Exports -> ExportRow \cup {NoRow}]
      BY <2>1, <2>8 DEF WriteFailure, SetStatus, ExportStatus
    <3>3. QED
      BY <2>8, <3>1, <3>2 DEF WriteFailure, Unwritten, memory
  <2>9. QED
    BY <1>9, <2>2, <2>3, <2>4, <2>5, <2>6, <2>7, <2>8 DEF Run
<1>10. ASSUME NEW w \in Workers, Take(w)
       PROVE  ExportTypeOK'
  BY <1>10, TailElements DEF Take, GoTo, Working
<1>11. ASSUME NEW w \in Workers, Finish(w)
       PROVE  ExportTypeOK'
  BY <1>11 DEF Finish
<1>12. CASE SubmitFails
  BY <1>12 DEF SubmitFails
<1>13. CASE UNCHANGED xvars
  BY <1>13 DEF xvars
<1>14. QED
  BY <1>1, <1>2, <1>3, <1>4, <1>5, <1>6, <1>7, <1>8, <1>9, <1>10, <1>11, <1>12, <1>13
     DEF ExportNext, Work

(* In every reachable state rows, files, entries and threads have their    *)
(* types (ExportTask, Task, _run_export_task).                              *)
THEOREM ExportTypes == ExportSpec => []ExportTypeOK
  BY TypeInit, TypeStep, PTL DEF ExportSpec

(***************************************************************************)
(* The inductive invariant holds.                                          *)
(***************************************************************************)
LEMMA EInvInit == ExportInit => EInv
<1> SUFFICES ASSUME ExportInit
             PROVE  EInv
  OBVIOUS
<1>1. ExportTypeOK
  BY TypeInit
<1>2. Waiting /\ Submitting /\ Purging
  BY ExportAssumption DEF ExportInit, Waiting, Submitting, Purging, NoPurge
<1>3. InProgress /\ Placed /\ Down
  BY DEF ExportInit, InProgress, Placed, Down, NoPurge, NoRow
<1>4. DownloadableHasFile /\ NoZombieRow
  BY DEF ExportInit, DownloadableHasFile, NoZombieRow, IsUnfinished, Unfinished, NoRow
<1>5. QED
  BY <1>1, <1>2, <1>3, <1>4 DEF EInv

\* What a step of the thread of export i does: only i is concerned, its row
\* stays in agreement with the thread, and the file comes before the commit.
Ran(i) ==
  /\ UNCHANGED <<process, recovered, old, submitting, aborted, queue, purge>>
  /\ \A j \in Exports \ {i} : row'[j] = row[j] /\ thread'[j] = thread[j]
  /\ file \subseteq file'
  /\ thread[i] \in Working /\ IsUnfinished(i)
  /\ thread'[i] \notin {"none", "begin"}
  /\ row'[i].status # "absent"
  /\ thread'[i] \in {"build", "write", "replace", "commit"} =>
       row'[i].status = "processing"
  /\ thread'[i] = "failing" => row'[i].status \in Unfinished
  /\ thread'[i] \notin Working \cup {"lost"} => row'[i].status \notin Unfinished
  /\ thread'[i] = "commit" \/ row'[i].status = "completed" => i \in file'

LEMMA RunEffect ==
  ASSUME ExportTypeOK, InProgress, Placed, NEW i \in Exports, Run(i)
  PROVE  Ran(i)
<1> USE DEF ExportTypeOK, InProgress, Placed, IsUnfinished, Unfinished, Working,
            Ended, Unwritten, memory, Ran, GoTo, SetStatus
<1>0. \A s \in ExportStatus : [row[i] EXCEPT !.status = s].status = s
  BY RowStatus
<1>1. CASE Begin(i)
  BY <1>0, <1>1 DEF Begin, ExportStatus
<1>2. CASE Build(i)
  BY <1>2 DEF Build
<1>3. CASE WritePart(i)
  BY <1>3 DEF WritePart
<1>4. CASE Replace(i)
  BY <1>4 DEF Replace
<1>5. CASE Commit(i)
  <2>1. row'[i].status = "completed"
    <3>1. row'[i] = [[row[i] EXCEPT !.status = "completed"] EXCEPT !.path = "set"]
      BY <1>5 DEF Commit
    <3>2. [row[i] EXCEPT !.status = "completed"] \in ExportRow
      BY RowStatus DEF ExportStatus
    <3>3. QED
      BY <1>0, <3>1, <3>2 DEF ExportRow, ExportStatus
  <2>2. QED
    BY <1>5, <2>1 DEF Commit
<1>6. CASE Fail(i)
  BY <1>6 DEF Fail, Raises
<1>7. ASSUME NEW ok \in BOOLEAN, WriteFailure(i, ok)
      PROVE  Ran(i)
  <2>1. CASE ok
    <3>1. row'[i] = [row[i] EXCEPT !.status = "failed"]
      BY <1>7, <2>1 DEF WriteFailure
    <3>2. row'[i].status = "failed"
      BY <1>0, <3>1 DEF ExportStatus
    <3>3. QED
      BY <1>7, <2>1, <3>2 DEF WriteFailure
  <2>2. CASE ~ok
    BY <1>7, <2>2 DEF WriteFailure
  <2>3. QED
    BY <2>1, <2>2
<1>8. QED
  BY <1>1, <1>2, <1>3, <1>4, <1>5, <1>6, <1>7 DEF Run

LEMMA RunKeepsEInv ==
  ASSUME EInv, ExportTypeOK', NEW i \in Exports, Run(i)
  PROVE  EInv'
<1>1. Ran(i)
  BY RunEffect DEF EInv
<1> USE <1>1 DEF EInv, Ran
<1>2. Waiting'
  BY DEF Waiting, ExportTypeOK, Working
<1>3. Submitting'
  BY DEF Submitting, Working
<1>4. InProgress'
  BY DEF InProgress, IsUnfinished
<1>5. Placed'
  BY DEF Placed
<1>6. Purging'
  BY DEF Purging, IsUnfinished, ExportTypeOK
<1>7. Down'
  BY DEF Down, Working
<1>8. DownloadableHasFile'
  BY DEF DownloadableHasFile
<1>9. NoZombieRow'
  BY DEF NoZombieRow, InQueue, IsUnfinished
<1>10. QED
  BY <1>2, <1>3, <1>4, <1>5, <1>6, <1>7, <1>8, <1>9

LEMMA EInvStep == EInv /\ [ExportNext]_xvars => EInv'
<1> SUFFICES ASSUME EInv, [ExportNext]_xvars
             PROVE  EInv'
  OBVIOUS
<1>0. ExportTypeOK /\ ExportTypeOK'
  BY TypeStep DEF EInv
<1> USE <1>0 DEF EInv
<1>1. ASSUME NEW ok \in BOOLEAN, Start(ok)
      PROVE  EInv'
  <2>1. /\ submitting = NoExport /\ queue = <<>> /\ purge.rows = {}
        /\ \A i \in Exports : thread[i] = "none"
    BY <1>1 DEF Down, Start
  <2>2. \A i \in Exports :
          /\ row'[i] = row[i] \/ row'[i].status = "failed"
          /\ row[i].status = "absent" => row'[i] = row[i]
          /\ ok => row'[i].status \notin Unfinished
    BY <1>1, RowStatus DEF Start, Recover, IsUnfinished, Unfinished, ExportTypeOK, ExportStatus
  <2>3. Waiting' /\ Submitting' /\ Down'
    BY <1>1, <2>1, ExportAssumption DEF Start, Waiting, Submitting, Down
  <2>8. Purging'
    BY <1>1, <2>1, <2>2 DEF Start, Purging, ExportTypeOK
  <2>4. InProgress' /\ Placed'
    BY <1>1, <2>1, <2>2 DEF Start, InProgress, Placed
  <2>5. DownloadableHasFile'
    BY <1>1, <2>2 DEF Start, DownloadableHasFile
  <2>6. NoZombieRow'
    BY <1>1, <2>2 DEF Start, NoZombieRow, IsUnfinished
  <2>7. QED
    BY <2>3, <2>4, <2>5, <2>6, <2>8
<1>2. ASSUME NEW ok \in BOOLEAN, PurgeRows(ok)
      PROVE  EInv'
  <2>1. \A i \in Exports :
          \/ row'[i] = row[i]
          \/ /\ i \in purge.rows
             /\ row'[i].status = "expired"
             /\ i \in old /\ ~IsUnfinished(i)
    BY <1>2 DEF PurgeRows, Marked, Purging, ExportTypeOK
  <2>2. UNCHANGED <<process, recovered, old, file, submitting, aborted, queue, thread>>
    BY <1>2 DEF PurgeRows
  <2>3. purge'.rows = {}
    BY <1>2 DEF PurgeRows, NoPurge
  <2>4. Waiting' /\ Submitting'
    BY <2>1, <2>2 DEF Waiting, Submitting, IsUnfinished, Unfinished, ExportTypeOK
  <2>5. InProgress' /\ Placed'
    BY <2>1, <2>2 DEF InProgress, Placed, IsUnfinished, Unfinished, ExportTypeOK
  <2>6. Purging' /\ Down'
    BY <2>1, <2>2, <2>3 DEF Purging, Down, ExportTypeOK
  <2>7. DownloadableHasFile'
    BY <2>1, <2>2 DEF DownloadableHasFile
  <2>8. NoZombieRow'
    BY <2>1, <2>2 DEF NoZombieRow, InQueue, IsUnfinished, Unfinished
  <2>9. QED
    BY <2>4, <2>5, <2>6, <2>7, <2>8
<1>3. CASE Stop
  <2>1. Waiting'
    BY <1>3 DEF Stop, Waiting
  <2>2. QED
    BY <1>3, <2>1 DEF Stop, Submitting, InProgress, Placed, Purging, Down,
                      DownloadableHasFile, NoZombieRow, IsUnfinished
<1>4. CASE Die
  <2>1. Waiting' /\ Submitting'
    BY <1>4, ExportAssumption DEF Die, Waiting, Submitting
  <2>2. InProgress' /\ Placed'
    BY <1>4 DEF Die, InProgress, Placed
  <2>3. Purging' /\ Down'
    BY <1>4 DEF Die, Purging, Down, NoPurge
  <2>4. DownloadableHasFile' /\ NoZombieRow'
    BY <1>4 DEF Die, DownloadableHasFile, NoZombieRow
  <2>5. QED
    BY <2>1, <2>2, <2>3, <2>4
<1>5. CASE Submit
  <2>1. submitting \in Exports
    BY <1>5 DEF Submit, ExportTypeOK
  <2>2. /\ Len(queue) \in Nat
        /\ Len(queue') = Len(queue) + 1
        /\ \A n \in 1..Len(queue) : queue'[n] = queue[n]
        /\ queue'[Len(queue) + 1] = submitting
    BY <1>5, <2>1, AppendElements DEF Submit, ExportTypeOK
  <2>3. /\ UNCHANGED <<process, recovered, row, old, file, aborted, thread, purge>>
        /\ submitting' = NoExport
    BY <1>5 DEF Submit
  <2>4. Waiting'
    <3>1. ASSUME NEW m \in 1..Len(queue'), NEW n \in 1..Len(queue'), queue'[m] = queue'[n]
          PROVE  m = n
      <4>1. \A k \in 1..Len(queue) : queue[k] # submitting
        BY DEF Waiting
      <4>2. CASE m \in 1..Len(queue) /\ n \in 1..Len(queue)
        BY <2>2, <3>1, <4>2 DEF Waiting
      <4>3. CASE m = Len(queue) + 1 \/ n = Len(queue) + 1
        BY <2>2, <3>1, <4>1, <4>3
      <4>4. QED
        BY <2>2, <4>2, <4>3
    <3>2. ASSUME NEW n \in 1..Len(queue')
          PROVE  /\ row[queue'[n]].status = "pending"
                 /\ thread[queue'[n]] = "none"
                 /\ queue'[n] \in Exports
      <4>1. CASE n \in 1..Len(queue)
        <5>1. queue'[n] = queue[n]
          BY <2>2, <4>1
        <5>2. row[queue[n]].status = "pending" /\ thread[queue[n]] = "none"
          BY <4>1 DEF Waiting
        <5>3. queue[n] \in Exports
          BY <4>1 DEF ExportTypeOK
        <5> QED BY <5>1, <5>2, <5>3
      <4>2. CASE n = Len(queue) + 1
        BY <2>1, <2>2, <4>2 DEF Submitting
      <4>3. QED
        BY <2>2, <4>1, <4>2
    <3>3. QED
      BY <2>3, <3>1, <3>2, ExportAssumption DEF Waiting
  <2>5. Submitting'
    BY <2>3, ExportAssumption DEF Submitting
  <2>6. InProgress' /\ Placed' /\ Purging' /\ DownloadableHasFile'
    BY <2>3 DEF InProgress, Placed, Purging, DownloadableHasFile, IsUnfinished
  <2>7. Down'
    BY <2>1, <2>3, ExportAssumption DEF Down
  <2>8. NoZombieRow'
    BY <2>1, <2>2, <2>3 DEF NoZombieRow, InQueue, IsUnfinished
  <2>9. QED
    BY <2>4, <2>5, <2>6, <2>7, <2>8
<1>6. CASE PurgeFiles
  <2>1. /\ UNCHANGED <<process, recovered, row, old, submitting, aborted, queue, thread>>
        /\ process # "down"
        /\ purge'.rows \subseteq Purgeable
        /\ \A i \in file \ file' : i \in Purgeable
    BY <1>6 DEF PurgeFiles, memory
  <2>2. Waiting' /\ Submitting' /\ InProgress' /\ Down' /\ NoZombieRow'
    BY <2>1 DEF Waiting, Submitting, InProgress, Down, NoZombieRow, InQueue, IsUnfinished
  <2>3. Placed'
    BY <2>1 DEF Placed, InProgress, Purgeable, IsUnfinished, Unfinished
  <2>4. Purging' /\ DownloadableHasFile'
    BY <2>1 DEF Purging, DownloadableHasFile, Purgeable, IsUnfinished
  <2>5. QED
    BY <2>2, <2>3, <2>4
<1>7. ASSUME NEW i \in Exports, CreateExport(i)
      PROVE  EInv'
  <2>1. /\ row[i].status = "absent"
        /\ submitting = NoExport
        /\ process = "up"
    BY <1>7 DEF CreateExport, LoopFree, NoRow
  <2>2. /\ row'[i].status = "pending"
        /\ \A j \in Exports \ {i} : row'[j] = row[j]
        /\ submitting' = i
        /\ UNCHANGED <<process, recovered, old, file, aborted, queue, thread, purge>>
    BY <1>7, RowStatus DEF CreateExport, ExportTypeOK, ExportStatus
  <2>3. Waiting' /\ Submitting' /\ InProgress'
    BY <2>1, <2>2, ExportAssumption
       DEF Waiting, Submitting, InProgress, IsUnfinished, Unfinished, ExportTypeOK
  <2>4. i \notin purge.rows
    BY <2>1 DEF Purging
  <2>5. Purging'
    BY <2>2, <2>4 DEF Purging, IsUnfinished, ExportTypeOK
  <2>6. Placed' /\ Down' /\ DownloadableHasFile'
    BY <2>1, <2>2 DEF Placed, Down, DownloadableHasFile
  <2>7. NoZombieRow'
    BY <2>1, <2>2, ExportAssumption DEF NoZombieRow, InQueue, IsUnfinished
  <2>8. QED
    BY <2>3, <2>5, <2>6, <2>7
<1>8. ASSUME NEW i \in Exports, Expire(i)
      PROVE  EInv'
  <2>1. /\ UNCHANGED <<process, recovered, row, file, submitting, aborted, queue, thread,
                       purge>>
        /\ old' = old \cup {i}
        /\ row[i].status # "absent"
    BY <1>8 DEF Expire, memory, ExportTypeOK, ExportRow, ExportStatus
  <2>2. Purging'
    BY <2>1 DEF Purging, IsUnfinished
  <2>3. QED
    BY <2>1, <2>2 DEF Waiting, Submitting, InProgress, Placed, Down,
       DownloadableHasFile, NoZombieRow, InQueue, IsUnfinished
<1>9. ASSUME NEW i \in Exports, Run(i)
      PROVE  EInv'
  BY <1>9, RunKeepsEInv
<1>10. ASSUME NEW w \in Workers, Take(w)
       PROVE  EInv'
  <2> DEFINE i == Head(queue)
  <2>1. /\ i \in Exports
        /\ i = queue[1]
        /\ Len(queue) \in Nat \ {0}
        /\ Len(queue') = Len(queue) - 1
        /\ \A n \in 1..Len(queue') : queue'[n] = queue[n + 1]
    BY <1>10, TailElements DEF Take, ExportTypeOK
  <2>2. /\ UNCHANGED <<process, recovered, row, old, file, submitting, aborted, purge>>
        /\ submitting = NoExport
        /\ process = "up"
        /\ thread'[i] = "begin"
        /\ \A j \in Exports \ {i} : thread'[j] = thread[j]
    BY <1>10, <2>1 DEF Take, GoTo, LoopFree, ExportTypeOK
  <2>3. /\ row[i].status = "pending"
        /\ \A n \in 1..Len(queue') : queue'[n] # i /\ queue'[n] \in Exports
    BY <2>1 DEF Waiting, ExportTypeOK
  <2> HIDE DEF i
  <2>4. Waiting'
    <3>1. ASSUME NEW m \in 1..Len(queue'), NEW n \in 1..Len(queue'), queue'[m] = queue'[n]
          PROVE  m = n
      <4>1. /\ m + 1 \in 1..Len(queue) /\ n + 1 \in 1..Len(queue)
            /\ queue[m + 1] = queue[n + 1]
        BY <2>1, <3>1
      <4>2. m + 1 = n + 1
        BY <4>1 DEF Waiting
      <4> QED BY <4>2, <2>1
    <3>2. ASSUME NEW n \in 1..Len(queue')
          PROVE  /\ row[queue'[n]].status = "pending" /\ thread'[queue'[n]] = "none"
                 /\ queue'[n] # submitting
      <4>1. n + 1 \in 1..Len(queue) /\ queue'[n] = queue[n + 1]
        BY <2>1, <3>2
      <4>2. /\ row[queue'[n]].status = "pending" /\ thread[queue'[n]] = "none"
            /\ queue'[n] # submitting
        BY <4>1 DEF Waiting
      <4>3. queue'[n] \in Exports \ {i}
        BY <2>3, <3>2
      <4> QED BY <4>2, <4>3, <2>2
    <3> QED BY <3>1, <3>2, <2>2 DEF Waiting
  <2>5. Submitting' /\ InProgress'
    BY <2>1, <2>2, <2>3, ExportAssumption DEF Submitting, InProgress, IsUnfinished
  <2>6. Placed' /\ Purging' /\ Down' /\ DownloadableHasFile'
    BY <2>1, <2>2 DEF Placed, Purging, Down, DownloadableHasFile, IsUnfinished
  <2>7. NoZombieRow'
    <3> SUFFICES ASSUME NEW j \in Exports, process' = "up", recovered', IsUnfinished(j)', j # i
                 PROVE  InQueue(j)' \/ (thread[j] \in Working \cup {"lost"})' \/ j \in aborted'
      BY <2>2 DEF NoZombieRow, Working
    <3>1. InQueue(j) \/ thread[j] \in Working \cup {"lost"} \/ j \in aborted
      BY <2>2, ExportAssumption DEF NoZombieRow, IsUnfinished
    <3>2. ASSUME InQueue(j)
          PROVE  InQueue(j)'
      <4>1. PICK n \in 1..Len(queue) : queue[n] = j
        BY <3>2 DEF InQueue
      <4>2. n - 1 \in 1..Len(queue') /\ queue'[n - 1] = j
        BY <2>1, <4>1
      <4>3. QED
        BY <4>2 DEF InQueue
    <3>3. QED
      BY <2>2, <3>1, <3>2
  <2>8. QED
    BY <2>4, <2>5, <2>6, <2>7
<1>11. ASSUME NEW w \in Workers, Finish(w)
       PROVE  EInv'
  BY <1>11 DEF Finish, Waiting, Submitting, InProgress, Placed, Purging, Down,
               DownloadableHasFile, NoZombieRow, InQueue, IsUnfinished
<1>12. CASE SubmitFails
  <2>1. Waiting' /\ Submitting' /\ Down'
    BY <1>12, ExportAssumption DEF SubmitFails, Waiting, Submitting, Down, ExportTypeOK
  <2>2. InProgress' /\ Placed' /\ Purging' /\ DownloadableHasFile'
    BY <1>12 DEF SubmitFails, InProgress, Placed, Purging, DownloadableHasFile, IsUnfinished
  <2>3. NoZombieRow'
    BY <1>12 DEF SubmitFails, NoZombieRow, InQueue, IsUnfinished
  <2>4. QED
    BY <2>1, <2>2, <2>3
<1>13. CASE UNCHANGED xvars
  BY <1>13 DEF xvars, Waiting, Submitting, InProgress, Placed, Purging, Down,
               DownloadableHasFile, NoZombieRow, InQueue, IsUnfinished
<1>14. QED
  BY <1>1, <1>2, <1>3, <1>4, <1>5, <1>6, <1>7, <1>8, <1>9, <1>10, <1>11, <1>12, <1>13
     DEF ExportNext, Work

LEMMA EInvAlways == ExportSpec => []EInv
  BY EInvInit, EInvStep, PTL DEF ExportSpec

(* However exports, purges, failures and restarts interleave, a row that    *)
(* may be downloaded has its file (is_downloadable).                        *)
THEOREM DownloadsHaveFiles == ExportSpec => []DownloadableHasFile
<1>1. EInv => DownloadableHasFile
  BY DEF EInv
<1>2. QED
  BY <1>1, EInvAlways, PTL

(* In a process that could settle the rows it found, every unfinished row   *)
(* is held by its request, the queue or a thread, but for those whose       *)
(* failure could not be written and those whose request broke off between   *)
(* its commit and its submit (recover_stale_export_tasks,                   *)
(* export_supported_villages_async).                                        *)
THEOREM NoRowForgotten == ExportSpec => []NoZombieRow
<1>1. EInv => NoZombieRow
  BY DEF EInv
<1>2. QED
  BY <1>1, EInvAlways, PTL
=============================================================================
