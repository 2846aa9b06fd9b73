------------------------- MODULE MaintenanceRestore -------------------------
(***************************************************************************)
(* Restoring a backup under running requests: the maintenance window of    *)
(* backend/app/core/maintenance.py with the gate and the counter of the    *)
(* middlewares, the restore of backend/app/services/backup_service.py and  *)
(* the connection pool of backend/app/core/database.py.                    *)
(*                                                                         *)
(* A restore runs in a thread of its own and replaces the database file    *)
(* while requests, scheduled jobs and pooled connections use it.  A        *)
(* connection reaches the file, and the log beside it, that were there     *)
(* when it was opened: it is fresh as long as they are the ones in place.  *)
(***************************************************************************)
EXTENDS Naturals, FiniteSets

CONSTANTS
  Restores,   \* restore requests
  Writers,    \* writing requests, each one transaction
  Jobs        \* writes that no middleware sees: scheduled jobs, audit records

ASSUME RestoreAssumption ==
  /\ Restores \cap Writers = {}
  /\ (Restores \cup Writers) \cap Jobs = {}
  /\ IsFiniteSet(Restores)
  /\ IsFiniteSet(Writers)

VARIABLES
  up,         \* whether the process runs
  active,     \* the maintenance flag
  pc,         \* the next step of every restore, writer and job
  fresh,      \* writers and jobs whose connection reaches the file in place
  pooled,     \* those whose connection goes back to the pool in use
  pool,       \* the idle connections: which kinds there are
  db,         \* the database file: the rows, its schema, whether it is whole
  uploads,    \* the directory of attachments
  snapshot,   \* what each restore has put aside, if anything
  promised,   \* history: acknowledged writes that no restore took back
  unguarded,  \* history: writes the window never promised to keep
  spoiled     \* history: whether something went wrong that the code does not handle

history == <<promised, unguarded, spoiled>>
store == <<fresh, pooled, pool, db>>
rvars == <<up, active, pc, store, uploads, snapshot, history>>

Transactions == Writers \cup Jobs
Threads == Restores \cup Transactions

\* Backups of before there were versions have none; a schema that is only
\* stamped has the version of the code and what tables it had.
Schemas == {"head", "old", "unversioned", "stamped"}
Current == {"head", "stamped"}
Database == [rows : SUBSET Transactions, schema : Schemas, content : {"whole", "torn"}]
Snapshot == [rows : SUBSET Transactions, schema : Schemas]
Nothing == [rows |-> {}, schema |-> "none"]
Whole == db.content = "whole"
Taken(r) == snapshot[r] # Nothing

RestoreSteps == {"drain", "open", "snapshot", "unpack", "overwrite", "copy",
                 "verify", "migrate", "attach", "rollback", "leave"}
WriterSteps == {"admitted", "counted", "connected"}

Running(r) == pc[r] \in RestoreSteps
NobodyRestores == \A r \in Restores : ~Running(r)
GoTo(t, step) == pc' = [pc EXCEPT ![t] = step]

\* From the unlinking of the log to the end of the migration the file is not
\* the database of anybody.
Replacing == {"copy", "verify", "migrate", "attach", "rollback"}

RestoreInit ==
  /\ up = TRUE
  /\ active = FALSE
  /\ pc = [t \in Threads |-> "idle"]
  /\ fresh = {}
  /\ pooled = {}
  /\ pool = {}
  /\ db = [rows |-> {}, schema |-> "head", content |-> "whole"]
  /\ uploads = "whole"
  /\ snapshot = [r \in Restores |-> Nothing]
  /\ promised = {}
  /\ unguarded = {}
  /\ spoiled = FALSE

(***************************************************************************)
(* Requests: the gate, then the policy middleware, then the counter.       *)
(***************************************************************************)
\* Mutant: every request passes.
GateOpen == TRUE

\* should_reject
MayPass == ~active

Admit(w) ==
  /\ pc[w] = "idle"
  /\ GoTo(w, IF MayPass THEN "admitted" ELSE "ended")
  /\ UNCHANGED <<up, active, store, uploads, snapshot, history>>

\* MetricsMiddleware: inc_active.
Count(w) ==
  /\ pc[w] = "admitted"
  /\ GoTo(w, "counted")
  /\ UNCHANGED <<up, active, store, uploads, snapshot, history>>

\* A pooled connection may reach a file that is no longer there: the pre-ping
\* does not see it.
Checkout(t) ==
  /\ pc[t] = IF t \in Writers THEN "counted" ELSE "idle"
  /\ \E kind \in pool \cup {"fresh"} :
       /\ fresh' = IF kind = "fresh" THEN fresh \cup {t} ELSE fresh
       /\ pool' \in {pool, pool \ {kind}}
       /\ unguarded' = IF kind = "fresh" THEN unguarded ELSE unguarded \cup {t}
  /\ pooled' = pooled \cup {t}
  /\ GoTo(t, "connected")
  /\ UNCHANGED <<up, active, db, uploads, snapshot, promised, spoiled>>

\* The connection goes back to its pool, if that is still in use.
Return(t) ==
  /\ pool' = IF t \in pooled THEN pool \cup {IF t \in fresh THEN "fresh" ELSE "stale"}
             ELSE pool
  /\ fresh' = fresh \ {t}
  /\ pooled' = pooled \ {t}
  /\ GoTo(t, "ended")

\* A commit into a file that is being copied over may be taken for a success;
\* what it leaves in the log then falls on the new file.
CommitWrite(t) ==
  LET lands == t \in fresh IN
  /\ pc[t] = "connected"
  /\ db' = IF lands /\ Whole THEN [db EXCEPT !.rows = @ \cup {t}] ELSE db
  /\ spoiled' = (spoiled \/ (lands /\ ~Whole))
  /\ unguarded' = IF t \in Jobs /\ (~lands \/ ~NobodyRestores)
                  THEN unguarded \cup {t} ELSE unguarded
  /\ promised' = promised \cup {t}
  /\ Return(t)
  /\ UNCHANGED <<up, active, uploads, snapshot>>

FailWrite(t) ==
  /\ pc[t] = "connected"
  /\ Return(t)
  /\ UNCHANGED <<up, active, db, uploads, snapshot, history>>

\* A read passes the gate and leaves a connection in the pool.
Read ==
  /\ up
  /\ pool' = pool \cup {"fresh"}
  /\ UNCHANGED <<up, active, pc, fresh, pooled, db, uploads, snapshot, history>>

(***************************************************************************)
(* maintenance_window                                                      *)
(***************************************************************************)
InFlight ==
  Cardinality({w \in Writers : pc[w] \in {"counted", "connected"}})
    + Cardinality({r \in Restores : Running(r)})

\* enter: the flag is not counted.
Enter(r) ==
  /\ up
  /\ pc[r] = "idle"
  /\ active' = TRUE
  /\ spoiled' = (spoiled \/ ~NobodyRestores)
  /\ GoTo(r, "drain")
  /\ UNCHANGED <<up, store, uploads, snapshot, promised, unguarded>>

\* wait_for_idle: the restore itself is one of the requests in flight.
IsIdle == InFlight <= 1

\* A request between the gate and the counter is not waited for.
Drained(r) ==
  /\ pc[r] = "drain"
  /\ IsIdle
  /\ unguarded' = unguarded \cup {w \in Writers : pc[w] = "admitted"}
  /\ GoTo(r, "open")
  /\ UNCHANGED <<up, active, store, uploads, snapshot, promised, spoiled>>

\* Mutant: the wait has no end.
WaitForever(r) == FALSE

\* The ten seconds have passed: the restore goes on under the requests.
GiveUpWaiting(r) ==
  /\ pc[r] = "drain"
  /\ InFlight > 1
  /\ unguarded' = unguarded \cup {w \in Writers : pc[w] \in WriterSteps}
  /\ GoTo(r, "open")
  /\ UNCHANGED <<up, active, store, uploads, snapshot, promised, spoiled>>

\* finally: leave, whoever else is in a window.
Leave(r) ==
  /\ pc[r] = "leave"
  /\ active' = FALSE
  /\ GoTo(r, "done")
  /\ UNCHANGED <<up, store, uploads, snapshot, history>>

(***************************************************************************)
(* _restore_backup_impl                                                    *)
(***************************************************************************)
\* No file, no password or another key: nothing has been touched.
Open(r) ==
  /\ pc[r] = "open"
  /\ GoTo(r, "leave") \/ GoTo(r, "snapshot")
  /\ UNCHANGED <<up, active, store, uploads, snapshot, history>>

\* _create_snapshots: database and attachments, or an error.
TakeSnapshot(r) ==
  /\ pc[r] = "snapshot"
  /\ \/ /\ snapshot' = [snapshot EXCEPT ![r] = [rows |-> db.rows, schema |-> db.schema]]
        /\ GoTo(r, "unpack")
     \/ GoTo(r, "rollback") /\ UNCHANGED snapshot
  /\ UNCHANGED <<up, active, store, uploads, history>>

\* The package is unpacked and must hold a database of a known revision.
Unpack(r) ==
  /\ pc[r] = "unpack"
  /\ \/ GoTo(r, "overwrite") \/ GoTo(r, "rollback")
  /\ UNCHANGED <<up, active, store, uploads, snapshot, history>>

\* dispose: idle connections are closed, checked out ones will not come back.
Dispose == pool' = {} /\ pooled' = {}

\* The pool is disposed of and the log unlinked; the copy truncates the file.
StartOverwrite(r) ==
  /\ pc[r] = "overwrite"
  /\ Dispose
  /\ fresh' = {}
  /\ db' = [db EXCEPT !.content = "torn"]
  /\ GoTo(r, "copy")
  /\ UNCHANGED <<up, active, uploads, snapshot, history>>

\* Mutant: the backup may come from a newer program.
BackupSchemasAny == Schemas \cup {"newer"}

\* _validate_backup_schema_version has refused what the code does not know.
BackupSchemas == Schemas

\* The backup's database takes the place of the file, or three attempts fail.
EndOverwrite(r) ==
  /\ pc[r] = "copy"
  /\ Dispose
  /\ \/ /\ \E s \in BackupSchemas, content \in {"whole", "torn"} :
             db' = [rows |-> {}, schema |-> s, content |-> content]
        /\ GoTo(r, "verify")
     \/ GoTo(r, "rollback") /\ UNCHANGED db
  /\ UNCHANGED <<up, active, fresh, uploads, snapshot, history>>

\* The integrity check.
Intact == Whole

Verify(r) ==
  /\ pc[r] = "verify"
  /\ GoTo(r, IF Intact THEN "migrate" ELSE "rollback")
  /\ UNCHANGED <<up, active, store, uploads, snapshot, history>>

\* A schema without a version is stamped, not upgraded.
Upgraded(schema) == IF schema \in {"unversioned", "stamped"} THEN "stamped" ELSE "head"

\* _migrate_restored_database
Migrate(r) ==
  /\ pc[r] = "migrate"
  /\ \/ db' = [db EXCEPT !.schema = Upgraded(@)] /\ GoTo(r, "attach")
     \/ UNCHANGED db /\ GoTo(r, "rollback")
  /\ UNCHANGED <<up, active, fresh, pooled, pool, uploads, snapshot, history>>

\* The attachments, if the backup has any, then the snapshots are removed.
Attach(r) ==
  /\ pc[r] = "attach"
  /\ \/ /\ uploads' \in {uploads, "whole"}
        /\ GoTo(r, "leave")
        /\ promised' = promised \cap db.rows
        /\ snapshot' = [snapshot EXCEPT ![r] = Nothing]
     \/ /\ uploads' = "partial"
        /\ GoTo(r, "rollback")
        /\ UNCHANGED <<promised, snapshot>>
  /\ UNCHANGED <<up, active, store, unguarded, spoiled>>

\* _rollback_to_snapshots puts the snapshot in the place of the file, by name
\* or by content.  The pool is not disposed of, nor is the log unlinked: what
\* open connections keep in it falls on the snapshot.
Connected == "fresh" \in pool \/ fresh # {}

\* Mutant: only the attachments are put back.
RollbackUploads(r) ==
  /\ pc[r] = "rollback"
  /\ uploads' = IF Taken(r) THEN "whole" ELSE uploads
  /\ snapshot' = [snapshot EXCEPT ![r] = Nothing]
  /\ GoTo(r, "leave")
  /\ UNCHANGED <<up, active, store, history>>

Rollback(r) ==
  /\ pc[r] = "rollback"
  /\ IF Taken(r)
     THEN /\ db' = [rows |-> snapshot[r].rows, schema |-> snapshot[r].schema,
                    content |-> "whole"]
          /\ uploads' = "whole"
          /\ \/ pool' = {"stale" : k \in pool} /\ fresh' = {}
             \/ UNCHANGED <<pool, fresh>>
          /\ UNCHANGED pooled
          /\ spoiled' \in {spoiled, spoiled \/ Connected}
     ELSE UNCHANGED <<store, uploads, spoiled>>
  /\ snapshot' = [snapshot EXCEPT ![r] = Nothing]
  /\ GoTo(r, "leave")
  /\ UNCHANGED <<up, active, promised, unguarded>>

\* The file or the attachments cannot be put back.
FailRollback(r) ==
  /\ pc[r] = "rollback"
  /\ Taken(r)
  /\ spoiled' = TRUE
  /\ snapshot' = [snapshot EXCEPT ![r] = Nothing]
  /\ GoTo(r, "leave")
  /\ UNCHANGED <<up, active, store, uploads, promised, unguarded>>

(***************************************************************************)
(* The process may end at any time; it starts on the file it finds.        *)
(***************************************************************************)
Crash ==
  /\ up
  /\ up' = FALSE
  /\ active' = FALSE
  /\ pc' = [t \in Threads |-> IF pc[t] = "idle" THEN "idle" ELSE "ended"]
  /\ Dispose
  /\ fresh' = {}
  /\ snapshot' = [r \in Restores |-> Nothing]
  /\ spoiled' = (spoiled \/ \E r \in Restores :
                               pc[r] \in Replacing /\ Taken(r))
  /\ UNCHANGED <<db, uploads, promised, unguarded>>

\* _init_database_tables, where ENABLE_AUTO_MIGRATION is off, as it is by default.
Restart ==
  /\ ~up
  /\ Whole
  /\ up' = TRUE
  /\ db' = [db EXCEPT !.schema = Upgraded(@)]
  /\ UNCHANGED <<active, pc, fresh, pooled, pool, uploads, snapshot, history>>

(***************************************************************************)
(* Next-state relation.                                                    *)
(***************************************************************************)
Transact(t) == up /\ (Checkout(t) \/ CommitWrite(t) \/ FailWrite(t))

Request(w) == up /\ (Admit(w) \/ Count(w))

Restoring(r) ==
  \/ Drained(r) \/ GiveUpWaiting(r) \/ Leave(r)
  \/ Open(r) \/ TakeSnapshot(r) \/ Unpack(r)
  \/ StartOverwrite(r) \/ EndOverwrite(r) \/ Verify(r) \/ Migrate(r) \/ Attach(r)
  \/ Rollback(r) \/ FailRollback(r)

RestoreNext ==
  \/ \E t \in Transactions : Transact(t)
  \/ \E w \in Writers : Request(w)
  \/ \E r \in Restores : Enter(r) \/ Restoring(r)
  \/ Read \/ Crash \/ Restart

RestoreSpec == RestoreInit /\ [][RestoreNext]_rvars

\* The thread of a restore runs on; nothing else is assumed to.
FairRestoreSpec == RestoreSpec /\ \A r \in Restores : WF_rvars(Restoring(r))

(* Every flag, thread, file and record has its type. *)
RestoreTypeOK ==
  /\ up \in BOOLEAN
  /\ active \in BOOLEAN
  /\ pc \in [Threads -> {"idle", "done", "ended"} \cup RestoreSteps \cup WriterSteps]
  /\ fresh \in SUBSET Transactions
  /\ pooled \in SUBSET Transactions
  /\ pool \in SUBSET {"fresh", "stale"}
  /\ db \in Database
  /\ uploads \in {"whole", "partial"}
  /\ snapshot \in [Restores -> Snapshot \cup {Nothing}]
  /\ promised \in SUBSET Transactions
  /\ unguarded \in SUBSET Transactions
  /\ spoiled \in BOOLEAN

(***************************************************************************)
(* Properties.                                                             *)
(***************************************************************************)
(* When no restore is going on, every acknowledged write of a request is in *)
(* the database, unless a restore that succeeded took it back: a failed or  *)
(* refused restore loses none, and neither does a crash before the file is  *)
(* touched.  Out of reach of the window are the requests it did not wait    *)
(* for, the jobs no middleware sees and the connections that a rollback     *)
(* leaves in the pool (enter, wait_for_idle, _rollback_to_snapshots).       *)
AcknowledgedWritesStay ==
  NobodyRestores /\ ~spoiled => promised \ unguarded \subseteq db.rows

(* When no restore is going on, a running process has a whole database of   *)
(* the version its code expects and attachments that are whole, however the *)
(* restores ended: at no step does a failure leave the backup half way in.  *)
(* The version is all that is promised: the columns of a backup that had    *)
(* none stay as they are (_migrate_restored_database).                      *)
UsableAfterRestore ==
  up /\ NobodyRestores /\ ~spoiled =>
    Whole /\ db.schema \in Current /\ uploads # "partial"

(* The refusal of writes ends: no step of a restore and no error in it      *)
(* keeps the system in maintenance, not even two restores that wait for     *)
(* each other to leave (maintenance_window).                                *)
MaintenanceEnds == active ~> ~active
=============================================================================
