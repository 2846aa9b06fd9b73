----------------------------- MODULE DataPackages -----------------------------
(***************************************************************************)
(* Data packages: backend/app/services/data_package_service.py and the     *)
(* endpoints of backend/app/api/v1/data/data/data_packages.py.             *)
(*                                                                         *)
(* Machines without a network exchange their rows as files.  Every machine *)
(* numbers its rows from 1, so a package brings rows whose ids are taken   *)
(* by other rows; a package may be incremental, late, or imported again.   *)
(* Two tables stand for the four of the program: villages, and projects,   *)
(* which refer to a village by id and have a unique code.                  *)
(***************************************************************************)
EXTENDS Integers, Sequences, FiniteSets, Functions

CONSTANTS
  Machines,
  Clients,      \* requests that confirm packages at a time
  Villages,     \* the villages of the world, as people know them
  Projects,     \* the projects
  KeyOf,        \* business key of each (BUSINESS_KEYS)
  NoKey,        \* the business key of what has none: no code was entered
  Invalid,      \* those whose rows validate_records rejects
  Start,        \* tables of each machine when the exchange begins
  Entered,      \* bound: what is entered by hand on each machine, with its village
  Senders,      \* bound: machines that export
  Receivers,    \* bound: machines that import
  Orders,       \* lists of data types that requests name
  Modes,        \* what requests ask for rows that are already there
  GroupLimit,   \* rows one INSERT statement can hold
  MaxTime,      \* bound: edits made
  MaxPackages,  \* bound: packages exported
  MaxRecords    \* bound: rows of the table of packages on each machine

Types == {"villages", "projects"}
Subject(t) == IF t = "villages" THEN Villages ELSE Projects
Ids == Nat \ {0}
None == 0   \* no id
Row(t) == [who : Subject(t), ver : Nat, up : Nat]
Empty == [i \in {} |-> None]
NoRows == [t \in Types |-> Empty]

\* _business_key_of: what has no key is the same record as nothing else.
SameKey(v, w) == KeyOf[v] # NoKey /\ KeyOf[v] = KeyOf[w]
IsThere(v, w) == v = w \/ SameKey(v, w)

\* UNIQUE (code) of projects and the foreign key of village_id.
CodeIsFree(t, w, T) == t = "projects" => \A i \in DOMAIN T : ~SameKey(w, T[i].who)
CodesAreUnique(t, T) ==
  t = "projects" => \A i, j \in DOMAIN T : SameKey(T[i].who, T[j].who) => i = j
HasParent(row, villages) == row.up \in DOMAIN villages \cup {None}

GoodRows(t, T) ==
  /\ DOMAIN T \subseteq Ids
  /\ \A i \in DOMAIN T : T[i] \in Row(t)
  /\ CodesAreUnique(t, T)
GoodTables(D) ==
  \A t \in Types : /\ GoodRows(t, D[t])
                   /\ \A i \in DOMAIN D[t] : HasParent(D[t][i], D["villages"])

\* Every machine has numbered its rows from 1.
ASSUME StartAssumption ==
  /\ Start \in [Machines -> [Types -> Seq(Row("villages") \cup Row("projects"))]]
  /\ \A m \in Machines : GoodTables(Start[m])

ASSUME PackageAssumption ==
  /\ Orders \subseteq Seq(Types)
  /\ Modes \subseteq {"keep", "overwrite", "newer"}
  /\ {MaxTime, MaxPackages, MaxRecords, GroupLimit} \subseteq Nat

VARIABLES
  db,        \* the tables of each machine, as committed: id -> row
  now,       \* updated_at of the last edit; the machines' clocks agree
  packages,  \* the package files that exist; they travel by hand
  records,   \* each machine's table of packages
  export,    \* the export that is reading, on each machine
  job,       \* what each confirming request is doing
  lock,      \* holder of each machine's db_coordinator.exclusive_write
  receipts   \* imports whose answer named no error

pvars == <<db, now, packages, records, export, job, lock, receipts>>

\* The ids of a table are those of SQLite: one more than the largest.
Largest(T) ==
  IF DOMAIN T = {} THEN 0 ELSE CHOOSE i \in DOMAIN T : \A k \in DOMAIN T : k <= i
NextId(T) == Largest(T) + 1
With(T, i, row) == [k \in DOMAIN T \cup {i} |-> IF k = i THEN row ELSE T[k]]

NoExport == [busy |-> FALSE, todo |-> <<>>, since |-> 0, rows |-> NoRows]
NoJob == [pc |-> "idle"]

PackagesInit ==
  /\ db = Start
  /\ now = 1
  /\ packages = <<>>
  /\ records = [m \in Machines |-> <<>>]
  /\ export = [m \in Machines |-> NoExport]
  /\ job = [c \in Clients |-> NoJob]
  /\ lock = [m \in Machines |-> {}]
  /\ receipts = [m \in Machines |-> {}]

(***************************************************************************)
(* SQLite.  A transaction that has written holds the write lock until it   *)
(* ends; one that has only read sees the database as of its first read,    *)
(* and its first write fails if another transaction committed since.       *)
(***************************************************************************)
Importing(c) == job[c].pc = "import"
MayCommit(m) == \A c \in Clients : Importing(c) /\ job[c].m = m => ~job[c].wrote
Aged(m) == [c \in Clients |-> IF Importing(c) /\ job[c].m = m
                              THEN [job[c] EXCEPT !.fresh = FALSE] ELSE job[c]]
\* Another transaction than that of a job commits on m.
CommitsOn(m) == MayCommit(m) /\ job' = Aged(m)

(***************************************************************************)
(* The work on each machine.                                               *)
(***************************************************************************)
Create(m, t, w, up) ==
  /\ now < MaxTime
  /\ <<w, up>> \in Entered[m]
  /\ \A i \in DOMAIN db[m][t] : db[m][t][i].who # w
  /\ CodeIsFree(t, w, db[m][t])
  /\ up \in IF t = "projects" THEN DOMAIN db[m]["villages"] \cup {None} ELSE {None}
  /\ now' = now + 1
  /\ LET row == [who |-> w, ver |-> now', up |-> up] IN
     db' = [db EXCEPT ![m][t] = With(db[m][t], NextId(db[m][t]), row)]
  /\ CommitsOn(m)
  /\ UNCHANGED <<packages, records, export, lock, receipts>>

Edit(m, t, i) ==
  /\ now < MaxTime
  /\ now' = now + 1
  /\ db' = [db EXCEPT ![m][t][i].ver = now']
  /\ CommitsOn(m)
  /\ UNCHANGED <<packages, records, export, lock, receipts>>

(***************************************************************************)
(* Export.  Each table is read by a statement of its own, outside of any   *)
(* transaction, and the package is recorded when the file is complete.     *)
(***************************************************************************)
Bases(m) == {0} \cup {records[m][k].made : k \in DOMAIN records[m]}

\* export_package, and incremental_export with a package of m as its base.
StartExport(m, order, since) ==
  /\ m \in Senders /\ ~export[m].busy
  /\ Len(packages) < MaxPackages
  /\ export' = [export EXCEPT ![m] =
       [NoExport EXCEPT !.todo = order, !.since = since, !.busy = TRUE]]
  /\ UNCHANGED <<db, now, packages, records, job, lock, receipts>>

\* _iter_export_data_type: the rows that changed after the base was recorded.
Changed(T, since) == Restrict(T, {i \in DOMAIN T : T[i].ver > since})

ReadTable(m) ==
  /\ export[m].busy /\ export[m].todo # <<>>
  /\ LET t == Head(export[m].todo) IN
     export' = [export EXCEPT
       ![m].todo = Tail(@),
       ![m].rows[t] = Changed(db[m][t], export[m].since)]
  /\ UNCHANGED <<db, now, packages, records, job, lock, receipts>>

Recorded(g, status) == [pkg |-> g, status |-> status, made |-> now]

RecordPackage(m) ==
  /\ export[m].busy /\ export[m].todo = <<>>
  /\ Len(packages) < MaxPackages /\ Len(records[m]) < MaxRecords
  /\ packages' = Append(packages, export[m].rows)
  /\ records' = [records EXCEPT ![m] = Append(@, Recorded(Len(packages) + 1, "validated"))]
  /\ export' = [export EXCEPT ![m] = NoExport]
  /\ CommitsOn(m)
  /\ UNCHANGED <<db, now, lock, receipts>>

(***************************************************************************)
(* Import.                                                                 *)
(***************************************************************************)
\* import_package: the file is checked, copied and recorded; nothing is imported
\* yet.  The same file may be recorded again (force, or incremental_import), and
\* a damaged one is recorded as failed.
Register(m, g, status) ==
  /\ m \in Receivers
  /\ Len(records[m]) < MaxRecords
  /\ records' = [records EXCEPT ![m] = Append(@, Recorded(g, status))]
  /\ CommitsOn(m)
  /\ UNCHANGED <<db, now, packages, export, lock, receipts>>

\* _confirm_import_sync up to the lock: the status is read before it.  Mode
\* "newer" is that of incremental_import, which registers the package first.
Ask(c, m, k, order, mode) ==
  /\ m \in Receivers /\ job[c] = NoJob
  /\ records[m][k].status = "validated"
  /\ job' = [job EXCEPT ![c] =
       [pc |-> "wait", m |-> m, k |-> k, todo |-> order, mode |-> mode]]
  /\ UNCHANGED <<db, now, packages, records, export, lock, receipts>>

\* Mutant: the import does not wait for the lock.
BeginUnlocked(c) ==
  /\ job[c].pc = "wait"
  /\ lock' = [lock EXCEPT ![job[c].m] = @ \cup {c}]
  /\ job' = [job EXCEPT ![c] =
       [pc |-> "import", m |-> job[c].m, k |-> job[c].k, todo |-> job[c].todo,
        mode |-> job[c].mode,
        tables |-> db[job[c].m], done |-> {}, moved |-> NoRows, failed |-> {},
        fresh |-> TRUE, wrote |-> FALSE]]
  /\ UNCHANGED <<db, now, packages, records, export, receipts>>

\* The lock is taken and the transaction reads for the first time.
Begin(c) ==
  /\ job[c].pc = "wait"
  /\ lock[job[c].m] = {}
  /\ lock' = [lock EXCEPT ![job[c].m] = {c}]
  /\ job' = [job EXCEPT ![c] =
       [pc |-> "import", m |-> job[c].m, k |-> job[c].k, todo |-> job[c].todo,
        mode |-> job[c].mode,
        tables |-> db[job[c].m], done |-> {}, moved |-> NoRows, failed |-> {},
        fresh |-> TRUE, wrote |-> FALSE]]
  /\ UNCHANGED <<db, now, packages, records, export, receipts>>

PackageOf(j) == packages[records[j.m][j.k].pkg]
\* validate_records: rows it rejects are left out.
Accepted(g, t) ==
  Restrict(g[t], {i \in DOMAIN g[t] : g[t][i].who \notin Invalid})

\* Mutant: the foreign keys stay as they are in the package.
RepointedNever(j, row) == row

\* _apply_fk_remap: a project follows a village that was given another id.
Repointed(j, row) ==
  IF row.up \in DOMAIN j.moved["villages"]
  THEN [row EXCEPT !.up = j.moved["villages"][row.up]] ELSE row
Rows(j, t) ==
  LET A == Accepted(PackageOf(j), t) IN
  [i \in DOMAIN A |-> IF t = "projects" THEN Repointed(j, A[i]) ELSE A[i]]

\* _classify_import_records: the id is free, or it is that of the same record,
\* or of another one.
\* Mutant: rows without a key are taken for the same record, as the docstring of
\* the function says; its code and the comments in it say the opposite.
SameIdsOrUnknown(R, T) ==
  {i \in DOMAIN R \cap DOMAIN T : KeyOf[R[i].who] = KeyOf[T[i].who]}
FreeIds(R, T) == DOMAIN R \ DOMAIN T
SameIds(R, T) == {i \in DOMAIN R \cap DOMAIN T : SameKey(R[i].who, T[i].who)}
TakenIds(R, T) == (DOMAIN R \cap DOMAIN T) \ SameIds(R, T)

\* _build_upsert_statement: DO NOTHING, DO UPDATE, or DO UPDATE if newer.
\* Mutant: without the time guard.
OverwritesAny(j, row, local) == j.mode # "keep"
Overwrites(j, row, local) ==
  j.mode = "overwrite" \/ (j.mode = "newer" /\ row.ver > local.ver)
Upserted(j, R, T) ==
  LET same == SameIds(R, T) IN
  [i \in DOMAIN T \cup FreeIds(R, T) |->
     IF i \notin DOMAIN T \/ (i \in same /\ Overwrites(j, R[i], T[i]))
     THEN R[i] ELSE T[i]]

\* One statement writes the free and the same rows, all of them or none.
GroupSucceeds(j, t, R, T) ==
  LET U == Upserted(j, R, T) IN
  /\ Cardinality(FreeIds(R, T) \cup SameIds(R, T)) <= GroupLimit
  /\ CodesAreUnique(t, U)
  /\ \A i \in DOMAIN U : HasParent(U[i], j.tables["villages"])

\* The others are inserted one by one, each without its id.
Relocatable(j, t, R, T, U) ==
  {i \in TakenIds(R, T) :
     CodeIsFree(t, R[i].who, U) /\ HasParent(R[i], j.tables["villages"])}
NewIds(S, U) == [i \in S |-> Largest(U) + Cardinality({k \in S : k <= i})]
Relocated(U, R, at) ==
  [k \in DOMAIN U \cup Range(at) |->
     IF k \in DOMAIN U THEN U[k] ELSE R[CHOOSE i \in DOMAIN at : at[i] = k]]

\* remap: what the import knows of new ids, one type after the other.
Remapped(old, new) ==
  [i \in DOMAIN old \cup DOMAIN new |-> IF i \in DOMAIN new THEN new[i] ELSE old[i]]

\* _bulk_upsert_records: what fails is reported and the rest goes on.
Imported(j, t) ==
  LET R == Rows(j, t)
      T == j.tables[t]
      succeeds == GroupSucceeds(j, t, R, T)
      U == IF succeeds THEN Upserted(j, R, T) ELSE T
      movable == Relocatable(j, t, R, T, U)
      at == NewIds(movable, U)
  IN [j EXCEPT !.todo = Tail(@),
               !.done = @ \cup {t},
               !.tables[t] = Relocated(U, R, at),
               !.moved[t] = Remapped(@, at),
               !.failed = IF succeeds /\ movable = TakenIds(R, T) THEN @ ELSE @ \cup {t},
               !.wrote = @ \/ DOMAIN R # {}]

ImportType(c) ==
  /\ Importing(c) /\ job[c].fresh
  /\ job[c].todo # <<>>
  /\ job' = [job EXCEPT ![c] = Imported(job[c], Head(job[c].todo))]
  /\ UNCHANGED <<db, now, packages, records, export, lock, receipts>>

\* Mutant: the rows that could not be written are not reported.
WithoutRejections(j) ==
  \A t \in j.done : Accepted(PackageOf(j), t) = PackageOf(j)[t]
\* The result of the import names no row that was rejected or failed.
WithoutErrors(j) ==
  /\ j.failed = {}
  /\ \A t \in j.done : Accepted(PackageOf(j), t) = PackageOf(j)[t]
\* The endpoint confirm_import answers with the result; incremental_import answers
\* success and the counts of its preview, and leaves the errors out.
AnswersWithoutErrors(j) == j.mode = "newer" \/ WithoutErrors(j)
Receipt(j) ==
  [pkg |-> records[j.m][j.k].pkg, types |-> j.done, mode |-> j.mode]

Commit(c) ==
  /\ Importing(c) /\ job[c].fresh
  /\ job[c].todo = <<>>
  /\ LET j == job[c] IN
     /\ db' = [db EXCEPT ![j.m] = j.tables]
     /\ records' = [records EXCEPT ![j.m][j.k].status = "imported"]
     /\ receipts' = IF AnswersWithoutErrors(j)
                    THEN [receipts EXCEPT ![j.m] = @ \cup {Receipt(j)}] ELSE receipts
     /\ lock' = [lock EXCEPT ![j.m] = {}]
  /\ job' = [job EXCEPT ![c] = NoJob]
  /\ UNCHANGED <<now, packages, export>>

\* Waiting for the lock timed out, or a step of the import raised: all of it is
\* rolled back and the package is marked failed.  The lock is released first; an
\* import that takes it before the rollback can only wait, or fail in its turn.
Fail(c) ==
  LET m == job[c].m IN
  /\ \/ job[c].pc = "wait" /\ lock[m] # {}
     \/ Importing(c)
  /\ \A d \in Clients \ {c} : Importing(d) /\ job[d].m = m => ~job[d].wrote
  /\ job' = [Aged(m) EXCEPT ![c] = NoJob]
  /\ records' = [records EXCEPT ![m][job[c].k].status = "failed"]
  /\ lock' = [lock EXCEPT ![m] = @ \ {c}]
  /\ UNCHANGED <<db, now, packages, export, receipts>>

\* The process of a machine ends: its transaction is undone by SQLite.
Stop(m) ==
  /\ export[m].busy \/ \E c \in Clients : job[c] # NoJob /\ job[c].m = m
  /\ job' = [c \in Clients |-> IF job[c] # NoJob /\ job[c].m = m THEN NoJob ELSE job[c]]
  /\ export' = [export EXCEPT ![m] = NoExport]
  /\ lock' = [lock EXCEPT ![m] = {}]
  /\ UNCHANGED <<db, now, packages, records, receipts>>

PackagesNext ==
  \/ \E m \in Machines :
       \/ \E t \in Types : \E w \in Subject(t), up \in DOMAIN db[m]["villages"] \cup {None} :
            Create(m, t, w, up)
       \/ \E t \in Types : \E i \in DOMAIN db[m][t] : Edit(m, t, i)
       \/ \E order \in Orders, since \in Bases(m) : StartExport(m, order, since)
       \/ ReadTable(m)
       \/ RecordPackage(m)
       \/ \E g \in DOMAIN packages, status \in {"validated", "failed"} :
            Register(m, g, status)
       \/ Stop(m)
       \/ \E c \in Clients, k \in DOMAIN records[m], order \in Orders, mode \in Modes :
            Ask(c, m, k, order, mode)
  \/ \E c \in Clients : Begin(c) \/ ImportType(c) \/ Commit(c) \/ Fail(c)

PackagesSpec == PackagesInit /\ [][PackagesNext]_pvars

(***************************************************************************)
(* Properties.                                                             *)
(***************************************************************************)
\* What SQLite is asked to keep, it keeps; a transaction of an import runs under
\* the lock of its machine, alone.
PackageTypeOK ==
  /\ now \in Nat
  /\ \A m \in Machines : GoodTables(db[m])
  /\ \A g \in DOMAIN packages, t \in Types : GoodRows(t, packages[g][t])
  /\ \A m \in Machines : \A k \in DOMAIN records[m] :
       /\ records[m][k].pkg \in DOMAIN packages
       /\ records[m][k].status \in {"validated", "imported", "failed"}
  /\ \A c, d \in Clients :
       Importing(c) /\ Importing(d) /\ job[c].m = job[d].m => c = d

\* Nothing that people or packages do puts another record in the place of a
\* row: an id, once given, stays with its village or project, whatever ids the
\* packages of other machines bring and whatever was entered meanwhile, also when
\* rows have no business key (the comments of _classify_import_records and
\* _business_key_of; the former's docstring says that such a row is the same).
NoRowIsTakenOver ==
  [][\A m \in Machines, t \in Types : \A i \in DOMAIN db[m][t] :
       /\ i \in DOMAIN db[m][t]'
       /\ IsThere(db[m][t][i].who, db[m][t][i].who')]_pvars

\* An import that guards by time (incremental_import) never takes a row back
\* to an older version, however late or however often its package arrives, and
\* not when the row is edited while the import runs.
GuardedImportKeepsEdits ==
  [][\A c \in Clients : Importing(c) /\ job[c].mode = "newer" /\ ~Importing(c)' =>
       \A t \in Types : \A i \in DOMAIN db[job[c].m][t] :
         db'[job[c].m][t][i].ver >= db[job[c].m][t][i].ver]_pvars

\* A confirmed import whose answer names no error (confirm_import) brought every
\* row of the types it imported: each is still on the machine, under its own id or
\* another.  The answer of incremental_import promises nothing of the kind.
ReceiptIsTrue ==
  \A m \in Machines : \A r \in receipts[m] : r.mode # "newer" =>
    \A t \in r.types : \A i \in DOMAIN packages[r.pkg][t] : \E k \in DOMAIN db[m][t] :
      IsThere(packages[r.pkg][t][i].who, db[m][t][k].who)

\* A project that is written after its village came in by the same package, the
\* villages without an error, belongs to that village, whatever id it was given.
ProjectsFollowVillages ==
  [][\A c \in Clients :
       /\ Importing(c) /\ job'[c].pc = "import"
       /\ "villages" \in job[c].done \ job[c].failed
       => LET g == PackageOf(job[c])
              before == job[c].tables["projects"]
              after == job'[c].tables["projects"]
          IN \A k \in DOMAIN after :
               \/ k \in DOMAIN before /\ before[k] = after[k]
               \/ \E i \in DOMAIN Accepted(g, "projects") :
                    LET home == g["projects"][i].up IN
                    /\ g["projects"][i].who = after[k].who
                    /\ home \in DOMAIN Accepted(g, "villages") =>
                         IsThere(g["villages"][home].who,
                                 job'[c].tables["villages"][after[k].up].who)]_pvars
=============================================================================
