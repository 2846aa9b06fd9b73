--------------------- MODULE MaintenanceRestore_proofs ---------------------
(***************************************************************************)
(* Theorems about MaintenanceRestore, for any number of restores, requests *)
(* and jobs: unless something went wrong that the code does not handle,    *)
(* the system is usable after every restore and keeps what it promised.    *)
(*                                                                         *)
(* The argument follows the one restore that is going on.  Until it        *)
(* touches the file the database is sound; from then on its snapshot is,   *)
(* and no write that the window answers for can be acknowledged, because   *)
(* the gate is closed and the requests before it were waited for or given  *)
(* up.                                                                     *)
(***************************************************************************)
EXTENDS MaintenanceRestore, FiniteSetTheorems, TLAPS

(***************************************************************************)
(* The inductive invariant.                                                *)
(***************************************************************************)
Sound == Whole /\ db.schema \in Current /\ uploads = "whole"
Guarded == promised \ unguarded

\* The file may be another than the one the restore found.
Touched(r) ==
  \/ pc[r] \in {"copy", "verify", "migrate", "attach"}
  \/ pc[r] = "rollback" /\ Taken(r)
Untouched == \A r \in Restores : ~Touched(r)

\* There is a snapshot from its making to the end of the restore.
SnapshotsHeld ==
  \A r \in Restores :
    /\ Taken(r) => pc[r] \in {"unpack", "overwrite", "copy", "verify", "migrate",
                              "attach", "rollback"}
    /\ pc[r] \in {"unpack", "overwrite", "copy", "verify", "migrate", "attach"} =>
         Taken(r)

\* Restores do not overlap, and the flag is up while one goes on.
OneRestore == \A r, q \in Restores : Running(r) /\ Running(q) => r = q
FlagIsUp == \A r \in Restores : Running(r) => active

\* How far the file is, and what the snapshot is worth.
FileIsSound == Untouched => Sound
HalfWay ==
  \A r \in Restores :
    /\ pc[r] = "migrate" => Whole
    /\ pc[r] = "attach" => Whole /\ db.schema \in Current
    /\ pc[r] \in {"copy", "verify", "migrate", "attach"} => uploads = "whole"
SnapshotIsSound == \A r \in Restores : Taken(r) => snapshot[r].schema \in Current

\* The requests that the window does not answer for.
GivenUp ==
  \A r \in Restores : Running(r) /\ pc[r] # "drain" =>
    \A w \in Writers : pc[w] \in WriterSteps => w \in unguarded
StaleGivenUp ==
  \A w \in Writers : pc[w] = "connected" /\ w \notin fresh => w \in unguarded

\* What was promised is in the file, or in the snapshot.
RowsInFile == Untouched => Guarded \subseteq db.rows
RowsInSnapshot == \A r \in Restores : Taken(r) => Guarded \subseteq snapshot[r].rows

Handled ==
  /\ OneRestore /\ FlagIsUp
  /\ FileIsSound /\ HalfWay /\ SnapshotIsSound
  /\ GivenUp /\ StaleGivenUp
  /\ RowsInFile /\ RowsInSnapshot

RInv == RestoreTypeOK /\ SnapshotsHeld /\ (~spoiled => Handled)

(***************************************************************************)
(* Lemmas.                                                                 *)
(***************************************************************************)
LEMMA Distinct ==
  /\ \A r \in Restores : r \in Threads /\ r \notin Transactions
  /\ \A t \in Transactions : t \in Threads /\ t \notin Restores
  /\ \A w \in Writers : w \in Transactions /\ w \notin Restores
  /\ \A j \in Jobs : j \in Transactions /\ j \notin Restores
  BY RestoreAssumption DEF Threads, Transactions

LEMMA Moves ==
  ASSUME RestoreTypeOK, NEW t \in Threads,
         NEW step \in {"idle", "done", "ended"} \cup RestoreSteps \cup WriterSteps,
         GoTo(t, step)
  PROVE  /\ pc' \in [Threads -> {"idle", "done", "ended"} \cup RestoreSteps \cup WriterSteps]
         /\ pc'[t] = step
         /\ \A u \in Threads \ {t} : pc'[u] = pc[u]
  BY DEF RestoreTypeOK, GoTo

\* Once the flag goes down nobody restores.
LEMMA NobodyUntouched ==
  ASSUME RInv, NobodyRestores
  PROVE  Untouched /\ \A r \in Restores : ~Taken(r)
  BY DEF RInv, NobodyRestores, Running, RestoreSteps, Untouched, Touched, SnapshotsHeld

LEMMA RInvInit == RestoreInit => RInv
<1> SUFFICES ASSUME RestoreInit
             PROVE  RInv
  OBVIOUS
<1>1. RestoreTypeOK
  BY Distinct DEF RestoreInit, RestoreTypeOK, Database, Snapshot, Nothing, Schemas
<1>2. \A t \in Threads : pc[t] = "idle"
  BY DEF RestoreInit
<1>3. \A r \in Restores : pc[r] = "idle" /\ ~Taken(r) /\ ~Running(r) /\ ~Touched(r)
  BY <1>2, Distinct DEF RestoreInit, Taken, Running, RestoreSteps, Touched
<1>4. SnapshotsHeld
  BY <1>3 DEF SnapshotsHeld
<1>5. Handled
  <2>1. OneRestore /\ FlagIsUp /\ HalfWay /\ SnapshotIsSound /\ GivenUp /\ RowsInSnapshot
    BY <1>3 DEF OneRestore, FlagIsUp, HalfWay, SnapshotIsSound, GivenUp, RowsInSnapshot
  <2>2. FileIsSound /\ RowsInFile
    BY DEF RestoreInit, FileIsSound, Sound, Current, Whole, RowsInFile, Guarded
  <2>3. StaleGivenUp
    BY <1>2, Distinct DEF StaleGivenUp
  <2>4. QED
    BY <2>1, <2>2, <2>3 DEF Handled
<1>6. QED
  BY <1>1, <1>4, <1>5 DEF RInv

(***************************************************************************)
(* Steps of requests and jobs: the restores stay where they are.           *)
(***************************************************************************)
RestoresStay ==
  /\ \A r \in Restores : pc'[r] = pc[r]
  /\ UNCHANGED <<snapshot, active, uploads>>

LEMMA StayEffect ==
  ASSUME RestoresStay
  PROVE  /\ \A r \in Restores : /\ Taken(r)' <=> Taken(r)
                                /\ Running(r)' <=> Running(r)
                                /\ Touched(r)' <=> Touched(r)
         /\ Untouched' <=> Untouched
         /\ NobodyRestores' <=> NobodyRestores
         /\ SnapshotsHeld => SnapshotsHeld'
         /\ OneRestore => OneRestore'
         /\ FlagIsUp => FlagIsUp'
         /\ SnapshotIsSound => SnapshotIsSound'
  BY DEF RestoresStay, Taken, Running, Touched, Untouched, NobodyRestores, SnapshotsHeld,
         OneRestore, FlagIsUp, SnapshotIsSound

\* Nothing is promised or written, and who is given up stays so.
LEMMA StayKeeps ==
  ASSUME RInv, RestoreTypeOK', RestoresStay, UNCHANGED <<db, promised, spoiled>>,
         unguarded \subseteq unguarded',
         ~spoiled => GivenUp' /\ StaleGivenUp'
  PROVE  RInv'
<1>1. SnapshotsHeld'
  BY StayEffect DEF RInv
<1>2. ASSUME ~spoiled
      PROVE  Handled'
  <2>1. Handled
    BY <1>2 DEF RInv
  <2>2. OneRestore' /\ FlagIsUp' /\ SnapshotIsSound'
    BY <2>1, StayEffect DEF Handled
  <2>3. FileIsSound'
    BY <2>1, StayEffect DEF Handled, FileIsSound, Sound, Whole, RestoresStay
  <2>4. HalfWay'
    BY <2>1 DEF Handled, HalfWay, Whole, RestoresStay
  <2>5. RowsInFile'
    BY <2>1, StayEffect DEF Handled, RowsInFile, Guarded
  <2>6. RowsInSnapshot'
    BY <2>1, StayEffect DEF Handled, RowsInSnapshot, Guarded, RestoresStay
  <2>7. QED
    BY <1>2, <2>2, <2>3, <2>4, <2>5, <2>6 DEF Handled
<1>3. QED
  BY <1>1, <1>2 DEF RInv

LEMMA AdmitKeeps ==
  ASSUME RInv, NEW w \in Writers, Admit(w)
  PROVE  RInv'
<1>1. /\ pc[w] = "idle"
      /\ \/ ~active /\ GoTo(w, "admitted")
         \/ active /\ GoTo(w, "ended")
      /\ UNCHANGED <<up, active, store, uploads, snapshot, history>>
  BY DEF Admit, MayPass
<1>2. /\ pc' \in [Threads -> {"idle", "done", "ended"} \cup RestoreSteps \cup WriterSteps]
      /\ pc'[w] = (IF active THEN "ended" ELSE "admitted")
      /\ \A u \in Threads \ {w} : pc'[u] = pc[u]
  BY <1>1, Distinct, Moves DEF RInv, WriterSteps
<1>3. RestoreTypeOK'
  BY <1>1, <1>2 DEF RInv, RestoreTypeOK, store, history, Schemas
<1>4. RestoresStay
  BY <1>1, <1>2, Distinct DEF RestoresStay
<1>5. ASSUME ~spoiled
      PROVE  GivenUp' /\ StaleGivenUp'
  <2>1. FlagIsUp /\ GivenUp /\ StaleGivenUp
    BY <1>5 DEF RInv, Handled
  <2>2. GivenUp'
    <3> SUFFICES ASSUME NEW r \in Restores, Running(r), pc[r] # "drain",
                        NEW v \in Writers, pc'[v] \in WriterSteps
                 PROVE  v \in unguarded'
      BY <1>4, StayEffect DEF GivenUp, RestoresStay
    <3>1. active
      BY <2>1 DEF FlagIsUp
    <3>2. v # w
      BY <1>2, <3>1 DEF WriterSteps
    <3>3. QED
      BY <1>1, <1>2, <2>1, <3>2, Distinct DEF GivenUp, history
  <2>3. StaleGivenUp'
    BY <1>1, <1>2, <2>1, Distinct DEF StaleGivenUp, store, history
  <2>4. QED
    BY <2>2, <2>3
<1>6. QED
  BY <1>1, <1>3, <1>4, <1>5, StayKeeps DEF store, history

LEMMA CountKeeps ==
  ASSUME RInv, NEW w \in Writers, Count(w)
  PROVE  RInv'
<1>1. /\ pc[w] = "admitted"
      /\ GoTo(w, "counted")
      /\ UNCHANGED <<up, active, store, uploads, snapshot, history>>
  BY DEF Count
<1>2. /\ pc' \in [Threads -> {"idle", "done", "ended"} \cup RestoreSteps \cup WriterSteps]
      /\ pc'[w] = "counted"
      /\ \A u \in Threads \ {w} : pc'[u] = pc[u]
  BY <1>1, Distinct, Moves DEF RInv, WriterSteps
<1>3. RestoreTypeOK'
  BY <1>1, <1>2 DEF RInv, RestoreTypeOK, store, history
<1>4. RestoresStay
  BY <1>1, <1>2, Distinct DEF RestoresStay
<1>5. ASSUME ~spoiled
      PROVE  GivenUp' /\ StaleGivenUp'
  <2>1. GivenUp /\ StaleGivenUp
    BY <1>5 DEF RInv, Handled
  <2>2. GivenUp'
    BY <1>1, <1>2, <1>4, <2>1, Distinct, StayEffect
    DEF GivenUp, WriterSteps, RestoresStay, history
  <2>3. StaleGivenUp'
    BY <1>1, <1>2, <2>1, Distinct DEF StaleGivenUp, store, history
  <2>4. QED
    BY <2>2, <2>3
<1>6. QED
  BY <1>1, <1>3, <1>4, <1>5, StayKeeps DEF store, history

LEMMA CheckoutKeeps ==
  ASSUME RInv, NEW t \in Transactions, Checkout(t)
  PROVE  RInv'
<1>1. PICK kind \in pool \cup {"fresh"} :
        /\ fresh' = IF kind = "fresh" THEN fresh \cup {t} ELSE fresh
        /\ pool' \in {pool, pool \ {kind}}
        /\ unguarded' = IF kind = "fresh" THEN unguarded ELSE unguarded \cup {t}
  BY DEF Checkout
<1>2. /\ pc[t] = IF t \in Writers THEN "counted" ELSE "idle"
      /\ pooled' = pooled \cup {t}
      /\ GoTo(t, "connected")
      /\ UNCHANGED <<up, active, db, uploads, snapshot, promised, spoiled>>
  BY DEF Checkout
<1>3. /\ pc' \in [Threads -> {"idle", "done", "ended"} \cup RestoreSteps \cup WriterSteps]
      /\ pc'[t] = "connected"
      /\ \A u \in Threads \ {t} : pc'[u] = pc[u]
  BY <1>2, Distinct, Moves DEF RInv, WriterSteps
<1>4. RestoreTypeOK'
  BY <1>1, <1>2, <1>3 DEF RInv, RestoreTypeOK
<1>5. RestoresStay
  BY <1>2, <1>3, Distinct DEF RestoresStay
<1>6. unguarded \subseteq unguarded'
  BY <1>1
<1>7. ASSUME ~spoiled
      PROVE  GivenUp' /\ StaleGivenUp'
  <2>1. GivenUp /\ StaleGivenUp
    BY <1>7 DEF RInv, Handled
  <2>2. GivenUp'
    BY <1>2, <1>3, <1>5, <1>6, <2>1, Distinct, StayEffect
    DEF GivenUp, WriterSteps, RestoresStay
  <2>3. StaleGivenUp'
    BY <1>1, <1>3, <1>6, <2>1, Distinct DEF StaleGivenUp
  <2>4. QED
    BY <2>2, <2>3
<1>8. QED
  BY <1>2, <1>4, <1>5, <1>6, <1>7, StayKeeps

\* What leaves the connection of t, and of nobody else.
LEMMA ReturnEffect ==
  ASSUME RInv, NEW t \in Transactions, Return(t)
  PROVE  /\ pc' \in [Threads -> {"idle", "done", "ended"} \cup RestoreSteps \cup WriterSteps]
         /\ pc'[t] = "ended"
         /\ \A u \in Threads \ {t} : pc'[u] = pc[u]
         /\ fresh' \in SUBSET Transactions
         /\ pooled' \in SUBSET Transactions
         /\ pool' \in SUBSET {"fresh", "stale"}
         /\ fresh' = fresh \ {t}
  BY Distinct, Moves DEF RInv, RestoreTypeOK, Return

\* The end of a transaction gives nobody back to the window.
LEMMA ReturnGivesUp ==
  ASSUME RInv, ~spoiled, NEW t \in Transactions, Return(t), RestoresStay,
         unguarded \subseteq unguarded'
  PROVE  GivenUp' /\ StaleGivenUp'
<1>1. GivenUp /\ StaleGivenUp
  BY DEF RInv, Handled
<1>2. /\ pc'[t] = "ended"
      /\ \A u \in Threads \ {t} : pc'[u] = pc[u]
      /\ fresh' = fresh \ {t}
  BY ReturnEffect
<1>3. GivenUp'
  BY <1>1, <1>2, Distinct, StayEffect DEF GivenUp, WriterSteps, RestoresStay
<1>4. StaleGivenUp'
  BY <1>1, <1>2, Distinct DEF StaleGivenUp
<1>5. QED
  BY <1>3, <1>4

LEMMA FailWriteKeeps ==
  ASSUME RInv, NEW t \in Transactions, FailWrite(t)
  PROVE  RInv'
<1>1. Return(t) /\ UNCHANGED <<up, active, db, uploads, snapshot, history>>
  BY DEF FailWrite
<1>2. RestoreTypeOK'
  BY <1>1, ReturnEffect DEF RInv, RestoreTypeOK, history
<1>3. RestoresStay
  BY <1>1, ReturnEffect, Distinct DEF RestoresStay
<1>4. QED
  BY <1>1, <1>2, <1>3, ReturnGivesUp, StayKeeps DEF history

\* An acknowledged write is in the file or was never promised to stay.
LEMMA CommitKeeps ==
  ASSUME RInv, NEW t \in Transactions, CommitWrite(t)
  PROVE  RInv'
<1>1. /\ pc[t] = "connected"
      /\ db' = IF t \in fresh /\ Whole THEN [db EXCEPT !.rows = @ \cup {t}] ELSE db
      /\ spoiled' = (spoiled \/ (t \in fresh /\ ~Whole))
      /\ unguarded' = IF t \in Jobs /\ (t \notin fresh \/ ~NobodyRestores)
                      THEN unguarded \cup {t} ELSE unguarded
      /\ promised' = promised \cup {t}
      /\ Return(t)
      /\ UNCHANGED <<up, active, uploads, snapshot>>
  BY DEF CommitWrite
<1>2. /\ db'.schema = db.schema
      /\ db'.content = db.content
      /\ db.rows \subseteq db'.rows
      /\ t \in fresh /\ Whole => t \in db'.rows
      /\ db' \in Database
  <2>1. /\ db = [rows |-> db.rows, schema |-> db.schema, content |-> db.content]
        /\ db \in Database
    BY DEF RInv, RestoreTypeOK, Database
  <2>2. [db EXCEPT !.rows = @ \cup {t}]
          = [rows |-> db.rows \cup {t}, schema |-> db.schema, content |-> db.content]
    BY <2>1
  <2>3. QED
    BY <1>1, <2>1, <2>2 DEF Database
<1>3. RestoreTypeOK'
  BY <1>1, <1>2, ReturnEffect DEF RInv, RestoreTypeOK
<1>4. RestoresStay
  BY <1>1, ReturnEffect, Distinct DEF RestoresStay
<1>5. SnapshotsHeld'
  BY <1>4, StayEffect DEF RInv
<1>6. ASSUME ~spoiled'
      PROVE  Handled'
  <2>1. ~spoiled /\ (t \in fresh => Whole)
    BY <1>1, <1>6
  <2>2. Handled
    BY <2>1 DEF RInv
  <2>3. OneRestore' /\ FlagIsUp' /\ SnapshotIsSound'
    BY <1>4, <2>2, StayEffect DEF Handled
  <2>4. FileIsSound'
    BY <1>2, <1>4, <2>2, StayEffect DEF Handled, FileIsSound, Sound, Whole, RestoresStay
  <2>5. HalfWay'
    BY <1>2, <1>4, <2>2 DEF Handled, HalfWay, Whole, RestoresStay
  <2>6. GivenUp' /\ StaleGivenUp'
    BY <1>1, <1>4, <2>1, ReturnGivesUp
  <2>7. t \in unguarded' \/ (t \in fresh /\ NobodyRestores)
                         \/ (t \in fresh /\ t \in Writers)
    BY <1>1, <2>2 DEF Handled, StaleGivenUp, Transactions
  <2>8. RowsInFile'
    BY <1>1, <1>2, <1>4, <2>1, <2>2, <2>7, StayEffect DEF Handled, RowsInFile, Guarded
  <2>9. RowsInSnapshot'
    <3> SUFFICES ASSUME NEW r \in Restores, Taken(r)
                 PROVE  Guarded' \subseteq snapshot[r].rows
      BY <1>4, StayEffect DEF RowsInSnapshot, RestoresStay
    <3>1. Running(r) /\ pc[r] # "drain"
      BY DEF RInv, SnapshotsHeld, Running, RestoreSteps
    <3>2. t \in unguarded'
      BY <1>1, <2>2, <3>1 DEF Handled, GivenUp, WriterSteps, NobodyRestores, Transactions
    <3>3. QED
      BY <1>1, <2>2, <3>2 DEF Handled, RowsInSnapshot, Guarded
  <2>10. QED
    BY <2>3, <2>4, <2>5, <2>6, <2>8, <2>9 DEF Handled
<1>7. QED
  BY <1>3, <1>5, <1>6 DEF RInv

LEMMA ReadKeeps ==
  ASSUME RInv, Read
  PROVE  RInv'
<1>1. /\ UNCHANGED <<up, active, pc, fresh, pooled, db, uploads, snapshot, history>>
      /\ pool' = pool \cup {"fresh"}
  BY DEF Read
<1>2. RestoreTypeOK'
  BY <1>1 DEF RInv, RestoreTypeOK, history
<1>3. RestoresStay
  BY <1>1 DEF RestoresStay
<1>4. ~spoiled => GivenUp' /\ StaleGivenUp'
  BY <1>1 DEF RInv, Handled, GivenUp, StaleGivenUp, Running, history
<1>5. QED
  BY <1>1, <1>2, <1>3, <1>4, StayKeeps DEF history

(***************************************************************************)
(* Steps of a restore.                                                     *)
(***************************************************************************)
\* The restore that is going on is the only one.
LEMMA OnlyOne ==
  ASSUME RInv, ~spoiled, NEW r \in Restores, Running(r)
  PROVE  /\ active
         /\ \A q \in Restores \ {r} : ~Running(q) /\ ~Taken(q) /\ ~Touched(q)
<1>1. OneRestore /\ FlagIsUp /\ SnapshotsHeld
  BY DEF RInv, Handled
<1>2. active
  BY <1>1 DEF FlagIsUp
<1>3. ASSUME NEW q \in Restores \ {r}
      PROVE  ~Running(q) /\ ~Taken(q) /\ ~Touched(q)
  <2>1. ~Running(q)
    BY <1>1 DEF OneRestore
  <2>2. QED
    BY <1>1, <2>1 DEF SnapshotsHeld, Running, RestoreSteps, Touched
<1>4. QED
  BY <1>2, <1>3

\* What is to be shown of the restore r after one of its steps.
HeldBy(r) ==
  /\ Taken(r) => pc[r] \in {"unpack", "overwrite", "copy", "verify", "migrate",
                            "attach", "rollback"}
  /\ pc[r] \in {"unpack", "overwrite", "copy", "verify", "migrate", "attach"} =>
       Taken(r)

HandledBy(r) ==
  /\ ~Touched(r) => Sound /\ Guarded \subseteq db.rows
  /\ pc[r] = "migrate" => Whole
  /\ pc[r] = "attach" => Whole /\ db.schema \in Current
  /\ pc[r] \in {"copy", "verify", "migrate", "attach"} => uploads = "whole"
  /\ Taken(r) => snapshot[r].schema \in Current /\ Guarded \subseteq snapshot[r].rows
  /\ pc[r] # "drain" => \A w \in Writers : pc[w] \in WriterSteps => w \in unguarded
  /\ StaleGivenUp

LEMMA HandledByOne ==
  ASSUME RInv, ~spoiled, NEW r \in Restores, Running(r)
  PROVE  HandledBy(r)
<1>1. Handled
  BY DEF RInv
<1>2. Untouched <=> ~Touched(r)
  BY OnlyOne DEF Untouched
<1>3. QED
  BY <1>1, <1>2
  DEF Handled, HandledBy, FileIsSound, HalfWay, SnapshotIsSound, GivenUp, RowsInFile,
      RowsInSnapshot

\* Only r moves, and only its snapshot changes.
OnlyMoves(r) ==
  /\ \A t \in Threads \ {r} : pc'[t] = pc[t]
  /\ \A q \in Restores \ {r} : snapshot'[q] = snapshot[q]
  /\ UNCHANGED active
  /\ ~spoiled' => ~spoiled

LEMMA OthersStay ==
  ASSUME RInv, NEW r \in Restores, OnlyMoves(r)
  PROVE  /\ \A q \in Restores \ {r} :
              /\ pc'[q] = pc[q]
              /\ Taken(q)' <=> Taken(q)
              /\ Running(q)' <=> Running(q)
              /\ Touched(q)' <=> Touched(q)
         /\ \A w \in Writers : pc'[w] = pc[w]
  BY Distinct DEF OnlyMoves, Taken, Running, Touched

LEMMA OthersHeld ==
  ASSUME RInv, NEW r \in Restores, OnlyMoves(r), HeldBy(r)'
  PROVE  SnapshotsHeld'
<1>1. SnapshotsHeld
  BY DEF RInv
<1>2. QED
  BY <1>1, OthersStay DEF SnapshotsHeld, HeldBy

LEMMA RestoreKeeps ==
  ASSUME RInv, RestoreTypeOK', NEW r \in Restores, Running(r), OnlyMoves(r),
         HeldBy(r)', ~spoiled' => HandledBy(r)'
  PROVE  RInv'
<1>1. SnapshotsHeld'
  BY OthersHeld
<1>2. ASSUME ~spoiled'
      PROVE  Handled'
  <2>1. ~spoiled /\ HandledBy(r)'
    BY <1>2 DEF OnlyMoves
  <2>2. /\ active'
        /\ \A q \in Restores \ {r} : ~Running(q)' /\ ~Taken(q)' /\ ~Touched(q)'
    BY <2>1, OnlyOne, OthersStay DEF OnlyMoves
  <2>3. \A q \in Restores \ {r} : pc'[q] \notin RestoreSteps
    BY <2>2 DEF Running
  <2>4. OneRestore' /\ FlagIsUp'
    BY <2>2 DEF OneRestore, FlagIsUp
  <2>5. Untouched' <=> ~Touched(r)'
    BY <2>2 DEF Untouched
  <2>6. FileIsSound' /\ RowsInFile'
    BY <2>1, <2>5 DEF FileIsSound, RowsInFile, HandledBy
  <2>7. HalfWay'
    BY <2>1, <2>3 DEF HalfWay, HandledBy, RestoreSteps
  <2>8. SnapshotIsSound' /\ RowsInSnapshot'
    BY <2>1, <2>2 DEF SnapshotIsSound, RowsInSnapshot, HandledBy
  <2>9. GivenUp' /\ StaleGivenUp'
    BY <2>1, <2>2 DEF GivenUp, HandledBy
  <2>10. QED
    BY <2>4, <2>6, <2>7, <2>8, <2>9 DEF Handled
<1>3. QED
  BY <1>1, <1>2 DEF RInv

\* A step of a restore to the next one that writes nothing but the flow.
LEMMA FlowKeeps ==
  ASSUME RInv, NEW r \in Restores, Running(r), NEW step \in RestoreSteps, GoTo(r, step),
         UNCHANGED <<up, active, fresh, pooled, pool, db, uploads, snapshot, promised,
                     spoiled>>,
         unguarded \subseteq unguarded', unguarded' \subseteq Transactions,
         HeldBy(r)', ~spoiled => HandledBy(r)'
  PROVE  RInv'
<1>1. /\ pc' \in [Threads -> {"idle", "done", "ended"} \cup RestoreSteps \cup WriterSteps]
      /\ pc'[r] = step
      /\ \A u \in Threads \ {r} : pc'[u] = pc[u]
  BY Distinct, Moves DEF RInv
<1>2. RestoreTypeOK'
  BY <1>1 DEF RInv, RestoreTypeOK
<1>3. OnlyMoves(r)
  BY <1>1 DEF OnlyMoves
<1>4. QED
  BY <1>2, <1>3, RestoreKeeps

\* What a restore shows before it has a snapshot or has touched the file.
LEMMA BeforeTouch ==
  ASSUME RInv, NEW r \in Restores, pc[r] \in {"drain", "open", "snapshot"}
  PROVE  /\ Running(r)
         /\ ~Taken(r)
         /\ ~Touched(r)
  BY DEF RInv, SnapshotsHeld, Running, RestoreSteps, Touched

LEMMA EnterKeeps ==
  ASSUME RInv, NEW r \in Restores, Enter(r)
  PROVE  RInv'
<1>1. /\ pc[r] = "idle"
      /\ active' = TRUE
      /\ spoiled' = (spoiled \/ ~NobodyRestores)
      /\ GoTo(r, "drain")
      /\ UNCHANGED <<up, store, uploads, snapshot, promised, unguarded>>
  BY DEF Enter
<1>2. /\ pc' \in [Threads -> {"idle", "done", "ended"} \cup RestoreSteps \cup WriterSteps]
      /\ pc'[r] = "drain"
      /\ \A u \in Threads \ {r} : pc'[u] = pc[u]
  BY <1>1, Distinct, Moves DEF RInv, RestoreSteps
<1>3. RestoreTypeOK'
  BY <1>1, <1>2 DEF RInv, RestoreTypeOK, store
<1>4. ~Taken(r) /\ ~Touched(r)
  BY <1>1 DEF RInv, SnapshotsHeld, Touched
<1>5. SnapshotsHeld'
  BY <1>1, <1>2, <1>4, Distinct DEF RInv, SnapshotsHeld, Taken
<1>6. ASSUME ~spoiled'
      PROVE  Handled'
  <2>1. ~spoiled /\ NobodyRestores
    BY <1>1, <1>6
  <2>2. Handled /\ Untouched /\ \A q \in Restores : ~Taken(q) /\ ~Running(q)
    BY <2>1, NobodyUntouched DEF RInv, NobodyRestores
  <2>3. \A q \in Restores : ~Taken(q)'
    BY <1>1, <2>2 DEF Taken
  <2>4. \A q \in Restores \ {r} : ~Running(q)' /\ pc'[q] \notin RestoreSteps
    BY <1>2, <2>2, Distinct DEF Running
  <2>5. OneRestore' /\ FlagIsUp'
    BY <1>1, <2>4 DEF OneRestore, FlagIsUp
  <2>6. FileIsSound' /\ RowsInFile'
    BY <1>1, <2>2 DEF Handled, FileIsSound, RowsInFile, Sound, Whole, Guarded, store
  <2>7. HalfWay'
    BY <1>2, <2>4 DEF HalfWay, RestoreSteps
  <2>8. SnapshotIsSound' /\ RowsInSnapshot'
    BY <2>3 DEF SnapshotIsSound, RowsInSnapshot
  <2>9. GivenUp'
    BY <1>2, <2>4 DEF GivenUp
  <2>10. StaleGivenUp'
    BY <1>1, <1>2, <2>2, Distinct DEF Handled, StaleGivenUp, store
  <2>11. QED
    BY <2>5, <2>6, <2>7, <2>8, <2>9, <2>10 DEF Handled
<1>7. QED
  BY <1>3, <1>5, <1>6 DEF RInv

\* When the restore is the only request in flight, no writer is counted.
LEMMA DrainIsEmpty ==
  ASSUME RInv, NEW r \in Restores, Running(r), IsIdle
  PROVE  \A w \in Writers : pc[w] \notin {"counted", "connected"}
<1> SUFFICES ASSUME NEW w \in Writers, pc[w] \in {"counted", "connected"}
             PROVE  FALSE
  OBVIOUS
<1> DEFINE W == {v \in Writers : pc[v] \in {"counted", "connected"}}
           R == {q \in Restores : Running(q)}
<1>1. IsFiniteSet(W) /\ IsFiniteSet(R)
  BY FS_Subset, RestoreAssumption
<1>2. w \in W /\ r \in R
  OBVIOUS
<1>3. Cardinality(W) \in Nat /\ Cardinality(R) \in Nat
  BY <1>1, FS_CardinalityType
<1>4. Cardinality(W) # 0 /\ Cardinality(R) # 0
  BY <1>1, <1>2, FS_EmptySet
<1>5. Cardinality(W) + Cardinality(R) <= 1
  BY DEF IsIdle, InFlight
<1> HIDE DEF W, R
<1>6. QED
  BY <1>3, <1>4, <1>5

LEMMA DrainedKeeps ==
  ASSUME RInv, NEW r \in Restores, Drained(r) \/ GiveUpWaiting(r)
  PROVE  RInv'
<1>1. /\ pc[r] = "drain"
      /\ GoTo(r, "open")
      /\ UNCHANGED <<up, active, store, uploads, snapshot, promised, spoiled>>
      /\ \/ /\ IsIdle
            /\ unguarded' = unguarded \cup {w \in Writers : pc[w] = "admitted"}
         \/ unguarded' = unguarded \cup {w \in Writers : pc[w] \in WriterSteps}
  BY DEF Drained, GiveUpWaiting
<1>2. Running(r) /\ ~Taken(r) /\ ~Touched(r)
  BY <1>1, BeforeTouch
<1>3. /\ unguarded \subseteq unguarded'
      /\ \A w \in Writers : pc[w] \in WriterSteps => w \in unguarded'
      /\ unguarded' \subseteq Transactions
  BY <1>1, <1>2, DrainIsEmpty, Distinct DEF WriterSteps, RInv, RestoreTypeOK
<1>4. /\ pc'[r] = "open"
      /\ \A u \in Threads \ {r} : pc'[u] = pc[u]
  BY <1>1, Distinct, Moves DEF RInv, RestoreSteps
<1>5. ~Taken(r)' /\ ~Touched(r)'
  BY <1>1, <1>2, <1>4 DEF Taken, Touched
<1>6. HeldBy(r)'
  BY <1>4, <1>5 DEF HeldBy
<1>7. ASSUME ~spoiled
      PROVE  HandledBy(r)'
  <2>1. HandledBy(r)
    BY <1>2, <1>7, HandledByOne
  <2>2. StaleGivenUp'
    BY <1>1, <1>3, <1>4, <2>1, Distinct DEF HandledBy, StaleGivenUp, store
  <2>3. Sound' /\ Guarded' \subseteq db'.rows
    BY <1>1, <1>2, <1>3, <2>1 DEF HandledBy, Sound, Whole, Guarded, store
  <2>4. \A w \in Writers : pc'[w] \in WriterSteps => w \in unguarded'
    BY <1>3, <1>4, Distinct
  <2>5. QED
    BY <1>4, <1>5, <2>2, <2>3, <2>4 DEF HandledBy
<1>8. QED
  BY <1>1, <1>2, <1>3, <1>6, <1>7, FlowKeeps DEF RestoreSteps, store

LEMMA LeaveKeeps ==
  ASSUME RInv, NEW r \in Restores, Leave(r)
  PROVE  RInv'
<1>1. /\ pc[r] = "leave"
      /\ active' = FALSE
      /\ GoTo(r, "done")
      /\ UNCHANGED <<up, store, uploads, snapshot, history>>
  BY DEF Leave
<1>2. /\ pc' \in [Threads -> {"idle", "done", "ended"} \cup RestoreSteps \cup WriterSteps]
      /\ pc'[r] = "done"
      /\ \A u \in Threads \ {r} : pc'[u] = pc[u]
  BY <1>1, Distinct, Moves DEF RInv
<1>3. RestoreTypeOK'
  BY <1>1, <1>2 DEF RInv, RestoreTypeOK, store, history
<1>4. Running(r) /\ ~Taken(r) /\ ~Touched(r)
  BY <1>1 DEF RInv, SnapshotsHeld, Running, RestoreSteps, Touched
<1>5. SnapshotsHeld'
  BY <1>1, <1>2, <1>4, Distinct DEF RInv, SnapshotsHeld, Taken
<1>6. ASSUME ~spoiled'
      PROVE  Handled'
  <2>1. ~spoiled
    BY <1>1, <1>6 DEF history
  <2>2. HandledBy(r) /\ \A q \in Restores \ {r} : ~Running(q) /\ ~Taken(q)
    BY <1>4, <2>1, HandledByOne, OnlyOne
  <2>3. \A q \in Restores : pc'[q] \notin RestoreSteps /\ ~Running(q)' /\ ~Taken(q)'
    BY <1>1, <1>2, <1>4, <2>2, Distinct DEF Running, RestoreSteps, Taken
  <2>4. OneRestore' /\ FlagIsUp' /\ SnapshotIsSound' /\ RowsInSnapshot' /\ GivenUp'
    BY <2>3 DEF OneRestore, FlagIsUp, SnapshotIsSound, RowsInSnapshot, GivenUp
  <2>5. HalfWay'
    BY <2>3 DEF HalfWay, RestoreSteps
  <2>6. FileIsSound' /\ RowsInFile'
    BY <1>1, <1>4, <2>2
    DEF HandledBy, FileIsSound, RowsInFile, Sound, Whole, Guarded, store, history
  <2>7. StaleGivenUp'
    BY <1>1, <1>2, <2>2, Distinct DEF HandledBy, StaleGivenUp, store, history
  <2>8. QED
    BY <2>4, <2>5, <2>6, <2>7 DEF Handled
<1>7. QED
  BY <1>3, <1>5, <1>6 DEF RInv

\* A restore that goes on without having written anything.
LEMMA OpenKeeps ==
  ASSUME RInv, NEW r \in Restores, Open(r)
  PROVE  RInv'
<1>1. PICK step \in {"leave", "snapshot"} : GoTo(r, step)
  BY DEF Open
<1>2. /\ pc[r] = "open"
      /\ UNCHANGED <<up, active, store, uploads, snapshot, history>>
  BY DEF Open
<1>3. Running(r) /\ ~Taken(r) /\ ~Touched(r)
  BY <1>2, BeforeTouch
<1>4. /\ pc'[r] = step
      /\ \A u \in Threads \ {r} : pc'[u] = pc[u]
  BY <1>1, Distinct, Moves DEF RInv, RestoreSteps
<1>5. ~Taken(r)' /\ ~Touched(r)'
  BY <1>2, <1>3, <1>4 DEF Taken, Touched
<1>6. HeldBy(r)'
  BY <1>4, <1>5 DEF HeldBy
<1>7. ASSUME ~spoiled
      PROVE  HandledBy(r)'
  <2>1. HandledBy(r)
    BY <1>3, <1>7, HandledByOne
  <2>2. QED
    BY <1>2, <1>3, <1>4, <1>5, <2>1, Distinct
    DEF HandledBy, StaleGivenUp, Sound, Whole, Guarded, store, history
<1>8. QED
  BY <1>1, <1>2, <1>3, <1>6, <1>7, FlowKeeps DEF RestoreSteps, store, history, RInv,
     RestoreTypeOK

LEMMA TakeSnapshotKeeps ==
  ASSUME RInv, NEW r \in Restores, TakeSnapshot(r)
  PROVE  RInv'
<1> DEFINE copy == [rows |-> db.rows, schema |-> db.schema]
<1>1. /\ pc[r] = "snapshot"
      /\ \/ snapshot' = [snapshot EXCEPT ![r] = copy] /\ GoTo(r, "unpack")
         \/ GoTo(r, "rollback") /\ UNCHANGED snapshot
      /\ UNCHANGED <<up, active, store, uploads, history>>
  BY DEF TakeSnapshot
<1>2. Running(r) /\ ~Taken(r) /\ ~Touched(r)
  BY <1>1, BeforeTouch
<1>3. copy \in Snapshot /\ copy # Nothing /\ copy.schema = db.schema /\ copy.rows = db.rows
  BY DEF RInv, RestoreTypeOK, Database, Snapshot, Nothing, Schemas
<1> HIDE DEF copy
<1>4. /\ pc' \in [Threads -> {"idle", "done", "ended"} \cup RestoreSteps \cup WriterSteps]
      /\ \A u \in Threads \ {r} : pc'[u] = pc[u]
      /\ \/ pc'[r] = "unpack" /\ snapshot'[r] = copy
         \/ pc'[r] = "rollback" /\ UNCHANGED snapshot
      /\ \A q \in Restores \ {r} : snapshot'[q] = snapshot[q]
      /\ snapshot' \in [Restores -> Snapshot \cup {Nothing}]
  BY <1>1, <1>3, Distinct, Moves DEF RInv, RestoreSteps, RestoreTypeOK
<1>5. RestoreTypeOK'
  BY <1>1, <1>4 DEF RInv, RestoreTypeOK, store, history
<1>6. OnlyMoves(r)
  BY <1>1, <1>4 DEF OnlyMoves, history
<1>7. /\ ~Touched(r)'
      /\ Taken(r)' => pc'[r] = "unpack" /\ snapshot'[r] = copy
      /\ pc'[r] = "unpack" => Taken(r)'
  BY <1>2, <1>3, <1>4 DEF Touched, Taken
<1>8. HeldBy(r)'
  BY <1>4, <1>7 DEF HeldBy
<1>9. ASSUME ~spoiled
      PROVE  HandledBy(r)'
  <2>1. HandledBy(r)
    BY <1>2, <1>9, HandledByOne
  <2>2. Sound' /\ Guarded' \subseteq db'.rows
    BY <1>1, <1>2, <2>1 DEF HandledBy, Sound, Whole, Guarded, store, history
  <2>3. Taken(r)' => snapshot'[r].schema \in Current /\ Guarded' \subseteq snapshot'[r].rows
    BY <1>1, <1>2, <1>3, <1>7, <2>1 DEF HandledBy, Sound, Guarded, history
  <2>4. \A w \in Writers : pc'[w] \in WriterSteps => w \in unguarded'
    BY <1>1, <1>4, <2>1, Distinct DEF HandledBy, history
  <2>5. StaleGivenUp'
    BY <1>1, <1>4, <2>1, Distinct DEF HandledBy, StaleGivenUp, store, history
  <2>6. QED
    BY <1>4, <2>2, <2>3, <2>4, <2>5 DEF HandledBy
<1>10. QED
  BY <1>1, <1>2, <1>5, <1>6, <1>8, <1>9, RestoreKeeps DEF history

LEMMA UnpackKeeps ==
  ASSUME RInv, NEW r \in Restores, Unpack(r)
  PROVE  RInv'
<1>1. PICK step \in {"overwrite", "rollback"} : GoTo(r, step)
  BY DEF Unpack
<1>2. /\ pc[r] = "unpack"
      /\ UNCHANGED <<up, active, store, uploads, snapshot, history>>
  BY DEF Unpack
<1>3. Running(r) /\ Taken(r) /\ ~Touched(r)
  BY <1>2 DEF RInv, SnapshotsHeld, Running, RestoreSteps, Touched
<1>4. /\ pc'[r] = step
      /\ \A u \in Threads \ {r} : pc'[u] = pc[u]
  BY <1>1, Distinct, Moves DEF RInv, RestoreSteps
<1>5. Taken(r)'
  BY <1>2, <1>3 DEF Taken
<1>6. HeldBy(r)'
  BY <1>4, <1>5 DEF HeldBy
<1>7. ASSUME ~spoiled
      PROVE  HandledBy(r)'
  <2>1. HandledBy(r)
    BY <1>3, <1>7, HandledByOne
  <2>2. QED
    BY <1>2, <1>3, <1>4, <1>5, <2>1, Distinct
    DEF HandledBy, StaleGivenUp, Sound, Whole, Guarded, store, history
<1>8. QED
  BY <1>1, <1>2, <1>3, <1>6, <1>7, FlowKeeps DEF RestoreSteps, store, history, RInv,
     RestoreTypeOK

\* The snapshot answers for the file from here on: everybody who holds a
\* connection was given up.
LEMMA StartOverwriteKeeps ==
  ASSUME RInv, NEW r \in Restores, StartOverwrite(r)
  PROVE  RInv'
<1>1. /\ pc[r] = "overwrite"
      /\ pool' = {} /\ pooled' = {} /\ fresh' = {}
      /\ db' = [db EXCEPT !.content = "torn"]
      /\ GoTo(r, "copy")
      /\ UNCHANGED <<up, active, uploads, snapshot, history>>
  BY DEF StartOverwrite, Dispose
<1>2. Running(r) /\ Taken(r) /\ ~Touched(r)
  BY <1>1 DEF RInv, SnapshotsHeld, Running, RestoreSteps, Touched
<1>3. /\ pc' \in [Threads -> {"idle", "done", "ended"} \cup RestoreSteps \cup WriterSteps]
      /\ pc'[r] = "copy"
      /\ \A u \in Threads \ {r} : pc'[u] = pc[u]
  BY <1>1, Distinct, Moves DEF RInv, RestoreSteps
<1>4. db' \in Database
  <2>1. db = [rows |-> db.rows, schema |-> db.schema, content |-> db.content]
        /\ db \in Database
    BY DEF RInv, RestoreTypeOK, Database
  <2>2. db' = [rows |-> db.rows, schema |-> db.schema, content |-> "torn"]
    BY <1>1, <2>1
  <2>3. QED
    BY <2>1, <2>2 DEF Database
<1>5. RestoreTypeOK'
  BY <1>1, <1>3, <1>4 DEF RInv, RestoreTypeOK, history
<1>6. OnlyMoves(r)
  BY <1>1, <1>3 DEF OnlyMoves, history
<1>7. Taken(r)' /\ Touched(r)'
  BY <1>1, <1>2, <1>3 DEF Taken, Touched
<1>8. HeldBy(r)'
  BY <1>3, <1>7 DEF HeldBy
<1>9. ASSUME ~spoiled
      PROVE  HandledBy(r)'
  <2>1. HandledBy(r)
    BY <1>2, <1>9, HandledByOne
  <2>2. uploads' = "whole"
    BY <1>1, <1>2, <2>1 DEF HandledBy, Sound
  <2>3. \A w \in Writers : pc'[w] \in WriterSteps => w \in unguarded'
    BY <1>1, <1>3, <2>1, Distinct DEF HandledBy, history
  <2>4. StaleGivenUp'
    BY <2>3 DEF StaleGivenUp, WriterSteps
  <2>5. snapshot'[r].schema \in Current /\ Guarded' \subseteq snapshot'[r].rows
    BY <1>1, <1>2, <2>1 DEF HandledBy, Guarded, history
  <2>6. QED
    BY <1>3, <1>7, <2>2, <2>3, <2>4, <2>5 DEF HandledBy
<1>10. QED
  BY <1>1, <1>2, <1>5, <1>6, <1>8, <1>9, RestoreKeeps DEF history

LEMMA EndOverwriteKeeps ==
  ASSUME RInv, NEW r \in Restores, EndOverwrite(r)
  PROVE  RInv'
<1>1. /\ pc[r] = "copy"
      /\ pool' = {} /\ pooled' = {}
      /\ UNCHANGED <<up, active, fresh, uploads, snapshot, history>>
  BY DEF EndOverwrite, Dispose
<1>2. PICK step \in {"verify", "rollback"} : GoTo(r, step)
  BY DEF EndOverwrite
<1>3. db' \in Database
  BY DEF EndOverwrite, BackupSchemas, Database, RInv, RestoreTypeOK
<1>4. Running(r) /\ Taken(r) /\ Touched(r)
  BY <1>1 DEF RInv, SnapshotsHeld, Running, RestoreSteps, Touched
<1>5. /\ pc' \in [Threads -> {"idle", "done", "ended"} \cup RestoreSteps \cup WriterSteps]
      /\ pc'[r] = step
      /\ \A u \in Threads \ {r} : pc'[u] = pc[u]
  BY <1>2, Distinct, Moves DEF RInv, RestoreSteps
<1>6. RestoreTypeOK'
  BY <1>1, <1>3, <1>5 DEF RInv, RestoreTypeOK, history
<1>7. OnlyMoves(r)
  BY <1>1, <1>5 DEF OnlyMoves, history
<1>8. Taken(r)' /\ Touched(r)'
  BY <1>1, <1>4, <1>5 DEF Taken, Touched
<1>9. HeldBy(r)'
  BY <1>5, <1>8 DEF HeldBy
<1>10. ASSUME ~spoiled
       PROVE  HandledBy(r)'
  <2>1. HandledBy(r)
    BY <1>4, <1>10, HandledByOne
  <2>2. QED
    BY <1>1, <1>4, <1>5, <1>8, <2>1, Distinct DEF HandledBy, StaleGivenUp, Guarded, history
<1>11. QED
  BY <1>1, <1>4, <1>6, <1>7, <1>9, <1>10, RestoreKeeps DEF history

LEMMA VerifyKeeps ==
  ASSUME RInv, NEW r \in Restores, Verify(r)
  PROVE  RInv'
<1>1. PICK step \in {"migrate", "rollback"} : GoTo(r, step) /\ (step = "migrate" => Whole)
  BY DEF Verify, Intact
<1>2. /\ pc[r] = "verify"
      /\ UNCHANGED <<up, active, store, uploads, snapshot, history>>
  BY DEF Verify
<1>3. Running(r) /\ Taken(r) /\ Touched(r)
  BY <1>2 DEF RInv, SnapshotsHeld, Running, RestoreSteps, Touched
<1>4. /\ pc'[r] = step
      /\ \A u \in Threads \ {r} : pc'[u] = pc[u]
  BY <1>1, Distinct, Moves DEF RInv, RestoreSteps
<1>5. Taken(r)' /\ Touched(r)'
  BY <1>2, <1>3, <1>4 DEF Taken, Touched
<1>6. HeldBy(r)'
  BY <1>4, <1>5 DEF HeldBy
<1>7. ASSUME ~spoiled
      PROVE  HandledBy(r)'
  <2>1. HandledBy(r)
    BY <1>3, <1>7, HandledByOne
  <2>2. QED
    BY <1>1, <1>2, <1>3, <1>4, <1>5, <2>1, Distinct
    DEF HandledBy, StaleGivenUp, Sound, Whole, Guarded, store, history
<1>8. QED
  BY <1>1, <1>2, <1>3, <1>6, <1>7, FlowKeeps DEF RestoreSteps, store, history, RInv,
     RestoreTypeOK

LEMMA UpgradedIsCurrent == \A schema : Upgraded(schema) \in Current
  BY DEF Upgraded, Current

LEMMA MigrateKeeps ==
  ASSUME RInv, NEW r \in Restores, Migrate(r)
  PROVE  RInv'
<1>1. /\ pc[r] = "migrate"
      /\ UNCHANGED <<up, active, fresh, pooled, pool, uploads, snapshot, history>>
      /\ \/ db' = [db EXCEPT !.schema = Upgraded(db.schema)] /\ GoTo(r, "attach")
         \/ UNCHANGED db /\ GoTo(r, "rollback")
  BY DEF Migrate, RInv, RestoreTypeOK, Database
<1>2. Running(r) /\ Taken(r) /\ Touched(r)
  BY <1>1 DEF RInv, SnapshotsHeld, Running, RestoreSteps, Touched
<1>3. /\ pc' \in [Threads -> {"idle", "done", "ended"} \cup RestoreSteps \cup WriterSteps]
      /\ \A u \in Threads \ {r} : pc'[u] = pc[u]
      /\ \/ pc'[r] = "attach" /\ db' = [db EXCEPT !.schema = Upgraded(db.schema)]
         \/ pc'[r] = "rollback" /\ UNCHANGED db
  BY <1>1, Distinct, Moves DEF RInv, RestoreSteps
<1>4. /\ db' \in Database
      /\ db'.content = db.content
      /\ pc'[r] = "attach" => db'.schema \in Current
  <2>1. db = [rows |-> db.rows, schema |-> db.schema, content |-> db.content]
        /\ db \in Database
    BY DEF RInv, RestoreTypeOK, Database
  <2>2. [db EXCEPT !.schema = Upgraded(db.schema)]
          = [rows |-> db.rows, schema |-> Upgraded(db.schema), content |-> db.content]
    BY <2>1
  <2>3. QED
    BY <1>3, <2>1, <2>2, UpgradedIsCurrent DEF Database, Schemas, Current
<1>5. RestoreTypeOK'
  BY <1>1, <1>3, <1>4 DEF RInv, RestoreTypeOK, history
<1>6. OnlyMoves(r)
  BY <1>1, <1>3 DEF OnlyMoves, history
<1>7. Taken(r)' /\ Touched(r)'
  BY <1>1, <1>2, <1>3 DEF Taken, Touched
<1>8. HeldBy(r)'
  BY <1>3, <1>7 DEF HeldBy
<1>9. ASSUME ~spoiled
      PROVE  HandledBy(r)'
  <2>1. HandledBy(r)
    BY <1>2, <1>9, HandledByOne
  <2>2. Whole'
    BY <1>1, <1>4, <2>1 DEF HandledBy, Whole
  <2>3. QED
    BY <1>1, <1>2, <1>3, <1>4, <1>7, <2>1, <2>2, Distinct
    DEF HandledBy, StaleGivenUp, Guarded, history
<1>10. QED
  BY <1>1, <1>2, <1>5, <1>6, <1>8, <1>9, RestoreKeeps DEF history

LEMMA AttachKeeps ==
  ASSUME RInv, NEW r \in Restores, Attach(r)
  PROVE  RInv'
<1>1. /\ pc[r] = "attach"
      /\ UNCHANGED <<up, active, store, unguarded, spoiled>>
      /\ \/ /\ uploads' \in {uploads, "whole"}
            /\ GoTo(r, "leave")
            /\ promised' = promised \cap db.rows
            /\ snapshot' = [snapshot EXCEPT ![r] = Nothing]
         \/ /\ uploads' = "partial"
            /\ GoTo(r, "rollback")
            /\ UNCHANGED <<promised, snapshot>>
  BY DEF Attach
<1>2. Running(r) /\ Taken(r) /\ Touched(r)
  BY <1>1 DEF RInv, SnapshotsHeld, Running, RestoreSteps, Touched
<1>3. /\ pc' \in [Threads -> {"idle", "done", "ended"} \cup RestoreSteps \cup WriterSteps]
      /\ \A u \in Threads \ {r} : pc'[u] = pc[u]
      /\ snapshot' \in [Restores -> Snapshot \cup {Nothing}]
      /\ \A q \in Restores \ {r} : snapshot'[q] = snapshot[q]
      /\ \/ /\ pc'[r] = "leave" /\ snapshot'[r] = Nothing
            /\ promised' = promised \cap db.rows
            /\ uploads' \in {uploads, "whole"}
         \/ /\ pc'[r] = "rollback"
            /\ UNCHANGED <<promised, snapshot>>
  BY <1>1, Distinct, Moves DEF RInv, RestoreSteps, RestoreTypeOK
<1>4. RestoreTypeOK'
  BY <1>1, <1>3 DEF RInv, RestoreTypeOK, store
<1>5. OnlyMoves(r)
  BY <1>1, <1>3 DEF OnlyMoves
<1>6. CASE pc'[r] = "leave"
  <2>1. /\ snapshot'[r] = Nothing
        /\ promised' = promised \cap db.rows
        /\ uploads' \in {uploads, "whole"}
    BY <1>3, <1>6
  <2>2. ~Taken(r)' /\ ~Touched(r)'
    BY <1>6, <2>1 DEF Taken, Touched
  <2>3. HeldBy(r)'
    BY <1>6, <2>2 DEF HeldBy
  <2>4. ASSUME ~spoiled
        PROVE  HandledBy(r)'
    <3>1. HandledBy(r)
      BY <1>2, <2>4, HandledByOne
    <3>2. Sound'
      BY <1>1, <2>1, <3>1 DEF HandledBy, Sound, Whole, store
    <3>3. Guarded' \subseteq db'.rows
      BY <1>1, <2>1 DEF Guarded, store
    <3>4. QED
      BY <1>1, <1>3, <1>6, <2>2, <3>1, <3>2, <3>3, Distinct
      DEF HandledBy, StaleGivenUp, store
  <2>5. QED
    BY <1>1, <1>2, <1>4, <1>5, <2>3, <2>4, RestoreKeeps
<1>7. CASE pc'[r] = "rollback"
  <2>1. UNCHANGED <<promised, snapshot>>
    BY <1>3, <1>7
  <2>2. Taken(r)' /\ Touched(r)'
    BY <1>2, <1>7, <2>1 DEF Taken, Touched
  <2>3. HeldBy(r)'
    BY <1>7, <2>2 DEF HeldBy
  <2>4. ASSUME ~spoiled
        PROVE  HandledBy(r)'
    <3>1. HandledBy(r)
      BY <1>2, <2>4, HandledByOne
    <3>2. QED
      BY <1>1, <1>2, <1>3, <1>7, <2>1, <2>2, <3>1, Distinct
      DEF HandledBy, StaleGivenUp, Guarded, store
  <2>5. QED
    BY <1>1, <1>2, <1>4, <1>5, <2>3, <2>4, RestoreKeeps
<1>8. QED
  BY <1>3, <1>6, <1>7

\* What was put aside is what was promised.
LEMMA RollbackKeeps ==
  ASSUME RInv, NEW r \in Restores, Rollback(r)
  PROVE  RInv'
<1>1. /\ pc[r] = "rollback"
      /\ snapshot' = [snapshot EXCEPT ![r] = Nothing]
      /\ GoTo(r, "leave")
      /\ UNCHANGED <<up, active, promised, unguarded>>
  BY DEF Rollback
<1>2. CASE ~Taken(r)
  <2>1. UNCHANGED <<store, uploads, spoiled>>
    BY <1>2 DEF Rollback
  <2>2. UNCHANGED snapshot
    BY <1>1, <1>2 DEF Taken, RInv, RestoreTypeOK
  <2>3. Running(r) /\ ~Touched(r)
    BY <1>1, <1>2 DEF Running, RestoreSteps, Touched
  <2>4. /\ pc'[r] = "leave"
        /\ \A u \in Threads \ {r} : pc'[u] = pc[u]
    BY <1>1, Distinct, Moves DEF RInv, RestoreSteps
  <2>5. ~Taken(r)' /\ ~Touched(r)'
    BY <1>2, <2>2, <2>4 DEF Taken, Touched
  <2>6. HeldBy(r)'
    BY <2>4, <2>5 DEF HeldBy
  <2>7. ASSUME ~spoiled
        PROVE  HandledBy(r)'
    <3>1. HandledBy(r)
      BY <2>3, <2>7, HandledByOne
    <3>2. QED
      BY <1>1, <2>1, <2>3, <2>4, <2>5, <3>1, Distinct
      DEF HandledBy, StaleGivenUp, Sound, Whole, Guarded, store
  <2>8. QED
    BY <1>1, <2>1, <2>2, <2>3, <2>6, <2>7, FlowKeeps DEF RestoreSteps, store, RInv,
       RestoreTypeOK
<1>3. CASE Taken(r)
  <2>1. /\ db' = [rows |-> snapshot[r].rows, schema |-> snapshot[r].schema,
                  content |-> "whole"]
        /\ uploads' = "whole"
        /\ \/ pool' = {"stale" : k \in pool} /\ fresh' = {}
           \/ UNCHANGED <<pool, fresh>>
        /\ UNCHANGED pooled
        /\ spoiled' \in {spoiled, spoiled \/ Connected}
    BY <1>3 DEF Rollback
  <2>2. Running(r) /\ Touched(r)
    BY <1>1, <1>3 DEF Running, RestoreSteps, Touched
  <2>3. snapshot[r] \in Snapshot
    BY <1>3 DEF RInv, RestoreTypeOK, Taken
  <2>4. /\ pc' \in [Threads -> {"idle", "done", "ended"} \cup RestoreSteps \cup WriterSteps]
        /\ pc'[r] = "leave"
        /\ \A u \in Threads \ {r} : pc'[u] = pc[u]
        /\ snapshot' \in [Restores -> Snapshot \cup {Nothing}]
        /\ snapshot'[r] = Nothing
        /\ \A q \in Restores \ {r} : snapshot'[q] = snapshot[q]
    BY <1>1, Distinct, Moves DEF RInv, RestoreSteps, RestoreTypeOK
  <2>5. spoiled' \in BOOLEAN /\ (spoiled => spoiled')
    BY <2>1 DEF RInv, RestoreTypeOK
  <2>6. RestoreTypeOK'
    <3>1. db' \in Database
      BY <2>1, <2>3 DEF Database, Snapshot
    <3>2. pool' \in SUBSET {"fresh", "stale"} /\ fresh' \in SUBSET Transactions
      BY <2>1 DEF RInv, RestoreTypeOK
    <3>3. QED
      BY <1>1, <2>1, <2>4, <2>5, <3>1, <3>2 DEF RInv, RestoreTypeOK
  <2>7. OnlyMoves(r)
    BY <1>1, <2>4, <2>5 DEF OnlyMoves
  <2>8. ~Taken(r)' /\ ~Touched(r)'
    BY <2>4 DEF Taken, Touched
  <2>9. HeldBy(r)'
    BY <2>4, <2>8 DEF HeldBy
  <2>10. ASSUME ~spoiled'
         PROVE  HandledBy(r)'
    <3>1. HandledBy(r)
      BY <2>2, <2>5, <2>10, HandledByOne
    <3>2. Sound' /\ Guarded' \subseteq db'.rows
      BY <1>1, <1>3, <2>1, <3>1 DEF HandledBy, Sound, Whole, Guarded
    <3>3. \A w \in Writers : pc'[w] \in WriterSteps => w \in unguarded'
      BY <1>1, <2>4, <3>1, Distinct DEF HandledBy
    <3>4. StaleGivenUp'
      BY <3>3 DEF StaleGivenUp, WriterSteps
    <3>5. QED
      BY <2>4, <2>8, <3>2, <3>3, <3>4 DEF HandledBy
  <2>11. QED
    BY <2>2, <2>6, <2>7, <2>9, <2>10, RestoreKeeps
<1>4. QED
  BY <1>2, <1>3

LEMMA FailRollbackKeeps ==
  ASSUME RInv, NEW r \in Restores, FailRollback(r)
  PROVE  RInv'
<1>1. /\ pc[r] = "rollback"
      /\ spoiled' = TRUE
      /\ snapshot' = [snapshot EXCEPT ![r] = Nothing]
      /\ GoTo(r, "leave")
      /\ UNCHANGED <<up, active, store, uploads, promised, unguarded>>
  BY DEF FailRollback
<1>2. /\ pc' \in [Threads -> {"idle", "done", "ended"} \cup RestoreSteps \cup WriterSteps]
      /\ pc'[r] = "leave"
      /\ \A u \in Threads \ {r} : pc'[u] = pc[u]
      /\ snapshot' \in [Restores -> Snapshot \cup {Nothing}]
      /\ snapshot'[r] = Nothing
      /\ \A q \in Restores \ {r} : snapshot'[q] = snapshot[q]
  BY <1>1, Distinct, Moves DEF RInv, RestoreSteps, RestoreTypeOK
<1>3. RestoreTypeOK'
  BY <1>1, <1>2 DEF RInv, RestoreTypeOK, store
<1>4. SnapshotsHeld'
  BY <1>2, Distinct DEF RInv, SnapshotsHeld, Taken
<1>5. QED
  BY <1>1, <1>3, <1>4 DEF RInv

(***************************************************************************)
(* The end of the process, and its start.                                  *)
(***************************************************************************)
LEMMA CrashKeeps ==
  ASSUME RInv, Crash
  PROVE  RInv'
<1>1. /\ up' = FALSE
      /\ active' = FALSE
      /\ pc' = [t \in Threads |-> IF pc[t] = "idle" THEN "idle" ELSE "ended"]
      /\ pool' = {} /\ pooled' = {} /\ fresh' = {}
      /\ snapshot' = [r \in Restores |-> Nothing]
      /\ spoiled' = (spoiled \/ \E r \in Restores : pc[r] \in Replacing /\ Taken(r))
      /\ UNCHANGED <<db, uploads, promised, unguarded>>
  BY DEF Crash, Dispose
<1>2. /\ \A t \in Threads : pc'[t] \in {"idle", "ended"}
      /\ \A r \in Restores : ~Taken(r)' /\ ~Running(r)' /\ ~Touched(r)'
  BY <1>1, Distinct DEF Taken, Running, RestoreSteps, Touched
<1>3. RestoreTypeOK'
  BY <1>1 DEF RInv, RestoreTypeOK
<1>4. SnapshotsHeld'
  BY <1>2, Distinct DEF SnapshotsHeld
<1>5. ASSUME ~spoiled'
      PROVE  Handled'
  <2>1. ~spoiled /\ \A r \in Restores : ~(pc[r] \in Replacing /\ Taken(r))
    BY <1>1, <1>5
  <2>2. Untouched /\ Handled
    BY <2>1 DEF RInv, SnapshotsHeld, Untouched, Touched, Replacing
  <2>3. OneRestore' /\ FlagIsUp' /\ SnapshotIsSound' /\ RowsInSnapshot' /\ GivenUp'
    BY <1>2 DEF OneRestore, FlagIsUp, SnapshotIsSound, RowsInSnapshot, GivenUp
  <2>4. HalfWay'
    BY <1>2, Distinct DEF HalfWay
  <2>5. FileIsSound' /\ RowsInFile'
    BY <1>1, <2>2 DEF Handled, FileIsSound, RowsInFile, Sound, Whole, Guarded
  <2>6. StaleGivenUp'
    BY <1>2, Distinct DEF StaleGivenUp
  <2>7. QED
    BY <2>3, <2>4, <2>5, <2>6 DEF Handled
<1>6. QED
  BY <1>3, <1>4, <1>5 DEF RInv

LEMMA RestartKeeps ==
  ASSUME RInv, Restart
  PROVE  RInv'
<1>1. /\ up' = TRUE
      /\ db' = [db EXCEPT !.schema = Upgraded(db.schema)]
      /\ UNCHANGED <<active, pc, fresh, pooled, pool, uploads, snapshot, history>>
  BY DEF Restart, RInv, RestoreTypeOK, Database
<1>2. /\ db' \in Database
      /\ db'.content = db.content /\ db'.rows = db.rows /\ db'.schema \in Current
  <2>1. db = [rows |-> db.rows, schema |-> db.schema, content |-> db.content]
        /\ db \in Database
    BY DEF RInv, RestoreTypeOK, Database
  <2>2. db' = [rows |-> db.rows, schema |-> Upgraded(db.schema), content |-> db.content]
    BY <1>1, <2>1
  <2>3. QED
    BY <2>1, <2>2, UpgradedIsCurrent DEF Database, Schemas, Current
<1>3. RestoreTypeOK'
  BY <1>1, <1>2 DEF RInv, RestoreTypeOK, history
<1>4. RestoresStay
  BY <1>1 DEF RestoresStay
<1>5. SnapshotsHeld'
  BY <1>4, StayEffect DEF RInv
<1>6. ASSUME ~spoiled'
      PROVE  Handled'
  <2>1. Handled
    BY <1>1, <1>6 DEF RInv, history
  <2>2. OneRestore' /\ FlagIsUp' /\ SnapshotIsSound'
    BY <1>4, <2>1, StayEffect DEF Handled
  <2>3. FileIsSound' /\ HalfWay'
    BY <1>1, <1>2, <1>4, <2>1, StayEffect DEF Handled, FileIsSound, HalfWay, Sound, Whole
  <2>4. GivenUp' /\ StaleGivenUp'
    BY <1>1, <2>1 DEF Handled, GivenUp, StaleGivenUp, Running, history
  <2>5. RowsInFile' /\ RowsInSnapshot'
    BY <1>1, <1>2, <1>4, <2>1, StayEffect
    DEF Handled, RowsInFile, RowsInSnapshot, Guarded, history
  <2>6. QED
    BY <2>2, <2>3, <2>4, <2>5 DEF Handled
<1>7. QED
  BY <1>3, <1>5, <1>6 DEF RInv

LEMMA RInvStep ==
  ASSUME RInv, [RestoreNext]_rvars
  PROVE  RInv'
<1>1. CASE UNCHANGED rvars
  BY <1>1
  DEF rvars, store, history, RInv, RestoreTypeOK, SnapshotsHeld, Handled, OneRestore,
      FlagIsUp, FileIsSound, HalfWay, SnapshotIsSound, GivenUp, StaleGivenUp, RowsInFile,
      RowsInSnapshot, Sound, Whole, Guarded, Untouched, Touched, Taken, Running
<1>2. ASSUME NEW t \in Transactions, Transact(t)
      PROVE  RInv'
  BY <1>2, CheckoutKeeps, CommitKeeps, FailWriteKeeps DEF Transact
<1>3. ASSUME NEW w \in Writers, Request(w)
      PROVE  RInv'
  BY <1>3, AdmitKeeps, CountKeeps DEF Request
<1>4. ASSUME NEW r \in Restores, Enter(r) \/ Restoring(r)
      PROVE  RInv'
  BY <1>4, EnterKeeps, DrainedKeeps, LeaveKeeps, OpenKeeps, TakeSnapshotKeeps,
     UnpackKeeps, StartOverwriteKeeps, EndOverwriteKeeps, VerifyKeeps, MigrateKeeps,
     AttachKeeps, RollbackKeeps, FailRollbackKeeps DEF Restoring
<1>5. CASE Read \/ Crash \/ Restart
  BY <1>5, ReadKeeps, CrashKeeps, RestartKeeps
<1>6. QED
  BY <1>1, <1>2, <1>3, <1>4, <1>5 DEF RestoreNext

(***************************************************************************)
(* Theorems.                                                               *)
(***************************************************************************)
(* The invariant holds of every behaviour.                                  *)
LEMMA RInvAlways == RestoreSpec => []RInv
<1>1. RInv /\ [RestoreNext]_rvars => RInv'
  BY RInvStep
<1>2. QED
  BY <1>1, RInvInit, PTL DEF RestoreSpec

(* Flag, threads, connections, file and snapshots have their types.         *)
THEOREM RestoreTypes == RestoreSpec => []RestoreTypeOK
<1>1. RInv => RestoreTypeOK
  BY DEF RInv
<1>2. QED
  BY <1>1, RInvAlways, PTL

(* However restores fail and processes end, every acknowledged write the    *)
(* window answers for is in the database when no restore is going on,       *)
(* unless a restore that succeeded took it back (maintenance_window,        *)
(* _rollback_to_snapshots).                                                 *)
THEOREM PromisesKept == RestoreSpec => []AcknowledgedWritesStay
<1>1. RInv => AcknowledgedWritesStay
  BY NobodyUntouched DEF RInv, Handled, RowsInFile, Guarded, AcknowledgedWritesStay
<1>2. QED
  BY <1>1, RInvAlways, PTL

(* However restores fail, a running process in which none is going on has a *)
(* whole database of the current version and whole attachments              *)
(* (_restore_backup_impl).                                                  *)
THEOREM UsableAgain == RestoreSpec => []UsableAfterRestore
<1>1. RInv => UsableAfterRestore
  BY NobodyUntouched DEF RInv, Handled, FileIsSound, Sound, UsableAfterRestore
<1>2. QED
  BY <1>1, RInvAlways, PTL
=============================================================================
