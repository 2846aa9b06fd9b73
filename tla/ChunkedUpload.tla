---------------------------- MODULE ChunkedUpload ----------------------------
(***************************************************************************)
(* Chunked uploads: backend/app/services/chunked_upload_service.py.        *)
(*                                                                         *)
(* The sessions are kept in memory and the requests are coroutines of one  *)
(* event loop, so a step here is what runs between two awaits; the opens,  *)
(* reads and writes of files are awaited.  A request holds its session     *)
(* object, which may have changed, or have been deleted, when it resumes.  *)
(* The cleanup, every half hour, runs in a thread of its own and takes its *)
(* steps also while the loop is in the middle of one of its own (LoopFree).*)
(*                                                                         *)
(* A merge lock is an object too.  It leaves the table of locks with its   *)
(* session, whoever holds it then, and a request that asks for the lock of *)
(* the session afterwards is given another one.                            *)
(***************************************************************************)
EXTENDS Naturals, FiniteSets

CONSTANTS
  Clients,      \* requests in progress at a time
  MaxIds,       \* bound: sessions ever created, numbered by creation
  NumChunks,    \* total_chunks of every session
  MaxSessions   \* sessions kept; the oldest is evicted beyond (MAX_SESSIONS)

ASSUME UploadAssumption ==
  /\ MaxIds \in Nat
  /\ NumChunks \in Nat \ {0}
  /\ MaxSessions \in Nat \ {0}

VARIABLES
  session,   \* the session objects: status and chunks that have arrived
  listed,    \* sessions in the table of sessions
  old,       \* sessions past their expiry
  dir,       \* sessions whose directory of chunks exists
  chunk,     \* the chunk files
  final,     \* the merged files
  lock,      \* the merge locks that are held
  req,       \* what each client is doing
  cleaning,  \* the session the cleanup has removed the chunks of, if any
  undercut   \* auxiliary: sessions it deleted between the checks of a merge
             \* and the lock the merge asks for

uvars == <<session, listed, old, dir, chunk, final, lock, req, cleaning, undercut>>

Sessions == 1..MaxIds
Chunks == 1..NumChunks
NoSession == 0

SessionStatus == {"pending", "uploading", "merging", "merged", "failed", "expired"}
Session == [status : SessionStatus, uploaded : SUBSET Chunks]
Unborn == [status |-> "absent", uploaded |-> {}]
New == [status |-> "pending", uploaded |-> {}]

\* A chunk file is truncated when it is opened and whole when it is written.
ChunkFile == {"missing", "partial", "whole"}
\* A merged file: how many chunks it holds, and whether all of them were whole;
\* what two merges write to one file, each at its own place, can be anything.
FinalFile == [read : 0..NumChunks, content : {"whole", "torn", "mixed"}]
NoFinal == [read |-> 0, content |-> "torn"]
Whole == [read |-> NumChunks, content |-> "whole"]
Mixed == [read |-> 0, content |-> "mixed"]

\* _get_session_lock: the table has one lock of a session as long as the session
\* is listed, and makes another one after that.
Lock == Sessions \X BOOLEAN
LockOf(s) == <<s, s \in listed>>

Idle == [op |-> "idle"]
UploadRequest ==
  [op : {"open", "write", "unlinked", "finish"}, id : Sessions, index : Chunks]
AskRequest == [op : {"locking"}, id : Sessions]
MergeRequest ==
  [op : {"create", "copy", "check"}, id : Sessions, lock : Lock, next : Chunks]
IsMerge(c) == req[c].op \in {"create", "copy", "check"}
Merging(s) == {c \in Clients : IsMerge(c) /\ req[c].id = s}
Asks(s) == \E c \in Clients : req[c].op = "locking" /\ req[c].id = s
Answer(c) == req' = [req EXCEPT ![c] = Idle]
Step(c, op) == req' = [req EXCEPT ![c].op = op]

UploadInit ==
  /\ session = [s \in Sessions |-> Unborn]
  /\ listed = {}
  /\ old = {}
  /\ dir = {}
  /\ chunk = [s \in Sessions |-> [i \in Chunks |-> "missing"]]
  /\ final = [s \in Sessions |-> NoFinal]
  /\ lock = {}
  /\ req = [c \in Clients |-> Idle]
  /\ cleaning = NoSession
  /\ undercut = {}

(***************************************************************************)
(* Sessions.                                                               *)
(***************************************************************************)
\* get_session marks what is past its expiry, whatever its status.
Looked(s) == IF s \in old THEN [session[s] EXCEPT !.status = "expired"]
             ELSE session[s]

\* rmtree of directories of chunks: a chunk being written is unlinked, and what
\* is still written to it is lost.
Removed(gone) ==
  chunk' = [s \in Sessions |-> IF s \in gone THEN [i \in Chunks |-> "missing"]
                               ELSE chunk[s]]

Unlinked(gone) ==
  req' = [c \in Clients |-> IF req[c].op = "write" /\ req[c].id \in gone
                            THEN [req[c] EXCEPT !.op = "unlinked"] ELSE req[c]]

Oldest(S) == {s \in S : \A t \in S : s <= t}

\* Mutant: a session is listed before it has a status.
CreateSessionBare(s) ==
  /\ \A t \in Sessions : session[t] # Unborn <=> t < s
  /\ listed' = listed \cup {s}
  /\ UNCHANGED <<session, old, dir, chunk, final, lock, req, cleaning, undercut>>

\* create_session: the oldest session is evicted when there are too many.
CreateSession(s) ==
  LET evicted == IF Cardinality(listed) < MaxSessions THEN {} ELSE Oldest(listed) IN
  /\ \A t \in Sessions : session[t] # Unborn <=> t < s
  /\ session' = [session EXCEPT ![s] = New]
  /\ listed' = (listed \ evicted) \cup {s}
  /\ Removed(evicted)
  /\ Unlinked(evicted)
  /\ dir' = dir \ evicted
  /\ UNCHANGED <<old, final, lock, cleaning, undercut>>

\* delete_session on behalf of the user: the chunks, the entry and, with the
\* entry, the lock in the table (LockOf); whoever holds the lock keeps it.
DeleteSession(s) ==
  /\ s \in listed
  /\ session' = [session EXCEPT ![s] = Looked(s)]
  /\ listed' = listed \ {s}
  /\ Removed({s})
  /\ Unlinked({s})
  /\ dir' = dir \ {s}
  /\ UNCHANGED <<old, final, lock, cleaning, undercut>>

\* get_session for any other request (progress): only the mark of expiry.
GetSession(s) ==
  /\ s \in listed
  /\ session' = [session EXCEPT ![s] = Looked(s)]
  /\ UNCHANGED <<listed, old, dir, chunk, final, lock, req, cleaning, undercut>>

\* cleanup_expired_sessions, beside the event loop: delete_session takes the
\* chunks, then the entry, with the lock; the entry may be gone by then.
CleanChunks(s) ==
  /\ cleaning = NoSession
  /\ s \in listed
  /\ s \in old
  /\ Removed({s})
  /\ Unlinked({s})
  /\ dir' = dir \ {s}
  /\ cleaning' = s
  /\ UNCHANGED <<session, listed, old, final, lock, undercut>>

CleanSession ==
  /\ cleaning # NoSession
  /\ listed' = listed \ {cleaning}
  /\ cleaning' = NoSession
  /\ undercut' = IF Asks(cleaning) THEN undercut \cup {cleaning} ELSE undercut
  /\ UNCHANGED <<session, old, dir, chunk, final, lock, req>>

\* Time: 24 hours after the creation.
Age(s) ==
  /\ session[s] # Unborn
  /\ s \notin old
  /\ old' = old \cup {s}
  /\ UNCHANGED <<session, listed, dir, chunk, final, lock, req, cleaning, undercut>>

(***************************************************************************)
(* upload_chunk                                                            *)
(***************************************************************************)
\* A chunk of the right size and hash; a refusal leaves the mark of expiry.
UploadChunk(c, s, i) ==
  LET now == Looked(s) IN
  /\ req[c] = Idle
  /\ s \in listed
  /\ session' = [session EXCEPT ![s] = now]
  /\ IF now.status \in {"expired", "merged", "merging"} THEN UNCHANGED <<dir, req>>
     ELSE /\ dir' = dir \cup {s}
          /\ req' = [req EXCEPT ![c] = [op |-> "open", id |-> s, index |-> i]]
  /\ UNCHANGED <<listed, old, chunk, final, lock, cleaning, undercut>>

\* The open fails when the directory was removed meanwhile.
OpenChunk(c) ==
  LET r == req[c] IN
  /\ r.op = "open"
  /\ IF r.id \in dir
     THEN chunk' = [chunk EXCEPT ![r.id][r.index] = "partial"] /\ Step(c, "write")
     ELSE UNCHANGED chunk /\ Answer(c)
  /\ UNCHANGED <<session, listed, old, dir, final, lock, cleaning, undercut>>

WriteChunk(c, ok) ==
  LET r == req[c] IN
  /\ r.op \in {"write", "unlinked"}
  /\ IF ok THEN Step(c, "finish") ELSE Answer(c)
  /\ IF ok /\ r.op = "write" THEN chunk' = [chunk EXCEPT ![r.id][r.index] = "whole"]
     ELSE UNCHANGED chunk
  /\ UNCHANGED <<session, listed, old, dir, final, lock, cleaning, undercut>>

\* The status is set whatever it has become.
FinishChunk(c) ==
  LET r == req[c] IN
  /\ r.op = "finish"
  /\ session' = [session EXCEPT ![r.id] =
                    [status |-> "uploading", uploaded |-> @.uploaded \cup {r.index}]]
  /\ Answer(c)
  /\ UNCHANGED <<listed, old, dir, chunk, final, lock, cleaning, undercut>>

(***************************************************************************)
(* merge_chunks                                                            *)
(***************************************************************************)
\* Mutant: a session that was merged is merged again.
MayMergeAgain(status) == status # "merging"

MayMerge(status) == status \notin {"merged", "merging"}

\* merge_chunks up to the lock: a merge that is refused, or that was done, leaves
\* the mark of expiry.
MergeChunks(c, s) ==
  LET now == Looked(s) IN
  /\ req[c] = Idle
  /\ s \in listed
  /\ session' = [session EXCEPT ![s] = now]
  /\ req' = IF now.uploaded = Chunks /\ MayMerge(now.status)
            THEN [req EXCEPT ![c] = [op |-> "locking", id |-> s]] ELSE req
  /\ UNCHANGED <<listed, old, dir, chunk, final, lock, cleaning, undercut>>

\* Mutant: only the status keeps a second merge out.
MayLockByStatus(s) == MayMerge(session[s].status)

\* _acquire_merge_lock: the lock is tried, not waited for, and the status is
\* looked at again.
MayLock(s) == LockOf(s) \notin lock /\ MayMerge(session[s].status)

AcquireLock(c) ==
  LET s == req[c].id IN
  /\ req[c].op = "locking"
  /\ IF MayLock(s)
     THEN /\ session' = [session EXCEPT ![s].status = "merging"]
          /\ lock' = lock \cup {LockOf(s)}
          /\ req' = [req EXCEPT ![c] = [op |-> "create", id |-> s,
                                       lock |-> LockOf(s), next |-> 1]]
     ELSE Answer(c) /\ UNCHANGED <<session, lock>>
  /\ UNCHANGED <<listed, old, dir, chunk, final, cleaning, undercut>>

\* Opening the merged file empties it, also under a merge that has it open.
CreateFinal(c) ==
  LET s == req[c].id IN
  /\ req[c].op = "create"
  /\ final' = [final EXCEPT ![s] = IF Merging(s) = {c}
                                  THEN [read |-> 0, content |-> "whole"]
                                  ELSE Mixed]
  /\ Step(c, "copy")
  /\ UNCHANGED <<session, listed, old, dir, chunk, lock, cleaning, undercut>>

\* Mutant: the status is left at merging.
GiveUpMergingStays(c) ==
  /\ lock' = lock \ {req[c].lock}
  /\ Answer(c)
  /\ UNCHANGED session

GiveUp(c) ==
  /\ session' = [session EXCEPT ![req[c].id].status = "failed"]
  /\ lock' = lock \ {req[c].lock}
  /\ Answer(c)

\* The file f with one more chunk, the i-th, in state file.
Extended(f, i, file) ==
  IF f.content = "mixed" THEN f
  ELSE [read |-> i, content |-> IF file = "whole" THEN f.content ELSE "torn"]

\* The next chunk; asking for its path creates the directory again.
CopyChunk(c) ==
  LET s == req[c].id
      i == req[c].next
  IN
  /\ req[c].op = "copy"
  /\ chunk[s][i] # "missing"
  /\ final' = [final EXCEPT ![s] = Extended(@, i, chunk[s][i])]
  /\ IF i = NumChunks THEN Step(c, "check")
     ELSE req' = [req EXCEPT ![c].next = i + 1]
  /\ dir' = dir \cup {s}
  /\ UNCHANGED <<session, listed, old, chunk, lock, cleaning, undercut>>

\* A chunk is missing, or an open, a read or a write fails.
FailMerge(c) ==
  /\ IsMerge(c)
  /\ dir' = IF req[c].op = "copy" THEN dir \cup {req[c].id} ELSE dir
  /\ GiveUp(c)
  /\ UNCHANGED <<listed, old, chunk, final, cleaning, undercut>>

\* Mutant: the size of the merged file is not compared.
PassesAlways(s) == {TRUE}

\* Size and hash: a chunk that was not whole makes the merged file too short, and
\* what two merges have written may or may not be found out.
Passes(s) == IF final[s].content = "mixed" THEN BOOLEAN ELSE {final[s] = Whole}

\* The size and the hash are compared, then the chunks are removed.
CheckFinal(c, passed) ==
  LET s == req[c].id IN
  /\ req[c].op = "check"
  /\ passed \in Passes(s)
  /\ IF passed
     THEN /\ session' = [session EXCEPT ![s].status = "merged"]
          /\ lock' = lock \ {req[c].lock}
          /\ req' = [d \in Clients |->
                       CASE d = c -> Idle
                         [] req[d].op = "write" /\ req[d].id = s ->
                              [req[d] EXCEPT !.op = "unlinked"]
                         [] OTHER -> req[d]]
          /\ Removed({s})
          /\ dir' = dir \ {s}
     ELSE GiveUp(c) /\ UNCHANGED <<chunk, dir>>
  /\ UNCHANGED <<listed, old, final, cleaning, undercut>>

(***************************************************************************)
(* Next-state relation.                                                    *)
(***************************************************************************)
Upload(c) ==
  \/ \E s \in Sessions, i \in Chunks : UploadChunk(c, s, i)
  \/ OpenChunk(c) \/ FinishChunk(c)
  \/ \E ok \in BOOLEAN : WriteChunk(c, ok)

Merge(c) ==
  \/ \E s \in Sessions : MergeChunks(c, s)
  \/ CreateFinal(c) \/ CopyChunk(c) \/ FailMerge(c)
  \/ \E passed \in BOOLEAN : CheckFinal(c, passed)

\* There is no await between the checks of a merge and its lock: the event loop
\* does nothing else in between, while the cleanup and the clock go on.
LoopFree == \A c \in Clients : req[c].op # "locking"

UploadNext ==
  \/ \E s \in Sessions : CleanChunks(s) \/ Age(s)
  \/ CleanSession
  \/ \E c \in Clients : AcquireLock(c)
  \/ /\ LoopFree
     /\ \/ \E s \in Sessions : CreateSession(s) \/ DeleteSession(s) \/ GetSession(s)
        \/ \E c \in Clients : Upload(c) \/ Merge(c)

UploadSpec == UploadInit /\ [][UploadNext]_uvars

(* Every session, file and request has its type. *)
UploadTypeOK ==
  /\ session \in [Sessions -> Session \cup {Unborn}]
  /\ listed \in SUBSET {s \in Sessions : session[s] # Unborn}
  /\ old \in SUBSET Sessions
  /\ dir \in SUBSET Sessions
  /\ chunk \in [Sessions -> [Chunks -> ChunkFile]]
  /\ final \in [Sessions -> FinalFile]
  /\ lock \in SUBSET Lock
  /\ req \in [Clients -> {Idle} \cup UploadRequest \cup AskRequest \cup MergeRequest]
  /\ cleaning \in Sessions \cup {NoSession}
  /\ undercut \in SUBSET Sessions

(***************************************************************************)
(* Properties.                                                             *)
(***************************************************************************)
Settled(s) ==
  /\ session[s].status = "merged"
  /\ s \notin old
  /\ \A c \in Clients : req[c] = Idle \/ req[c].id # s

(* No two requests write the merged file of a session at a time, also when  *)
(* a chunk that arrives late has set the status back to uploading, or the   *)
(* session was deleted, while the first merges (_acquire_merge_lock): a     *)
(* second merge is let in only where the cleanup deleted the session, and   *)
(* with it the lock, under a merge that had passed its checks, and then one *)
(* only.                                                                    *)
OneMergePerSession ==
  \A s \in Sessions :
    Cardinality(Merging(s)) <= IF s \in undercut THEN 2 ELSE 1

(* A session whose status says merging, or of which a lock is held, is      *)
(* being merged: no failure leaves it in the state that refuses every later *)
(* merge and chunk.                                                         *)
MergingIsUnderWay ==
  \A s \in Sessions :
    session[s].status = "merging" \/ (\E l \in lock : l[1] = s) => Merging(s) # {}

(* A merge succeeds only with every chunk, whole, in the file, although     *)
(* chunks are sent again, truncated and removed while it reads them; only   *)
(* the file of a session that was undercut may have had two writers.        *)
MergedIsWhole ==
  [][\A s \in Sessions :
       session'[s].status = "merged" /\ session[s].status # "merged" =>
         final'[s] = Whole \/ (s \in undercut /\ final'[s] = Mixed)]_uvars

(* Once a merge has succeeded and no chunk of its session is on its way, no *)
(* request changes the session or its merged file before it expires: a      *)
(* chunk sent again is refused and a merge asked again answers the first.   *)
SettledMergeStays ==
  [][\A s \in Sessions :
       Settled(s) => (Settled(s)' \/ s \in old') /\ final'[s] = final[s]]_uvars
=============================================================================
