------------------------ MODULE ChunkedUpload_proofs ------------------------
(***************************************************************************)
(* Theorems about ChunkedUpload, for any number of clients, sessions and   *)
(* chunks: two requests merge the same session only where the cleanup took *)
(* its lock away under a merge, no failure leaves a session that is        *)
(* merging with nobody merging it, and a merged file is whole and stays.   *)
(*                                                                         *)
(* What carries the proof is who holds which merge lock.  The status of a  *)
(* session cannot: a chunk that arrives late sets it back to uploading and *)
(* the mark of expiry overwrites it, both while the session is merged.     *)
(* There are two locks of a session at most, the one in the table while it *)
(* is listed and the one made afterwards, and the second is made only for  *)
(* a request that had passed its checks when the cleanup took the first.   *)
(***************************************************************************)
EXTENDS ChunkedUpload, FiniteSetTheorems, TLAPS

Request == {Idle} \cup UploadRequest \cup AskRequest \cup MergeRequest

(***************************************************************************)
(* The inductive invariant.                                                *)
(***************************************************************************)
\* Who merges holds a lock of the session, alone.
MergeHasLock ==
  \A c \in Clients : IsMerge(c) => req[c].lock \in lock /\ req[c].lock[1] = req[c].id
OneHolder ==
  \A c, d \in Clients : IsMerge(c) /\ IsMerge(d) /\ req[c].lock = req[d].lock => c = d

\* A lock is held by a merge, and a session that is merging is being merged.
LockIsUsed == \A l \in lock : \E c \in Clients : IsMerge(c) /\ req[c].lock = l
MergingIsMerged ==
  \A s \in Sessions :
    session[s].status = "merging" => \E c \in Clients : IsMerge(c) /\ req[c].id = s

\* Where a request is about to ask for a lock, the session has the lock it had
\* when the request looked, or was undercut; the other lock needs the latter.
AskedIsListed ==
  \A c \in Clients : req[c].op = "locking" => req[c].id \in listed \cup undercut
FreshIsUndercut == \A s \in Sessions : <<s, FALSE>> \in lock => s \in undercut

Holders == MergeHasLock /\ OneHolder /\ LockIsUsed /\ MergingIsMerged
UInv == UploadTypeOK /\ Holders /\ AskedIsListed /\ FreshIsUndercut

\* Only the file of a session that was undercut has had two writers.
MixedIsUndercut ==
  \A s \in Sessions :
    final[s].content = "mixed" => s \in undercut /\ final[s] = Mixed

(***************************************************************************)
(* Lemmas: sessions.                                                       *)
(***************************************************************************)
LEMMA SessionExists == \A x \in Session : x # Unborn
  BY DEF Session, SessionStatus, Unborn

LEMMA StatusTyped ==
  ASSUME NEW x \in Session \cup {Unborn}, NEW st \in SessionStatus
  PROVE  /\ [x EXCEPT !.status = st] \in Session
         /\ [x EXCEPT !.status = st].status = st
         /\ [x EXCEPT !.status = st].uploaded = x.uploaded
<1>1. x = [status |-> x.status, uploaded |-> x.uploaded] /\ x.uploaded \in SUBSET Chunks
  BY DEF Session, Unborn
<1>2. [x EXCEPT !.status = st] = [status |-> st, uploaded |-> x.uploaded]
  BY <1>1
<1>3. QED
  BY <1>1, <1>2 DEF Session

\* Looking a session up changes nothing of it or marks it expired.
LEMMA LookedTyped ==
  ASSUME UploadTypeOK, NEW s \in listed
  PROVE  /\ s \in Sessions
         /\ Looked(s) \in Session
         /\ Looked(s).status \in {session[s].status, "expired"}
         /\ s \notin old => Looked(s) = session[s]
<1>1. s \in Sessions /\ session[s] \in Session
  BY DEF UploadTypeOK
<1>2. CASE s \in old
  BY <1>1, <1>2, StatusTyped DEF Looked, SessionStatus
<1>3. CASE s \notin old
  BY <1>1, <1>3 DEF Looked
<1>4. QED
  BY <1>1, <1>2, <1>3

\* What a write of one session keeps.
LEMMA WriteSession ==
  ASSUME UploadTypeOK, NEW s \in Sessions, NEW x \in Session,
         session' = [session EXCEPT ![s] = x]
  PROVE  /\ session' \in [Sessions -> Session \cup {Unborn}]
         /\ session'[s] = x
         /\ \A t \in Sessions \ {s} : session'[t] = session[t]
         /\ listed \cup {s} \in SUBSET {t \in Sessions : session'[t] # Unborn}
<1>1. /\ session' \in [Sessions -> Session \cup {Unborn}]
      /\ session'[s] = x
      /\ \A t \in Sessions \ {s} : session'[t] = session[t]
  BY DEF UploadTypeOK
<1>2. x # Unborn
  BY SessionExists
<1>3. QED
  BY <1>1, <1>2 DEF UploadTypeOK

LEMMA RemovedTyped ==
  ASSUME UploadTypeOK, NEW gone, Removed(gone)
  PROVE  chunk' \in [Sessions -> [Chunks -> ChunkFile]]
<1>1. [i \in Chunks |-> "missing"] \in [Chunks -> ChunkFile]
  BY DEF ChunkFile
<1>2. QED
  BY <1>1 DEF UploadTypeOK, Removed

(***************************************************************************)
(* Lemmas: requests.                                                       *)
(***************************************************************************)
LEMMA RequestShapes ==
  /\ Idle \in Request
  /\ \A r \in UploadRequest :
       /\ r \in Request
       /\ r.op \in {"open", "write", "unlinked", "finish"}
       /\ r.id \in Sessions
       /\ r.index \in Chunks
  /\ \A r \in MergeRequest :
       /\ r \in Request
       /\ r.op \in {"create", "copy", "check"}
       /\ r.id \in Sessions
       /\ r.lock \in Lock
       /\ r.next \in Chunks
  /\ \A r \in AskRequest : r \in Request /\ r.op = "locking" /\ r.id \in Sessions
  /\ \A r \in Request :
       /\ r.op \in {"open", "write", "unlinked", "finish"} => r \in UploadRequest
       /\ r.op \in {"create", "copy", "check"} => r \in MergeRequest
       /\ r.op = "locking" => r \in AskRequest
  BY DEF Request, UploadRequest, AskRequest, MergeRequest, Idle

LEMMA StepTyped ==
  /\ \A r \in UploadRequest, op \in {"open", "write", "unlinked", "finish"} :
       [r EXCEPT !.op = op] \in UploadRequest /\ [r EXCEPT !.op = op].op = op
         /\ [r EXCEPT !.op = op].id = r.id
  /\ \A r \in MergeRequest, op \in {"create", "copy", "check"} :
       [r EXCEPT !.op = op] \in MergeRequest /\ [r EXCEPT !.op = op].op = op
         /\ [r EXCEPT !.op = op].id = r.id /\ [r EXCEPT !.op = op].lock = r.lock
  BY DEF UploadRequest, MergeRequest

\* The requests go on, and the same ones merge the same sessions, with their locks.
SameMerges ==
  /\ req' \in [Clients -> Request]
  /\ \A c \in Clients :
       /\ IsMerge(c)' <=> IsMerge(c)
       /\ IsMerge(c) => req'[c].id = req[c].id /\ req'[c].lock = req[c].lock

\* The request of c is over, the others go on.
MergeEnds(c) ==
  /\ req' \in [Clients -> Request]
  /\ req'[c] = Idle
  /\ \A d \in Clients \ {c} :
       /\ IsMerge(d)' <=> IsMerge(d)
       /\ IsMerge(d) => req'[d].id = req[d].id /\ req'[d].lock = req[d].lock

LEMMA Typed == UploadTypeOK => req \in [Clients -> Request]
  BY DEF UploadTypeOK, Request

\* A write that goes on into an unlinked file.
LEMMA UnlinkedTyped ==
  \A r \in Request :
    r.op = "write" =>
      /\ [r EXCEPT !.op = "unlinked"] \in Request
      /\ [r EXCEPT !.op = "unlinked"].op = "unlinked"
      /\ [r EXCEPT !.op = "unlinked"].id = r.id
<1> SUFFICES ASSUME NEW r \in Request, r.op = "write"
             PROVE  /\ [r EXCEPT !.op = "unlinked"] \in Request
                    /\ [r EXCEPT !.op = "unlinked"].op = "unlinked"
                    /\ [r EXCEPT !.op = "unlinked"].id = r.id
  OBVIOUS
<1> DEFINE u == [r EXCEPT !.op = "unlinked"]
<1>1. r \in UploadRequest
  BY RequestShapes
<1>2. u \in UploadRequest /\ u.op = "unlinked" /\ u.id = r.id
  BY <1>1, StepTyped
<1> HIDE DEF u
<1>3. u \in Request /\ u.op = "unlinked" /\ u.id = r.id
  BY <1>2 DEF Request
<1>4. QED
  BY <1>3 DEF u

LEMMA UnlinkedSame ==
  ASSUME UploadTypeOK, NEW gone, Unlinked(gone)
  PROVE  SameMerges
<1>1. req' = [c \in Clients |-> IF req[c].op = "write" /\ req[c].id \in gone
                                THEN [req[c] EXCEPT !.op = "unlinked"] ELSE req[c]]
  BY DEF Unlinked
<1>2. ASSUME NEW c \in Clients
      PROVE  /\ req'[c] \in Request
             /\ req'[c] = req[c] \/ (req[c].op = "write" /\ req'[c].op = "unlinked")
  <2>1. CASE req[c].op = "write" /\ req[c].id \in gone
    <3>1. req'[c] = [req[c] EXCEPT !.op = "unlinked"]
      BY <1>1, <2>1
    <3>2. req[c] \in Request /\ req[c].op = "write"
      BY <2>1, Typed
    <3>3. req'[c] \in Request /\ req'[c].op = "unlinked"
      BY <3>1, <3>2, UnlinkedTyped
    <3>4. QED
      BY <3>2, <3>3
  <2>2. CASE ~(req[c].op = "write" /\ req[c].id \in gone)
    BY <1>1, <2>2, Typed
  <2>3. QED
    BY <2>1, <2>2
<1>3. req' \in [Clients -> Request]
  BY <1>1, <1>2
<1>4. QED
  BY <1>2, <1>3 DEF SameMerges, IsMerge

\* A request that is not merging, and does not start to.
LEMMA SetSame ==
  ASSUME UploadTypeOK, NEW c \in Clients, ~IsMerge(c),
         NEW r \in UploadRequest \cup AskRequest \cup {Idle},
         req' = [req EXCEPT ![c] = r]
  PROVE  SameMerges
<1>1. /\ req' \in [Clients -> Request]
      /\ req'[c] = r
      /\ \A d \in Clients \ {c} : req'[d] = req[d]
  BY Typed, RequestShapes
<1>2. r.op \notin {"create", "copy", "check"}
  BY RequestShapes DEF Idle
<1>3. QED
  BY <1>1, <1>2 DEF SameMerges, IsMerge

\* The next step of an upload or of a merge.
LEMMA StepSame ==
  ASSUME UploadTypeOK, NEW c \in Clients, NEW op, Step(c, op),
         \/ /\ req[c].op \in {"open", "write", "unlinked", "finish"}
            /\ op \in {"open", "write", "unlinked", "finish"}
         \/ IsMerge(c) /\ op \in {"create", "copy", "check"}
  PROVE  SameMerges
<1> DEFINE r == [req[c] EXCEPT !.op = op]
<1>1. req' = [req EXCEPT ![c] = r]
  BY Typed DEF Step
<1>2. r \in Request /\ r.op = op /\ (IsMerge(c) => r.id = req[c].id /\ r.lock = req[c].lock)
  <2>1. req[c] \in Request
    BY Typed
  <2>2. CASE IsMerge(c) /\ op \in {"create", "copy", "check"}
    <3>1. req[c] \in MergeRequest
      BY <2>1, <2>2, RequestShapes DEF IsMerge
    <3>2. /\ r \in MergeRequest /\ r.op = op
          /\ r.id = req[c].id /\ r.lock = req[c].lock
      BY <2>2, <3>1, StepTyped, ZenonT(30)
    <3> HIDE DEF r
    <3>3. QED
      BY <3>2 DEF Request
  <2>3. CASE /\ req[c].op \in {"open", "write", "unlinked", "finish"}
             /\ op \in {"open", "write", "unlinked", "finish"}
    <3>1. req[c] \in UploadRequest
      BY <2>1, <2>3, RequestShapes
    <3>2. r \in UploadRequest /\ r.op = op
      BY <2>3, <3>1, StepTyped
    <3>3. QED
      BY <2>3, <3>2 DEF Request, IsMerge
  <2>4. QED
    BY <2>2, <2>3
<1> HIDE DEF r
<1>3. QED
  BY <1>1, <1>2, Typed DEF SameMerges, IsMerge

LEMMA UnchangedSame == UploadTypeOK /\ UNCHANGED req => SameMerges
  BY Typed DEF SameMerges, IsMerge

LEMMA AnswerEnds ==
  ASSUME UploadTypeOK, NEW c \in Clients, Answer(c)
  PROVE  MergeEnds(c)
<1>1. /\ req' \in [Clients -> Request]
      /\ req'[c] = Idle
      /\ \A d \in Clients \ {c} : req'[d] = req[d]
  BY Typed, RequestShapes DEF Answer
<1>2. QED
  BY <1>1 DEF MergeEnds, IsMerge

(***************************************************************************)
(* What a step does to sessions and merges; every action is one of these.  *)
(***************************************************************************)
\* No merge starts or ends, and no status becomes merging.
Quiet ==
  /\ SameMerges
  /\ UNCHANGED lock
  /\ \A s \in Sessions : session'[s].status = "merging" => session[s].status = "merging"

\* The merge of s by client c begins.
Begins(c, s) ==
  /\ s \in Sessions
  /\ LockOf(s) \notin lock
  /\ req[c].op = "locking"
  /\ req[c].id = s
  /\ lock' = lock \cup {LockOf(s)}
  /\ req' = [req EXCEPT ![c] = [op |-> "create", id |-> s, lock |-> LockOf(s), next |-> 1]]
  /\ \A t \in Sessions \ {s} : session'[t] = session[t]

\* The merge of client c is over, and its session is not left merging.
Ends(c) ==
  LET s == req[c].id IN
  /\ IsMerge(c)
  /\ MergeEnds(c)
  /\ lock' = lock \ {req[c].lock}
  /\ session'[s].status # "merging"
  /\ \A t \in Sessions \ {s} : session'[t] = session[t]

LEMMA QuietKeeps ==
  ASSUME Holders, Quiet
  PROVE  Holders'
<1>1. MergeHasLock'
  BY DEF Holders, Quiet, SameMerges, MergeHasLock
<1>2. OneHolder'
  BY DEF Holders, Quiet, SameMerges, OneHolder
<1>3. LockIsUsed'
  BY DEF Holders, Quiet, SameMerges, LockIsUsed
<1>4. MergingIsMerged'
  BY DEF Holders, Quiet, SameMerges, MergingIsMerged
<1>5. QED
  BY <1>1, <1>2, <1>3, <1>4 DEF Holders

LEMMA BeginsKeeps ==
  ASSUME UploadTypeOK, Holders, NEW c \in Clients, NEW s, Begins(c, s)
  PROVE  Holders'
<1> DEFINE l == LockOf(s)
<1>1. l[1] = s /\ l \notin lock /\ lock' = lock \cup {l}
  BY DEF Begins, LockOf
<1>2. req' = [req EXCEPT ![c] = [op |-> "create", id |-> s, lock |-> l, next |-> 1]]
  BY DEF Begins
<1> HIDE DEF l
<1>3. /\ IsMerge(c)' /\ req'[c].id = s /\ req'[c].lock = l
      /\ \A d \in Clients \ {c} : req'[d] = req[d]
  BY <1>2, Typed DEF IsMerge
<1>4. ~IsMerge(c)
  BY DEF Begins, IsMerge
<1>5. MergeHasLock'
  BY <1>1, <1>3 DEF Holders, MergeHasLock, IsMerge
<1>6. OneHolder'
  BY <1>1, <1>3 DEF Holders, OneHolder, MergeHasLock, IsMerge
<1>7. LockIsUsed'
  BY <1>1, <1>3, <1>4 DEF Holders, LockIsUsed, IsMerge
<1>8. MergingIsMerged'
  BY <1>3, <1>4 DEF Holders, Begins, MergingIsMerged, IsMerge
<1>9. QED
  BY <1>5, <1>6, <1>7, <1>8 DEF Holders

LEMMA EndsKeeps ==
  ASSUME Holders, NEW c \in Clients, Ends(c)
  PROVE  Holders'
<1>1. ~IsMerge(c)'
  BY DEF Ends, MergeEnds, IsMerge, Idle
<1>2. MergeHasLock'
  BY <1>1 DEF Holders, Ends, MergeEnds, MergeHasLock, OneHolder
<1>3. OneHolder'
  BY <1>1 DEF Holders, Ends, MergeEnds, OneHolder
<1>4. LockIsUsed'
  BY <1>1 DEF Holders, Ends, MergeEnds, LockIsUsed, OneHolder
<1>5. MergingIsMerged'
  BY <1>1 DEF Holders, Ends, MergeEnds, MergingIsMerged
<1>6. QED
  BY <1>2, <1>3, <1>4, <1>5 DEF Holders

(***************************************************************************)
(* Actions.                                                                *)
(***************************************************************************)
\* Nothing is written to sessions, and no lock changes hands.
LEMMA SameSessions ==
  ASSUME UploadTypeOK, UNCHANGED <<session, lock>>, SameMerges
  PROVE  Quiet
  BY DEF Quiet

\* A session is written with a status that is not merging, or was before.
LEMMA QuietWrite ==
  ASSUME UploadTypeOK, UNCHANGED lock, SameMerges,
         NEW s \in Sessions, NEW x \in Session, session' = [session EXCEPT ![s] = x],
         x.status = "merging" => session[s].status = "merging"
  PROVE  Quiet
  BY WriteSession DEF Quiet

LEMMA RequestTyped ==
  ASSUME req' \in [Clients -> Request]
  PROVE  req' \in [Clients -> {Idle} \cup UploadRequest \cup AskRequest \cup MergeRequest]
  BY DEF Request

LEMMA Create ==
  ASSUME UploadTypeOK, NEW s \in Sessions, CreateSession(s)
  PROVE  UploadTypeOK' /\ Quiet
<1> DEFINE evicted == IF Cardinality(listed) < MaxSessions THEN {} ELSE Oldest(listed)
<1>1. /\ session' = [session EXCEPT ![s] = New]
      /\ listed' = (listed \ evicted) \cup {s}
      /\ Removed(evicted)
      /\ Unlinked(evicted)
      /\ dir' = dir \ evicted
      /\ UNCHANGED <<old, final, lock, cleaning, undercut>>
  BY DEF CreateSession
<1> HIDE DEF evicted
<1>2. New \in Session /\ New.status = "pending"
  BY DEF New, Session, SessionStatus
<1>3. SameMerges /\ chunk' \in [Sessions -> [Chunks -> ChunkFile]]
  BY <1>1, UnlinkedSame, RemovedTyped
<1>4. /\ session' \in [Sessions -> Session \cup {Unborn}]
      /\ listed' \in SUBSET {t \in Sessions : session'[t] # Unborn}
  BY <1>1, <1>2, WriteSession
<1>5. UploadTypeOK'
  BY <1>1, <1>3, <1>4, RequestTyped DEF UploadTypeOK, SameMerges
<1>6. Quiet
  BY <1>1, <1>2, <1>3, QuietWrite
<1>7. QED
  BY <1>5, <1>6

LEMMA Delete ==
  ASSUME UploadTypeOK, NEW s \in Sessions, DeleteSession(s)
  PROVE  UploadTypeOK' /\ Quiet
<1>1. /\ s \in listed
      /\ session' = [session EXCEPT ![s] = Looked(s)]
      /\ listed' = listed \ {s}
      /\ Removed({s})
      /\ Unlinked({s})
      /\ dir' = dir \ {s}
      /\ UNCHANGED <<old, final, lock, cleaning, undercut>>
  BY DEF DeleteSession
<1>2. /\ Looked(s) \in Session
      /\ Looked(s).status \in {session[s].status, "expired"}
  BY <1>1, LookedTyped
<1>3. SameMerges /\ chunk' \in [Sessions -> [Chunks -> ChunkFile]]
  BY <1>1, UnlinkedSame, RemovedTyped
<1>4. /\ session' \in [Sessions -> Session \cup {Unborn}]
      /\ listed' \in SUBSET {t \in Sessions : session'[t] # Unborn}
  BY <1>1, <1>2, WriteSession
<1>5. UploadTypeOK'
  BY <1>1, <1>3, <1>4, RequestTyped DEF UploadTypeOK, SameMerges
<1>6. Quiet
  BY <1>1, <1>2, <1>3, QuietWrite
<1>7. QED
  BY <1>5, <1>6

LEMMA Get ==
  ASSUME UploadTypeOK, NEW s \in Sessions, GetSession(s)
  PROVE  UploadTypeOK' /\ Quiet
<1>1. /\ s \in listed
      /\ session' = [session EXCEPT ![s] = Looked(s)]
      /\ UNCHANGED <<listed, old, dir, chunk, final, lock, req, cleaning, undercut>>
  BY DEF GetSession
<1>2. /\ Looked(s) \in Session
      /\ Looked(s).status \in {session[s].status, "expired"}
  BY <1>1, LookedTyped
<1>3. SameMerges
  BY <1>1, UnchangedSame
<1>4. /\ session' \in [Sessions -> Session \cup {Unborn}]
      /\ listed' \in SUBSET {t \in Sessions : session'[t] # Unborn}
  BY <1>1, <1>2, WriteSession
<1>5. UploadTypeOK'
  BY <1>1, <1>4 DEF UploadTypeOK
<1>6. Quiet
  BY <1>1, <1>2, <1>3, QuietWrite
<1>7. QED
  BY <1>5, <1>6

LEMMA Clean ==
  ASSUME UploadTypeOK, NEW s \in Sessions, CleanChunks(s)
  PROVE  UploadTypeOK' /\ Quiet
<1>1. /\ Removed({s})
      /\ Unlinked({s})
      /\ dir' = dir \ {s}
      /\ cleaning' = s
      /\ UNCHANGED <<session, listed, old, final, lock, undercut>>
  BY DEF CleanChunks
<1>2. SameMerges /\ chunk' \in [Sessions -> [Chunks -> ChunkFile]]
  BY <1>1, UnlinkedSame, RemovedTyped
<1>3. UploadTypeOK'
  BY <1>1, <1>2, RequestTyped DEF UploadTypeOK, SameMerges
<1>4. Quiet
  BY <1>1, <1>2, SameSessions
<1>5. QED
  BY <1>3, <1>4

LEMMA CleanEndAndAge ==
  ASSUME UploadTypeOK, CleanSession \/ \E s \in Sessions : Age(s)
  PROVE  UploadTypeOK' /\ Quiet
<1>1. SameMerges
  BY UnchangedSame DEF CleanSession, Age
<1>2. Quiet
  BY <1>1, SameSessions DEF CleanSession, Age
<1>3. CASE CleanSession
  BY <1>2, <1>3 DEF CleanSession, UploadTypeOK
<1>4. ASSUME NEW s \in Sessions, Age(s)
      PROVE  UploadTypeOK'
  BY <1>4 DEF Age, UploadTypeOK
<1>5. QED
  BY <1>2, <1>3, <1>4

LEMMA StartUpload ==
  ASSUME UploadTypeOK, NEW c \in Clients, NEW s \in Sessions, NEW i \in Chunks,
         UploadChunk(c, s, i)
  PROVE  UploadTypeOK' /\ Quiet
<1> DEFINE r == [op |-> "open", id |-> s, index |-> i]
<1>1. /\ req[c] = Idle
      /\ s \in listed
      /\ session' = [session EXCEPT ![s] = Looked(s)]
      /\ \/ UNCHANGED <<dir, req>>
         \/ dir' = dir \cup {s} /\ req' = [req EXCEPT ![c] = r]
      /\ UNCHANGED <<listed, old, chunk, final, lock, cleaning, undercut>>
  BY DEF UploadChunk
<1>2. r \in UploadRequest
  BY DEF UploadRequest
<1> HIDE DEF r
<1>3. ~IsMerge(c)
  BY <1>1 DEF IsMerge, Idle
<1>4. SameMerges
  BY <1>1, <1>2, <1>3, SetSame, UnchangedSame
<1>5. /\ Looked(s) \in Session
      /\ Looked(s).status \in {session[s].status, "expired"}
  BY <1>1, LookedTyped
<1>6. /\ session' \in [Sessions -> Session \cup {Unborn}]
      /\ listed' \in SUBSET {t \in Sessions : session'[t] # Unborn}
  BY <1>1, <1>5, WriteSession
<1>7. UploadTypeOK'
  BY <1>1, <1>4, <1>6, RequestTyped DEF UploadTypeOK, SameMerges
<1>8. Quiet
  BY <1>1, <1>4, <1>5, QuietWrite
<1>9. QED
  BY <1>7, <1>8

\* A chunk file is written.
LEMMA ChunkTyped ==
  ASSUME UploadTypeOK, NEW s \in Sessions, NEW i \in Chunks, NEW x \in ChunkFile,
         chunk' = [chunk EXCEPT ![s][i] = x]
  PROVE  chunk' \in [Sessions -> [Chunks -> ChunkFile]]
  BY DEF UploadTypeOK

LEMMA AnswerSame ==
  ASSUME UploadTypeOK, NEW c \in Clients, ~IsMerge(c), Answer(c)
  PROVE  SameMerges
  BY SetSame DEF Answer

LEMMA GoOnUpload ==
  ASSUME UploadTypeOK, NEW c \in Clients,
         OpenChunk(c) \/ \E ok \in BOOLEAN : WriteChunk(c, ok)
  PROVE  UploadTypeOK' /\ Quiet
<1> DEFINE r == req[c]
<1>1. /\ r.op \in {"open", "write", "unlinked"}
      /\ Answer(c) \/ Step(c, "write") \/ Step(c, "finish")
      /\ \/ UNCHANGED chunk
         \/ chunk' = [chunk EXCEPT ![r.id][r.index] = "partial"]
         \/ chunk' = [chunk EXCEPT ![r.id][r.index] = "whole"]
      /\ UNCHANGED <<session, listed, old, dir, final, lock, cleaning, undercut>>
  BY DEF OpenChunk, WriteChunk
<1>2. r \in UploadRequest /\ r.id \in Sessions /\ r.index \in Chunks
  BY <1>1, Typed, RequestShapes
<1>3. SameMerges
  <2>1. ~IsMerge(c)
    BY <1>1 DEF IsMerge
  <2>2. QED
    BY <1>1, <2>1, AnswerSame, StepSame
<1>4. chunk' \in [Sessions -> [Chunks -> ChunkFile]]
  <2> HIDE DEF r
  <2>1. "partial" \in ChunkFile /\ "whole" \in ChunkFile
    BY DEF ChunkFile
  <2>2. CASE UNCHANGED chunk
    BY <2>2 DEF UploadTypeOK
  <2>3. QED
    BY <1>1, <1>2, <2>1, <2>2, ChunkTyped
<1>5. UploadTypeOK'
  BY <1>1, <1>3, <1>4, RequestTyped DEF UploadTypeOK, SameMerges
<1>6. QED
  BY <1>1, <1>3, <1>5, SameSessions

LEMMA FinishUpload ==
  ASSUME UploadTypeOK, NEW c \in Clients, FinishChunk(c)
  PROVE  UploadTypeOK' /\ Quiet
<1> DEFINE s == req[c].id
           x == [status |-> "uploading", uploaded |-> session[s].uploaded \cup {req[c].index}]
<1>1. /\ req[c].op = "finish"
      /\ session' = [session EXCEPT ![s] = x]
      /\ Answer(c)
      /\ UNCHANGED <<listed, old, dir, chunk, final, lock, cleaning, undercut>>
  BY DEF FinishChunk
<1>2. s \in Sessions /\ req[c].index \in Chunks
  BY <1>1, Typed, RequestShapes
<1>3. x \in Session /\ x.status = "uploading"
  <2>1. session[s].uploaded \in SUBSET Chunks
    BY <1>2 DEF UploadTypeOK, Session, Unborn
  <2>2. QED
    BY <1>2, <2>1 DEF Session, SessionStatus
<1>4. SameMerges
  <2>1. ~IsMerge(c)
    BY <1>1 DEF IsMerge
  <2>2. QED
    BY <1>1, <2>1, AnswerSame
<1> HIDE DEF s, x
<1>5. /\ session' \in [Sessions -> Session \cup {Unborn}]
      /\ listed' \in SUBSET {t \in Sessions : session'[t] # Unborn}
  BY <1>1, <1>2, <1>3, WriteSession
<1>6. UploadTypeOK'
  BY <1>1, <1>4, <1>5, RequestTyped DEF UploadTypeOK, SameMerges
<1>7. QED
  BY <1>1, <1>2, <1>3, <1>4, <1>6, QuietWrite

\* A merge asks for the lock, or is refused.
LEMMA StartMerge ==
  ASSUME UploadTypeOK, NEW c \in Clients, NEW s \in Sessions, MergeChunks(c, s)
  PROVE  UploadTypeOK' /\ Quiet
<1> DEFINE r == [op |-> "locking", id |-> s]
<1>1. /\ req[c] = Idle
      /\ s \in listed
      /\ session' = [session EXCEPT ![s] = Looked(s)]
      /\ UNCHANGED req \/ req' = [req EXCEPT ![c] = r]
      /\ UNCHANGED <<listed, old, dir, chunk, final, lock, cleaning, undercut>>
  BY DEF MergeChunks
<1>2. r \in AskRequest
  BY DEF AskRequest
<1> HIDE DEF r
<1>3. ~IsMerge(c)
  BY <1>1 DEF IsMerge, Idle
<1>4. SameMerges
  BY <1>1, <1>2, <1>3, SetSame, UnchangedSame
<1>5. /\ Looked(s) \in Session
      /\ Looked(s).status \in {session[s].status, "expired"}
  BY <1>1, LookedTyped
<1>6. /\ session' \in [Sessions -> Session \cup {Unborn}]
      /\ listed' \in SUBSET {t \in Sessions : session'[t] # Unborn}
  BY <1>1, <1>5, WriteSession
<1>7. UploadTypeOK'
  BY <1>1, <1>4, <1>6, RequestTyped DEF UploadTypeOK, SameMerges
<1>8. Quiet
  BY <1>1, <1>4, <1>5, QuietWrite
<1>9. QED
  BY <1>7, <1>8

\* The lock is taken, and the merge begins, or it is refused.
LEMMA TryLock ==
  ASSUME UploadTypeOK, NEW c \in Clients, AcquireLock(c)
  PROVE  UploadTypeOK' /\ (Quiet \/ \E s \in Sessions : Begins(c, s))
<1> DEFINE s == req[c].id
           x == [session[s] EXCEPT !.status = "merging"]
           m == [op |-> "create", id |-> s, lock |-> LockOf(s), next |-> 1]
<1>1. /\ req[c].op = "locking"
      /\ \/ /\ LockOf(s) \notin lock
            /\ session' = [session EXCEPT ![s].status = "merging"]
            /\ lock' = lock \cup {LockOf(s)}
            /\ req' = [req EXCEPT ![c] = m]
         \/ Answer(c) /\ UNCHANGED <<session, lock>>
      /\ UNCHANGED <<listed, old, dir, chunk, final, cleaning, undercut>>
  BY DEF AcquireLock, MayLock
<1>2. s \in Sessions
  BY <1>1, Typed, RequestShapes
<1>3. LockOf(s) \in Lock
  <2>1. (s \in listed) \in BOOLEAN
    OBVIOUS
  <2>2. QED
    BY <1>2, <2>1, Zenon DEF LockOf, Lock
<1>4. CASE Answer(c) /\ UNCHANGED <<session, lock>>
  <2>1. ~IsMerge(c)
    BY <1>1 DEF IsMerge
  <2>2. SameMerges
    BY <1>4, <2>1, AnswerSame
  <2>3. UploadTypeOK'
    BY <1>1, <1>4, <2>2, RequestTyped DEF UploadTypeOK, SameMerges
  <2>4. QED
    BY <1>4, <2>2, <2>3, SameSessions
<1>5. CASE /\ LockOf(s) \notin lock
           /\ session' = [session EXCEPT ![s].status = "merging"]
           /\ lock' = lock \cup {LockOf(s)}
           /\ req' = [req EXCEPT ![c] = m]
  <2>1. m \in MergeRequest
    BY <1>2, <1>3, UploadAssumption DEF MergeRequest, Chunks
  <2>2. x \in Session
    <3>1. session[s] \in Session \cup {Unborn}
      BY <1>2 DEF UploadTypeOK
    <3>2. QED
      BY <3>1, StatusTyped DEF SessionStatus
  <2>3. session' = [session EXCEPT ![s] = x]
    BY <1>2, <1>5 DEF UploadTypeOK
  <2>4. /\ session' \in [Sessions -> Session \cup {Unborn}]
        /\ \A t \in Sessions \ {s} : session'[t] = session[t]
        /\ listed' \in SUBSET {t \in Sessions : session'[t] # Unborn}
    <3> HIDE DEF x
    <3>1. QED
      BY <1>1, <1>2, <2>2, <2>3, WriteSession
  <2>5. req' \in [Clients -> Request]
    <3> HIDE DEF m
    <3>1. QED
      BY <1>5, <2>1, Typed DEF Request
  <2>6. UploadTypeOK'
    BY <1>1, <1>3, <1>5, <2>4, <2>5, RequestTyped DEF UploadTypeOK
  <2>7. Begins(c, s)
    BY <1>1, <1>2, <1>5, <2>4 DEF Begins
  <2>8. QED
    BY <1>2, <2>6, <2>7
<1>6. QED
  BY <1>1, <1>4, <1>5

\* A chunk more keeps a merged file one.
LEMMA ExtendedTyped ==
  ASSUME NEW f \in FinalFile, NEW i \in Chunks, NEW file
  PROVE  Extended(f, i, file) \in FinalFile
<1>1. i \in 0..NumChunks
  BY UploadAssumption DEF Chunks
<1>2. f.content \in {"whole", "torn", "mixed"}
  BY DEF FinalFile
<1>3. QED
  BY <1>1, <1>2 DEF Extended, FinalFile

\* The next chunk of a merge.
LEMMA NextSame ==
  ASSUME UploadTypeOK, NEW c \in Clients, IsMerge(c), NEW i \in Chunks,
         req' = [req EXCEPT ![c].next = i]
  PROVE  SameMerges
<1> DEFINE r == [req[c] EXCEPT !.next = i]
<1>1. req' = [req EXCEPT ![c] = r]
  BY Typed
<1>2. req[c] \in MergeRequest
  BY Typed, RequestShapes DEF IsMerge
<1>3. /\ r \in MergeRequest
      /\ r.op = req[c].op /\ r.id = req[c].id /\ r.lock = req[c].lock
  BY <1>2 DEF MergeRequest
<1>4. r \in Request
  BY <1>3, RequestShapes
<1> HIDE DEF r
<1>5. QED
  BY <1>1, <1>3, <1>4, Typed DEF SameMerges, IsMerge

\* The merged file is created, and then filled.
LEMMA GoOnMerge ==
  ASSUME UploadTypeOK, NEW c \in Clients, CreateFinal(c) \/ CopyChunk(c)
  PROVE  UploadTypeOK' /\ Quiet
<1> DEFINE s == req[c].id
<1>1. /\ IsMerge(c)
      /\ s \in Sessions
      /\ req[c].next \in Chunks
  <2>1. IsMerge(c)
    BY DEF CreateFinal, CopyChunk, IsMerge
  <2>2. QED
    BY <2>1, Typed, RequestShapes DEF IsMerge
<1>2. CASE CreateFinal(c)
  <2>1. /\ \/ final' = [final EXCEPT ![s] = [read |-> 0, content |-> "whole"]]
           \/ final' = [final EXCEPT ![s] = Mixed]
        /\ Step(c, "copy")
        /\ UNCHANGED <<session, listed, old, dir, chunk, lock, cleaning, undercut>>
    BY <1>2 DEF CreateFinal
  <2>2. [read |-> 0, content |-> "whole"] \in FinalFile /\ Mixed \in FinalFile
    BY UploadAssumption DEF FinalFile, Mixed
  <2>3. final' \in [Sessions -> FinalFile]
    BY <2>1, <2>2 DEF UploadTypeOK
  <2>4. SameMerges
    BY <1>1, <2>1, StepSame
  <2>5. UploadTypeOK'
    BY <2>1, <2>3, <2>4, RequestTyped DEF UploadTypeOK, SameMerges
  <2>6. QED
    BY <2>1, <2>4, <2>5, SameSessions
<1>3. CASE CopyChunk(c)
  <2> DEFINE i == req[c].next
             x == Extended(final[s], i, chunk[s][i])
  <2>1. /\ final' = [final EXCEPT ![s] = x]
        /\ \/ Step(c, "check")
           \/ i # NumChunks /\ req' = [req EXCEPT ![c].next = i + 1]
        /\ dir' = dir \cup {s}
        /\ UNCHANGED <<session, listed, old, chunk, lock, cleaning, undercut>>
    BY <1>1, <1>3 DEF CopyChunk, UploadTypeOK
  <2>2. x \in FinalFile
    BY <1>1, ExtendedTyped DEF UploadTypeOK
  <2>3. final' \in [Sessions -> FinalFile]
    <3> HIDE DEF x
    <3>1. QED
      BY <2>1, <2>2 DEF UploadTypeOK
  <2>4. i # NumChunks => i + 1 \in Chunks
    BY <1>1, UploadAssumption DEF Chunks
  <2>5. SameMerges
    BY <1>1, <2>1, <2>4, StepSame, NextSame
  <2>6. UploadTypeOK'
    BY <1>1, <2>1, <2>3, <2>5, RequestTyped DEF UploadTypeOK, SameMerges
  <2>7. QED
    BY <2>1, <2>5, <2>6, SameSessions
<1>4. QED
  BY <1>2, <1>3

LEMMA GiveUpEnds ==
  ASSUME UploadTypeOK, NEW c \in Clients, IsMerge(c), GiveUp(c),
         UNCHANGED <<listed, old, chunk, final, cleaning, undercut>>,
         dir' \in SUBSET Sessions
  PROVE  /\ UploadTypeOK' /\ Ends(c)
         /\ \A s \in Sessions : session'[s] = session[s] \/ session'[s].status = "failed"
<1> DEFINE s == req[c].id
           x == [session[s] EXCEPT !.status = "failed"]
<1>1. s \in Sessions
  BY Typed, RequestShapes DEF IsMerge
<1>2. /\ session' = [session EXCEPT ![s] = x]
      /\ lock' = lock \ {req[c].lock}
      /\ Answer(c)
  BY <1>1 DEF GiveUp, UploadTypeOK
<1>3. x \in Session /\ x.status = "failed"
  <2>1. session[s] \in Session \cup {Unborn}
    BY <1>1 DEF UploadTypeOK
  <2>2. QED
    BY <2>1, StatusTyped DEF SessionStatus
<1> HIDE DEF x
<1>4. /\ session' \in [Sessions -> Session \cup {Unborn}]
      /\ session'[s] = x
      /\ \A t \in Sessions \ {s} : session'[t] = session[t]
      /\ listed' \in SUBSET {t \in Sessions : session'[t] # Unborn}
  BY <1>1, <1>2, <1>3, WriteSession
<1>5. MergeEnds(c)
  BY <1>2, AnswerEnds
<1>6. UploadTypeOK'
  BY <1>2, <1>4, <1>5, RequestTyped DEF UploadTypeOK, MergeEnds
<1>7. Ends(c)
  BY <1>2, <1>3, <1>4, <1>5 DEF Ends
<1>8. QED
  BY <1>3, <1>4, <1>6, <1>7

LEMMA Fails ==
  ASSUME UploadTypeOK, NEW c \in Clients, FailMerge(c)
  PROVE  /\ UploadTypeOK' /\ Ends(c)
         /\ \A s \in Sessions : session'[s] = session[s] \/ session'[s].status = "failed"
<1>1. req[c].id \in Sessions
  BY Typed, RequestShapes DEF FailMerge, IsMerge
<1>2. dir' \in SUBSET Sessions
  BY <1>1 DEF FailMerge, UploadTypeOK
<1>3. QED
  BY <1>2, GiveUpEnds DEF FailMerge

LEMMA Checks ==
  ASSUME UploadTypeOK, NEW c \in Clients, NEW passed \in BOOLEAN, CheckFinal(c, passed)
  PROVE  /\ UploadTypeOK' /\ Ends(c)
         /\ UNCHANGED final
         /\ \A s \in Sessions :
              \/ session'[s] = session[s]
              \/ session'[s].status = "failed"
              \/ /\ session'[s].status = "merged"
                 /\ final[s] = Whole \/ final[s].content = "mixed"
<1> DEFINE s == req[c].id
           x == [session[s] EXCEPT !.status = "merged"]
<1>1. IsMerge(c) /\ UNCHANGED <<listed, old, final, cleaning, undercut>>
  BY DEF CheckFinal, IsMerge
<1>2. s \in Sessions
  BY <1>1, Typed, RequestShapes DEF IsMerge
<1>3. passed => final[s] = Whole \/ final[s].content = "mixed"
  BY DEF CheckFinal, Passes
<1>4. CASE ~passed
  <2>1. GiveUp(c) /\ UNCHANGED <<chunk, dir>>
    BY <1>4 DEF CheckFinal
  <2>2. dir' \in SUBSET Sessions
    BY <2>1 DEF UploadTypeOK
  <2>3. QED
    BY <1>1, <2>1, <2>2, GiveUpEnds
<1>5. CASE passed
  <2>1. /\ session' = [session EXCEPT ![s] = x]
        /\ lock' = lock \ {req[c].lock}
        /\ req' = [d \in Clients |->
                     CASE d = c -> Idle
                       [] req[d].op = "write" /\ req[d].id = s ->
                            [req[d] EXCEPT !.op = "unlinked"]
                       [] OTHER -> req[d]]
        /\ Removed({s})
        /\ dir' = dir \ {s}
    BY <1>2, <1>5 DEF CheckFinal, UploadTypeOK
  <2>2. x \in Session /\ x.status = "merged"
    <3>1. session[s] \in Session \cup {Unborn}
      BY <1>2 DEF UploadTypeOK
    <3>2. QED
      BY <3>1, StatusTyped DEF SessionStatus
  <2> HIDE DEF x
  <2>3. /\ session' \in [Sessions -> Session \cup {Unborn}]
        /\ session'[s] = x
        /\ \A t \in Sessions \ {s} : session'[t] = session[t]
        /\ listed' \in SUBSET {t \in Sessions : session'[t] # Unborn}
    BY <1>1, <1>2, <2>1, <2>2, WriteSession
  <2>4. ASSUME NEW d \in Clients \ {c}
        PROVE  /\ req'[d] \in Request
               /\ req'[d] = req[d] \/ (req[d].op = "write" /\ req'[d].op = "unlinked")
    <3>1. CASE req[d].op = "write" /\ req[d].id = s
      <4>1. req'[d] = [req[d] EXCEPT !.op = "unlinked"]
        BY <2>1, <3>1
      <4>2. req[d] \in Request /\ req[d].op = "write"
        BY <3>1, Typed
      <4>3. req'[d] \in Request /\ req'[d].op = "unlinked"
        BY <4>1, <4>2, UnlinkedTyped
      <4>4. QED
        BY <4>2, <4>3
    <3>2. CASE ~(req[d].op = "write" /\ req[d].id = s)
      BY <2>1, <3>2, Typed
    <3>3. QED
      BY <3>1, <3>2
  <2>5. req'[c] = Idle
    BY <1>1, <2>1 DEF IsMerge
  <2>6. req' \in [Clients -> Request]
    <3>1. \A d \in Clients : req'[d] \in Request
      BY <2>4, <2>5, RequestShapes
    <3>2. QED
      BY <2>1, <3>1
  <2>7. MergeEnds(c)
    BY <2>4, <2>5, <2>6 DEF MergeEnds, IsMerge
  <2>8. chunk' \in [Sessions -> [Chunks -> ChunkFile]]
    BY <2>1, RemovedTyped
  <2>9. UploadTypeOK'
    BY <1>1, <2>1, <2>3, <2>6, <2>8, RequestTyped DEF UploadTypeOK
  <2>10. Ends(c)
    BY <1>1, <2>1, <2>2, <2>3, <2>7 DEF Ends
  <2>11. QED
    BY <1>1, <1>3, <1>5, <2>2, <2>3, <2>9, <2>10
<1>6. QED
  BY <1>4, <1>5

(***************************************************************************)
(* The invariant is inductive.                                             *)
(***************************************************************************)
LEMMA UInvInit == UploadInit => UInv
<1> SUFFICES ASSUME UploadInit
             PROVE  UInv
  OBVIOUS
<1>1. UploadTypeOK
  <2>1. /\ NoFinal \in FinalFile
        /\ [i \in Chunks |-> "missing"] \in [Chunks -> ChunkFile]
    BY UploadAssumption DEF NoFinal, FinalFile, ChunkFile
  <2>2. QED
    BY <2>1 DEF UploadInit, UploadTypeOK
<1>2. \A c \in Clients : ~IsMerge(c)
  BY DEF UploadInit, IsMerge, Idle
<1>3. Holders
  BY <1>2 DEF UploadInit, Holders, MergeHasLock, OneHolder, LockIsUsed, MergingIsMerged,
              Unborn
<1>4. AskedIsListed /\ FreshIsUndercut
  BY DEF UploadInit, AskedIsListed, FreshIsUndercut, Idle
<1>5. QED
  BY <1>1, <1>3, <1>4 DEF UInv

LEMMA StepEffect ==
  ASSUME UploadTypeOK, [UploadNext]_uvars
  PROVE  /\ UploadTypeOK'
         /\ \/ Quiet
            \/ \E c \in Clients : Ends(c) \/ \E s \in Sessions : Begins(c, s)
<1>1. CASE UNCHANGED uvars
  <2>1. SameMerges
    BY <1>1, UnchangedSame DEF uvars
  <2>2. UploadTypeOK'
    BY <1>1 DEF uvars, UploadTypeOK
  <2>3. QED
    BY <1>1, <2>1, <2>2, SameSessions DEF uvars
<1>2. ASSUME NEW s \in Sessions,
             CreateSession(s) \/ DeleteSession(s) \/ GetSession(s) \/ CleanChunks(s)
      PROVE  UploadTypeOK' /\ Quiet
  BY <1>2, Create, Delete, Get, Clean
<1>3. CASE CleanSession \/ \E s \in Sessions : Age(s)
  BY <1>3, CleanEndAndAge
<1>4. ASSUME NEW c \in Clients, Upload(c)
      PROVE  UploadTypeOK' /\ Quiet
  BY <1>4, StartUpload, GoOnUpload, FinishUpload DEF Upload
<1>5. ASSUME NEW c \in Clients, Merge(c)
      PROVE  UploadTypeOK' /\ (Quiet \/ Ends(c))
  BY <1>5, StartMerge, GoOnMerge, Fails, Checks DEF Merge
<1>6. ASSUME NEW c \in Clients, AcquireLock(c)
      PROVE  UploadTypeOK' /\ (Quiet \/ \E s \in Sessions : Begins(c, s))
  BY <1>6, TryLock
<1>7. QED
  BY <1>1, <1>2, <1>3, <1>4, <1>5, <1>6 DEF UploadNext

\* No request comes to ask for a lock.
NoneAsks == \A c \in Clients : req'[c].op = "locking" => req'[c] = req[c]

LEMMA UnlinkedAsks ==
  ASSUME UploadTypeOK, NEW gone, Unlinked(gone)
  PROVE  NoneAsks
<1> SUFFICES ASSUME NEW c \in Clients, req[c].op = "write"
             PROVE  [req[c] EXCEPT !.op = "unlinked"].op # "locking"
  BY DEF NoneAsks, Unlinked
<1>1. QED
  BY Typed, UnlinkedTyped

LEMMA AnswerAsks ==
  ASSUME UploadTypeOK, NEW c \in Clients, Answer(c)
  PROVE  NoneAsks
  BY Typed DEF Answer, NoneAsks, Idle

LEMMA StepAsks ==
  ASSUME UploadTypeOK, NEW c \in Clients, NEW op \in {"write", "finish", "copy", "check"},
         Step(c, op), req[c] # Idle
  PROVE  NoneAsks
<1>1. req[c] \in UploadRequest \cup AskRequest \cup MergeRequest
  BY Typed DEF Request
<1>2. /\ req'[c] = [req[c] EXCEPT !.op = op]
      /\ \A d \in Clients \ {c} : req'[d] = req[d]
  BY Typed DEF Step
<1>3. [req[c] EXCEPT !.op = op].op = op
  BY <1>1 DEF UploadRequest, AskRequest, MergeRequest
<1>4. QED
  BY <1>2, <1>3 DEF NoneAsks

\* Only MergeChunks lets a request ask.
LEMMA UploadAsksNone ==
  ASSUME UploadTypeOK, NEW c \in Clients, Upload(c)
  PROVE  NoneAsks
<1>1. ASSUME NEW s \in Sessions, NEW i \in Chunks, UploadChunk(c, s, i)
      PROVE  NoneAsks
  BY <1>1, Typed DEF UploadChunk, NoneAsks
<1>2. CASE OpenChunk(c) \/ FinishChunk(c) \/ \E ok \in BOOLEAN : WriteChunk(c, ok)
  <2>1. req[c] # Idle
    BY <1>2 DEF OpenChunk, FinishChunk, WriteChunk, Idle
  <2>2. Answer(c) \/ Step(c, "write") \/ Step(c, "finish")
    BY <1>2 DEF OpenChunk, FinishChunk, WriteChunk
  <2>3. QED
    BY <2>1, <2>2, AnswerAsks, StepAsks
<1>3. QED
  BY <1>1, <1>2 DEF Upload

LEMMA MergeAsksNone ==
  ASSUME UploadTypeOK, NEW c \in Clients,
         \/ CreateFinal(c) \/ CopyChunk(c) \/ FailMerge(c)
         \/ \E passed \in BOOLEAN : CheckFinal(c, passed)
  PROVE  NoneAsks
<1>1. CASE CreateFinal(c) \/ CopyChunk(c) \/ FailMerge(c)
  <2>1. req[c] # Idle /\ req[c].op # "locking"
    BY <1>1 DEF CreateFinal, CopyChunk, FailMerge, IsMerge, Idle
  <2>2. CASE \E i : req' = [req EXCEPT ![c].next = i]
    <3>1. PICK i : req' = [req EXCEPT ![c].next = i]
      BY <2>2
    <3>2. /\ req'[c] = [req[c] EXCEPT !.next = i]
          /\ \A d \in Clients \ {c} : req'[d] = req[d]
      BY <3>1, Typed
    <3>3. req[c] \in UploadRequest \cup MergeRequest
      BY <2>1, Typed DEF Request, AskRequest
    <3>4. [req[c] EXCEPT !.next = i].op = req[c].op
      BY <3>3 DEF UploadRequest, MergeRequest
    <3>5. QED
      BY <2>1, <3>2, <3>4 DEF NoneAsks
  <2>3. \/ Answer(c) \/ Step(c, "copy") \/ Step(c, "check")
        \/ \E i : req' = [req EXCEPT ![c].next = i]
    BY <1>1 DEF CreateFinal, CopyChunk, FailMerge, GiveUp
  <2>4. QED
    BY <2>1, <2>2, <2>3, AnswerAsks, StepAsks
<1>2. ASSUME NEW passed \in BOOLEAN, CheckFinal(c, passed)
      PROVE  NoneAsks
  <2>1. CASE Answer(c)
    BY <2>1, AnswerAsks
  <2>2. ASSUME ~Answer(c), NEW d \in Clients
        PROVE  req'[d].op = "locking" => req'[d] = req[d]
    <3>1. \/ req'[d] = Idle
          \/ req'[d] = req[d]
          \/ req[d].op = "write" /\ req'[d] = [req[d] EXCEPT !.op = "unlinked"]
      BY <1>2, <2>2 DEF CheckFinal, GiveUp
    <3>2. CASE req[d].op = "write" /\ req'[d] = [req[d] EXCEPT !.op = "unlinked"]
      <4>1. req[d] \in Request
        BY Typed
      <4>2. req'[d].op = "unlinked"
        BY <3>2, <4>1, UnlinkedTyped
      <4>3. QED
        BY <4>2
    <3>3. QED
      BY <3>1, <3>2 DEF Idle
  <2>3. QED
    BY <2>1, <2>2 DEF NoneAsks
<1>3. QED
  BY <1>1, <1>2

\* The session a request has looked at stays listed, or is undercut, until the
\* request asks for its lock.
LEMMA AskStep ==
  ASSUME UploadTypeOK, AskedIsListed, [UploadNext]_uvars
  PROVE  AskedIsListed' /\ undercut \subseteq undercut'
<1>1. CASE UNCHANGED uvars
  BY <1>1 DEF uvars, AskedIsListed
<1>2. ASSUME NEW s \in Sessions, CleanChunks(s) \/ Age(s)
      PROVE  AskedIsListed' /\ undercut \subseteq undercut'
  <2>1. NoneAsks /\ UNCHANGED <<listed, undercut>>
    BY <1>2, UnlinkedAsks DEF CleanChunks, Age, NoneAsks
  <2>2. QED
    BY <2>1 DEF AskedIsListed, NoneAsks
<1>3. CASE CleanSession
  BY <1>3 DEF CleanSession, AskedIsListed, Asks
<1>4. ASSUME NEW c \in Clients, AcquireLock(c)
      PROVE  AskedIsListed' /\ undercut \subseteq undercut'
  <2>1. NoneAsks
    <3>1. CASE Answer(c)
      BY <3>1, AnswerAsks
    <3>2. CASE ~Answer(c)
      <4> DEFINE m == [op |-> "create", id |-> req[c].id, lock |-> LockOf(req[c].id),
                       next |-> 1]
      <4>1. req' = [req EXCEPT ![c] = m] /\ m.op # "locking"
        BY <1>4, <3>2 DEF AcquireLock
      <4> HIDE DEF m
      <4>2. QED
        BY <4>1, Typed DEF NoneAsks
    <3>3. QED
      BY <3>1, <3>2
  <2>2. UNCHANGED <<listed, undercut>>
    BY <1>4 DEF AcquireLock
  <2>3. QED
    BY <2>1, <2>2 DEF AskedIsListed, NoneAsks
<1>5. ASSUME LoopFree, NoneAsks, UNCHANGED undercut
      PROVE  AskedIsListed' /\ undercut \subseteq undercut'
  BY <1>5 DEF LoopFree, NoneAsks, AskedIsListed
<1>6. ASSUME NEW s \in Sessions, LoopFree,
             CreateSession(s) \/ DeleteSession(s) \/ GetSession(s)
      PROVE  AskedIsListed' /\ undercut \subseteq undercut'
  <2>1. NoneAsks /\ UNCHANGED undercut
    BY <1>6, UnlinkedAsks DEF CreateSession, DeleteSession, GetSession, NoneAsks
  <2>2. QED
    BY <1>5, <1>6, <2>1
<1>7. ASSUME NEW c \in Clients, LoopFree, Upload(c)
      PROVE  AskedIsListed' /\ undercut \subseteq undercut'
  <2>1. UNCHANGED undercut
    BY <1>7 DEF Upload, UploadChunk, OpenChunk, FinishChunk, WriteChunk
  <2>2. QED
    BY <1>5, <1>7, <2>1, UploadAsksNone
<1>8. ASSUME NEW c \in Clients, LoopFree,
             \/ CreateFinal(c) \/ CopyChunk(c) \/ FailMerge(c)
             \/ \E passed \in BOOLEAN : CheckFinal(c, passed)
      PROVE  AskedIsListed' /\ undercut \subseteq undercut'
  <2>1. UNCHANGED undercut
    BY <1>8 DEF CreateFinal, CopyChunk, FailMerge, CheckFinal
  <2>2. QED
    BY <1>5, <1>8, <2>1, MergeAsksNone
<1>9. ASSUME NEW c \in Clients, NEW s \in Sessions, LoopFree, MergeChunks(c, s)
      PROVE  AskedIsListed' /\ undercut \subseteq undercut'
  <2> DEFINE r == [op |-> "locking", id |-> s]
  <2>1. /\ s \in listed
        /\ UNCHANGED req \/ req' = [req EXCEPT ![c] = r]
        /\ UNCHANGED <<listed, undercut>>
    BY <1>9 DEF MergeChunks
  <2>2. r.id = s
    OBVIOUS
  <2> HIDE DEF r
  <2>3. \A d \in Clients : req'[d] = req[d] \/ req'[d] = r
    BY <2>1, Typed
  <2>4. QED
    BY <2>1, <2>2, <2>3 DEF AskedIsListed
<1>10. QED
  BY <1>1, <1>2, <1>3, <1>4, <1>6, <1>7, <1>8, <1>9 DEF UploadNext, Merge

\* The lock made for a session that is not listed is made for one undercut.
LEMMA FreshStep ==
  ASSUME UInv, [UploadNext]_uvars
  PROVE  FreshIsUndercut'
<1>1. undercut \subseteq undercut'
  BY AskStep DEF UInv
<1>2. UploadTypeOK /\ FreshIsUndercut /\ AskedIsListed
  BY DEF UInv
<1>3. CASE lock' \subseteq lock
  BY <1>1, <1>2, <1>3 DEF FreshIsUndercut
<1>4. ASSUME NEW c \in Clients, NEW s \in Sessions, Begins(c, s)
      PROVE  FreshIsUndercut'
  <2>1. s \in listed \cup undercut
    BY <1>2, <1>4 DEF Begins, AskedIsListed
  <2>2. ASSUME NEW t \in Sessions, <<t, FALSE>> = LockOf(s)
        PROVE  t \in undercut
    <3>1. t = s /\ s \notin listed
      BY <2>2 DEF LockOf
    <3>2. QED
      BY <2>1, <3>1
  <2>3. QED
    BY <1>1, <1>2, <1>4, <2>2 DEF FreshIsUndercut, Begins
<1>5. QED
  BY <1>2, <1>3, <1>4, StepEffect DEF Quiet, Ends

LEMMA UInvStep == UInv /\ [UploadNext]_uvars => UInv'
<1> SUFFICES ASSUME UInv, [UploadNext]_uvars
             PROVE  UInv'
  OBVIOUS
<1>1. UploadTypeOK' /\ Holders'
  BY StepEffect, QuietKeeps, BeginsKeeps, EndsKeeps DEF UInv
<1>2. QED
  BY <1>1, AskStep, FreshStep DEF UInv

(***************************************************************************)
(* Two writers of a merged file.                                           *)
(***************************************************************************)
\* Which of its two locks a merge of s can hold.
LEMMA LocksOf ==
  ASSUME UInv, NEW s \in Sessions, NEW c \in Merging(s)
  PROVE  /\ req[c].lock \in {<<s, TRUE>>, <<s, FALSE>>}
         /\ req[c].lock = <<s, FALSE>> => s \in undercut
<1>1. c \in Clients /\ IsMerge(c) /\ req[c].id = s
  BY DEF Merging
<1>2. req[c].lock \in lock /\ req[c].lock[1] = s
  BY <1>1 DEF UInv, Holders, MergeHasLock
<1>3. req[c].lock \in Sessions \X BOOLEAN
  BY <1>2 DEF UInv, UploadTypeOK, Lock
<1>4. req[c].lock = <<s, req[c].lock[2]>> /\ req[c].lock[2] \in BOOLEAN
  BY <1>2, <1>3
<1>5. req[c].lock \in {<<s, TRUE>>, <<s, FALSE>>}
  BY <1>4
<1>6. QED
  BY <1>2, <1>5 DEF UInv, FreshIsUndercut

\* Two merges of a session: it was undercut.
LEMMA TwoMerges ==
  ASSUME UInv, NEW s \in Sessions, NEW c \in Merging(s), NEW d \in Merging(s), c # d
  PROVE  s \in undercut /\ {req[c].lock, req[d].lock} = {<<s, TRUE>>, <<s, FALSE>>}
<1>1. req[c].lock # req[d].lock
  BY DEF UInv, Holders, OneHolder, Merging
<1>2. QED
  BY <1>1, LocksOf

LEMMA MixedStep ==
  ASSUME UInv, MixedIsUndercut, [UploadNext]_uvars
  PROVE  MixedIsUndercut'
<1>1. undercut \subseteq undercut' /\ UploadTypeOK
  BY AskStep DEF UInv
<1>2. CASE UNCHANGED final
  BY <1>1, <1>2 DEF MixedIsUndercut
<1>3. ASSUME NEW c \in Clients, CreateFinal(c)
      PROVE  MixedIsUndercut'
  <2> DEFINE s == req[c].id
  <2>1. IsMerge(c) /\ s \in Sessions
    <3>1. IsMerge(c)
      BY <1>3 DEF CreateFinal, IsMerge
    <3>2. QED
      BY <1>1, <3>1, Typed, RequestShapes DEF IsMerge
  <2>2. c \in Merging(s)
    BY <2>1 DEF Merging
  <2>3. CASE Merging(s) = {c}
    <3>1. final' = [final EXCEPT ![s] = [read |-> 0, content |-> "whole"]]
      BY <1>3, <2>3 DEF CreateFinal
    <3>2. QED
      BY <1>1, <2>1, <3>1 DEF MixedIsUndercut, UploadTypeOK
  <2>4. CASE Merging(s) # {c}
    <3>1. PICK d \in Merging(s) : d # c
      BY <2>2, <2>4
    <3>2. s \in undercut
      BY <2>1, <2>2, <3>1, TwoMerges
    <3>3. final' = [final EXCEPT ![s] = Mixed]
      BY <1>3, <2>4 DEF CreateFinal
    <3>4. QED
      BY <1>1, <2>1, <3>2, <3>3 DEF MixedIsUndercut, UploadTypeOK
  <2>5. QED
    BY <2>3, <2>4
<1>4. ASSUME NEW c \in Clients, CopyChunk(c)
      PROVE  MixedIsUndercut'
  <2> DEFINE s == req[c].id
             x == Extended(final[s], req[c].next, chunk[s][req[c].next])
  <2>1. s \in Sessions
    BY <1>1, <1>4, Typed, RequestShapes DEF CopyChunk
  <2>2. final' = [final EXCEPT ![s] = x]
    BY <1>1, <1>4, <2>1 DEF CopyChunk, UploadTypeOK
  <2>3. x.content = "mixed" => final[s].content = "mixed" /\ x = final[s]
    BY DEF Extended
  <2> HIDE DEF x
  <2>4. QED
    BY <1>1, <2>1, <2>2, <2>3 DEF MixedIsUndercut, UploadTypeOK
<1>5. QED
  BY <1>2, <1>3, <1>4
  DEF UploadNext, Upload, Merge, uvars, CreateSession, DeleteSession, GetSession, CleanChunks,
      CleanSession, Age, UploadChunk, OpenChunk, WriteChunk, FinishChunk, MergeChunks,
      AcquireLock, FailMerge, CheckFinal

(***************************************************************************)
(* A merged session.                                                       *)
(***************************************************************************)
\* Only the check of the merged file makes a session merged.
LEMMA OnlyCheckMerges ==
  ASSUME UploadTypeOK, [UploadNext]_uvars, NEW s \in Sessions,
         session'[s].status = "merged", session[s].status # "merged"
  PROVE  final'[s] = final[s] /\ (final[s] = Whole \/ final[s].content = "mixed")
<1>1. \A c \in Clients, passed \in BOOLEAN :
        CheckFinal(c, passed) =>
          final'[s] = final[s] /\ (final[s] = Whole \/ final[s].content = "mixed")
  BY Checks
<1>2. \A c \in Clients : ~FailMerge(c)
  BY Fails
<1>3. session'[s] # session[s]
  OBVIOUS
<1>4. \A t \in listed : Looked(t).status \in {session[t].status, "expired"}
  BY LookedTyped
<1>5. \A t \in Sessions : ~CreateSession(t)
  BY <1>3 DEF CreateSession, New, UploadTypeOK
<1>6. \A t \in Sessions : ~DeleteSession(t) /\ ~GetSession(t)
  BY <1>3, <1>4 DEF DeleteSession, GetSession, UploadTypeOK
<1>7. \A c \in Clients : ~Upload(c)
  <2>1. \A c \in Clients, t \in Sessions, i \in Chunks : ~UploadChunk(c, t, i)
    BY <1>3, <1>4 DEF UploadChunk, UploadTypeOK
  <2>2. \A c \in Clients : ~OpenChunk(c) /\ \A ok \in BOOLEAN : ~WriteChunk(c, ok)
    BY <1>3 DEF OpenChunk, WriteChunk
  <2>3. \A c \in Clients : ~FinishChunk(c)
    BY <1>3 DEF FinishChunk, UploadTypeOK
  <2>4. QED
    BY <2>1, <2>2, <2>3 DEF Upload
<1>8. \A c \in Clients, t \in Sessions : ~MergeChunks(c, t)
  BY <1>3, <1>4 DEF MergeChunks, UploadTypeOK
<1>9. \A c \in Clients : ~CreateFinal(c) /\ ~CopyChunk(c)
  BY <1>3 DEF CreateFinal, CopyChunk
<1>10. /\ \A t \in Sessions : ~CleanChunks(t) /\ ~Age(t)
       /\ ~CleanSession
       /\ ~UNCHANGED uvars
  BY <1>3 DEF CleanChunks, Age, CleanSession, uvars
<1>11. \A c \in Clients : ~AcquireLock(c)
  <2> SUFFICES ASSUME NEW c \in Clients, AcquireLock(c)
               PROVE  FALSE
    OBVIOUS
  <2> DEFINE t == req[c].id
  <2>1. t \in Sessions
    BY Typed, RequestShapes DEF AcquireLock
  <2>2. session' = [session EXCEPT ![t].status = "merging"]
    BY <1>3 DEF AcquireLock
  <2>3. [session[t] EXCEPT !.status = "merging"].status = "merging"
    BY <2>1, StatusTyped DEF UploadTypeOK, SessionStatus
  <2>4. QED
    BY <1>3, <2>1, <2>2, <2>3 DEF UploadTypeOK
<1>12. QED
  BY <1>1, <1>2, <1>5, <1>6, <1>7, <1>8, <1>9, <1>10, <1>11 DEF UploadNext, Merge

\* No request on s.
Alone(s) == \A c \in Clients : req[c] = Idle \/ req[c].id # s

\* Requests end or go on, and none starts.
NoneStarts ==
  \A c \in Clients :
    \/ req'[c] = req[c]
    \/ req'[c] = Idle
    \/ req[c] # Idle /\ req'[c].id = req[c].id

LEMMA StaysAlone ==
  ASSUME NEW s, Alone(s), NoneStarts
  PROVE  Alone(s)'
  BY DEF Alone, NoneStarts

LEMMA UnlinkedStartsNone ==
  ASSUME UploadTypeOK, NEW gone, Unlinked(gone)
  PROVE  NoneStarts
<1> SUFFICES ASSUME NEW c \in Clients
             PROVE  \/ req'[c] = req[c]
                    \/ req[c] # Idle /\ req'[c].id = req[c].id
  BY DEF NoneStarts
<1>1. CASE req[c].op = "write" /\ req[c].id \in gone
  <2>1. req'[c] = [req[c] EXCEPT !.op = "unlinked"] /\ req[c] # Idle
    BY <1>1 DEF Unlinked, Idle
  <2>2. req[c] \in Request
    BY Typed
  <2>3. QED
    BY <1>1, <2>1, <2>2, UnlinkedTyped
<1>2. CASE ~(req[c].op = "write" /\ req[c].id \in gone)
  BY <1>2 DEF Unlinked
<1>3. QED
  BY <1>1, <1>2

LEMMA AnswerStartsNone ==
  ASSUME UploadTypeOK, NEW c \in Clients, Answer(c)
  PROVE  NoneStarts
  BY Typed DEF Answer, NoneStarts

LEMMA StepStartsNone ==
  ASSUME UploadTypeOK, NEW c \in Clients, NEW op \in {"write", "finish", "copy", "check"},
         Step(c, op), req[c] # Idle
  PROVE  NoneStarts
<1>1. req[c] \in UploadRequest \cup AskRequest \cup MergeRequest
  BY Typed DEF Request
<1>2. /\ req'[c] = [req[c] EXCEPT !.op = op]
      /\ \A d \in Clients \ {c} : req'[d] = req[d]
  BY Typed DEF Step
<1>3. [req[c] EXCEPT !.op = op].id = req[c].id
  BY <1>1 DEF UploadRequest, AskRequest, MergeRequest
<1>4. QED
  BY <1>2, <1>3 DEF NoneStarts

LEMMA SettledStep ==
  ASSUME UploadTypeOK, [UploadNext]_uvars, NEW s \in Sessions, Settled(s)
  PROVE  /\ session'[s] = session[s]
         /\ final'[s] = final[s]
         /\ Alone(s)'
<1>1. Alone(s) /\ session[s].status = "merged" /\ s \notin old
  BY DEF Settled, Alone
<1>2. s \in listed => Looked(s) = session[s]
  BY <1>1 DEF Looked
<1>3. CASE UNCHANGED uvars
  BY <1>1, <1>3 DEF uvars, Alone
<1>4. ASSUME NEW t \in Sessions, CreateSession(t)
      PROVE  /\ session'[s] = session[s]
             /\ final'[s] = final[s]
             /\ Alone(s)'
  <2>1. session[s] # Unborn
    BY <1>1 DEF Unborn
  <2>2. session[t] = Unborn
    <3>1. ~(t < t)
      BY DEF Sessions
    <3>2. QED
      BY <1>4, <3>1 DEF CreateSession
  <2>3. session'[s] = session[s] /\ final'[s] = final[s]
    BY <1>4, <2>1, <2>2 DEF CreateSession, UploadTypeOK
  <2>4. NoneStarts
    BY <1>4, UnlinkedStartsNone DEF CreateSession
  <2>5. QED
    BY <1>1, <2>3, <2>4, StaysAlone
<1>5. ASSUME NEW t \in Sessions, DeleteSession(t) \/ CleanChunks(t)
      PROVE  /\ session'[s] = session[s]
             /\ final'[s] = final[s]
             /\ Alone(s)'
  <2>1. session'[s] = session[s] /\ final'[s] = final[s]
    BY <1>2, <1>5 DEF DeleteSession, CleanChunks, UploadTypeOK
  <2>2. NoneStarts
    BY <1>5, UnlinkedStartsNone DEF DeleteSession, CleanChunks
  <2>3. QED
    BY <1>1, <2>1, <2>2, StaysAlone
<1>6. ASSUME CleanSession \/ \E t \in Sessions : GetSession(t) \/ Age(t)
      PROVE  /\ session'[s] = session[s]
             /\ final'[s] = final[s]
             /\ Alone(s)'
  BY <1>1, <1>2, <1>6 DEF CleanSession, GetSession, Age, UploadTypeOK, Alone
<1>7. ASSUME NEW c \in Clients, NEW t \in Sessions, NEW i \in Chunks, UploadChunk(c, t, i)
      PROVE  /\ session'[s] = session[s]
             /\ final'[s] = final[s]
             /\ Alone(s)'
  <2> DEFINE r == [op |-> "open", id |-> t, index |-> i]
  <2>1. session'[s] = session[s] /\ final'[s] = final[s]
    BY <1>2, <1>7 DEF UploadChunk, UploadTypeOK
  <2>2. \/ UNCHANGED req
        \/ t # s /\ req' = [req EXCEPT ![c] = r]
    BY <1>1, <1>2, <1>7 DEF UploadChunk
  <2>3. r.id = t
    OBVIOUS
  <2> HIDE DEF r
  <2>4. Alone(s)'
    BY <1>1, <2>2, <2>3, Typed DEF Alone
  <2>5. QED
    BY <2>1, <2>4
<1>8. ASSUME NEW c \in Clients, NEW t \in Sessions, MergeChunks(c, t)
      PROVE  /\ session'[s] = session[s]
             /\ final'[s] = final[s]
             /\ Alone(s)'
  <2> DEFINE r == [op |-> "locking", id |-> t]
  <2>1. UNCHANGED final
    BY <1>8 DEF MergeChunks
  <2>2. /\ t \in listed
        /\ session' = [session EXCEPT ![t] = Looked(t)]
        /\ UNCHANGED req \/ (t # s /\ req' = [req EXCEPT ![c] = r])
    BY <1>1, <1>2, <1>8 DEF MergeChunks, MayMerge
  <2>3. r.id = t
    OBVIOUS
  <2> HIDE DEF r
  <2>4. session'[s] = session[s]
    BY <1>2, <2>2 DEF UploadTypeOK
  <2>5. Alone(s)'
    BY <1>1, <2>2, <2>3, Typed DEF Alone
  <2>6. QED
    BY <2>1, <2>4, <2>5
<1>9. ASSUME NEW c \in Clients, \/ OpenChunk(c) \/ FinishChunk(c)
                                \/ \E ok \in BOOLEAN : WriteChunk(c, ok)
      PROVE  /\ session'[s] = session[s]
             /\ final'[s] = final[s]
             /\ Alone(s)'
  <2>1. req[c] # Idle
    BY <1>9 DEF OpenChunk, FinishChunk, WriteChunk, Idle
  <2>2. req[c].id # s
    BY <1>1, <2>1 DEF Alone
  <2>3. session'[s] = session[s] /\ final'[s] = final[s]
    BY <1>9, <2>2 DEF OpenChunk, FinishChunk, WriteChunk, UploadTypeOK
  <2>4. Answer(c) \/ Step(c, "write") \/ Step(c, "finish")
    BY <1>9 DEF OpenChunk, FinishChunk, WriteChunk
  <2>5. QED
    BY <1>1, <2>1, <2>3, <2>4, AnswerStartsNone, StepStartsNone, StaysAlone
<1>10. ASSUME NEW c \in Clients, CreateFinal(c) \/ CopyChunk(c) \/ FailMerge(c)
       PROVE  /\ session'[s] = session[s]
              /\ final'[s] = final[s]
              /\ Alone(s)'
  <2>1. req[c] # Idle
    BY <1>10 DEF CreateFinal, CopyChunk, FailMerge, IsMerge, Idle
  <2>2. req[c].id # s
    BY <1>1, <2>1 DEF Alone
  <2>3. session'[s] = session[s] /\ final'[s] = final[s]
    BY <1>10, <2>2 DEF CreateFinal, CopyChunk, FailMerge, GiveUp, UploadTypeOK
  <2>4. \/ Answer(c) \/ Step(c, "copy") \/ Step(c, "check")
        \/ \E i : req' = [req EXCEPT ![c].next = i]
    BY <1>10 DEF CreateFinal, CopyChunk, FailMerge, GiveUp
  <2>5. CASE \E i : req' = [req EXCEPT ![c].next = i]
    <3>1. PICK i : req' = [req EXCEPT ![c].next = i]
      BY <2>5
    <3>2. req[c] \in UploadRequest \cup AskRequest \cup MergeRequest
      BY <2>1, Typed DEF Request
    <3>3. [req[c] EXCEPT !.next = i].id = req[c].id
      BY <3>2 DEF UploadRequest, AskRequest, MergeRequest
    <3>4. NoneStarts
      BY <2>1, <3>1, <3>3, Typed DEF NoneStarts
    <3>5. QED
      BY <1>1, <2>3, <3>4, StaysAlone
  <2>6. QED
    BY <1>1, <2>1, <2>3, <2>4, <2>5, AnswerStartsNone, StepStartsNone, StaysAlone
<1>11. ASSUME NEW c \in Clients, NEW passed \in BOOLEAN, CheckFinal(c, passed)
       PROVE  /\ session'[s] = session[s]
              /\ final'[s] = final[s]
              /\ Alone(s)'
  <2> DEFINE t == req[c].id
  <2>1. req[c] # Idle
    BY <1>11 DEF CheckFinal, Idle
  <2>2. t # s
    BY <1>1, <2>1 DEF Alone
  <2>3. session'[s] = session[s] /\ final'[s] = final[s]
    BY <1>11, <2>2 DEF CheckFinal, GiveUp, UploadTypeOK
  <2>4. CASE Answer(c)
    BY <1>1, <2>3, <2>4, AnswerStartsNone, StaysAlone
  <2>5. ASSUME ~Answer(c), NEW d \in Clients
        PROVE  req'[d] = Idle \/ req'[d].id # s
    <3>1. \/ req'[d] = Idle
          \/ req'[d] = req[d]
          \/ req[d].op = "write" /\ req'[d] = [req[d] EXCEPT !.op = "unlinked"]
      BY <1>11, <2>5 DEF CheckFinal, GiveUp
    <3>2. CASE req[d].op = "write" /\ req'[d] = [req[d] EXCEPT !.op = "unlinked"]
      <4>1. req[d] \in Request /\ req[d] # Idle
        BY <3>2, Typed DEF Idle
      <4>2. req'[d].id = req[d].id
        BY <3>2, <4>1, UnlinkedTyped
      <4>3. QED
        BY <1>1, <4>1, <4>2 DEF Alone
    <3>3. QED
      BY <1>1, <3>1, <3>2 DEF Alone
  <2>6. QED
    BY <2>3, <2>4, <2>5 DEF Alone
<1>12. ASSUME NEW c \in Clients, AcquireLock(c)
       PROVE  /\ session'[s] = session[s]
              /\ final'[s] = final[s]
              /\ Alone(s)'
  <2> DEFINE t == req[c].id
             m == [op |-> "create", id |-> t, lock |-> LockOf(t), next |-> 1]
  <2>1. req[c] # Idle
    BY <1>12 DEF AcquireLock, Idle
  <2>2. t # s
    BY <1>1, <2>1 DEF Alone
  <2>3. session'[s] = session[s] /\ final'[s] = final[s]
    BY <1>12, <2>2 DEF AcquireLock, UploadTypeOK
  <2>4. Answer(c) \/ req' = [req EXCEPT ![c] = m]
    BY <1>12 DEF AcquireLock
  <2>5. m.id = t
    OBVIOUS
  <2> HIDE DEF m
  <2>6. NoneStarts
    BY <2>1, <2>4, <2>5, AnswerStartsNone, Typed DEF NoneStarts
  <2>7. QED
    BY <1>1, <2>3, <2>6, StaysAlone
<1>13. QED
  BY <1>3, <1>4, <1>5, <1>6, <1>7, <1>8, <1>9, <1>10, <1>11, <1>12
  DEF UploadNext, Upload, Merge

(***************************************************************************)
(* Theorems.                                                               *)
(***************************************************************************)
\* The invariant holds of every behaviour.
LEMMA UInvAlways == UploadSpec => []UInv
  BY UInvInit, UInvStep, PTL DEF UploadSpec

(* Every session, file and request has its type, however requests, the      *)
(* cleanup and failures of the disk interleave.                             *)
THEOREM UploadTypes == UploadSpec => []UploadTypeOK
<1>1. UInv => UploadTypeOK
  BY DEF UInv
<1>2. QED
  BY <1>1, UInvAlways, PTL

(* However many requests upload, merge and delete, no two of them write the *)
(* merged file of a session at a time (_acquire_merge_lock), unless the     *)
(* cleanup deleted the session, and with it the lock in the table, between  *)
(* the checks of a merge and its lock, and then two and no more.            *)
THEOREM MergesAlone == UploadSpec => []OneMergePerSession
<1>1. UInv => OneMergePerSession
  <2> SUFFICES ASSUME UInv, NEW s \in Sessions
               PROVE  Cardinality(Merging(s)) <= IF s \in undercut THEN 2 ELSE 1
    BY DEF OneMergePerSession
  <2>1. CASE Merging(s) = {}
    BY <2>1, FS_EmptySet
  <2>2. ASSUME NEW c \in Merging(s), Merging(s) = {c}
        PROVE  Cardinality(Merging(s)) = 1
    BY <2>2, FS_Singleton
  <2>3. ASSUME NEW c \in Merging(s), NEW d \in Merging(s), c # d
        PROVE  s \in undercut /\ Cardinality(Merging(s)) = 2
    <3>1. s \in undercut /\ {req[c].lock, req[d].lock} = {<<s, TRUE>>, <<s, FALSE>>}
      BY <2>3, TwoMerges
    <3>2. ASSUME NEW e \in Merging(s)
          PROVE  e \in {c, d}
      <4>1. req[e].lock \in {req[c].lock, req[d].lock}
        BY <3>1, LocksOf
      <4>2. QED
        BY <4>1 DEF UInv, Holders, OneHolder, Merging
    <3>3. Merging(s) = {c} \cup {d}
      BY <3>2
    <3>4. IsFiniteSet({c}) /\ Cardinality({c}) = 1
      BY FS_Singleton
    <3>5. Cardinality({c} \cup {d}) = 2
      BY <2>3, <3>4, FS_AddElement
    <3>6. QED
      BY <3>1, <3>3, <3>5
  <2>4. QED
    BY <2>1, <2>2, <2>3
<1>2. QED
  BY <1>1, UInvAlways, PTL

(* However merges fail, a session that says it is merging, or is locked, is *)
(* being merged by somebody (merge_chunks, its finally).                    *)
THEOREM NoMergeLeftBehind == UploadSpec => []MergingIsUnderWay
<1>1. UInv => MergingIsUnderWay
  <2> SUFFICES ASSUME UInv, NEW s \in Sessions,
                      session[s].status = "merging" \/ \E l \in lock : l[1] = s
               PROVE  \E c \in Clients : IsMerge(c) /\ req[c].id = s
    BY DEF MergingIsUnderWay, Merging
  <2>1. QED
    BY DEF UInv, Holders, LockIsUsed, MergeHasLock, MergingIsMerged
<1>2. QED
  BY <1>1, UInvAlways, PTL

(* A session becomes merged with every chunk, whole, in its file only, even *)
(* when chunks are sent again or removed while it is merged; the file of a  *)
(* session that was undercut, as above, is the one exception.               *)
THEOREM MergesAreWhole == UploadSpec => MergedIsWhole
<1>1. UploadInit => MixedIsUndercut
  BY DEF UploadInit, MixedIsUndercut, NoFinal
<1>2. UInv /\ MixedIsUndercut /\ [UploadNext]_uvars => MixedIsUndercut'
  BY MixedStep
<1>3. UInv /\ MixedIsUndercut /\ [UploadNext]_uvars =>
        [\A s \in Sessions :
           session'[s].status = "merged" /\ session[s].status # "merged" =>
             final'[s] = Whole \/ (s \in undercut /\ final'[s] = Mixed)]_uvars
  BY OnlyCheckMerges DEF UInv, MixedIsUndercut
<1>4. QED
  BY <1>1, <1>2, <1>3, UInvAlways, PTL DEF UploadSpec, MergedIsWhole

(* A merged session with no request on it, and its file, stay as they are   *)
(* until the session expires (upload_chunk, merge_chunks).                  *)
THEOREM MergesStay == UploadSpec => SettledMergeStays
<1>1. UInv /\ [UploadNext]_uvars =>
        [\A s \in Sessions :
           Settled(s) => (Settled(s)' \/ s \in old') /\ final'[s] = final[s]]_uvars
  BY SettledStep DEF UInv, Settled, Alone
<1>2. QED
  BY <1>1, UInvAlways, PTL DEF UploadSpec, SettledMergeStays
=============================================================================
