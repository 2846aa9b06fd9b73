------------------------ MODULE FundApproval_proofs ------------------------
(***************************************************************************)
(* Theorems about FundApproval, for any number of clients, funds, tasks,   *)
(* workflows and levels.                                                   *)
(*                                                                         *)
(* Under any interleaving: every write of the status of a fund is in its   *)
(* history and no money moves without an approval (FInv, which needs the   *)
(* funds, their history and the fund requests only, because the apply      *)
(* handler moves funds within the approval stage); everything keeps its    *)
(* type (BInv); no fund skips a stage of its lifecycle (CInv); and what    *)
(* ApprovalTasks promises of the tasks still holds, because a direct       *)
(* decision on a fund goes through the service.                            *)
(*                                                                         *)
(* When requests do not overlap (Serial), what a request has read is still *)
(* so when it writes (SInv, FreshFunds): rounds start over, histories are  *)
(* chains, verdicts take effect, and a direct decision leaves no task of   *)
(* its fund pending (AllInHand).                                           *)
(***************************************************************************)
EXTENDS FundApproval, ApprovalSerial_proofs, WellFoundedInduction

Spending == {"allocated", "in_use", "completed", "audited"}

(***************************************************************************)
(* The inductive invariant.                                                *)
(***************************************************************************)
\* Funds have a status, histories are sequences of entries, requests say what
\* they are.
Shape ==
  /\ fund = [f \in Entities |-> fund[f]]
  /\ \A f \in Entities : "status" \in DOMAIN fund[f]
  /\ history \in [Entities -> Seq(Entry)]
  /\ freq = [c \in Clients |-> freq[c]]
  /\ \A c \in Clients : "op" \in DOMAIN freq[c]

\* The fund was approved at some time.
Earned(f) == \E i \in 1..Len(history[f]) : history[f][i].to = "approved"

\* A fund that is past the approval stage was approved.
EarnedFunds ==
  \A f \in Entities : fund[f].status \in Spending \cup {"approved"} => Earned(f)

\* So was one that a transition in flight saw past it.
EarnedMoves ==
  \A c \in Clients :
    LET m == freq[c] IN
    m.op = "move" =>
      /\ m.fund \in Entities
      /\ m.to \in DOMAIN Allowed
      /\ m.from \in Allowed[m.to]
      /\ m.from # "pending" => Earned(m.fund)

FInv == Shape /\ EarnedFunds /\ EarnedMoves /\ LastEntryIsStatus

(***************************************************************************)
(* Lemmas.                                                                 *)
(***************************************************************************)
\* The handler moves a fund within the approval stage.
LEMMA TargetInStage ==
  ASSUME NEW s, NEW from, Target(s, from) # from
  PROVE  /\ from \in {"pending", "rejected"}
         /\ Target(s, from) \in {"pending", "approved", "rejected"}
  BY DEF Target

\* An entry is appended behind those that are there.
LEMMA AppendEntry ==
  ASSUME NEW h \in Seq(Entry), NEW e \in Entry
  PROVE  /\ Append(h, e) \in Seq(Entry)
         /\ Append(h, e) # <<>>
         /\ Len(h) \in Nat
         /\ Len(Append(h, e)) = Len(h) + 1
         /\ Append(h, e)[Len(h) + 1] = e
         /\ \A i \in 1..Len(h) : Append(h, e)[i] = h[i]
  OBVIOUS

\* What a logged write of the status of a fund keeps.
WritesStatus(f, from, to) ==
  /\ fund' = [fund EXCEPT ![f].status = to]
  /\ LogMove(f, from, to)

LEMMA WriteKeeps ==
  ASSUME FInv, NEW f \in Entities, NEW from \in FundStatus, NEW to \in FundStatus,
         WritesStatus(f, from, to), to \in Spending => Earned(f)
  PROVE  /\ fund' = [g \in Entities |-> fund'[g]]
         /\ \A g \in Entities : "status" \in DOMAIN fund'[g]
         /\ history' \in [Entities -> Seq(Entry)]
         /\ \A g \in Entities : Earned(g) => Earned(g)'
         /\ EarnedFunds'
         /\ LastEntryIsStatus'
<1> DEFINE e == [from |-> from, to |-> to]
<1>1. e \in Entry
  BY DEF Entry
<1>2. /\ fund'[f].status = to
      /\ \A g \in Entities \ {f} : fund'[g] = fund[g]
      /\ fund' = [g \in Entities |-> fund'[g]]
      /\ \A g \in Entities : "status" \in DOMAIN fund'[g]
  BY DEF WritesStatus, FInv, Shape
<1>3. /\ history' = [history EXCEPT ![f] = Append(history[f], e)]
      /\ history[f] \in Seq(Entry)
  BY DEF WritesStatus, LogMove, FInv, Shape
<1> HIDE DEF e
<1>4. /\ history' \in [Entities -> Seq(Entry)]
      /\ history'[f] = Append(history[f], e)
      /\ \A g \in Entities \ {f} : history'[g] = history[g]
  BY <1>1, <1>3, AppendEntry DEF FInv, Shape
<1>5. /\ history'[f] # <<>>
      /\ Len(history[f]) \in Nat
      /\ Len(history'[f]) = Len(history[f]) + 1
      /\ history'[f][Len(history[f]) + 1] = e
      /\ \A i \in 1..Len(history[f]) : history'[f][i] = history[f][i]
  BY <1>1, <1>3, <1>4, AppendEntry
<1>6. \A g \in Entities : Earned(g) => Earned(g)'
  <2> SUFFICES ASSUME NEW g \in Entities, Earned(g)
               PROVE  Earned(g)'
    OBVIOUS
  <2>1. PICK i \in 1..Len(history[g]) : history[g][i].to = "approved"
    BY DEF Earned
  <2>2. i \in 1..Len(history'[g]) /\ history'[g][i].to = "approved"
    <3>1. CASE g = f
      BY <1>5, <2>1, <3>1
    <3>2. CASE g # f
      BY <1>4, <2>1, <3>2
    <3>3. QED
      BY <3>1, <3>2
  <2>3. QED
    BY <2>2 DEF Earned
<1>7. to = "approved" => Earned(f)'
  <2>1. e.to = to
    BY DEF e
  <2>2. Len(history[f]) + 1 \in 1..Len(history'[f])
    BY <1>5
  <2>3. QED
    BY <1>5, <2>1, <2>2 DEF Earned
<1>8. EarnedFunds'
  BY <1>2, <1>6, <1>7 DEF FInv, EarnedFunds
<1>9. LastEntryIsStatus'
  <2>1. history'[f][Len(history'[f])].to = to
    BY <1>5 DEF e
  <2>2. QED
    BY <1>2, <1>4, <2>1 DEF FInv, LastEntryIsStatus
<1>10. QED
  BY <1>2, <1>4, <1>6, <1>8, <1>9

\* A step that leaves funds and history alone, and starts no transition.
LEMMA QuietKeeps ==
  ASSUME FInv, UNCHANGED <<fund, history>>,
         freq' = [c \in Clients |-> freq'[c]],
         \A c \in Clients : "op" \in DOMAIN freq'[c],
         \A c \in Clients : freq'[c] = freq[c] \/ freq'[c].op # "move"
  PROVE  FInv'
<1>1. Shape' /\ EarnedFunds' /\ LastEntryIsStatus'
  BY DEF FInv, Shape, EarnedFunds, LastEntryIsStatus, Earned
<1>2. EarnedMoves'
  BY DEF FInv, EarnedMoves, Earned
<1>3. QED
  BY <1>1, <1>2 DEF FInv

\* A commit of a client starts no transition and changes no other request.
LEMMA ExpireQuiet ==
  ASSUME FInv, NEW c \in Clients, Expire(c)
  PROVE  /\ freq' = [d \in Clients |-> freq'[d]]
         /\ \A d \in Clients : "op" \in DOMAIN freq'[d]
         /\ \A d \in Clients : freq'[d] = freq[d] \/ freq'[d].op # "move"
<1>1. /\ freq' = [d \in Clients |-> freq'[d]]
      /\ \A d \in Clients \ {c} : freq'[d] = freq[d]
      /\ freq'[c] = IF freq[c].op = "resolve"
                    THEN [freq[c] EXCEPT !.loaded = FALSE] ELSE freq[c]
  BY DEF Expire, FInv, Shape
<1>2. CASE freq[c].op # "resolve"
  BY <1>1, <1>2 DEF FInv, Shape
<1>3. CASE freq[c].op = "resolve"
  <2>1. "op" \in DOMAIN freq[c]
    BY DEF FInv, Shape
  <2>2. /\ "op" \in DOMAIN [freq[c] EXCEPT !.loaded = FALSE]
        /\ [freq[c] EXCEPT !.loaded = FALSE].op = freq[c].op
    BY <2>1
  <2>3. QED
    BY <1>1, <1>3, <2>2 DEF FInv, Shape
<1>4. QED
  BY <1>2, <1>3

\* A decision of the workflow service with the handler in its transaction.
LEMMA ApplyKeeps ==
  ASSUME FInv, NEW c \in Clients, NEW s, NEW ok \in BOOLEAN, Apply(c, s, ok)
  PROVE  FInv'
<1> DEFINE f == task[req[c].id].entity
           from == KnownStatus(c, f)
           to == Target(s, from)
<1>0. /\ freq' = [d \in Clients |-> freq'[d]]
      /\ \A d \in Clients : "op" \in DOMAIN freq'[d]
      /\ \A d \in Clients : freq'[d] = freq[d] \/ freq'[d].op # "move"
  BY ExpireQuiet DEF Apply
<1>1. \/ UNCHANGED <<fund, history>>
      \/ to # from /\ WritesStatus(f, from, to)
  BY DEF Apply, FundHandler, WritesStatus
<1>2. CASE UNCHANGED <<fund, history>>
  BY <1>0, <1>2, QuietKeeps
<1>3. CASE to # from /\ WritesStatus(f, from, to)
  <2>1. /\ from \in FundStatus
        /\ to \in FundStatus
        /\ to \notin Spending
    <3> HIDE DEF from
    <3>1. Target(s, from) # from
      BY <1>3
    <3>2. QED
      BY <3>1, TargetInStage DEF FundStatus, Spending
  <2> HIDE DEF f, from, to
  <2>2. CASE f \in Entities
    <3>1. /\ fund' = [g \in Entities |-> fund'[g]]
          /\ \A g \in Entities : "status" \in DOMAIN fund'[g]
          /\ history' \in [Entities -> Seq(Entry)]
          /\ \A g \in Entities : Earned(g) => Earned(g)'
          /\ EarnedFunds'
          /\ LastEntryIsStatus'
      BY <1>3, <2>1, <2>2, WriteKeeps
    <3>2. Shape'
      BY <1>0, <3>1 DEF Shape
    <3>3. EarnedMoves'
      BY <1>0, <3>1 DEF FInv, EarnedMoves
    <3>4. QED
      BY <3>1, <3>2, <3>3 DEF FInv
  <2>3. CASE f \notin Entities
    <3>1. UNCHANGED <<fund, history>>
      BY <1>3, <2>3 DEF WritesStatus, LogMove, FInv, Shape
    <3>2. QED
      BY <1>0, <3>1, QuietKeeps
  <2>4. QED
    BY <2>2, <2>3
<1>4. QED
  BY <1>1, <1>2, <1>3

\* A request that starts anything but a transition, or ends.
LEMMA RequestQuiet ==
  ASSUME FInv, NEW c \in Clients, NEW r, freq' = [freq EXCEPT ![c] = r],
         "op" \in DOMAIN r, r.op # "move"
  PROVE  /\ freq' = [d \in Clients |-> freq'[d]]
         /\ \A d \in Clients : "op" \in DOMAIN freq'[d]
         /\ \A d \in Clients : freq'[d] = freq[d] \/ freq'[d].op # "move"
  BY DEF FInv, Shape

\* Deleting a fund and restoring it leave its status alone.
LEMMA ActiveKeeps ==
  ASSUME FInv, NEW f, NEW b, fund' = [fund EXCEPT ![f].active = b], UNCHANGED history,
         freq' = [c \in Clients |-> freq'[c]],
         \A c \in Clients : "op" \in DOMAIN freq'[c],
         \A c \in Clients : freq'[c] = freq[c] \/ freq'[c].op # "move"
  PROVE  FInv'
<1>1. ASSUME NEW g \in Entities
      PROVE  "status" \in DOMAIN fund'[g] /\ fund'[g].status = fund[g].status
  <2>1. "status" \in DOMAIN fund[g]
    BY DEF FInv, Shape
  <2>2. fund'[g] = fund[g] \/ fund'[g] = [fund[g] EXCEPT !.active = b]
    BY DEF FInv, Shape
  <2>3. /\ "status" \in DOMAIN [fund[g] EXCEPT !.active = b]
        /\ [fund[g] EXCEPT !.active = b].status = fund[g].status
    BY <2>1
  <2>4. QED
    BY <2>1, <2>2, <2>3
<1>2. fund' = [g \in Entities |-> fund'[g]]
  BY DEF FInv, Shape
<1>3. Shape'
  BY <1>1, <1>2 DEF FInv, Shape
<1>4. EarnedFunds' /\ LastEntryIsStatus'
  BY <1>1 DEF FInv, EarnedFunds, LastEntryIsStatus, Earned
<1>5. EarnedMoves'
  BY DEF FInv, EarnedMoves, Earned
<1>6. QED
  BY <1>3, <1>4, <1>5 DEF FInv

\* A new fund has no history and no approval.
LEMMA CreateKeeps ==
  ASSUME FInv, NEW c \in Clients, NEW f \in Entities, NEW u \in Users, NEW ch \in Changes,
         CreateFund(c, f, u, ch)
  PROVE  FInv'
<1>1. /\ fund'[f].status = "pending"
      /\ "status" \in DOMAIN fund'[f]
      /\ \A g \in Entities \ {f} : fund'[g] = fund[g]
      /\ fund' = [g \in Entities |-> fund'[g]]
      /\ UNCHANGED history
  BY DEF CreateFund, FInv, Shape
<1>2. fund[f].status = "absent"
  BY DEF CreateFund, NoFund
<1>3. history[f] = <<>>
  <2> SUFFICES ASSUME history[f] # <<>>
               PROVE  FALSE
    OBVIOUS
  <2>1. history[f][Len(history[f])].to = "absent"
    BY <1>2 DEF FInv, LastEntryIsStatus
  <2>2. history[f][Len(history[f])] \in Entry
    BY DEF FInv, Shape
  <2>3. QED
    BY <2>1, <2>2 DEF Entry, FundStatus
<1>4. /\ freq' = [d \in Clients |-> freq'[d]]
      /\ \A d \in Clients : "op" \in DOMAIN freq'[d]
      /\ \A d \in Clients : freq'[d] = freq[d] \/ freq'[d].op # "move"
  <2> DEFINE r == [op |-> "submit", fund |-> f, user |-> u, change |-> ch]
  <2>1. freq' = [freq EXCEPT ![c] = r]
    BY DEF CreateFund
  <2>2. "op" \in DOMAIN r /\ r.op # "move"
    OBVIOUS
  <2> HIDE DEF r
  <2>3. QED
    BY <2>1, <2>2, RequestQuiet
<1>5. Shape'
  BY <1>1, <1>4 DEF FInv, Shape
<1>6. EarnedFunds'
  BY <1>1 DEF FInv, EarnedFunds, Earned, Spending
<1>7. LastEntryIsStatus'
  BY <1>1, <1>3 DEF FInv, LastEntryIsStatus
<1>8. EarnedMoves'
  BY <1>1, <1>4 DEF FInv, EarnedMoves, Earned
<1>9. QED
  BY <1>5, <1>6, <1>7, <1>8 DEF FInv

\* A transition starts from a status its fund has.
LEMMA MoveReadKeeps ==
  ASSUME FInv, NEW c \in Clients, NEW f \in Entities, NEW u \in Users,
         NEW to \in DOMAIN Allowed, MoveRead(c, f, u, to)
  PROVE  FInv'
<1> DEFINE m == [op |-> "move", fund |-> f, user |-> u, from |-> fund[f].status, to |-> to]
<1>1. /\ UNCHANGED <<fund, history>>
      /\ freq' = [freq EXCEPT ![c] = m]
      /\ fund[f].status \in Allowed[to]
  BY DEF MoveRead
<1>2. fund[f].status # "pending" => Earned(f)
  BY <1>1 DEF Allowed, FInv, EarnedFunds, Spending
<1>3. /\ freq'[c] = m
      /\ \A d \in Clients \ {c} : freq'[d] = freq[d]
      /\ freq' = [d \in Clients |-> freq'[d]]
      /\ "op" \in DOMAIN m
  BY <1>1 DEF FInv, Shape
<1>4. Shape' /\ EarnedFunds' /\ LastEntryIsStatus'
  BY <1>1, <1>3 DEF FInv, Shape, EarnedFunds, LastEntryIsStatus, Earned
<1>5. EarnedMoves'
  <2>1. m.fund = f /\ m.to = to /\ m.from = fund[f].status
    OBVIOUS
  <2> HIDE DEF m
  <2>2. QED
    BY <1>1, <1>2, <1>3, <2>1 DEF FInv, EarnedMoves, Earned
<1>6. QED
  BY <1>4, <1>5 DEF FInv

\* Its write is logged, and leads into spending from an approved fund only.
LEMMA MoveKeeps ==
  ASSUME FInv, NEW c \in Clients, Move(c)
  PROVE  FInv'
<1> DEFINE m == freq[c]
<1>1. /\ m.op = "move"
      /\ WritesStatus(m.fund, m.from, m.to)
      /\ freq' = [freq EXCEPT ![c] = NextAfterMove(m)]
  BY DEF Move, WritesStatus
<1>2. /\ m.fund \in Entities
      /\ m.to \in DOMAIN Allowed
      /\ m.from \in Allowed[m.to]
      /\ m.from # "pending" => Earned(m.fund)
  BY <1>1 DEF FInv, EarnedMoves
<1> HIDE DEF m
<1>3. /\ m.from \in FundStatus
      /\ m.to \in FundStatus
      /\ m.to \in Spending => m.from # "pending"
  BY <1>2 DEF Allowed, FundStatus, Spending
<1>4. /\ fund' = [g \in Entities |-> fund'[g]]
      /\ \A g \in Entities : "status" \in DOMAIN fund'[g]
      /\ history' \in [Entities -> Seq(Entry)]
      /\ \A g \in Entities : Earned(g) => Earned(g)'
      /\ EarnedFunds'
      /\ LastEntryIsStatus'
  BY <1>1, <1>2, <1>3, WriteKeeps
<1>5. "op" \in DOMAIN NextAfterMove(m) /\ NextAfterMove(m).op # "move"
  BY DEF NextAfterMove, Idle
<1>6. /\ freq' = [d \in Clients |-> freq'[d]]
      /\ \A d \in Clients : "op" \in DOMAIN freq'[d]
      /\ \A d \in Clients : freq'[d] = freq[d] \/ freq'[d].op # "move"
  BY <1>1, <1>5, RequestQuiet
<1>7. Shape' /\ EarnedMoves'
  BY <1>4, <1>6 DEF FInv, Shape, EarnedMoves
<1>8. QED
  BY <1>4, <1>7 DEF FInv

(***************************************************************************)
(* The invariant is inductive.                                             *)
(***************************************************************************)
LEMMA FInvInit == FundInit => FInv
  BY DEF FundInit, FInv, Shape, EarnedFunds, EarnedMoves, LastEntryIsStatus,
         Earned, NoFund, Idle, Spending, Entry

\* The decisions of the workflow service.
LEMMA DecideKeeps ==
  ASSUME FInv, NEW c \in Clients, Decide(c)
  PROVE  FInv'
<1>1. CASE FundApproveNext(c)
  BY <1>1, ExpireQuiet, QuietKeeps DEF FundApproveNext
<1>2. ASSUME NEW ok \in BOOLEAN, FundApproveLast(c, ok)
      PROVE  FInv'
  BY <1>2, ApplyKeeps DEF FundApproveLast
<1>3. ASSUME NEW ok \in BOOLEAN, FundReject(c, ok)
      PROVE  FInv'
  BY <1>3, ApplyKeeps DEF FundReject
<1>4. ASSUME NEW ok \in BOOLEAN, FundResubmit(c, ok)
      PROVE  FInv'
  BY <1>4, ApplyKeeps DEF FundResubmit
<1>5. ASSUME NEW ok \in BOOLEAN, FundRetry(c, ok)
      PROVE  FInv'
  BY <1>5, ApplyKeeps DEF FundRetry
<1>6. QED
  BY <1>1, <1>2, <1>3, <1>4, <1>5 DEF Decide

\* A request that sets itself to anything but a transition.
LEMMA SetKeeps ==
  ASSUME FInv, NEW c \in Clients, NEW r, freq' = [freq EXCEPT ![c] = r],
         "op" \in DOMAIN r, r.op # "move", UNCHANGED <<fund, history>>
  PROVE  FInv'
  BY RequestQuiet, QuietKeeps

\* What fund requests start with.
LEMMA RequestsKeep ==
  ASSUME FInv, NEW c \in Clients, FundRequests(c)
  PROVE  FInv'
<1>1. ASSUME NEW f \in Entities, NEW u \in Users, NEW ch \in Changes, CreateFund(c, f, u, ch)
      PROVE  FInv'
  BY <1>1, CreateKeeps
<1>2. ASSUME NEW f \in Entities, NEW u \in Users, NEW ch \in Changes, UpdateFund(c, f, u, ch)
      PROVE  FInv'
  <2> DEFINE r == [op |-> "submit", fund |-> f, user |-> u, change |-> ch]
  <2>1. freq' = [freq EXCEPT ![c] = r] /\ UNCHANGED <<fund, history>>
    BY <1>2 DEF UpdateFund
  <2>2. "op" \in DOMAIN r /\ r.op # "move"
    OBVIOUS
  <2> HIDE DEF r
  <2>3. QED
    BY <2>1, <2>2, SetKeeps
<1>3. ASSUME NEW f \in Entities, DeleteRead(c, f)
      PROVE  FInv'
  <2> DEFINE r == [op |-> "delete", fund |-> f]
  <2>1. freq' = [freq EXCEPT ![c] = r] /\ UNCHANGED <<fund, history>>
    BY <1>3 DEF DeleteRead
  <2>2. "op" \in DOMAIN r /\ r.op # "move"
    OBVIOUS
  <2> HIDE DEF r
  <2>3. QED
    BY <2>1, <2>2, SetKeeps
<1>4. ASSUME NEW f \in Entities, NEW u \in Users, NEW to \in DOMAIN Allowed,
             MoveRead(c, f, u, to)
      PROVE  FInv'
  BY <1>4, MoveReadKeeps
<1>5. QED
  BY <1>1, <1>2, <1>3, <1>4 DEF FundRequests

LEMMA IdleQuiet == "op" \in DOMAIN Idle /\ Idle.op # "move"
  BY DEF Idle

\* What they go on with.
LEMMA StepsKeep ==
  ASSUME FInv, NEW c \in Clients, FundSteps(c)
  PROVE  FInv'
<1>1. CASE SubmitFund(c)
  BY <1>1, IdleQuiet, SetKeeps DEF SubmitFund
<1>2. CASE DeleteFund(c)
  <2>1. /\ freq' = [d \in Clients |-> freq'[d]]
        /\ \A d \in Clients : "op" \in DOMAIN freq'[d]
        /\ \A d \in Clients : freq'[d] = freq[d] \/ freq'[d].op # "move"
    BY <1>2, IdleQuiet, RequestQuiet DEF DeleteFund
  <2>2. fund' = [fund EXCEPT ![freq[c].fund].active = FALSE] /\ UNCHANGED history
    BY <1>2 DEF DeleteFund
  <2>3. QED
    BY <2>1, <2>2, ActiveKeeps
<1>3. CASE Move(c)
  BY <1>3, MoveKeeps
<1>4. CASE ResolveQuery(c)
  <2> DEFINE q == freq[c]
             found == [t \in PendingOf(q.fund) |-> task[t]]
             r == [op |-> "resolve", fund |-> q.fund, user |-> q.user,
                   verdict |-> q.verdict, todo |-> Without(found, Oldest(DOMAIN found)),
                   status |-> fund[q.fund].status, loaded |-> TRUE]
  <2>1. /\ UNCHANGED <<fund, history>>
        /\ freq' = [freq EXCEPT ![c] = Idle] \/ freq' = [freq EXCEPT ![c] = r]
    BY <1>4 DEF ResolveQuery
  <2>2. "op" \in DOMAIN r /\ r.op # "move"
    OBVIOUS
  <2> HIDE DEF r
  <2>3. QED
    BY <2>1, <2>2, IdleQuiet, SetKeeps
<1>5. CASE ResolveNext(c)
  <2> DEFINE t == Oldest(DOMAIN freq[c].todo)
             rest == Without(freq[c].todo, t)
             r == [freq[c] EXCEPT !.todo = rest]
  <2>1. /\ UNCHANGED <<fund, history>>
        /\ freq' = [freq EXCEPT ![c] = r]
        /\ freq[c].op = "resolve"
    BY <1>5 DEF ResolveNext, FInv, Shape
  <2>2. "op" \in DOMAIN r /\ r.op # "move"
    <3> HIDE DEF rest
    <3>1. "op" \in DOMAIN freq[c]
      BY DEF FInv, Shape
    <3>2. QED
      BY <2>1, <3>1
  <2> HIDE DEF r
  <2>3. QED
    BY <2>1, <2>2, SetKeeps
<1>6. CASE ResolveEnd(c)
  BY <1>6, IdleQuiet, SetKeeps DEF ResolveEnd
<1>7. QED
  BY <1>1, <1>2, <1>3, <1>4, <1>5, <1>6 DEF FundSteps

\* The workflow service alone, and steps that change nothing here.
LEMMA StutterKeeps ==
  ASSUME FInv, UNCHANGED <<fund, history, freq>>
  PROVE  FInv'
  BY DEF FInv, Shape, EarnedFunds, EarnedMoves, LastEntryIsStatus, Earned

LEMMA FInvStep ==
  ASSUME FInv, [FundNext]_fvars
  PROVE  FInv'
<1>1. CASE UNCHANGED fvars
  BY <1>1, StutterKeeps DEF fvars
<1>2. CASE Configure /\ UNCHANGED <<fund, history, freq>>
  BY <1>2, StutterKeeps
<1>3. CASE FundCrash
  <2>1. /\ UNCHANGED <<fund, history>>
        /\ freq' = [c \in Clients |-> Idle]
    BY <1>3 DEF FundCrash
  <2>2. QED
    BY <2>1, IdleQuiet, QuietKeeps
<1>4. ASSUME NEW f \in Entities, RestoreFund(f)
      PROVE  FInv'
  <2>1. /\ fund' = [fund EXCEPT ![f].active = TRUE]
        /\ UNCHANGED <<history, freq>>
    BY <1>4 DEF RestoreFund
  <2>2. /\ freq' = [d \in Clients |-> freq'[d]]
        /\ \A d \in Clients : "op" \in DOMAIN freq'[d]
        /\ \A d \in Clients : freq'[d] = freq[d] \/ freq'[d].op # "move"
    BY <2>1 DEF FInv, Shape
  <2>3. QED
    BY <2>1, <2>2, ActiveKeeps
<1>5. ASSUME NEW c \in Clients, TaskRequests(c) \/ TaskSteps(c)
      PROVE  FInv'
  BY <1>5, StutterKeeps DEF TaskRequests, TaskSteps
<1>6. ASSUME NEW c \in Clients, Decide(c) \/ FundRequests(c) \/ FundSteps(c)
      PROVE  FInv'
  BY <1>6, DecideKeeps, RequestsKeep, StepsKeep
<1>7. QED
  BY <1>1, <1>2, <1>3, <1>4, <1>5, <1>6 DEF FundNext

(***************************************************************************)
(* Theorems.                                                               *)
(***************************************************************************)
(* However requests interleave, fail and crash, the last entry of the       *)
(* status history of a fund is its status (_transition_status,              *)
(* _apply_fund_approval_result, FundStatusHistory).                         *)
THEOREM EveryMoveIsLogged == FundSpec => []LastEntryIsStatus
<1>1. FInv => LastEntryIsStatus
  BY DEF FInv
<1>2. FInv /\ [FundNext]_fvars => FInv'
  BY FInvStep
<1>3. QED
  BY <1>1, <1>2, FInvInit, PTL DEF FundSpec

(* However requests interleave, no fund is allocated, used, completed or    *)
(* audited that was never approved: no decision of the workflow service can *)
(* lead past the approval stage or back out of spending unseen.             *)
THEOREM MoneyIsApproved == FundSpec => []MoneyNeedsApproval
<1>1. FInv => MoneyNeedsApproval
  BY DEF FInv, EarnedFunds, Earned, Spending, MoneyNeedsApproval
<1>2. FInv /\ [FundNext]_fvars => FInv'
  BY FInvStep
<1>3. QED
  BY <1>1, <1>2, FInvInit, PTL DEF FundSpec

(***************************************************************************)
(* Type correctness.  The status is written of funds that exist, because   *)
(* every task, submission and fund request is about one (FundsExist).      *)
(***************************************************************************)
SubmitOps == {"query", "ensure", "again", "insert"}

FundsExist ==
  /\ \A t \in TaskIds : Exists(t) => fund[task[t].entity] # NoFund
  /\ \A c \in Clients : req[c].op \in SubmitOps => fund[req[c].entity] # NoFund
  /\ \A c \in Clients : freq[c].op # "idle" => fund[freq[c].fund] # NoFund

BInv == IInv /\ FundTypeOK /\ FundsExist

\* A fund request that has its type.
Typed(r) == r \in FundRequest \/ \E S \in SUBSET TaskIds : r \in Resolving(S)

\* The op of a fund request tells which fields it has.
LEMMA TypedFields ==
  ASSUME NEW r, Typed(r)
  PROVE  /\ r.op # "idle" => r.fund \in Entities
         /\ r.op \notin {"idle", "delete"} => r.user \in Users
         /\ r.op = "submit" => r.change \in Changes
         /\ r.op = "move" => r.from \in FundStatus /\ r.to \in DOMAIN Allowed
         /\ r.op \in {"query", "resolve"} => r.verdict \in Verdict
         /\ r.op = "resolve" => /\ DOMAIN r.todo \in SUBSET TaskIds
                                /\ r.todo \in [DOMAIN r.todo -> TaskRow]
                                /\ r \in Resolving(DOMAIN r.todo)
<1>1. CASE r \in FundRequest
  BY <1>1 DEF FundRequest, Idle
<1>2. ASSUME NEW S \in SUBSET TaskIds, r \in Resolving(S)
      PROVE  /\ r.op = "resolve"
             /\ r.fund \in Entities /\ r.user \in Users /\ r.verdict \in Verdict
             /\ r.todo \in [S -> TaskRow]
  BY <1>2 DEF Resolving
<1>3. ASSUME NEW S \in SUBSET TaskIds, r \in Resolving(S)
      PROVE  /\ DOMAIN r.todo = S
             /\ r.todo \in [DOMAIN r.todo -> TaskRow]
  BY <1>2, <1>3
<1> QED BY <1>1, <1>2, <1>3 DEF Typed

LEMMA FundFields ==
  ASSUME FundTypeOK, NEW c \in Clients
  PROVE  /\ Typed(freq[c])
         /\ freq[c].op # "idle" => freq[c].fund \in Entities
         /\ freq[c].op \notin {"idle", "delete"} => freq[c].user \in Users
BY TypedFields DEF FundTypeOK, Typed

\* A fund that exists is a row.
LEMMA FundRows ==
  ASSUME FundTypeOK, NEW f \in Entities, fund[f] # NoFund
  PROVE  fund[f] \in FundRow
BY DEF FundTypeOK

\* A row written to a fund.
LEMMA SetFund ==
  ASSUME FundTypeOK, NEW f \in Entities, NEW row \in FundRow,
         fund' = [fund EXCEPT ![f] = row]
  PROVE  /\ fund' \in [Entities -> FundRow \cup {NoFund}]
         /\ \A g \in Entities : fund[g] # NoFund => fund'[g] # NoFund
<1>1. row # NoFund
  BY DEF FundRow, NoFund, FundStatus
<1> QED BY <1>1 DEF FundTypeOK

\* What a step does to the funds and their history.
FundKind ==
  \/ UNCHANGED <<fund, history>>
  \/ \E f \in Entities, from, to \in FundStatus :
       fund[f] # NoFund /\ WritesStatus(f, from, to)
  \/ \E f \in Entities, b \in BOOLEAN :
       /\ fund[f] # NoFund
       /\ fund' = [fund EXCEPT ![f].active = b] /\ UNCHANGED history
  \/ \E f \in Entities, u \in Users :
       /\ fund[f] = NoFund
       /\ fund' = [fund EXCEPT ![f] = [status |-> "pending", active |-> TRUE,
                                       creator |-> u]]
       /\ UNCHANGED history

LEMMA FundKindType ==
  ASSUME FundTypeOK, FundKind
  PROVE  /\ fund' \in [Entities -> FundRow \cup {NoFund}]
         /\ history' \in [Entities -> Seq(Entry)]
         /\ \A g \in Entities : fund[g] # NoFund => fund'[g] # NoFund
<1> DEFINE Goal == /\ fund' \in [Entities -> FundRow \cup {NoFund}]
                   /\ history' \in [Entities -> Seq(Entry)]
                   /\ \A g \in Entities : fund[g] # NoFund => fund'[g] # NoFund
<1>1. CASE UNCHANGED <<fund, history>>
  BY <1>1 DEF FundTypeOK
<1>2. ASSUME NEW f \in Entities, NEW from \in FundStatus, NEW to \in FundStatus,
             fund[f] # NoFund, WritesStatus(f, from, to)
      PROVE  Goal
  <2> DEFINE row == [fund[f] EXCEPT !.status = to]
             e == [from |-> from, to |-> to]
  <2>1. row \in FundRow
    BY <1>2, FundRows DEF FundRow
  <2>2. fund' = [fund EXCEPT ![f] = row]
    BY <1>2 DEF WritesStatus, FundTypeOK
  <2>3. e \in Entry /\ history[f] \in Seq(Entry)
        /\ history' = [history EXCEPT ![f] = Append(history[f], e)]
    BY <1>2 DEF Entry, WritesStatus, LogMove, FundTypeOK
  <2> HIDE DEF row, e
  <2>4. history' \in [Entities -> Seq(Entry)]
    BY <2>3, AppendEntry DEF FundTypeOK
  <2> QED BY <2>1, <2>2, <2>4, SetFund
<1>3. ASSUME NEW f \in Entities, NEW b \in BOOLEAN, fund[f] # NoFund,
             fund' = [fund EXCEPT ![f].active = b], UNCHANGED history
      PROVE  Goal
  <2> DEFINE row == [fund[f] EXCEPT !.active = b]
  <2>1. row \in FundRow
    BY <1>3, FundRows DEF FundRow
  <2>2. fund' = [fund EXCEPT ![f] = row]
    BY <1>3 DEF FundTypeOK
  <2> HIDE DEF row
  <2> QED BY <1>3, <2>1, <2>2, SetFund DEF FundTypeOK
<1>4. ASSUME NEW f \in Entities, NEW u \in Users,
             fund' = [fund EXCEPT ![f] = [status |-> "pending", active |-> TRUE,
                                          creator |-> u]],
             UNCHANGED history
      PROVE  Goal
  <2>1. [status |-> "pending", active |-> TRUE, creator |-> u] \in FundRow
    BY DEF FundRow, FundStatus
  <2> QED BY <1>4, <2>1, SetFund DEF FundTypeOK
<1> QED BY <1>1, <1>2, <1>3, <1>4 DEF FundKind

\* The fund requests after a step: one client's at most is another one.
RequestKind ==
  \/ UNCHANGED freq
  \/ freq' = [c \in Clients |-> Idle]
  \/ \E c \in Clients : \E r : Typed(r) /\ freq' = [freq EXCEPT ![c] = r]

LEMMA RequestKindType ==
  ASSUME FundTypeOK, FundKind, RequestKind
  PROVE  FundTypeOK'
<1>1. /\ freq' = [c \in Clients |-> freq'[c]]
      /\ \A c \in Clients : Typed(freq'[c])
  <2>1. freq = [c \in Clients |-> freq[c]] /\ \A c \in Clients : Typed(freq[c])
    BY DEF FundTypeOK, Typed
  <2>2. Typed(Idle)
    BY DEF Typed, FundRequest
  <2>3. CASE UNCHANGED freq
    BY <2>1, <2>3
  <2>4. CASE freq' = [c \in Clients |-> Idle]
    BY <2>2, <2>4
  <2>5. ASSUME NEW c \in Clients, NEW r, Typed(r), freq' = [freq EXCEPT ![c] = r]
        PROVE  /\ freq' = [d \in Clients |-> freq'[d]]
               /\ \A d \in Clients : Typed(freq'[d])
    BY <2>1, <2>5
  <2> QED BY <2>3, <2>4, <2>5 DEF RequestKind
<1> QED BY <1>1, FundKindType DEF FundTypeOK, Typed

\* A set of task ids has an oldest one.
LEMMA LeastExists ==
  ASSUME NEW S, S \subseteq Nat, S # {}
  PROVE  \E m \in S : \A n \in S : m <= n
<1> DEFINE R == OpToRel(<, Nat)
<1>1. IsWellFoundedOn(R, Nat)
  BY NatLessThanWellFounded
<1>2. \A m, n \in Nat : m < n => <<m, n>> \in R
  BY DEF OpToRel
<1> HIDE DEF R
<1>3. PICK m \in S : \A n \in S : ~(<<n, m>> \in R)
  BY <1>1, WFMin
<1>4. \A n \in S : ~(n < m)
  BY <1>2, <1>3, Zenon
<1> QED BY <1>4

LEMMA OldestIn ==
  ASSUME NEW S \in SUBSET TaskIds, S # {}
  PROVE  Oldest(S) \in S
<1>1. S \subseteq Nat
  BY DEF TaskIds
<1>2. \E m \in S : \A n \in S : m <= n
  BY <1>1, LeastExists
<1> QED BY <1>2 DEF Oldest

LEMMA PendingTasks ==
  ASSUME TypeOK, NEW e
  PROVE  /\ PendingOf(e) \in SUBSET TaskIds
         /\ [t \in PendingOf(e) |-> task[t]] \in [PendingOf(e) -> TaskRow]
BY TaskRows DEF PendingOf

\* Without one of its tasks, what is left to settle has its type.
LEMMA WithoutType ==
  ASSUME NEW S \in SUBSET TaskIds, NEW todo \in [S -> TaskRow], NEW t
  PROVE  /\ S \ {t} \in SUBSET TaskIds
         /\ Without(todo, t) \in [S \ {t} -> TaskRow]
BY DEF Without

(***************************************************************************)
(* What a step of a fund does to the tasks: a direct decision settles a    *)
(* task by a request of the service that is not bounded by the user.       *)
(***************************************************************************)
SettleRequest(verdict, t, u) ==
  [op |-> IF verdict = "approved" THEN "approve" ELSE "reject",
   id |-> t, user |-> u, seen |-> task[t],
   arg |-> IF verdict = "approved" THEN WhilePending ELSE NoUser]

LEMMA SettleReads ==
  ASSUME NEW c \in Clients, NEW verdict, NEW t, NEW u, Settle(c, verdict, t, u)
  PROVE  /\ task[t].status = "pending"
         /\ req[c] = Idle
         /\ req' = [req EXCEPT ![c] = SettleRequest(verdict, t, u)]
         /\ UNCHANGED <<workflow, task, record>>
BY DEF Settle, AutoRead, RejectRead, ReadTask, SettleRequest

LEMMA SettleType ==
  ASSUME TypeOK, SeenRows, NEW c \in Clients, NEW verdict, NEW t \in TaskIds,
         NEW u \in Users, Settle(c, verdict, t, u)
  PROVE  Sound /\ UNCHANGED <<task, record>>
<1>1. Exists(t) /\ task[t] \in TaskRow
  BY SettleReads, TaskRows DEF Exists, NoTask
<1> DEFINE r == SettleRequest(verdict, t, u)
<1>2. Reads(r)
  BY <1>1 DEF SettleRequest, Reads
<1>3. r \in Request
  <2>1. CASE verdict = "approved"
    <3>1. r \in ApproveRequest
      BY <1>1, <2>1 DEF SettleRequest, ApproveRequest, TaskRequest, WhilePending
    <3> QED BY <3>1 DEF Request
  <2>2. CASE verdict # "approved"
    <3>1. r \in PlainRequest
      BY <1>1, <2>2 DEF SettleRequest, PlainRequest, TaskRequest
    <3> QED BY <3>1 DEF Request
  <2> QED BY <2>1, <2>2
<1> HIDE DEF r
<1>4. req' = [req EXCEPT ![c] = r] /\ UNCHANGED <<workflow, task, record>>
  BY SettleReads DEF r
<1> QED BY <1>2, <1>3, <1>4, SetRequest DEF TypeOK

\* The steps of the service that the fund module calls are steps of a client.
LEMMA TaskRequestsServe ==
  ASSUME NEW c \in Clients, TaskRequests(c)
  PROVE  Serves(c)
BY DEF TaskRequests, Serves, Submit

LEMMA TaskStepsServe ==
  ASSUME NEW c \in Clients, TaskSteps(c)
  PROVE  Submit(c) \/ Write(c)
BY DEF TaskSteps, Submit, Write

LEMMA DecideWrites ==
  ASSUME NEW c \in Clients, Decide(c)
  PROVE  /\ Write(c)
         /\ HasTask(c)
         /\ req[c].op \in {"approve", "reject", "resubmit", "retry"}
BY DEF Decide, FundApproveNext, FundApproveLast, FundReject, FundResubmit, FundRetry,
       ApproveNext, ApproveLast, Reject, Resubmit, RetryApply, Write, HasTask, TaskOps

\* The submission of a fund.
FundQuery(c) ==
  [op |-> "query", kind |-> "business", entity |-> freq[c].fund,
   user |-> freq[c].user, change |-> freq[c].change]

LEMMA FundQueryType ==
  ASSUME FundTypeOK, NEW c \in Clients, SubmitFund(c)
  PROVE  FundQuery(c) \in Query /\ SubmitReads(c, FundQuery(c))
<1>1. freq[c].fund \in Entities /\ freq[c].user \in Users /\ freq[c].change \in Changes
  BY FundFields, TypedFields DEF SubmitFund
<1> QED BY <1>1 DEF SubmitFund, FundQuery, Query, Kind

\* The tasks that a direct decision settles.
LEMMA QueryFirst ==
  ASSUME TypeOK, NEW e, PendingOf(e) # {}
  PROVE  Oldest(PendingOf(e)) \in PendingOf(e) /\ Oldest(PendingOf(e)) \in TaskIds
BY PendingTasks, OldestIn

LEMMA ResolveFirst ==
  ASSUME FundTypeOK, NEW c \in Clients, freq[c].op = "resolve", DOMAIN freq[c].todo # {}
  PROVE  /\ Oldest(DOMAIN freq[c].todo) \in DOMAIN freq[c].todo
         /\ Oldest(DOMAIN freq[c].todo) \in TaskIds
<1>1. DOMAIN freq[c].todo \in SUBSET TaskIds
  BY FundFields, TypedFields
<1> QED BY <1>1, OldestIn

\* What ResolveQuery and ResolveNext do to the tasks.
LEMMA ResolveEffect ==
  ASSUME TypeOK, SeenRows, FundTypeOK, NEW c \in Clients,
         ResolveQuery(c) \/ ResolveNext(c)
  PROVE  \/ UNCHANGED <<workflow, task, record, req>>
         \/ Sound /\ UNCHANGED <<task, record>>
<1>1. freq[c].user \in Users
  BY FundFields DEF ResolveQuery, ResolveNext
<1>2. CASE ResolveQuery(c)
  <2> DEFINE first == Oldest(PendingOf(freq[c].fund))
  <2>1. CASE PendingOf(freq[c].fund) = {}
    BY <1>2, <2>1 DEF ResolveQuery
  <2>2. CASE PendingOf(freq[c].fund) # {}
    <3>1. Settle(c, freq[c].verdict, first, freq[c].user)
      BY <1>2, <2>2 DEF ResolveQuery
    <3>2. first \in TaskIds
      BY <2>2, QueryFirst
    <3> HIDE DEF first
    <3> QED BY <1>1, <3>1, <3>2, SettleType
  <2> QED BY <2>1, <2>2
<1>3. CASE ResolveNext(c)
  <2> DEFINE t == Oldest(DOMAIN freq[c].todo)
  <2>1. t \in TaskIds
    BY <1>3, ResolveFirst DEF ResolveNext
  <2>2. \/ Settle(c, freq[c].verdict, t, freq[c].user)
        \/ UNCHANGED <<workflow, task, record, req>>
    BY <1>3 DEF ResolveNext
  <2> HIDE DEF t
  <2> QED BY <1>1, <2>1, <2>2, SettleType
<1> QED BY <1>2, <1>3

LEMMA UntouchedSound ==
  ASSUME TypeOK, SeenRows, UNCHANGED <<workflow, task, record, req>>
  PROVE  Sound /\ StepKind
BY DEF TypeOK, SeenRows, HasTask, Exists, Sound, SeenKind, Keeps, StepKind

\* Every step of the funds is sound for the tasks and of one of the six kinds.
LEMMA FundStepEffect ==
  ASSUME TypeOK, SeenRows, FundTypeOK, [FundNext]_fvars
  PROVE  Sound /\ StepKind
<1>1. CASE (Configure /\ UNCHANGED <<fund, history, freq>>) \/ UNCHANGED fvars
  <2>1. [Next]_vars
    BY <1>1 DEF Next, fvars, vars
  <2> QED BY <2>1, StepEffect
<1>2. CASE FundCrash
  <2>1. CASE \E c \in Clients : req[c] # Idle
    <3>1. Crash
      BY <1>2, <2>1 DEF FundCrash, Crash
    <3> QED BY <3>1, StepEffect DEF Next
  <2>2. CASE \A c \in Clients : req[c] = Idle
    BY <1>2, <2>2, UntouchedSound DEF FundCrash, TypeOK
  <2> QED BY <2>1, <2>2
<1>3. ASSUME NEW f \in Entities, RestoreFund(f) PROVE Sound /\ StepKind
  BY <1>3, UntouchedSound DEF RestoreFund
<1>4. ASSUME NEW c \in Clients, TaskRequests(c) \/ TaskSteps(c) \/ Decide(c)
      PROVE  Sound /\ StepKind
  BY <1>4, TaskRequestsServe, TaskStepsServe, DecideWrites, ServesEffect DEF Serves
<1>5. ASSUME NEW c \in Clients, FundRequests(c) PROVE Sound /\ StepKind
  BY <1>5, UntouchedSound DEF FundRequests, CreateFund, UpdateFund, DeleteRead, MoveRead
<1>6. ASSUME NEW c \in Clients, FundSteps(c) PROVE Sound /\ StepKind
  <2>1. CASE SubmitFund(c)
    <3>1. UNCHANGED <<task, record>>
      BY <2>1 DEF SubmitFund, SubmitReads
    <3> QED BY <2>1, <3>1, FundQueryType, SubmitReadsType DEF StepKind
  <2>2. CASE DeleteFund(c) \/ Move(c) \/ ResolveEnd(c)
    BY <2>2, UntouchedSound DEF DeleteFund, Move, ResolveEnd
  <2>3. CASE ResolveQuery(c) \/ ResolveNext(c)
    BY <2>3, ResolveEffect, UntouchedSound DEF StepKind
  <2> QED BY <1>6, <2>1, <2>2, <2>3 DEF FundSteps
<1> QED BY <1>1, <1>2, <1>3, <1>4, <1>5, <1>6 DEF FundNext

(***************************************************************************)
(* What a step does to the funds and the fund requests.                    *)
(***************************************************************************)
\* The status a session knows is one of a fund.
LEMMA KnownType ==
  ASSUME FundTypeOK, NEW c \in Clients, NEW f \in Entities, fund[f] # NoFund
  PROVE  KnownStatus(c, f) \in FundStatus
<1>1. fund[f].status \in FundStatus
  BY FundRows DEF FundRow
<1>2. freq[c].op = "resolve" => freq[c].status \in FundStatus
  BY FundFields, TypedFields DEF Resolving
<1> QED BY <1>1, <1>2 DEF KnownStatus

LEMMA ExpireKind ==
  ASSUME FundTypeOK, NEW c \in Clients, Expire(c)
  PROVE  RequestKind
<1> DEFINE r == IF freq[c].op = "resolve" THEN [freq[c] EXCEPT !.loaded = FALSE]
                ELSE freq[c]
<1>1. freq' = [freq EXCEPT ![c] = r]
  BY DEF Expire
<1>2. Typed(r)
  <2>1. CASE freq[c].op # "resolve"
    BY <2>1, FundFields
  <2>2. CASE freq[c].op = "resolve"
    <3>1. DOMAIN freq[c].todo \in SUBSET TaskIds
          /\ freq[c] \in Resolving(DOMAIN freq[c].todo)
      BY <2>2, FundFields, TypedFields
    <3>2. r \in Resolving(DOMAIN freq[c].todo)
      BY <2>2, <3>1 DEF Resolving
    <3> QED BY <3>1, <3>2 DEF Typed
  <2> QED BY <2>1, <2>2
<1> HIDE DEF r
<1> QED BY <1>1, <1>2 DEF RequestKind

LEMMA ApplyKind ==
  ASSUME BInv, NEW c \in Clients, HasTask(c), NEW s, NEW ok \in BOOLEAN, Apply(c, s, ok)
  PROVE  FundKind /\ RequestKind
<1> USE DEF BInv, IInv
<1> DEFINE f == task[req[c].id].entity
           from == KnownStatus(c, f)
           to == Target(s, from)
<1>1. RequestKind
  BY ExpireKind DEF Apply
<1>2. f \in Entities /\ fund[f] # NoFund
  BY SeenTask, TaskRows DEF SeenRows, FundsExist, TaskRow
<1>3. from \in FundStatus
  BY <1>2, KnownType
<1>4. UNCHANGED <<fund, history>> \/ (to # from /\ WritesStatus(f, from, to))
  BY DEF Apply, FundHandler, WritesStatus
<1> HIDE DEF f, from
<1>5. to \in FundStatus
  BY <1>3, TargetInStage DEF FundStatus
<1> HIDE DEF to
<1> QED BY <1>1, <1>2, <1>3, <1>4, <1>5 DEF FundKind

LEMMA DecideKind ==
  ASSUME BInv, NEW c \in Clients, Decide(c)
  PROVE  FundKind /\ RequestKind
<1>0. HasTask(c)
  BY DecideWrites
<1>1. CASE FundApproveNext(c)
  BY <1>1, ExpireKind DEF FundApproveNext, FundKind, BInv
<1>2. ASSUME NEW ok \in BOOLEAN,
             FundApproveLast(c, ok) \/ FundReject(c, ok) \/ FundResubmit(c, ok)
               \/ FundRetry(c, ok)
      PROVE  FundKind /\ RequestKind
  BY <1>0, <1>2, ApplyKind DEF FundApproveLast, FundReject, FundResubmit, FundRetry
<1> QED BY <1>1, <1>2 DEF Decide

LEMMA RequestsKind ==
  ASSUME BInv, NEW c \in Clients, FundRequests(c)
  PROVE  FundKind /\ RequestKind
<1> USE DEF BInv
<1>1. ASSUME NEW f \in Entities, NEW u \in Users, NEW ch \in Changes,
             CreateFund(c, f, u, ch) \/ UpdateFund(c, f, u, ch)
      PROVE  FundKind /\ RequestKind
  <2> DEFINE r == [op |-> "submit", fund |-> f, user |-> u, change |-> ch]
  <2>1. r \in FundRequest
    BY DEF FundRequest
  <2>2. freq' = [freq EXCEPT ![c] = r]
    BY <1>1 DEF CreateFund, UpdateFund
  <2> HIDE DEF r
  <2>3. FundKind
    BY <1>1 DEF CreateFund, UpdateFund, FundKind
  <2> QED BY <2>1, <2>2, <2>3 DEF RequestKind, Typed
<1>2. ASSUME NEW f \in Entities, DeleteRead(c, f)
      PROVE  FundKind /\ RequestKind
  <2> DEFINE r == [op |-> "delete", fund |-> f]
  <2>1. r \in FundRequest
    BY DEF FundRequest
  <2>2. freq' = [freq EXCEPT ![c] = r] /\ UNCHANGED <<fund, history>>
    BY <1>2 DEF DeleteRead
  <2> HIDE DEF r
  <2> QED BY <2>1, <2>2 DEF RequestKind, Typed, FundKind
<1>3. ASSUME NEW f \in Entities, NEW u \in Users, NEW to \in DOMAIN Allowed,
             MoveRead(c, f, u, to)
      PROVE  FundKind /\ RequestKind
  <2> DEFINE r == [op |-> "move", fund |-> f, user |-> u, from |-> fund[f].status,
                   to |-> to]
  <2>1. fund[f].status \in FundStatus
    <3>1. fund[f] # NoFund
      BY <1>3 DEF MoveRead, Visible, NoFund
    <3> QED BY <3>1, FundRows DEF FundRow
  <2>2. r \in FundRequest
    BY <2>1 DEF FundRequest
  <2>3. freq' = [freq EXCEPT ![c] = r] /\ UNCHANGED <<fund, history>>
    BY <1>3 DEF MoveRead
  <2> HIDE DEF r
  <2> QED BY <2>2, <2>3 DEF RequestKind, Typed, FundKind
<1> QED BY <1>1, <1>2, <1>3 DEF FundRequests

LEMMA StepsKind ==
  ASSUME BInv, NEW c \in Clients, FundSteps(c)
  PROVE  FundKind /\ RequestKind
<1> USE DEF BInv, IInv
<1>0. Typed(Idle)
  BY DEF Typed, FundRequest
<1>1. CASE SubmitFund(c) \/ ResolveEnd(c)
  BY <1>0, <1>1 DEF SubmitFund, ResolveEnd, FundKind, RequestKind
<1>2. ASSUME freq[c].op # "idle"
      PROVE  freq[c].fund \in Entities /\ fund[freq[c].fund] # NoFund
  BY <1>2, FundFields DEF FundsExist
<1>3. CASE DeleteFund(c)
  <2>1. freq[c].fund \in Entities /\ fund[freq[c].fund] # NoFund
    BY <1>2, <1>3 DEF DeleteFund
  <2>2. fund' = [fund EXCEPT ![freq[c].fund].active = FALSE] /\ UNCHANGED history
        /\ freq' = [freq EXCEPT ![c] = Idle]
    BY <1>3 DEF DeleteFund
  <2> QED BY <1>0, <2>1, <2>2 DEF FundKind, RequestKind
<1>4. CASE Move(c)
  <2> DEFINE m == freq[c]
  <2>1. m.fund \in Entities /\ fund[m.fund] # NoFund
    BY <1>2, <1>4 DEF Move
  <2>2. m.from \in FundStatus /\ m.to \in DOMAIN Allowed /\ m.user \in Users
    BY <1>4, FundFields, TypedFields DEF Move
  <2>3. m.to \in FundStatus
    BY <2>2 DEF Allowed, FundStatus
  <2>4. WritesStatus(m.fund, m.from, m.to) /\ freq' = [freq EXCEPT ![c] = NextAfterMove(m)]
    BY <1>4 DEF Move, WritesStatus
  <2>5. NextAfterMove(m) \in FundRequest
    BY <2>1, <2>2 DEF NextAfterMove, FundRequest, Verdict
  <2> HIDE DEF m
  <2> QED BY <2>1, <2>2, <2>3, <2>4, <2>5 DEF FundKind, RequestKind, Typed
<1>5. CASE ResolveQuery(c)
  <2> DEFINE q == freq[c]
             S == PendingOf(q.fund)
             found == [t \in S |-> task[t]]
             first == Oldest(S)
             r == [op |-> "resolve", fund |-> q.fund, user |-> q.user,
                   verdict |-> q.verdict, todo |-> Without(found, first),
                   status |-> fund[q.fund].status, loaded |-> TRUE]
  <2>1. /\ q.fund \in Entities /\ fund[q.fund].status \in FundStatus
        /\ q.user \in Users /\ q.verdict \in Verdict
    BY <1>2, <1>5, FundFields, TypedFields, FundRows DEF ResolveQuery, FundRow
  <2>2. S \ {first} \in SUBSET TaskIds /\ Without(found, first) \in [S \ {first} -> TaskRow]
    BY PendingTasks, WithoutType
  <2>3. r \in Resolving(S \ {first})
    <3> HIDE DEF found, first, S
    <3> QED BY <2>1, <2>2 DEF Resolving
  <2>4. /\ UNCHANGED <<fund, history>>
        /\ freq' = [freq EXCEPT ![c] = Idle] \/ freq' = [freq EXCEPT ![c] = r]
    BY <1>5 DEF ResolveQuery
  <2> HIDE DEF r, S, first
  <2> QED BY <1>0, <2>2, <2>3, <2>4 DEF FundKind, RequestKind, Typed
<1>6. CASE ResolveNext(c)
  <2> DEFINE q == freq[c]
             S == DOMAIN q.todo
             t == Oldest(S)
             r == [q EXCEPT !.todo = Without(q.todo, t)]
  <2>1. q \in Resolving(S) /\ S \in SUBSET TaskIds /\ q.todo \in [S -> TaskRow]
    BY <1>6, FundFields, TypedFields DEF ResolveNext
  <2>2. S \ {t} \in SUBSET TaskIds /\ Without(q.todo, t) \in [S \ {t} -> TaskRow]
    <3> HIDE DEF S, t
    <3> QED BY <2>1, WithoutType
  <2>3. r \in Resolving(S \ {t})
    <3> HIDE DEF S, t
    <3> QED BY <2>1, <2>2 DEF Resolving
  <2>4. UNCHANGED <<fund, history>> /\ freq' = [freq EXCEPT ![c] = r]
    BY <1>6 DEF ResolveNext, FundTypeOK
  <2> HIDE DEF r, S, t
  <2> QED BY <2>2, <2>3, <2>4 DEF FundKind, RequestKind, Typed
<1> QED BY <1>1, <1>3, <1>4, <1>5, <1>6 DEF FundSteps

LEMMA FundStepKind ==
  ASSUME BInv, [FundNext]_fvars
  PROVE  FundKind /\ RequestKind
<1>1. CASE UNCHANGED <<fund, history, freq>>
  BY <1>1 DEF FundKind, RequestKind
<1>2. CASE FundCrash
  BY <1>2 DEF FundCrash, FundKind, RequestKind
<1>3. ASSUME NEW f \in Entities, RestoreFund(f) PROVE FundKind /\ RequestKind
  BY <1>3 DEF RestoreFund, FundKind, RequestKind
<1>4. ASSUME NEW c \in Clients, TaskRequests(c) \/ TaskSteps(c)
      PROVE  UNCHANGED <<fund, history, freq>>
  BY <1>4 DEF TaskRequests, TaskSteps
<1> QED BY <1>1, <1>2, <1>3, <1>4, DecideKind, RequestsKind, StepsKind DEF FundNext, fvars

(***************************************************************************)
(* Tasks, submissions and fund requests are about funds that exist.        *)
(***************************************************************************)
\* A new task is about the entity of the submission that inserts it.
LEMMA NewTasks ==
  ASSUME TypeOK, SeenRows, NEW c \in Clients, Serves(c), NEW t \in TaskIds,
         ~Exists(t), Exists(t)'
  PROVE  req[c].op = "insert" /\ task'[t].entity = req[c].entity
<1>1. ASSUME NEW s \in TaskIds, NEW row \in TaskRow, Written(s, row) PROVE FALSE
  BY <1>1 DEF Written, Exists, TypeOK
<1>2. ~UNCHANGED task
  BY DEF Exists
<1>3. ~Write(c)
  BY <1>1, <1>2, ApproveNextEffect, DecideEffect, ResubmitEffect, AmendEffect,
     QuietWriteEffect
  DEF Write, Advances, Approves, Rejects, Reopens, Amends
<1>4. \A s \in TaskIds, u \in Users : ~Read(c, s, u)
  BY <1>2 DEF Read, ApproveRead, AutoRead, RejectRead, WithdrawRead,
              ResubmitRead, TransferRead, RetryRead, ReadTask
<1>5. SubmitWrite(c)
  <2>1. \A q : ~SubmitReads(c, q)
    BY <1>2 DEF SubmitReads
  <2> QED BY <1>2, <1>3, <1>4, <2>1
       DEF Serves, Submit, SubmitDirectly, SubmitRead, EnsureDefaultWorkflow,
           SubmitAgain, SubmitFails
<1>6. PICK s \in TaskIds : task' = [task EXCEPT ![s] = NewTask(req[c])]
  BY <1>5 DEF SubmitWrite
<1>7. task'[t] = NewTask(req[c])
  BY <1>6 DEF Exists, TypeOK
<1> QED BY <1>5, <1>7 DEF SubmitWrite, NewTask

\* A submission that goes on keeps its entity.
LEMMA SubmitReadsEntity ==
  ASSUME TypeOK, NEW c \in Clients, NEW q \in Query, SubmitReads(c, q),
         req'[c].op \in SubmitOps
  PROVE  req'[c].entity = q.entity
<1>1. ASSUME NEW t, NEW u, NEW row, NEW rounds, Continue(c, rounds, t, u, row)
      PROVE  FALSE
  BY <1>1 DEF Continue, TypeOK, SubmitOps, Idle
<1>2. CASE req' = [req EXCEPT ![c] = [q EXCEPT !.op = "ensure"]]
  BY <1>2 DEF TypeOK, Query
<1>3. CASE req' = [req EXCEPT ![c] = Idle]
  BY <1>3 DEF TypeOK, SubmitOps, Idle
<1>4. ASSUME NEW w,
             req' = [req EXCEPT ![c] =
                       [op |-> "insert", kind |-> q.kind, entity |-> q.entity,
                        user |-> q.user, change |-> q.change, wf |-> w]]
      PROVE  req'[c].entity = q.entity
  BY <1>4 DEF TypeOK
<1> QED BY <1>1, <1>2, <1>3, <1>4 DEF SubmitReads

LEMMA SubmitReadEntity ==
  ASSUME TypeOK, NEW c \in Clients, NEW kind \in Kind, NEW e \in Entities,
         NEW u \in Users, NEW ch \in Changes, SubmitRead(c, kind, e, u, ch),
         req'[c].op \in SubmitOps
  PROVE  req'[c].entity = e
<1> DEFINE q == [op |-> "query", kind |-> kind, entity |-> e, user |-> u,
                 change |-> ch]
<1>1. q \in Query /\ SubmitReads(c, q) /\ q.entity = e
  BY DEF Query, SubmitRead
<1> HIDE DEF q
<1> QED BY <1>1, SubmitReadsEntity

\* The reads of tasks and the writes leave no submission.
LEMMA NoSubmission ==
  ASSUME TypeOK, NEW c \in Clients,
         Write(c) \/ SubmitWrite(c) \/ SubmitFails(c)
           \/ \E t \in TaskIds, u \in Users : Read(c, t, u)
  PROVE  req'[c].op \notin SubmitOps
<1> USE DEF TypeOK, SubmitOps
<1>1. CASE \E t \in TaskIds, u \in Users : Read(c, t, u)
  BY <1>1 DEF Read, ApproveRead, AutoRead, RejectRead, WithdrawRead,
              ResubmitRead, TransferRead, RetryRead, ReadTask
<1>2. CASE SubmitWrite(c) \/ SubmitFails(c) \/ ApproveNext(c)
  BY <1>2 DEF SubmitWrite, SubmitFails, ApproveNext, Continue, Idle
<1>3. CASE AutoReload(c)
  <2>1. req[c] \in ApproveRequest
    BY <1>3, RequestKinds DEF AutoReload
  <2> QED BY <1>3, <2>1 DEF AutoReload, ApproveRequest, TaskRequest, Idle
<1>4. ASSUME NEW ok \in BOOLEAN, RetryApply(c, ok)
      PROVE  req'[c].op \notin SubmitOps
  <2>1. req[c] \in RetryRequest
    BY <1>4, RequestKinds DEF RetryApply
  <2> QED BY <1>4, <2>1 DEF RetryApply, RetryRequest, TaskRequest, Idle
<1>5. CASE req' = [req EXCEPT ![c] = Idle]
  BY <1>5 DEF Idle
<1> QED BY <1>1, <1>2, <1>3, <1>4, <1>5
     DEF Write, ClaimFails, Withdraw, Transfer, RetryWrite, ApproveLast, Reject,
         Resubmit

\* What a step leaves as a submission is about a fund.
LEMMA FundSubmissions ==
  ASSUME BInv, NEW c \in Clients, req'[c].op \in SubmitOps,
         TaskRequests(c) \/ TaskSteps(c) \/ Decide(c) \/ FundSteps(c)
  PROVE  \/ req' = req
         \/ req'[c].entity \in Entities /\ fund[req'[c].entity] # NoFund
<1> USE DEF BInv, IInv
<1>1. CASE TaskRequests(c)
  <2>1. \A t \in TaskIds, u \in Users : ~Read(c, t, u)
    BY NoSubmission
  <2>2. PICK kind \in Kind, f \in Entities, u \in Users, ch \in Changes :
          fund[f] # NoFund /\ SubmitRead(c, kind, f, u, ch)
    BY <1>1, <2>1 DEF TaskRequests, SubmitDirectly, Kind
  <2> QED BY <2>2, SubmitReadEntity
<1>2. CASE TaskSteps(c)
  <2>1. ~Write(c) /\ ~SubmitWrite(c) /\ ~SubmitFails(c)
    BY NoSubmission
  <2>2. EnsureDefaultWorkflow(c) \/ SubmitAgain(c)
    BY <1>2, <2>1 DEF TaskSteps, Write
  <2>3. req[c] \in Query /\ req[c].op \in SubmitOps
    BY <2>2, RequestKinds DEF EnsureDefaultWorkflow, SubmitAgain, SubmitOps
  <2>4. req[c].entity \in Entities /\ fund[req[c].entity] # NoFund
    BY <2>3 DEF Query, FundsExist
  <2>5. req'[c].entity = req[c].entity
    <3>1. CASE EnsureDefaultWorkflow(c)
      BY <2>3, <3>1 DEF EnsureDefaultWorkflow, Query, TypeOK
    <3>2. CASE SubmitAgain(c)
      BY <2>3, <3>2, SubmitReadsEntity DEF SubmitAgain
    <3> QED BY <2>2, <3>1, <3>2
  <2> QED BY <2>4, <2>5
<1>3. CASE Decide(c)
  BY <1>3, DecideWrites, NoSubmission
<1>4. CASE FundSteps(c)
  <2>1. CASE SubmitFund(c)
    <3>1. FundQuery(c) \in Query /\ SubmitReads(c, FundQuery(c))
      BY <2>1, FundQueryType
    <3>2. req'[c].entity = FundQuery(c).entity
      BY <3>1, SubmitReadsEntity
    <3>3. FundQuery(c).entity = freq[c].fund
      BY DEF FundQuery
    <3> QED BY <2>1, <3>2, <3>3, FundFields DEF SubmitFund, FundsExist
  <2>2. CASE DeleteFund(c) \/ Move(c) \/ ResolveEnd(c)
    BY <2>2 DEF DeleteFund, Move, ResolveEnd
  <2>3. ASSUME NEW v, NEW t, NEW u, Settle(c, v, t, u) PROVE FALSE
    <3>1. req'[c] = SettleRequest(v, t, u)
      BY <2>3, SettleReads DEF TypeOK
    <3> QED BY <3>1 DEF SettleRequest, SubmitOps
  <2>4. CASE ResolveQuery(c) \/ ResolveNext(c)
    BY <2>3, <2>4 DEF ResolveQuery, ResolveNext
  <2> QED BY <1>4, <2>1, <2>2, <2>4 DEF FundSteps
<1> QED BY <1>1, <1>2, <1>3, <1>4

\* A fund request is about the fund it was about, or one that exists.
LEMMA FundTargets ==
  ASSUME BInv, [FundNext]_fvars, NEW c \in Clients, freq'[c].op # "idle"
  PROVE  \/ freq[c].op # "idle" /\ freq'[c].fund = freq[c].fund
         \/ freq'[c].fund \in Entities /\ fund'[freq'[c].fund] # NoFund
<1> DEFINE Goal == \/ freq[c].op # "idle" /\ freq'[c].fund = freq[c].fund
                   \/ freq'[c].fund \in Entities /\ fund'[freq'[c].fund] # NoFund
<1> USE DEF BInv
<1>0. freq = [d \in Clients |-> freq[d]]
  BY DEF FundTypeOK
<1>1. CASE freq'[c] = freq[c]
  BY <1>1
<1>2. ASSUME NEW d \in Clients, NEW r, freq' = [freq EXCEPT ![d] = r], r.op = "idle"
      PROVE  Goal
  BY <1>0, <1>1, <1>2
<1>3. ASSUME NEW d \in Clients, NEW r, freq' = [freq EXCEPT ![d] = r],
             freq[d].op # "idle", r.fund = freq[d].fund
      PROVE  Goal
  BY <1>0, <1>1, <1>3
<1>4. ASSUME NEW d \in Clients, NEW r, freq' = [freq EXCEPT ![d] = r],
             r.fund \in Entities, fund'[r.fund] # NoFund
      PROVE  Goal
  BY <1>0, <1>1, <1>4
<1> HIDE DEF Goal
<1>5. ASSUME NEW d \in Clients, Expire(d) PROVE Goal
  <2> DEFINE r == IF freq[d].op = "resolve" THEN [freq[d] EXCEPT !.loaded = FALSE]
                  ELSE freq[d]
  <2>1. freq' = [freq EXCEPT ![d] = r]
    BY <1>5 DEF Expire
  <2>2. CASE freq[d].op = "resolve"
    <3>1. freq[d] \in Resolving(DOMAIN freq[d].todo)
      BY <2>2, FundFields, TypedFields
    <3>2. r.fund = freq[d].fund
      BY <2>2, <3>1 DEF Resolving
    <3> HIDE DEF r
    <3> QED BY <1>3, <2>1, <2>2, <3>2
  <2>3. CASE freq[d].op # "resolve"
    <3>1. freq'[c] = freq[c]
      BY <1>0, <2>1, <2>3
    <3> QED BY <1>1, <3>1 DEF Goal
  <2> QED BY <2>2, <2>3
<1>6. ASSUME NEW d \in Clients, Decide(d) PROVE Goal
  BY <1>5, <1>6 DEF Decide, FundApproveNext, FundApproveLast, FundReject,
                    FundResubmit, FundRetry, Apply
<1>7. ASSUME NEW d \in Clients, FundRequests(d) PROVE Goal
  <2>1. ASSUME NEW f \in Entities, NEW u \in Users, NEW ch \in Changes,
               CreateFund(d, f, u, ch) \/ UpdateFund(d, f, u, ch)
        PROVE  Goal
    <3> DEFINE r == [op |-> "submit", fund |-> f, user |-> u, change |-> ch]
    <3>1. freq' = [freq EXCEPT ![d] = r] /\ r.fund = f
      BY <2>1 DEF CreateFund, UpdateFund
    <3>2. fund'[f] # NoFund
      BY <2>1 DEF CreateFund, UpdateFund, FundTypeOK, Visible, NoFund
    <3> HIDE DEF r
    <3> QED BY <1>4, <3>1, <3>2
  <2>2. ASSUME NEW f \in Entities, DeleteRead(d, f) PROVE Goal
    <3> DEFINE r == [op |-> "delete", fund |-> f]
    <3>1. freq' = [freq EXCEPT ![d] = r] /\ r.fund = f /\ fund'[f] # NoFund
      BY <2>2 DEF DeleteRead, Visible, NoFund
    <3> HIDE DEF r
    <3> QED BY <1>4, <3>1
  <2>3. ASSUME NEW f \in Entities, NEW u \in Users, NEW to \in DOMAIN Allowed,
               MoveRead(d, f, u, to)
        PROVE  Goal
    <3> DEFINE r == [op |-> "move", fund |-> f, user |-> u, from |-> fund[f].status,
                     to |-> to]
    <3>1. freq' = [freq EXCEPT ![d] = r] /\ r.fund = f /\ fund'[f] # NoFund
      BY <2>3 DEF MoveRead, Visible, NoFund
    <3> HIDE DEF r
    <3> QED BY <1>4, <3>1
  <2> QED BY <1>7, <2>1, <2>2, <2>3 DEF FundRequests
<1>8. ASSUME NEW d \in Clients, FundSteps(d) PROVE Goal
  <2>0. Idle.op = "idle"
    BY DEF Idle
  <2>1. CASE SubmitFund(d) \/ DeleteFund(d) \/ ResolveEnd(d)
    BY <1>2, <2>0, <2>1 DEF SubmitFund, DeleteFund, ResolveEnd
  <2>2. CASE Move(d)
    <3> DEFINE m == freq[d]
    <3>1. freq' = [freq EXCEPT ![d] = NextAfterMove(m)] /\ m.op = "move"
      BY <2>2 DEF Move
    <3>2. NextAfterMove(m).op = "idle" \/ NextAfterMove(m).fund = m.fund
      BY <2>0 DEF NextAfterMove
    <3> HIDE DEF m
    <3> QED BY <1>2, <1>3, <3>1, <3>2 DEF m
  <2>3. CASE ResolveQuery(d)
    <3> DEFINE q == freq[d]
               S == PendingOf(q.fund)
               r == [op |-> "resolve", fund |-> q.fund, user |-> q.user,
                     verdict |-> q.verdict,
                     todo |-> Without([t \in S |-> task[t]], Oldest(S)),
                     status |-> fund[q.fund].status, loaded |-> TRUE]
    <3>1. q.op = "query" /\ r.fund = q.fund
          /\ (freq' = [freq EXCEPT ![d] = Idle] \/ freq' = [freq EXCEPT ![d] = r])
      BY <2>3 DEF ResolveQuery
    <3> HIDE DEF r
    <3> QED BY <1>2, <1>3, <2>0, <3>1
  <2>4. CASE ResolveNext(d)
    <3> DEFINE rest == Without(freq[d].todo, Oldest(DOMAIN freq[d].todo))
               r == [freq[d] EXCEPT !.todo = rest]
    <3>1. freq[d].op = "resolve" /\ freq' = [freq EXCEPT ![d] = r]
      BY <1>0, <2>4 DEF ResolveNext
    <3>2. freq[d] \in Resolving(DOMAIN freq[d].todo)
      BY <3>1, FundFields, TypedFields
    <3>3. r.fund = freq[d].fund
      <4> HIDE DEF rest
      <4> QED BY <3>2 DEF Resolving
    <3> HIDE DEF r
    <3> QED BY <1>3, <3>1, <3>3
  <2> QED BY <1>8, <2>1, <2>2, <2>3, <2>4 DEF FundSteps
<1>9. ASSUME NEW d \in Clients, TaskRequests(d) \/ TaskSteps(d)
      PROVE  UNCHANGED freq
  BY <1>9 DEF TaskRequests, TaskSteps
<1>10. ASSUME NEW f \in Entities, RestoreFund(f) PROVE UNCHANGED freq
  BY <1>10 DEF RestoreFund
<1>11. ~FundCrash
  BY DEF FundCrash, Idle
<1>12. UNCHANGED fvars => UNCHANGED freq
  BY DEF fvars
<1>13. Goal
  BY <1>1, <1>6, <1>7, <1>8, <1>9, <1>10, <1>11, <1>12 DEF FundNext, Goal
<1> QED BY <1>13 DEF Goal

\* A step of one client leaves the requests of the others alone.
LEMMA OtherRequestsKept ==
  ASSUME TypeOK, FundTypeOK, NEW c \in Clients, NEW d \in Clients, d # c,
         \/ TaskRequests(c) \/ TaskSteps(c) \/ Decide(c) \/ FundRequests(c)
         \/ FundSteps(c)
  PROVE  req'[d] = req[d] /\ freq'[d] = freq[d]
<1>0. ASSUME NEW r, req' = [req EXCEPT ![c] = r] PROVE req'[d] = req[d]
  BY <1>0 DEF TypeOK
<1>1. ASSUME NEW r, freq' = [freq EXCEPT ![c] = r] PROVE freq'[d] = freq[d]
  BY <1>1 DEF FundTypeOK
<1>2. CASE TaskRequests(c) \/ TaskSteps(c)
  <2>1. Serves(c) /\ UNCHANGED freq
    BY <1>2, TaskRequestsServe, TaskStepsServe DEF Serves, TaskRequests, TaskSteps
  <2> QED BY <1>0, <2>1, OthersKept
<1>3. CASE Decide(c)
  <2>1. Serves(c) /\ Expire(c)
    BY <1>3, DecideWrites DEF Serves, Decide, FundApproveNext, FundApproveLast,
                              FundReject, FundResubmit, FundRetry, Apply
  <2>2. freq'[d] = freq[d]
    BY <2>1 DEF Expire, FundTypeOK
  <2> QED BY <1>0, <2>1, <2>2, OthersKept
<1>4. CASE FundRequests(c)
  BY <1>1, <1>4 DEF FundRequests, CreateFund, UpdateFund, DeleteRead, MoveRead
<1>5. CASE FundSteps(c)
  <2>1. ASSUME NEW q, SubmitReads(c, q) PROVE req'[d] = req[d]
    BY <1>0, <2>1 DEF SubmitReads, Continue
  <2>2. ASSUME NEW v, NEW t, NEW u, Settle(c, v, t, u) PROVE req'[d] = req[d]
    BY <1>0, <2>2, SettleReads
  <2>3. req'[d] = req[d]
    BY <1>5, <2>1, <2>2
    DEF FundSteps, SubmitFund, DeleteFund, Move, ResolveQuery, ResolveNext, ResolveEnd
  <2>4. freq'[d] = freq[d]
    BY <1>1, <1>5
    DEF FundSteps, SubmitFund, DeleteFund, Move, ResolveQuery, ResolveNext,
        ResolveEnd, FundTypeOK
  <2> QED BY <2>3, <2>4
<1> QED BY <1>2, <1>3, <1>4, <1>5

\* Every step is one of a client, or changes no request, or ends them all.
LEMMA WhoseStep ==
  ASSUME TypeOK, FundTypeOK, [FundNext]_fvars, NEW d \in Clients
  PROVE  \/ req'[d] = req[d] /\ freq'[d] = freq[d]
         \/ req'[d] = Idle /\ freq'[d] = Idle
         \/ TaskRequests(d) \/ TaskSteps(d) \/ Decide(d)
         \/ FundRequests(d) /\ req'[d] = req[d]
         \/ FundSteps(d)
<1>1. Configure => req' = req
  BY DEF Configure, CreateWorkflow, UpdateWorkflow, DeleteWorkflow
<1>2. \A f \in Entities : RestoreFund(f) => req' = req /\ freq' = freq
  BY DEF RestoreFund
<1>3. FundRequests(d) => req' = req
  BY DEF FundRequests, CreateFund, UpdateFund, DeleteRead, MoveRead
<1>4. FundCrash => req'[d] = Idle /\ freq'[d] = Idle
  BY DEF FundCrash
<1>5. ASSUME NEW c \in Clients,
             \/ TaskRequests(c) \/ TaskSteps(c) \/ Decide(c) \/ FundRequests(c)
             \/ FundSteps(c)
      PROVE  \/ req'[d] = req[d] /\ freq'[d] = freq[d]
             \/ TaskRequests(d) \/ TaskSteps(d) \/ Decide(d) \/ FundRequests(d)
             \/ FundSteps(d)
  BY <1>5, OtherRequestsKept
<1> QED BY <1>1, <1>2, <1>3, <1>4, <1>5 DEF FundNext, fvars

\* A new task comes from a submission.
LEMMA FundNewTasks ==
  ASSUME BInv, [FundNext]_fvars, NEW t \in TaskIds, ~Exists(t), Exists(t)'
  PROVE  \E c \in Clients : /\ req[c].op \in SubmitOps
                            /\ task'[t].entity = req[c].entity
<1> USE DEF BInv, IInv
<1>0. ~UNCHANGED task
  BY DEF Exists
<1>1. ASSUME NEW c \in Clients, TaskRequests(c) \/ TaskSteps(c) \/ Decide(c)
      PROVE  /\ req[c].op \in SubmitOps
             /\ task'[t].entity = req[c].entity
  <2>1. Serves(c)
    BY <1>1, TaskRequestsServe, TaskStepsServe, DecideWrites DEF Serves
  <2> QED BY <2>1, NewTasks DEF SubmitOps
<1>2. \A c \in Clients : ~FundRequests(c)
  BY <1>0 DEF FundRequests, CreateFund, UpdateFund, DeleteRead, MoveRead
<1>3. \A c \in Clients : ~FundSteps(c)
  BY <1>0, ResolveEffect
  DEF FundSteps, SubmitFund, SubmitReads, DeleteFund, Move, ResolveEnd
<1>4. ~FundCrash /\ ~Configure /\ ~UNCHANGED fvars /\ \A f \in Entities : ~RestoreFund(f)
  BY <1>0 DEF FundCrash, Configure, CreateWorkflow, UpdateWorkflow, DeleteWorkflow,
              fvars, RestoreFund
<1> QED BY <1>1, <1>2, <1>3, <1>4 DEF FundNext

LEMMA FundsExistStep ==
  ASSUME BInv, [FundNext]_fvars
  PROVE  FundsExist'
<1> USE DEF BInv, IInv
<1>1. Sound /\ StepKind
  BY FundStepEffect
<1>2. \A f \in Entities : fund[f] # NoFund => fund'[f] # NoFund
  BY FundStepKind, FundKindType
<1>3. ASSUME NEW c \in Clients, req[c].op \in SubmitOps
      PROVE  req[c].entity \in Entities
  <2>1. req[c] \in Query \/ req[c] \in Insert
    BY <1>3 DEF TypeOK, Request, SubmitOps, Idle, ApproveRequest, PlainRequest,
                ResubmitRequest, TransferRequest, RetryRequest, TaskRequest
  <2> QED BY <2>1 DEF Query, Insert
<1>4. ASSUME NEW t \in TaskIds, Exists(t)'
      PROVE  fund'[task'[t].entity] # NoFund
  <2>1. CASE Exists(t)
    <3>1. task[t].entity \in Entities /\ fund[task[t].entity] # NoFund
      BY <2>1, TaskRows DEF TaskRow, FundsExist
    <3> QED BY <1>1, <1>2, <2>1, <3>1, EntityKept
  <2>2. CASE ~Exists(t)
    <3>1. PICK c \in Clients : /\ req[c].op \in SubmitOps
                               /\ task'[t].entity = req[c].entity
      BY <1>4, <2>2, FundNewTasks
    <3> QED BY <1>2, <1>3, <3>1 DEF FundsExist
  <2> QED BY <2>1, <2>2
<1>5. ASSUME NEW c \in Clients, req'[c].op \in SubmitOps
      PROVE  fund'[req'[c].entity] # NoFund
  <2>1. CASE req'[c] = req[c]
    BY <1>2, <1>3, <1>5, <2>1 DEF FundsExist
  <2>2. CASE TaskRequests(c) \/ TaskSteps(c) \/ Decide(c) \/ FundSteps(c)
    BY <1>2, <1>5, <2>1, <2>2, FundSubmissions
  <2> QED BY <1>5, <2>1, <2>2, WhoseStep DEF Idle, SubmitOps
<1>6. ASSUME NEW c \in Clients, freq'[c].op # "idle"
      PROVE  fund'[freq'[c].fund] # NoFund
  BY <1>2, <1>6, FundTargets, FundFields DEF FundsExist
<1> QED BY <1>4, <1>5, <1>6 DEF FundsExist

\* The invariant is inductive.
LEMMA BInvInit == FundInit => BInv
<1> SUFFICES ASSUME FundInit PROVE BInv
  OBVIOUS
<1>1. IInv
  BY InitIInv DEF FundInit
<1>2. FundTypeOK
  <2>1. history \in [Entities -> Seq(Entry)]
    BY DEF FundInit
  <2> QED BY <2>1 DEF FundInit, FundTypeOK, FundRequest
<1>3. FundsExist
  BY DEF FundInit, Init, FundsExist, Exists, SubmitOps, Idle
<1> QED BY <1>1, <1>2, <1>3 DEF BInv

LEMMA BInvStep == BInv /\ [FundNext]_fvars => BInv'
<1> SUFFICES ASSUME BInv, [FundNext]_fvars PROVE BInv'
  OBVIOUS
<1>1. Sound /\ StepKind
  BY FundStepEffect DEF BInv, IInv
<1>2. IInv'
  BY <1>1, LevelsStep, ApprovedStep, RetryStep DEF BInv, IInv, Sound
<1>3. FundTypeOK'
  BY FundStepKind, RequestKindType DEF BInv
<1> QED BY <1>2, <1>3, FundsExistStep DEF BInv

(* However requests interleave, fail and crash, every fund, history entry   *)
(* and fund request keeps its type: the status is only written of funds     *)
(* that exist, and what a direct decision still has to settle are tasks     *)
(* (create_fund, _transition_status, _resolve_fund_approval_tasks).         *)
THEOREM FundTypeCorrect == FundSpec => []FundTypeOK
<1>1. BInv => FundTypeOK
  BY DEF BInv
<1> QED BY <1>1, BInvInit, BInvStep, PTL DEF FundSpec

(***************************************************************************)
(* What the service promises holds under the funds, too, although a direct *)
(* decision approves and rejects tasks of its own accord.                  *)
(***************************************************************************)
(* However direct decisions on a fund interleave with the approvals of its  *)
(* tasks, a task is approved only when an approval of every level is on     *)
(* record: auto_approve_single_task goes through the levels one by one.     *)
THEOREM FundApprovedEveryLevel == FundSpec => []ApprovedAtEveryLevel
<1>1. BInv => ApprovedAtEveryLevel
  BY DEF BInv, IInv, ApprovedClimbed, ApprovedAtEveryLevel, Climbed
<1> QED BY <1>1, BInvInit, BInvStep, PTL DEF FundSpec

(* Nor do they decide a level of a round twice.                             *)
THEOREM FundDecisionsOnce ==
  ASSUME "pending" \notin FailOn
  PROVE  FundSpec => []OneDecisionPerLevel
<1>1. FundInit => DInv
  BY InitDInv DEF FundInit
<1>2. BInv /\ DInv /\ [FundNext]_fvars => DInv'
  <2> SUFFICES ASSUME BInv, DInv, [FundNext]_fvars PROVE DInv'
    OBVIOUS
  <2>1. Sound /\ StepKind
    BY FundStepEffect DEF BInv, IInv
  <2>2. IInv'
    BY BInvStep DEF BInv
  <2> QED BY <2>1, <2>2, ReopenedStep, EarlyStep, PendingStep, DecisionStep DEF DInv
<1>3. DInv => OneDecisionPerLevel
  BY DEF DInv
<1> QED BY <1>1, <1>2, <1>3, BInvInit, BInvStep, PTL DEF FundSpec

(* The service implements the ledger of approvals under the funds, too.     *)
THEOREM FundImplementsLedger == FundSpec => ImplementsLedger
<1>1. FundInit => LInv /\ Ledger!LedgerInit
  BY InitLInv, LedgerStart DEF FundInit
<1>2. BInv /\ LInv /\ [FundNext]_fvars =>
        LInv' /\ [Ledger!LedgerNext]_<<needs, signed, granted>>
  <2> SUFFICES ASSUME BInv, LInv, [FundNext]_fvars
               PROVE  LInv' /\ [Ledger!LedgerNext]_<<needs, signed, granted>>
    OBVIOUS
  <2>1. StepKind
    BY FundStepEffect DEF BInv, IInv
  <2>2. IInv'
    BY BInvStep DEF BInv
  <2>3. LInv'
    BY <2>1, <2>2, BoundedStep DEF LInv
  <2> QED BY <2>1, <2>3, LedgerStep
<1>3. BInv /\ LInv /\ [FundNext]_fvars => LInv' /\ [Ledger!LedgerNext]_(Ledger!lvars)
  BY <1>2 DEF Ledger!lvars, needs, signed, granted
<1> QED BY <1>1, <1>3, BInvInit, BInvStep, PTL
     DEF FundSpec, ImplementsLedger, Ledger!LedgerSpec

(***************************************************************************)
(* Where a client is in a fund endpoint, and in the service.  While it     *)
(* settles the tasks of a fund it approves and rejects tasks of that fund, *)
(* in the other fund endpoints it calls the service last.                  *)
(***************************************************************************)
SettleOps == {"approve", "reload", "reject"}

InPlace(c) ==
  /\ freq[c].op \in {"submit", "delete", "move", "query"} => req[c] = Idle
  /\ freq[c].op = "resolve" =>
       /\ req[c] = Idle \/ req[c].op \in SettleOps
       /\ req[c].op \in SettleOps => task[req[c].id].entity = freq[c].fund
       /\ \A t \in DOMAIN freq[c].todo :
            Exists(t) /\ task[t].entity = freq[c].fund

Settling == \A c \in Clients : InPlace(c)

\* The fund requests after a step of the service.
LEMMA ExpireFields ==
  ASSUME FundTypeOK, NEW c \in Clients, Expire(c)
  PROVE  /\ freq'[c].op = freq[c].op
         /\ freq[c].op # "resolve" => freq'[c] = freq[c]
         /\ freq[c].op = "resolve" =>
              /\ freq'[c].fund = freq[c].fund
              /\ freq'[c].todo = freq[c].todo
              /\ freq'[c].loaded = FALSE
<1> DEFINE r == IF freq[c].op = "resolve" THEN [freq[c] EXCEPT !.loaded = FALSE]
                ELSE freq[c]
<1>1. freq' = [freq EXCEPT ![c] = r]
  BY DEF Expire
<1>2. freq'[c] = r
  BY <1>1 DEF FundTypeOK
<1>3. CASE freq[c].op = "resolve"
  <2>1. freq[c] \in Resolving(DOMAIN freq[c].todo)
    BY <1>3, FundFields, TypedFields
  <2> QED BY <1>2, <1>3, <2>1 DEF Resolving
<1> QED BY <1>2, <1>3

\* A client that is served has a request.
LEMMA ServedBusy ==
  ASSUME NEW c \in Clients, TaskSteps(c) \/ Decide(c)
  PROVE  req[c] # Idle
<1>1. req[c].op # "idle"
  <2>1. CASE Decide(c)
    BY <2>1, DecideWrites
  <2>2. CASE TaskSteps(c)
    BY <2>2 DEF TaskSteps, EnsureDefaultWorkflow, SubmitAgain, SubmitWrite, SubmitFails,
                ClaimFails, Decides, AutoReload, Withdraw, Transfer, RetryWrite
  <2> QED BY <2>1, <2>2
<1> QED BY <1>1 DEF Idle

\* While it settles tasks, it approves or rejects one and goes on with it.
LEMMA SettlesOn ==
  ASSUME BInv, Settling, NEW c \in Clients, freq[c].op = "resolve",
         TaskSteps(c) \/ Decide(c)
  PROVE  /\ req[c].op \in SettleOps
         /\ Write(c)
         /\ freq'[c].op = "resolve" /\ freq'[c].fund = freq[c].fund
         /\ freq'[c].todo = freq[c].todo
         /\ \/ req'[c] = Idle
            \/ /\ req[c].op \in {"approve", "reload"}
               /\ req'[c].op \in {"approve", "reload"}
               /\ req'[c].id = req[c].id
               /\ req[c].arg = WhilePending => req'[c].arg = WhilePending
<1> USE DEF BInv, IInv, SettleOps
<1>1. req[c].op \in SettleOps
  BY ServedBusy DEF Settling, InPlace
<1>2. Write(c)
  <2>1. ASSUME TaskSteps(c) PROVE Write(c)
    BY <1>1, <2>1 DEF TaskSteps, Write, EnsureDefaultWorkflow, SubmitAgain, SubmitWrite,
                      SubmitFails
  <2> QED BY <2>1, DecideWrites
<1>3. freq'[c].op = "resolve" /\ freq'[c].fund = freq[c].fund
      /\ freq'[c].todo = freq[c].todo
  <2>1. CASE TaskSteps(c)
    BY <2>1 DEF TaskSteps
  <2>2. CASE Decide(c)
    BY <2>2, ExpireFields
    DEF Decide, FundApproveNext, FundApproveLast, FundReject, FundResubmit, FundRetry,
        Apply
  <2> QED BY <2>1, <2>2
<1> QED BY <1>1, <1>2, <1>3, GoesOn

\* What settling starts with and goes on with.
LEMMA QueryEffect ==
  ASSUME BInv, NEW c \in Clients, ResolveQuery(c)
  PROVE  \/ freq'[c] = Idle /\ PendingOf(freq[c].fund) = {}
         \/ \E t \in PendingOf(freq[c].fund) :
              /\ req' = [req EXCEPT ![c] =
                           SettleRequest(freq[c].verdict, t, freq[c].user)]
              /\ UNCHANGED <<task, record>>
              /\ freq'[c].op = "resolve" /\ freq'[c].fund = freq[c].fund
              /\ freq'[c].todo = [s \in PendingOf(freq[c].fund) \ {t} |-> task[s]]
              /\ freq'[c].status = fund[freq[c].fund].status
<1> USE DEF BInv, IInv
<1> DEFINE q == freq[c]
           S == PendingOf(q.fund)
           t == Oldest(S)
           found == [s \in S |-> task[s]]
           r == [op |-> "resolve", fund |-> q.fund, user |-> q.user,
                 verdict |-> q.verdict, todo |-> Without(found, t),
                 status |-> fund[q.fund].status, loaded |-> TRUE]
<1>1. CASE S = {}
  BY <1>1 DEF ResolveQuery, FundTypeOK
<1>2. CASE S # {}
  <2>1. t \in S
    BY <1>2, QueryFirst
  <2>2. Settle(c, q.verdict, t, q.user) /\ freq' = [freq EXCEPT ![c] = r]
    BY <1>2 DEF ResolveQuery
  <2>3. freq'[c] = r
    BY <2>2 DEF FundTypeOK
  <2>4. Without(found, t) = [s \in S \ {t} |-> task[s]]
    BY DEF Without
  <2>5. r.op = "resolve" /\ r.fund = q.fund /\ r.todo = [s \in S \ {t} |-> task[s]]
        /\ r.status = fund[q.fund].status
    BY <2>4
  <2>6. req' = [req EXCEPT ![c] = SettleRequest(q.verdict, t, q.user)]
        /\ UNCHANGED <<task, record>>
    <3> HIDE DEF t
    <3> QED BY <2>2, SettleReads
  <2> HIDE DEF r, t
  <2> QED BY <2>1, <2>3, <2>5, <2>6
<1> QED BY <1>1, <1>2

LEMMA NextEffect ==
  ASSUME BInv, NEW c \in Clients, ResolveNext(c)
  PROVE  \E t \in DOMAIN freq[c].todo :
           /\ t \in TaskIds
           /\ \/ /\ task[t].status = "pending"
                 /\ req' = [req EXCEPT ![c] =
                              SettleRequest(freq[c].verdict, t, freq[c].user)]
              \/ /\ task[t].status # "pending" \/ task[t] # freq[c].todo[t]
                 /\ UNCHANGED req
           /\ req[c] = Idle /\ UNCHANGED <<task, record>>
           /\ freq'[c].op = "resolve" /\ freq'[c].fund = freq[c].fund
           /\ freq'[c].status = freq[c].status /\ freq'[c].loaded = freq[c].loaded
           /\ freq'[c].todo = Without(freq[c].todo, t)
<1> USE DEF BInv, IInv
<1> DEFINE q == freq[c]
           t == Oldest(DOMAIN q.todo)
           rest == Without(q.todo, t)
           r == [q EXCEPT !.todo = rest]
<1>1. q.op = "resolve" /\ q \in Resolving(DOMAIN q.todo)
  BY FundFields, TypedFields DEF ResolveNext
<1>2. t \in DOMAIN q.todo /\ t \in TaskIds
  BY ResolveFirst DEF ResolveNext
<1>3. freq' = [freq EXCEPT ![c] = r] /\ req[c] = Idle
  BY DEF ResolveNext, FundTypeOK
<1>4. freq'[c] = r
  BY <1>3 DEF FundTypeOK
<1>5. r.op = "resolve" /\ r.fund = q.fund /\ r.todo = rest
      /\ r.status = q.status /\ r.loaded = q.loaded
  <2> HIDE DEF rest
  <2> QED BY <1>1 DEF Resolving
<1>6. \/ Settle(c, q.verdict, t, q.user)
      \/ /\ task[t].status # "pending" \/ task[t] # q.todo[t]
         /\ UNCHANGED <<workflow, task, record, req>>
  BY DEF ResolveNext
<1> HIDE DEF r, t
<1>7. \/ /\ task[t].status = "pending"
         /\ req' = [req EXCEPT ![c] = SettleRequest(q.verdict, t, q.user)]
         /\ UNCHANGED <<task, record>>
      \/ /\ task[t].status # "pending" \/ task[t] # q.todo[t]
         /\ UNCHANGED req /\ UNCHANGED <<task, record>>
  BY <1>6, SettleReads
<1> QED BY <1>2, <1>3, <1>4, <1>5, <1>7 DEF rest

\* A task stays the task of its entity.
LEMMA TasksStay ==
  ASSUME BInv, [FundNext]_fvars, NEW t, t \in TaskIds, Exists(t)
  PROVE  Exists(t)' /\ task'[t].entity = task[t].entity
BY FundStepEffect, EntityKept DEF BInv, IInv

LEMMA SettlingStep ==
  ASSUME BInv, Settling, [FundNext]_fvars
  PROVE  Settling'
<1> USE DEF BInv, IInv
<1> SUFFICES ASSUME NEW c \in Clients PROVE InPlace(c)'
  BY DEF Settling
<1>0. freq[c].op = "resolve" => DOMAIN freq[c].todo \subseteq TaskIds
  BY FundFields, TypedFields
\* The tasks of the fund are still there.
<1>1. ASSUME freq[c].op = "resolve", freq'[c].fund = freq[c].fund,
             DOMAIN freq'[c].todo \subseteq DOMAIN freq[c].todo
      PROVE  \A t \in DOMAIN freq'[c].todo :
               Exists(t)' /\ task'[t].entity = freq'[c].fund
  BY <1>0, <1>1, TasksStay DEF Settling, InPlace
<1>2. ASSUME req[c].op \in SettleOps
      PROVE  task'[req[c].id].entity = task[req[c].id].entity
  <2>1. HasTask(c)
    BY <1>2 DEF SettleOps, HasTask, TaskOps
  <2> QED BY <2>1, SeenTask, TasksStay DEF SeenRows
<1>3. CASE req'[c] = req[c] /\ freq'[c] = freq[c]
  <2>1. freq[c].op = "resolve" =>
          \A t \in DOMAIN freq'[c].todo :
            Exists(t)' /\ task'[t].entity = freq'[c].fund
    BY <1>1, <1>3
  <2> QED BY <1>2, <1>3, <2>1 DEF Settling, InPlace
<1>4. CASE freq'[c] = Idle
  BY <1>4 DEF InPlace, Idle
<1>5. CASE TaskRequests(c)
  BY <1>4, <1>5 DEF TaskRequests
<1>6. CASE TaskSteps(c) \/ Decide(c)
  <2>1. req[c] # Idle
    BY <1>6, ServedBusy
  <2>2. freq'[c].op = freq[c].op
    BY <1>6, ExpireFields
    DEF TaskSteps, Decide, FundApproveNext, FundApproveLast, FundReject, FundResubmit,
        FundRetry, Apply
  <2>3. CASE freq[c].op = "resolve"
    <3>1. /\ req[c].op \in SettleOps
          /\ freq'[c].op = "resolve" /\ freq'[c].fund = freq[c].fund
          /\ freq'[c].todo = freq[c].todo
          /\ \/ req'[c] = Idle
             \/ req'[c].op \in {"approve", "reload"} /\ req'[c].id = req[c].id
      BY <1>6, <2>3, SettlesOn
    <3>2. task[req[c].id].entity = freq[c].fund
      BY <2>3, <3>1 DEF Settling, InPlace
    <3>3. \A t \in DOMAIN freq'[c].todo :
            Exists(t)' /\ task'[t].entity = freq'[c].fund
      BY <1>1, <2>3, <3>1
    <3>4. /\ req'[c] = Idle \/ req'[c].op \in SettleOps
          /\ req'[c].op \in SettleOps => task'[req'[c].id].entity = freq'[c].fund
      BY <1>2, <3>1, <3>2 DEF SettleOps, Idle
    <3> QED BY <2>2, <2>3, <3>3, <3>4 DEF InPlace
  <2>4. CASE freq[c].op # "resolve"
    BY <2>1, <2>2, <2>4 DEF Settling, InPlace
  <2> QED BY <2>3, <2>4
<1>7. CASE FundRequests(c) /\ req'[c] = req[c]
  <2>1. req'[c] = Idle
    BY <1>7 DEF FundRequests, CreateFund, UpdateFund, DeleteRead, MoveRead, Free
  <2>2. freq'[c].op \in {"submit", "delete", "move"}
    BY <1>7
    DEF FundRequests, CreateFund, UpdateFund, DeleteRead, MoveRead, FundTypeOK
  <2> QED BY <2>1, <2>2 DEF InPlace
<1>8. CASE FundSteps(c)
  <2>1. CASE SubmitFund(c) \/ DeleteFund(c) \/ ResolveEnd(c)
    BY <1>4, <2>1 DEF SubmitFund, DeleteFund, ResolveEnd, FundTypeOK
  <2>2. CASE Move(c)
    <3>1. freq[c].op = "move" /\ req' = req /\ freq'[c] = NextAfterMove(freq[c])
      BY <2>2 DEF Move, FundTypeOK
    <3>2. req'[c] = Idle
      BY <3>1 DEF Settling, InPlace
    <3>3. freq'[c].op \in {"query", "idle"}
      BY <3>1 DEF NextAfterMove, Idle
    <3> QED BY <3>2, <3>3 DEF InPlace
  <2>3. ASSUME NEW v, NEW t, NEW u, req' = [req EXCEPT ![c] = SettleRequest(v, t, u)]
        PROVE  req'[c].op \in SettleOps /\ req'[c].id = t
    BY <2>3 DEF TypeOK, SettleRequest, SettleOps
  <2>4. CASE ResolveQuery(c)
    <3>1. ASSUME NEW t \in PendingOf(freq[c].fund),
                 req' = [req EXCEPT ![c] =
                           SettleRequest(freq[c].verdict, t, freq[c].user)],
                 UNCHANGED task,
                 freq'[c].op = "resolve", freq'[c].fund = freq[c].fund,
                 freq'[c].todo = [s \in PendingOf(freq[c].fund) \ {t} |-> task[s]]
          PROVE  InPlace(c)'
      <4>1. \A s \in PendingOf(freq[c].fund) :
              Exists(s)' /\ task'[s].entity = freq'[c].fund
        BY <3>1 DEF PendingOf, Exists
      <4>2. req'[c].op \in SettleOps /\ req'[c].id = t
        BY <2>3, <3>1
      <4>3. DOMAIN freq'[c].todo \subseteq PendingOf(freq[c].fund)
        BY <3>1
      <4> QED BY <3>1, <4>1, <4>2, <4>3 DEF InPlace
    <3> QED BY <1>4, <2>4, <3>1, QueryEffect
  <2>5. CASE ResolveNext(c)
    <3>1. PICK t \in DOMAIN freq[c].todo :
            /\ t \in TaskIds
            /\ \/ req' = [req EXCEPT ![c] =
                            SettleRequest(freq[c].verdict, t, freq[c].user)]
               \/ UNCHANGED req
            /\ req[c] = Idle /\ UNCHANGED <<task, record>>
            /\ freq'[c].op = "resolve" /\ freq'[c].fund = freq[c].fund
            /\ freq'[c].todo = Without(freq[c].todo, t)
      BY <2>5, NextEffect
    <3>2. freq[c].op = "resolve"
      BY <2>5 DEF ResolveNext
    <3>3. DOMAIN freq'[c].todo \subseteq DOMAIN freq[c].todo
      BY <3>1 DEF Without
    <3>4. \A s \in DOMAIN freq'[c].todo :
            Exists(s)' /\ task'[s].entity = freq'[c].fund
      BY <1>1, <3>1, <3>2, <3>3
    <3>5. task'[t].entity = freq'[c].fund
      BY <3>1, <3>2 DEF Settling, InPlace
    <3>6. \/ req'[c].op \in SettleOps /\ req'[c].id = t
          \/ req'[c] = Idle
      BY <2>3, <3>1
    <3> QED BY <3>1, <3>4, <3>5, <3>6 DEF InPlace, SettleOps, Idle
  <2> QED BY <1>8, <2>1, <2>2, <2>4, <2>5 DEF FundSteps
<1> QED BY <1>3, <1>4, <1>5, <1>6, <1>7, <1>8, WhoseStep

(***************************************************************************)
(* No stage is skipped, however requests interleave.  What a transition or *)
(* a session has read may be old, but it is a status the fund has been at  *)
(* (KnowsReached), and every status written comes after it in the graph:   *)
(* the funds implement FundLifecycle.                                      *)
(***************************************************************************)
KnowsReached ==
  /\ \A f \in Entities :
       IF fund[f] = NoFund THEN history[f] = <<>> ELSE fund[f].status \in Reached(f)
  /\ \A c \in Clients :
       /\ freq[c].op = "move" => freq[c].from \in Reached(freq[c].fund)
       /\ freq[c].op = "resolve" => freq[c].status \in Reached(freq[c].fund)

CInv == BInv /\ FInv /\ Settling /\ KnowsReached

\* The handler and the endpoints follow the graph.
LEMMA TargetEdge ==
  ASSUME NEW s, NEW from, Target(s, from) # from
  PROVE  /\ Target(s, from) \in FundStatus
         /\ from \in Lifecycle!Before[Target(s, from)]
<1>1. Target(s, from) \in {"approved", "rejected", "pending"}
  BY DEF Target
<1> QED BY <1>1 DEF Target, FundStatus, Lifecycle!Before

LEMMA AllowedEdge ==
  ASSUME NEW to \in DOMAIN Allowed, NEW from \in Allowed[to]
  PROVE  to \in FundStatus /\ from \in Lifecycle!Before[to]
BY DEF Allowed, FundStatus, Lifecycle!Before

\* A step takes a fund along an edge from a status it has been at.
GraphKind ==
  \/ UNCHANGED <<fund, history>>
  \/ \E f \in Entities, from, to \in FundStatus :
       /\ fund[f] # NoFund
       /\ from \in Reached(f)
       /\ from \in Lifecycle!Before[to]
       /\ WritesStatus(f, from, to)
  \/ \E f \in Entities, b \in BOOLEAN :
       /\ fund[f] # NoFund
       /\ fund' = [fund EXCEPT ![f].active = b] /\ UNCHANGED history
  \/ \E f \in Entities, u \in Users :
       /\ fund[f] = NoFund
       /\ fund' = [fund EXCEPT ![f] = [status |-> "pending", active |-> TRUE,
                                       creator |-> u]]
       /\ UNCHANGED history

LEMMA ApplyGraph ==
  ASSUME CInv, NEW c \in Clients, HasTask(c), NEW s, NEW ok \in BOOLEAN, Apply(c, s, ok)
  PROVE  GraphKind
<1> USE DEF CInv, BInv, IInv
<1> DEFINE f == task[req[c].id].entity
           from == KnownStatus(c, f)
           to == Target(s, from)
<1>1. f \in Entities /\ fund[f] # NoFund
  BY SeenTask, TaskRows DEF SeenRows, FundsExist, TaskRow
<1>2. from \in FundStatus
  BY <1>1, KnownType
<1>3. from \in Reached(f)
  <2>1. CASE freq[c].op # "resolve"
    BY <1>1, <2>1 DEF KnownStatus, KnowsReached
  <2>2. CASE freq[c].op = "resolve"
    <3>1. req[c].op \in SettleOps
      BY <2>2 DEF Settling, InPlace, HasTask, TaskOps, Idle
    <3>2. f = freq[c].fund
      BY <2>2, <3>1 DEF Settling, InPlace
    <3>3. freq[c].status \in Reached(f) /\ fund[f].status \in Reached(f)
      BY <1>1, <2>2, <3>2 DEF KnowsReached
    <3> QED BY <3>3 DEF KnownStatus
  <2> QED BY <2>1, <2>2
<1>4. UNCHANGED <<fund, history>> \/ (to # from /\ WritesStatus(f, from, to))
  BY DEF Apply, FundHandler, WritesStatus
<1> HIDE DEF f, from
<1>5. to # from => to \in FundStatus /\ from \in Lifecycle!Before[to]
  BY TargetEdge
<1> HIDE DEF to
<1> QED BY <1>1, <1>2, <1>3, <1>4, <1>5 DEF GraphKind

LEMMA MoveGraph ==
  ASSUME CInv, NEW c \in Clients, Move(c)
  PROVE  GraphKind
<1> USE DEF CInv, BInv
<1> DEFINE m == freq[c]
<1>1. m.fund \in Entities /\ fund[m.fund] # NoFund /\ m.from \in FundStatus
  BY FundFields, TypedFields DEF Move, FundsExist
<1>2. m.to \in DOMAIN Allowed /\ m.from \in Allowed[m.to] /\ m.from \in Reached(m.fund)
  BY DEF Move, FInv, EarnedMoves, KnowsReached
<1>3. WritesStatus(m.fund, m.from, m.to)
  BY DEF Move, WritesStatus
<1> HIDE DEF m
<1>4. m.to \in FundStatus /\ m.from \in Lifecycle!Before[m.to]
  BY <1>2, AllowedEdge
<1> QED BY <1>1, <1>2, <1>3, <1>4 DEF GraphKind

LEMMA FundGraphKind ==
  ASSUME CInv, [FundNext]_fvars
  PROVE  GraphKind
<1> USE DEF CInv, BInv
<1>1. CASE UNCHANGED <<fund, history>>
  BY <1>1 DEF GraphKind
<1>2. ASSUME NEW f \in Entities, RestoreFund(f) PROVE GraphKind
  BY <1>2 DEF RestoreFund, GraphKind
<1>3. ASSUME NEW c \in Clients, Decide(c) PROVE GraphKind
  <2>1. HasTask(c)
    BY <1>3, DecideWrites
  <2> QED BY <1>1, <1>3, <2>1, ApplyGraph
       DEF Decide, FundApproveNext, FundApproveLast, FundReject, FundResubmit, FundRetry
<1>4. ASSUME NEW c \in Clients, FundRequests(c) PROVE GraphKind
  BY <1>4 DEF FundRequests, CreateFund, UpdateFund, DeleteRead, MoveRead, GraphKind
<1>5. ASSUME NEW c \in Clients, DeleteFund(c) PROVE GraphKind
  <2>1. freq[c].fund \in Entities /\ fund[freq[c].fund] # NoFund
    BY <1>5, FundFields DEF DeleteFund, FundsExist
  <2> QED BY <1>5, <2>1 DEF DeleteFund, GraphKind
<1>6. ASSUME NEW c \in Clients, FundSteps(c) PROVE GraphKind
  BY <1>1, <1>5, <1>6, MoveGraph
  DEF FundSteps, SubmitFund, ResolveQuery, ResolveNext, ResolveEnd
<1> QED BY <1>1, <1>2, <1>3, <1>4, <1>6
     DEF FundNext, FundCrash, TaskRequests, TaskSteps, fvars

\* The stages reached after an entry is appended.
LEMMA RecordedGrows ==
  ASSUME NEW h \in Seq(Entry), NEW e \in Entry
  PROVE  Recorded(Append(h, e)) = Recorded(h) \cup {e.to}
<1> DEFINE g == Append(h, e)
<1>1. /\ Len(h) \in Nat /\ Len(g) = Len(h) + 1 /\ g[Len(h) + 1] = e
      /\ \A i \in 1..Len(h) : g[i] = h[i]
  BY AppendEntry
<1> HIDE DEF g
<1>2. \A i : i \in 1..Len(g) <=> i \in 1..Len(h) \/ i = Len(h) + 1
  BY <1>1
<1>3. ASSUME NEW x
      PROVE  (\E i \in 1..Len(g) : x = g[i].to)
               <=> (\E i \in 1..Len(h) : x = h[i].to) \/ x = e.to
  BY <1>1, <1>2
<1>4. Recorded(g) = Recorded(h) \cup {e.to}
  BY <1>3 DEF Recorded
<1> QED BY <1>4 DEF g

\* Each kind of step is one of the lifecycle, or leaves it where it is, and no
\* fund forgets a stage.
LifecycleStep ==
  /\ [Lifecycle!LifecycleNext]_<<Stages, StagesReached>>
  /\ \A f \in Entities : Reached(f) \subseteq Reached(f)'
  /\ \A f \in Entities :
       IF fund'[f] = NoFund THEN history'[f] = <<>>
       ELSE fund'[f].status \in Reached(f)'

LEMMA GraphReach ==
  ASSUME CInv, NEW f \in Entities, NEW from \in FundStatus, NEW to \in FundStatus,
         fund[f] # NoFund, from \in Reached(f), from \in Lifecycle!Before[to],
         WritesStatus(f, from, to)
  PROVE  LifecycleStep
<1> USE DEF CInv, BInv, FundTypeOK
<1> DEFINE e == [from |-> from, to |-> to]
<1>1. e \in Entry /\ e.to = to
  BY DEF Entry
<1>2. /\ fund'[f] = [fund[f] EXCEPT !.status = to]
      /\ \A g \in Entities \ {f} : fund'[g] = fund[g]
  BY DEF WritesStatus
<1>3. history[f] \in Seq(Entry) /\ history'[f] = Append(history[f], e)
      /\ \A g \in Entities \ {f} : history'[g] = history[g]
  BY DEF WritesStatus, LogMove
<1>4. fund'[f].status = to /\ fund'[f] # NoFund
  <2>1. fund[f] \in FundRow
    BY FundRows
  <2>2. fund'[f].status = to
    BY <1>2, <2>1 DEF FundRow
  <2> QED BY <2>2 DEF NoFund, FundStatus
<1> HIDE DEF e
<1>5. Reached(f)' = Reached(f) \cup {to}
  <2>1. Recorded(history'[f]) = Recorded(history[f]) \cup {to}
    BY <1>1, <1>3, RecordedGrows
  <2> QED BY <1>4, <2>1 DEF Reached
<1>6. \A g \in Entities \ {f} : Reached(g)' = Reached(g)
  BY <1>2, <1>3 DEF Reached
<1>7. Stages' = [Stages EXCEPT ![f] = to]
  BY <1>2, <1>4 DEF Stages
<1>8. StagesReached' = [StagesReached EXCEPT ![f] = @ \cup {to}]
  BY <1>5, <1>6 DEF StagesReached
<1>9. to \in DOMAIN Lifecycle!Before
  BY DEF FundStatus, Lifecycle!Before
<1>10. Lifecycle!Reach(f, to)
  <2>1. StagesReached[f] = Reached(f)
    BY DEF StagesReached
  <2> QED BY <1>7, <1>8, <2>1 DEF Lifecycle!Reach
<1>11. Lifecycle!LifecycleNext
  BY <1>9, <1>10 DEF Lifecycle!LifecycleNext
<1>12. \A g \in Entities : Reached(g) \subseteq Reached(g)'
  BY <1>5, <1>6
<1>13. ASSUME NEW g \in Entities
       PROVE  IF fund'[g] = NoFund THEN history'[g] = <<>>
              ELSE fund'[g].status \in Reached(g)'
  <2>1. CASE g = f
    BY <1>4, <1>5, <2>1
  <2>2. CASE g # f
    BY <1>2, <1>3, <1>6, <2>2 DEF KnowsReached
  <2> QED BY <2>1, <2>2
<1> QED BY <1>11, <1>12, <1>13 DEF LifecycleStep

LEMMA GraphStep ==
  ASSUME CInv, GraphKind
  PROVE  LifecycleStep
<1> USE DEF CInv, BInv, FundTypeOK
\* The row is there or not as before, with its status.
<1>1. ASSUME UNCHANGED history,
             \A g \in Entities : /\ fund'[g].status = fund[g].status
                                 /\ fund'[g] = NoFund <=> fund[g] = NoFund
      PROVE  LifecycleStep
  <2>1. \A g \in Entities : Reached(g)' = Reached(g)
    BY <1>1 DEF Reached
  <2>2. UNCHANGED <<Stages, StagesReached>>
    BY <1>1, <2>1 DEF Stages, StagesReached
  <2>3. \A g \in Entities :
          IF fund'[g] = NoFund THEN history'[g] = <<>>
          ELSE fund'[g].status \in Reached(g)'
    BY <1>1, <2>1 DEF KnowsReached
  <2> QED BY <2>1, <2>2, <2>3 DEF LifecycleStep
<1>2. CASE UNCHANGED <<fund, history>>
  BY <1>1, <1>2
<1>3. ASSUME NEW f \in Entities, NEW b \in BOOLEAN, fund[f] # NoFund,
             fund' = [fund EXCEPT ![f].active = b], UNCHANGED history
      PROVE  LifecycleStep
  <2>1. fund[f] \in FundRow /\ fund'[f] = [fund[f] EXCEPT !.active = b]
    BY <1>3, FundRows
  <2>2. fund'[f].status = fund[f].status /\ fund[f].status \in FundStatus
    BY <2>1 DEF FundRow
  <2>3. fund'[f] # NoFund
    BY <2>2 DEF NoFund, FundStatus
  <2> QED BY <1>1, <1>3, <2>2, <2>3
<1>4. ASSUME NEW f \in Entities, NEW u \in Users, fund[f] = NoFund,
             fund' = [fund EXCEPT ![f] = [status |-> "pending", active |-> TRUE,
                                          creator |-> u]],
             UNCHANGED history
      PROVE  LifecycleStep
  <2>1. fund'[f].status = "pending" /\ \A g \in Entities \ {f} : fund'[g] = fund[g]
    BY <1>4
  <2>2. fund'[f] # NoFund
    BY <2>1 DEF NoFund
  <2>3. history'[f] = <<>>
    BY <1>4 DEF KnowsReached
  <2>4. Reached(f)' = {"pending"} /\ Reached(f) = {}
    <3>1. Recorded(<<>>) = {}
      BY DEF Recorded
    <3> QED BY <1>4, <2>2, <2>3, <3>1 DEF Reached
  <2>5. \A g \in Entities \ {f} : Reached(g)' = Reached(g)
    BY <1>4, <2>1 DEF Reached
  <2>6. Stages[f] = "absent"
    BY <1>4 DEF Stages, NoFund
  <2>7. Stages' = [Stages EXCEPT ![f] = "pending"]
    BY <2>1 DEF Stages
  <2>8. StagesReached' = [StagesReached EXCEPT ![f] = {"pending"}]
    BY <2>4, <2>5 DEF StagesReached
  <2>9. Lifecycle!LifecycleNext
    BY <2>6, <2>7, <2>8 DEF Lifecycle!LifecycleNext, Lifecycle!File
  <2>10. \A g \in Entities : Reached(g) \subseteq Reached(g)'
    BY <2>4, <2>5
  <2>11. \A g \in Entities :
           IF fund'[g] = NoFund THEN history'[g] = <<>>
           ELSE fund'[g].status \in Reached(g)'
    BY <1>4, <2>1, <2>2, <2>4, <2>5 DEF KnowsReached
  <2> QED BY <2>9, <2>10, <2>11 DEF LifecycleStep
<1> QED BY <1>2, <1>3, <1>4, GraphReach DEF GraphKind

\* What a request knows of a fund it has known before, or sees now.
LEMMA ExpireKnows ==
  ASSUME FundTypeOK, NEW c \in Clients, Expire(c)
  PROVE  /\ freq[c].op # "resolve" => freq'[c] = freq[c]
         /\ freq[c].op = "resolve" =>
              /\ freq'[c].op = "resolve"
              /\ freq'[c].fund = freq[c].fund
              /\ freq'[c].status = freq[c].status
<1> DEFINE r == IF freq[c].op = "resolve" THEN [freq[c] EXCEPT !.loaded = FALSE]
                ELSE freq[c]
<1>1. freq' = [freq EXCEPT ![c] = r]
  BY DEF Expire
<1>2. freq'[c] = r
  BY <1>1 DEF FundTypeOK
<1>3. CASE freq[c].op = "resolve"
  <2>1. freq[c] \in Resolving(DOMAIN freq[c].todo)
    BY <1>3, FundFields, TypedFields
  <2> QED BY <1>2, <1>3, <2>1 DEF Resolving
<1> QED BY <1>2, <1>3

LEMMA RequestKnows ==
  ASSUME CInv, [FundNext]_fvars, NEW c \in Clients, freq'[c].op \in {"move", "resolve"}
  PROVE  \/ freq'[c] = freq[c]
         \/ /\ freq[c].op = "resolve" /\ freq'[c].op = "resolve"
            /\ freq'[c].fund = freq[c].fund
            /\ freq'[c].status = freq[c].status
         \/ /\ freq'[c].fund \in Entities /\ fund[freq'[c].fund] # NoFund
            /\ freq'[c].op = "move" => freq'[c].from = fund[freq'[c].fund].status
            /\ freq'[c].op = "resolve" => freq'[c].status = fund[freq'[c].fund].status
<1> DEFINE Goal ==
         \/ freq'[c] = freq[c]
         \/ /\ freq[c].op = "resolve" /\ freq'[c].op = "resolve"
            /\ freq'[c].fund = freq[c].fund
            /\ freq'[c].status = freq[c].status
         \/ /\ freq'[c].fund \in Entities /\ fund[freq'[c].fund] # NoFund
            /\ freq'[c].op = "move" => freq'[c].from = fund[freq'[c].fund].status
            /\ freq'[c].op = "resolve" => freq'[c].status = fund[freq'[c].fund].status
<1> USE DEF CInv, BInv, IInv
<1>1. CASE freq'[c] = Idle
  BY <1>1 DEF Idle
<1>2. CASE TaskRequests(c) \/ TaskSteps(c)
  BY <1>2 DEF TaskRequests, TaskSteps
<1>3. CASE Decide(c)
  <2>1. Expire(c)
    BY <1>3
    DEF Decide, FundApproveNext, FundApproveLast, FundReject, FundResubmit, FundRetry,
        Apply
  <2> QED BY <2>1, ExpireKnows
<1>4. CASE FundRequests(c)
  <2>1. ASSUME NEW f \in Entities, NEW u \in Users, NEW to \in DOMAIN Allowed,
               MoveRead(c, f, u, to)
        PROVE  Goal
    <3>1. /\ freq'[c].op = "move" /\ freq'[c].fund = f
          /\ freq'[c].from = fund[f].status
          /\ fund[f] # NoFund
      BY <2>1 DEF MoveRead, FundTypeOK, Visible, NoFund
    <3> QED BY <3>1
  <2>2. freq'[c].op \in {"submit", "delete"}
          \/ \E f \in Entities, u \in Users, to \in DOMAIN Allowed : MoveRead(c, f, u, to)
    BY <1>4 DEF FundRequests, CreateFund, UpdateFund, DeleteRead, FundTypeOK
  <2> QED BY <2>1, <2>2
<1>5. CASE FundSteps(c)
  <2>1. CASE SubmitFund(c) \/ DeleteFund(c) \/ ResolveEnd(c)
    BY <1>1, <2>1 DEF SubmitFund, DeleteFund, ResolveEnd, FundTypeOK
  <2>2. CASE Move(c)
    <3>1. freq'[c] = NextAfterMove(freq[c])
      BY <2>2 DEF Move, FundTypeOK
    <3> QED BY <3>1 DEF NextAfterMove, Idle
  <2>3. CASE ResolveQuery(c)
    <3>1. freq[c].fund \in Entities /\ fund[freq[c].fund] # NoFund
      BY <2>3, FundFields DEF ResolveQuery, FundsExist
    <3>2. \/ freq'[c] = Idle
          \/ /\ freq'[c].op = "resolve" /\ freq'[c].fund = freq[c].fund
             /\ freq'[c].status = fund[freq[c].fund].status
      BY <2>3, QueryEffect
    <3> QED BY <1>1, <3>1, <3>2
  <2>4. CASE ResolveNext(c)
    <3>1. freq[c].op = "resolve"
      BY <2>4 DEF ResolveNext
    <3> QED BY <2>4, <3>1, NextEffect
  <2> QED BY <1>5, <2>1, <2>2, <2>3, <2>4 DEF FundSteps
<1> QED BY <1>1, <1>2, <1>3, <1>4, <1>5, WhoseStep

\* The invariant is inductive, and its steps are those of the lifecycle.
LEMMA CInvStep ==
  ASSUME CInv, [FundNext]_fvars
  PROVE  CInv' /\ LifecycleStep
<1>1. BInv' /\ FInv' /\ Settling'
  BY BInvStep, FInvStep, SettlingStep DEF CInv
<1>2. LifecycleStep
  BY FundGraphKind, GraphStep
<1>3. ASSUME NEW c \in Clients
      PROVE  /\ (freq[c].op = "move" => freq[c].from \in Reached(freq[c].fund))'
             /\ (freq[c].op = "resolve" => freq[c].status \in Reached(freq[c].fund))'
  <2>1. CASE freq'[c].op \in {"move", "resolve"}
    <3>1. freq[c].op \in {"move", "resolve"} => freq[c].fund \in Entities
      BY FundFields DEF CInv, BInv
    <3>2. \E f \in Entities :
            /\ freq'[c].fund = f
            /\ freq'[c].op = "move" => freq'[c].from \in Reached(f)
            /\ freq'[c].op = "resolve" => freq'[c].status \in Reached(f)
      BY <2>1, <3>1, RequestKnows DEF CInv, KnowsReached
    <3> QED BY <1>2, <3>2 DEF LifecycleStep, Reached
  <2> QED BY <2>1
<1>4. KnowsReached'
  BY <1>2, <1>3 DEF KnowsReached, LifecycleStep
<1> QED BY <1>1, <1>2, <1>4 DEF CInv

(* However requests interleave, fail and crash, no fund skips a stage of    *)
(* its lifecycle: of two transitions checked on the same status the later   *)
(* may set a fund back, but from where it has been (_transition_status,     *)
(* _apply_fund_approval_result).                                            *)
THEOREM FundsFollowLifecycle == FundSpec => SkipsNoStage
<1>1. FundInit => CInv /\ Lifecycle!LifecycleInit
  <2> SUFFICES ASSUME FundInit PROVE CInv /\ Lifecycle!LifecycleInit
    OBVIOUS
  <2>1. Settling /\ KnowsReached
    BY DEF FundInit, Settling, InPlace, KnowsReached, Idle
  <2>2. Lifecycle!LifecycleInit
    <3>1. \A f \in Entities : fund[f] = NoFund
      BY DEF FundInit
    <3>2. Stages = [f \in Entities |-> "absent"]
      BY <3>1 DEF Stages, NoFund
    <3>3. StagesReached = [f \in Entities |-> {}]
      BY <3>1 DEF StagesReached, Reached
    <3> QED BY <3>2, <3>3 DEF Lifecycle!LifecycleInit
  <2> QED BY <2>1, <2>2, BInvInit, FInvInit DEF CInv
<1>2. CInv /\ [FundNext]_fvars =>
        CInv' /\ [Lifecycle!LifecycleNext]_(Lifecycle!cvars)
  BY CInvStep DEF LifecycleStep, Lifecycle!cvars
<1> QED BY <1>1, <1>2, PTL DEF FundSpec, SkipsNoStage, Lifecycle!LifecycleSpec


(***************************************************************************)
(* Requests that do not overlap.  The workflow service does for the funds  *)
(* what it does on its own: the row a request read is still in the table   *)
(* when it writes, and a resubmission starts over (SInv).                  *)
(***************************************************************************)
LEMMA FundFreshStep ==
  ASSUME Serial, BInv, SInv, [FundNext]_fvars
  PROVE  Fresh'
<1> USE DEF BInv, IInv, SInv
<1>1. CASE UNCHANGED <<task, req>>
  BY <1>1 DEF Fresh
<1>2. CASE FundCrash
  BY <1>2, IdleUpToDate DEF FundCrash, Fresh
<1>3. ASSUME NEW c \in Clients, TaskRequests(c) \/ TaskSteps(c) \/ Decide(c)
      PROVE  Fresh'
  <2>1. Serves(c)
    BY <1>3, TaskRequestsServe, TaskStepsServe, DecideWrites DEF Serves
  <2> QED BY <2>1, SubmitFresh, ReadFresh, WriteFresh DEF Serves
<1>4. ASSUME NEW c \in Clients, NEW v, NEW t, NEW u, Settle(c, v, t, u)
      PROVE  Fresh'
  <2>1. CASE v = "approved"
    BY <1>4, <2>1, ReadTaskFresh DEF Settle, AutoRead
  <2>2. CASE v # "approved"
    BY <1>4, <2>2, ReadTaskFresh DEF Settle, RejectRead
  <2> QED BY <2>1, <2>2
<1>5. ASSUME NEW c \in Clients, FundSteps(c)
      PROVE  Fresh'
  <2>1. CASE SubmitFund(c)
    BY <2>1, FundQueryType, SubmitReadsFresh
  <2>2. CASE ~SubmitFund(c)
    BY <1>1, <1>4, <1>5, <2>2
    DEF FundSteps, DeleteFund, Move, ResolveQuery, ResolveNext, ResolveEnd
  <2> QED BY <2>1, <2>2
<1>6. CASE \/ Configure /\ UNCHANGED <<fund, history, freq>>
           \/ \E f \in Entities : RestoreFund(f)
           \/ \E c \in Clients : FundRequests(c)
           \/ UNCHANGED fvars
  BY <1>1, <1>6
  DEF Configure, CreateWorkflow, UpdateWorkflow, DeleteWorkflow, RestoreFund,
      FundRequests, CreateFund, UpdateFund, DeleteRead, MoveRead, fvars
<1> QED BY <1>2, <1>3, <1>5, <1>6 DEF FundNext

LEMMA FundSerialKind ==
  ASSUME BInv, SInv, [FundNext]_fvars
  PROVE  SerialKind
<1> USE DEF BInv, IInv, SInv
<1>1. CASE UNCHANGED <<task, record>>
  BY <1>1 DEF SerialKind
<1>2. ASSUME NEW c \in Clients, TaskRequests(c)
      PROVE  SerialKind
  <2>1. Submit(c) \/ UNCHANGED <<task, record>>
    BY <1>2
    DEF TaskRequests, Submit, Read, ApproveRead, AutoRead, RejectRead, WithdrawRead,
        ResubmitRead, TransferRead, RetryRead, ReadTask
  <2> QED BY <2>1, SubmitEffect DEF SerialKind
<1>3. ASSUME NEW c \in Clients, TaskSteps(c) \/ Decide(c)
      PROVE  SerialKind
  <2>1. Submit(c) \/ Write(c)
    BY <1>3, TaskStepsServe, DecideWrites
  <2> QED BY <2>1, SubmitEffect, WriteCorrects DEF SerialKind
<1>4. ASSUME NEW c \in Clients, FundSteps(c)
      PROVE  UNCHANGED <<task, record>>
  BY <1>4, ResolveEffect
  DEF FundSteps, SubmitFund, SubmitReads, DeleteFund, Move, ResolveEnd
<1>5. CASE \/ Configure /\ UNCHANGED <<fund, history, freq>>
           \/ \E f \in Entities : RestoreFund(f)
           \/ \E c \in Clients : FundRequests(c)
           \/ FundCrash \/ UNCHANGED fvars
  BY <1>1, <1>5
  DEF Configure, CreateWorkflow, UpdateWorkflow, DeleteWorkflow, RestoreFund,
      FundRequests, CreateFund, UpdateFund, DeleteRead, MoveRead, FundCrash, fvars
<1> QED BY <1>1, <1>2, <1>3, <1>4, <1>5 DEF FundNext

LEMMA FundSInvStep ==
  ASSUME Serial, BInv, SInv, [FundNext]_fvars
  PROVE  SInv'
<1>1. IInv'
  BY BInvStep DEF BInv
<1> QED BY <1>1, FundFreshStep, FundSerialKind, RoundStep DEF SInv

(* When requests do not overlap, a task of a fund that is approved, by its  *)
(* approvers or by a direct decision, has an approval of every level since  *)
(* its last resubmission.                                                   *)
THEOREM FundRoundsStartOver ==
  ASSUME Serial
  PROVE  FundSpec => []ApprovedInThisRound
<1>1. SInv => ApprovedInThisRound
  BY DEF SInv, RoundClimbed, ClimbedNow, ApprovedInThisRound
<1>2. FundInit => SInv
  BY InitSInv DEF FundInit
<1>3. BInv /\ SInv /\ [FundNext]_fvars => SInv'
  BY FundSInvStep
<1> QED BY <1>1, <1>2, <1>3, BInvInit, BInvStep, PTL DEF FundSpec

(***************************************************************************)
(* So is the status of a fund that a transition or a session has read      *)
(* (FreshFunds).  A fund then moves from the status it has, and once it    *)
(* left the approval stage it never comes back.                            *)
(***************************************************************************)
ApprovalStage == {"pending", "rejected"}

FreshFunds ==
  \A c \in Clients :
    /\ freq[c].op = "move" => freq[c].from = fund[freq[c].fund].status
    /\ freq[c].op = "resolve" /\ freq[c].loaded =>
         freq[c].status = fund[freq[c].fund].status

FSInv == BInv /\ FInv /\ SInv /\ Settling /\ FreshFunds

\* What a session knows of the fund of its task is the status of the fund.
LEMMA KnownFresh ==
  ASSUME FSInv, NEW c \in Clients, HasTask(c)
  PROVE  KnownStatus(c, task[req[c].id].entity) = fund[task[req[c].id].entity].status
<1>1. CASE freq[c].op # "resolve"
  BY <1>1 DEF KnownStatus
<1>2. CASE freq[c].op = "resolve"
  <2>1. req[c].op \in SettleOps
    BY <1>2 DEF FSInv, Settling, InPlace, HasTask, TaskOps, Idle
  <2>2. task[req[c].id].entity = freq[c].fund
    BY <1>2, <2>1 DEF FSInv, Settling, InPlace
  <2> QED BY <1>2, <2>2 DEF FSInv, FreshFunds, KnownStatus
<1> QED BY <1>1, <1>2

\* A fund moves on from the status it has, or a step does not touch statuses.
Moves(f, to) ==
  /\ fund[f] # NoFund
  /\ WritesStatus(f, fund[f].status, to)
  /\ to \in ApprovalStage => fund[f].status \in ApprovalStage

SerialFundKind ==
  \/ UNCHANGED <<fund, history>>
  \/ \E f \in Entities, to \in FundStatus : Moves(f, to)
  \/ \E f \in Entities, b \in BOOLEAN :
       /\ fund[f] # NoFund
       /\ fund' = [fund EXCEPT ![f].active = b] /\ UNCHANGED history
  \/ \E f \in Entities, u \in Users :
       /\ fund[f] = NoFund
       /\ fund' = [fund EXCEPT ![f] = [status |-> "pending", active |-> TRUE,
                                       creator |-> u]]
       /\ UNCHANGED history

\* What the write-back of a decision does to the fund of the task.
LEMMA ApplySerial ==
  ASSUME FSInv, NEW c \in Clients, HasTask(c), NEW s, NEW ok \in BOOLEAN, Apply(c, s, ok)
  PROVE  /\ SerialFundKind
         /\ ok => fund'[task[req[c].id].entity].status
                    = Target(s, fund[task[req[c].id].entity].status)
<1> USE DEF FSInv, BInv, IInv
<1> DEFINE f == task[req[c].id].entity
           from == fund[f].status
           to == Target(s, from)
<1>1. f \in Entities /\ fund[f] # NoFund
  BY SeenTask, TaskRows DEF SeenRows, FundsExist, TaskRow
<1>2. from \in FundStatus
  BY <1>1, FundRows DEF FundRow
<1>3. KnownStatus(c, f) = from
  BY KnownFresh
<1>4. \/ ok /\ to = from /\ UNCHANGED <<fund, history>>
      \/ ok /\ to # from /\ WritesStatus(f, from, to)
      \/ ~ok /\ UNCHANGED <<fund, history>>
  BY <1>3 DEF Apply, FundHandler, WritesStatus
<1> HIDE DEF f, from
<1>5. to # from => from \in ApprovalStage
  BY TargetInStage DEF ApprovalStage
<1>6. to \in FundStatus
  BY <1>2, TargetInStage DEF FundStatus
<1> HIDE DEF to
<1>7. SerialFundKind
  BY <1>1, <1>4, <1>5, <1>6 DEF SerialFundKind, Moves, from
<1>8. ASSUME WritesStatus(f, from, to)
      PROVE  fund'[f].status = to
  BY <1>1, <1>8, FundRows DEF WritesStatus, FundTypeOK, FundRow
<1>9. ok => fund'[f].status = to
  BY <1>4, <1>8 DEF from
<1> QED BY <1>7, <1>9 DEF f, from, to

\* A transition writes the status it checked.
LEMMA MoveSerial ==
  ASSUME FSInv, NEW c \in Clients, Move(c)
  PROVE  SerialFundKind
<1> USE DEF FSInv, BInv
<1> DEFINE m == freq[c]
<1>1. m.fund \in Entities /\ fund[m.fund] # NoFund
  BY FundFields DEF Move, FundsExist
<1>2. /\ m.to \in DOMAIN Allowed /\ m.from \in Allowed[m.to]
      /\ m.from = fund[m.fund].status
  BY DEF Move, FInv, EarnedMoves, FreshFunds
<1>3. m.to \in FundStatus /\ (m.to \in ApprovalStage => m.from \in ApprovalStage)
  BY <1>2 DEF Allowed, FundStatus, ApprovalStage
<1>4. WritesStatus(m.fund, m.from, m.to)
  BY DEF Move, WritesStatus
<1> HIDE DEF m
<1> QED BY <1>1, <1>2, <1>3, <1>4 DEF SerialFundKind, Moves

LEMMA FundSerialFundKind ==
  ASSUME FSInv, [FundNext]_fvars
  PROVE  SerialFundKind
<1> USE DEF FSInv, BInv
<1>1. CASE UNCHANGED <<fund, history>>
  BY <1>1 DEF SerialFundKind
<1>2. ASSUME NEW f \in Entities, RestoreFund(f) PROVE SerialFundKind
  BY <1>2 DEF RestoreFund, SerialFundKind
<1>3. ASSUME NEW c \in Clients, Decide(c) PROVE SerialFundKind
  <2>1. HasTask(c)
    BY <1>3, DecideWrites
  <2> QED BY <1>1, <1>3, <2>1, ApplySerial
       DEF Decide, FundApproveNext, FundApproveLast, FundReject, FundResubmit, FundRetry
<1>4. ASSUME NEW c \in Clients, FundRequests(c) PROVE SerialFundKind
  BY <1>4 DEF FundRequests, CreateFund, UpdateFund, DeleteRead, MoveRead, SerialFundKind
<1>5. ASSUME NEW c \in Clients, DeleteFund(c) PROVE SerialFundKind
  <2>1. freq[c].fund \in Entities /\ fund[freq[c].fund] # NoFund
    BY <1>5, FundFields DEF DeleteFund, FundsExist
  <2> QED BY <1>5, <2>1 DEF DeleteFund, SerialFundKind
<1>6. ASSUME NEW c \in Clients, FundSteps(c) PROVE SerialFundKind
  BY <1>1, <1>5, <1>6, MoveSerial
  DEF FundSteps, SubmitFund, ResolveQuery, ResolveNext, ResolveEnd
<1> QED BY <1>1, <1>2, <1>3, <1>4, <1>6
     DEF FundNext, FundCrash, TaskRequests, TaskSteps, fvars

\* What becomes of the status and the history of one fund.
LEMMA SerialFundStep ==
  ASSUME FSInv, SerialFundKind, NEW f \in Entities
  PROVE  \/ fund'[f].status = fund[f].status /\ history'[f] = history[f]
            /\ (fund'[f] = NoFund <=> fund[f] = NoFund)
         \/ \E to \in FundStatus :
              /\ fund[f] # NoFund /\ fund'[f].status = to
              /\ history'[f] = Append(history[f], [from |-> fund[f].status, to |-> to])
              /\ to \in ApprovalStage => fund[f].status \in ApprovalStage
         \/ fund[f] = NoFund /\ fund'[f].status = "pending" /\ history'[f] = history[f]
<1> USE DEF FSInv, BInv, FundTypeOK
<1> DEFINE Goal ==
         \/ fund'[f].status = fund[f].status /\ history'[f] = history[f]
            /\ (fund'[f] = NoFund <=> fund[f] = NoFund)
         \/ \E to \in FundStatus :
              /\ fund[f] # NoFund /\ fund'[f].status = to
              /\ history'[f] = Append(history[f], [from |-> fund[f].status, to |-> to])
              /\ to \in ApprovalStage => fund[f].status \in ApprovalStage
         \/ fund[f] = NoFund /\ fund'[f].status = "pending" /\ history'[f] = history[f]
<1>1. ASSUME NEW g \in Entities, NEW to \in FundStatus, Moves(g, to)
      PROVE  Goal
  <2>1. CASE g # f
    BY <1>1, <2>1 DEF Moves, WritesStatus, LogMove
  <2>2. CASE g = f
    <3>1. fund[f] \in FundRow /\ fund'[f] = [fund[f] EXCEPT !.status = to]
      BY <1>1, <2>2, FundRows DEF Moves, WritesStatus
    <3>2. fund'[f].status = to
      BY <3>1 DEF FundRow
    <3>3. history'[f] = Append(history[f], [from |-> fund[f].status, to |-> to])
      BY <1>1, <2>2 DEF Moves, WritesStatus, LogMove
    <3> QED BY <1>1, <2>2, <3>2, <3>3 DEF Moves
  <2> QED BY <2>1, <2>2
<1>2. ASSUME NEW g \in Entities, NEW b \in BOOLEAN, fund[g] # NoFund,
             fund' = [fund EXCEPT ![g].active = b], UNCHANGED history
      PROVE  Goal
  <2>1. CASE g # f
    BY <1>2, <2>1
  <2>2. CASE g = f
    <3>1. fund[f] \in FundRow /\ fund'[f] = [fund[f] EXCEPT !.active = b]
      BY <1>2, <2>2, FundRows
    <3>2. fund'[f].status = fund[f].status /\ fund[f].status \in FundStatus
      BY <3>1 DEF FundRow
    <3>3. fund'[f] # NoFund
      BY <3>2 DEF NoFund, FundStatus
    <3> QED BY <1>2, <2>2, <3>2, <3>3
  <2> QED BY <2>1, <2>2
<1>3. ASSUME NEW g \in Entities, NEW u \in Users, fund[g] = NoFund,
             fund' = [fund EXCEPT ![g] = [status |-> "pending", active |-> TRUE,
                                          creator |-> u]],
             UNCHANGED history
      PROVE  Goal
  BY <1>3
<1> QED BY <1>1, <1>2, <1>3 DEF SerialFundKind

LEMMA FreshFundsStep ==
  ASSUME Serial, FSInv, [FundNext]_fvars
  PROVE  FreshFunds'
<1> USE DEF FSInv, BInv
<1>1. ASSUME UNCHANGED freq, \A f \in Entities : fund'[f].status = fund[f].status
      PROVE  FreshFunds'
  BY <1>1, FundFields DEF FreshFunds
<1>2. ASSUME NEW f \in Entities, RestoreFund(f) PROVE FreshFunds'
  <2>1. fund[f] \in FundRow /\ fund' = [fund EXCEPT ![f].active = TRUE]
    BY <1>2, FundRows DEF RestoreFund
  <2>2. \A g \in Entities : fund'[g].status = fund[g].status
    BY <2>1 DEF FundTypeOK, FundRow
  <2> QED BY <1>1, <1>2, <2>2 DEF RestoreFund
<1>3. ASSUME NEW c \in Clients, freq'[c].op \notin {"move", "resolve"}
      PROVE  FreshFunds'
  BY <1>3 DEF Serial, FreshFunds
<1>4. CASE FundCrash
  BY <1>4 DEF FundCrash, FreshFunds, Idle
<1>5. ASSUME NEW c \in Clients, Decide(c) PROVE FreshFunds'
  <2>1. Expire(c)
    BY <1>5
    DEF Decide, FundApproveNext, FundApproveLast, FundReject, FundResubmit, FundRetry,
        Apply
  <2>2. freq[c].op # "move"
    BY <1>5, ServedBusy DEF Settling, InPlace
  <2>3. CASE freq[c].op = "resolve"
    <3>1. freq'[c].op = "resolve" /\ freq'[c].loaded = FALSE
      BY <2>1, <2>3, ExpireFields
    <3> QED BY <3>1 DEF Serial, FreshFunds
  <2>4. CASE freq[c].op # "resolve"
    BY <1>3, <2>1, <2>2, <2>4, ExpireFields
  <2> QED BY <2>3, <2>4
<1>6. ASSUME NEW c \in Clients, FundRequests(c) PROVE FreshFunds'
  <2>1. ASSUME NEW f \in Entities, NEW u \in Users, NEW to \in DOMAIN Allowed,
               MoveRead(c, f, u, to)
        PROVE  FreshFunds'
    <3>1. /\ freq'[c].op = "move" /\ freq'[c].fund = f
          /\ freq'[c].from = fund[f].status
          /\ fund' = fund
      BY <2>1 DEF MoveRead, FundTypeOK
    <3> QED BY <3>1 DEF Serial, FreshFunds
  <2>2. CASE freq'[c].op \in {"submit", "delete"}
    BY <1>3, <2>2
  <2> QED BY <1>6, <2>1, <2>2
       DEF FundRequests, CreateFund, UpdateFund, DeleteRead, FundTypeOK
<1>7. ASSUME NEW c \in Clients, FundSteps(c) PROVE FreshFunds'
  <2>1. CASE SubmitFund(c) \/ DeleteFund(c) \/ ResolveEnd(c)
    <3>1. freq'[c] = Idle
      BY <2>1 DEF SubmitFund, DeleteFund, ResolveEnd, FundTypeOK
    <3> QED BY <1>3, <3>1 DEF Idle
  <2>2. CASE Move(c)
    <3>1. freq'[c] = NextAfterMove(freq[c])
      BY <2>2 DEF Move, FundTypeOK
    <3> QED BY <1>3, <3>1 DEF NextAfterMove, Idle
  <2>3. CASE ResolveQuery(c)
    <3>1. \/ freq'[c] = Idle
          \/ /\ freq'[c].op = "resolve" /\ freq'[c].fund = freq[c].fund
             /\ freq'[c].status = fund[freq[c].fund].status
      BY <2>3, QueryEffect
    <3>2. fund' = fund
      BY <2>3 DEF ResolveQuery
    <3> QED BY <3>1, <3>2 DEF Serial, FreshFunds, Idle
  <2>4. CASE ResolveNext(c)
    <3>1. /\ freq'[c].op = "resolve" /\ freq'[c].fund = freq[c].fund
          /\ freq'[c].status = freq[c].status /\ freq'[c].loaded = freq[c].loaded
      BY <2>4, NextEffect
    <3>2. fund' = fund /\ freq[c].op = "resolve"
      BY <2>4 DEF ResolveNext
    <3> QED BY <3>1, <3>2 DEF Serial, FreshFunds
  <2> QED BY <1>7, <2>1, <2>2, <2>3, <2>4 DEF FundSteps
<1>8. CASE \/ Configure /\ UNCHANGED <<fund, history, freq>>
           \/ \E c \in Clients : TaskRequests(c) \/ TaskSteps(c)
           \/ UNCHANGED fvars
  BY <1>1, <1>8 DEF TaskRequests, TaskSteps, fvars
<1> QED BY <1>2, <1>4, <1>5, <1>6, <1>7, <1>8 DEF FundNext

LEMMA FSInvInit == FundInit => FSInv
<1> SUFFICES ASSUME FundInit PROVE FSInv
  OBVIOUS
<1>1. SInv
  BY InitSInv DEF FundInit
<1>2. Settling /\ FreshFunds
  BY DEF FundInit, Settling, InPlace, FreshFunds, Idle
<1> QED BY <1>1, <1>2, BInvInit, FInvInit DEF FSInv

LEMMA FSInvStep ==
  ASSUME Serial
  PROVE  FSInv /\ [FundNext]_fvars => FSInv'
<1> SUFFICES ASSUME FSInv, [FundNext]_fvars PROVE FSInv'
  OBVIOUS
<1>1. SInv'
  BY FundSInvStep DEF FSInv
<1>2. Settling'
  BY SettlingStep DEF FSInv
<1> QED BY <1>1, <1>2, BInvStep, FInvStep, FreshFundsStep DEF FSInv

\* A chain with an entry that starts where it ends is a chain.
LEMMA ChainGrows ==
  ASSUME NEW h \in Seq(Entry), NEW e \in Entry,
         \A i \in 1..Len(h) : h[i].from = IF i = 1 THEN "pending" ELSE h[i - 1].to,
         e.from = IF h = <<>> THEN "pending" ELSE h[Len(h)].to
  PROVE  LET g == Append(h, e) IN
         /\ \A i \in 1..Len(g) : g[i].from = IF i = 1 THEN "pending" ELSE g[i - 1].to
         /\ g # <<>> /\ g[Len(g)].to = e.to
<1> DEFINE g == Append(h, e)
<1>1. /\ g # <<>> /\ Len(h) \in Nat /\ Len(g) = Len(h) + 1
      /\ g[Len(h) + 1] = e
      /\ \A i \in 1..Len(h) : g[i] = h[i]
  BY AppendEntry
<1>2. h = <<>> <=> Len(h) = 0
  OBVIOUS
<1> HIDE DEF g
<1>3. ASSUME NEW i \in 1..Len(g)
      PROVE  g[i].from = IF i = 1 THEN "pending" ELSE g[i - 1].to
  <2>1. CASE i \in 1..Len(h)
    <3>1. i = 1 \/ i - 1 \in 1..Len(h)
      BY <1>1, <2>1
    <3> QED BY <1>1, <2>1, <3>1
  <2>2. CASE i = Len(h) + 1
    <3>1. i = 1 <=> Len(h) = 0
      BY <1>1, <2>2
    <3>2. i # 1 => i - 1 = Len(h) /\ Len(h) \in 1..Len(h)
      BY <1>1, <2>2
    <3> QED BY <1>1, <1>2, <2>2, <3>1, <3>2
  <2> QED BY <1>1, <1>3, <2>1, <2>2
<1> QED BY <1>1, <1>3 DEF g

LEMMA ChainStep ==
  ASSUME FSInv, SerialFundKind, HistoryIsChain
  PROVE  HistoryIsChain'
<1> USE DEF FSInv, BInv
<1> SUFFICES ASSUME NEW f \in Entities
             PROVE  LET h == history'[f] IN
                    /\ \A i \in 1..Len(h) :
                         h[i].from = IF i = 1 THEN "pending" ELSE h[i - 1].to
                    /\ fund'[f] # NoFund =>
                         fund'[f].status = IF h = <<>> THEN "pending" ELSE h[Len(h)].to
  BY DEF HistoryIsChain
<1> DEFINE h == history[f]
<1>1. /\ h \in Seq(Entry)
      /\ \A i \in 1..Len(h) : h[i].from = IF i = 1 THEN "pending" ELSE h[i - 1].to
      /\ fund[f] # NoFund => fund[f].status = IF h = <<>> THEN "pending" ELSE h[Len(h)].to
  BY DEF HistoryIsChain, FundTypeOK
<1>2. ASSUME fund[f] = NoFund PROVE h = <<>>
  <2>1. h # <<>> => h[Len(h)].to = "absent"
    BY <1>2 DEF FInv, LastEntryIsStatus, NoFund
  <2>2. h # <<>> => h[Len(h)] \in Entry
    BY <1>1
  <2> QED BY <2>1, <2>2 DEF Entry, FundStatus
<1>3. ASSUME NEW to \in FundStatus, fund[f] # NoFund, fund'[f].status = to,
             history'[f] = Append(h, [from |-> fund[f].status, to |-> to])
      PROVE  LET g == history'[f] IN
             /\ \A i \in 1..Len(g) : g[i].from = IF i = 1 THEN "pending" ELSE g[i - 1].to
             /\ fund'[f].status = IF g = <<>> THEN "pending" ELSE g[Len(g)].to
  <2> DEFINE e == [from |-> fund[f].status, to |-> to]
  <2>1. e \in Entry
    BY <1>3, FundRows DEF Entry, FundRow
  <2>2. e.from = IF h = <<>> THEN "pending" ELSE h[Len(h)].to
    BY <1>1, <1>3
  <2>3. e.to = fund'[f].status /\ history'[f] = Append(h, e)
    BY <1>3
  <2> HIDE DEF e, h
  <2> QED BY <1>1, <2>1, <2>2, <2>3, ChainGrows
<1> HIDE DEF h
<1>4. \/ /\ fund'[f].status = fund[f].status /\ history'[f] = h
         /\ fund'[f] = NoFund <=> fund[f] = NoFund
      \/ \E to \in FundStatus :
           /\ fund[f] # NoFund /\ fund'[f].status = to
           /\ history'[f] = Append(h, [from |-> fund[f].status, to |-> to])
      \/ fund[f] = NoFund /\ fund'[f].status = "pending" /\ history'[f] = h
  BY SerialFundStep DEF h
<1> QED BY <1>1, <1>2, <1>3, <1>4

(* When requests do not overlap, the status history of a fund is a chain    *)
(* from "pending" to the status it has now, whoever writes the status: a    *)
(* transition (_transition_status), a decision on a task, or the settling   *)
(* of the tasks after a direct decision, whose session reads the fund anew  *)
(* after each of its commits (_apply_fund_approval_result).                 *)
THEOREM HistoriesAreChains ==
  ASSUME Serial
  PROVE  FundSpec => []HistoryIsChain
<1>1. FundInit => HistoryIsChain
  BY DEF FundInit, HistoryIsChain
<1>2. FSInv /\ HistoryIsChain /\ [FundNext]_fvars => HistoryIsChain'
  BY FundSerialFundKind, ChainStep
<1> QED BY <1>1, <1>2, FSInvInit, FSInvStep, PTL DEF FundSpec

(***************************************************************************)
(* The verdict on a task takes effect on its fund.                         *)
(***************************************************************************)
\* The steps that change the status of a task.
StatusChange(c, t) ==
  \/ \E ok \in BOOLEAN :
       \/ FundApproveLast(c, ok) /\ task'[t].status = Outcome("approved", ok)
       \/ FundReject(c, ok) /\ task'[t].status = Outcome("rejected", ok)
       \/ FundResubmit(c, ok) /\ task'[t].status = Outcome("pending", ok)
  \/ Withdraw(c) /\ task'[t].status = "withdrawn"
  \/ RetryWrite(c) /\ task'[t].status = Restored[req[c].seen.status]

LEMMA StatusChanges ==
  ASSUME BInv, [FundNext]_fvars, NEW t \in TaskIds, Exists(t),
         task'[t].status # task[t].status
  PROVE  \E c \in Clients : req[c].id = t /\ HasTask(c) /\ StatusChange(c, t)
<1> USE DEF BInv, IInv
<1>0. ~UNCHANGED task
  OBVIOUS
<1>1. ASSUME NEW c \in Clients, TaskRequests(c) PROVE FALSE
  <2>1. Submit(c) \/ \E s \in TaskIds, u \in Users : Read(c, s, u)
    BY <1>1 DEF TaskRequests, Submit
  <2> QED BY <2>1, StatusKept
<1>2. ASSUME NEW c \in Clients, TaskSteps(c)
      PROVE  req[c].id = t /\ HasTask(c) /\ StatusChange(c, t)
  <2>1. Withdraw(c) \/ RetryWrite(c)
    BY <1>2, StatusKept DEF TaskSteps, Submit
  <2>2. HasTask(c)
    BY <2>1 DEF Withdraw, RetryWrite, HasTask, TaskOps
  <2> QED BY <2>1, <2>2, StatusWritten DEF StatusChange
<1>3. ASSUME NEW c \in Clients, Decide(c)
      PROVE  req[c].id = t /\ HasTask(c) /\ StatusChange(c, t)
  <2>1. ~FundApproveNext(c) /\ \A ok \in BOOLEAN : ~FundRetry(c, ok)
    BY StatusKept DEF FundApproveNext, FundRetry
  <2>2. PICK ok \in BOOLEAN :
          FundApproveLast(c, ok) \/ FundReject(c, ok) \/ FundResubmit(c, ok)
    BY <1>3, <2>1 DEF Decide
  <2>3. /\ FundApproveLast(c, ok) =>
             req[c].id = t /\ task'[t].status = Outcome("approved", ok)
        /\ FundReject(c, ok) =>
             req[c].id = t /\ task'[t].status = Outcome("rejected", ok)
        /\ FundResubmit(c, ok) =>
             req[c].id = t /\ task'[t].status = Outcome("pending", ok)
    BY StatusWritten DEF FundApproveLast, FundReject, FundResubmit
  <2>4. HasTask(c)
    BY <1>3, DecideWrites
  <2> QED BY <2>2, <2>3, <2>4 DEF StatusChange
<1>4. ASSUME NEW c \in Clients, FundRequests(c) \/ FundSteps(c) PROVE FALSE
  BY <1>0, <1>4, ResolveEffect
  DEF FundRequests, CreateFund, UpdateFund, DeleteRead, MoveRead,
      FundSteps, SubmitFund, SubmitReads, DeleteFund, Move, ResolveEnd
<1>5. ~FundCrash /\ ~Configure /\ ~UNCHANGED fvars /\ \A f \in Entities : ~RestoreFund(f)
  BY <1>0 DEF FundCrash, Configure, CreateWorkflow, UpdateWorkflow, DeleteWorkflow,
              fvars, RestoreFund
<1> QED BY <1>1, <1>2, <1>3, <1>4, <1>5 DEF FundNext

\* A decision whose write-back does not raise reaches the fund of its task.
LEMMA DecisionReaches ==
  ASSUME FSInv, NEW c \in Clients, NEW t, req[c].id = t, HasTask(c),
         NEW ok \in BOOLEAN, NEW s \in {"approved", "rejected", "pending"},
         Apply(c, s, ok), task'[t].status = Outcome(s, ok),
         task'[t].status \in {"approved", "rejected", "pending"}
  PROVE  /\ ok /\ task'[t].status = s
         /\ fund'[task[t].entity].status = Target(s, fund[task[t].entity].status)
<1>1. ok
  BY DEF Outcome, ApplyFailed
<1>2. task'[t].status = s
  BY <1>1 DEF Outcome
<1> QED BY <1>1, <1>2, ApplySerial

LEMMA VerdictStep ==
  ASSUME FSInv, [FundNext]_fvars, NEW t \in TaskIds, Exists(t),
         task[t].status \notin FailedStatus, task'[t].status # task[t].status
  PROVE  LET now == fund'[task[t].entity].status IN
         /\ task'[t].status = "rejected" => now # "pending"
         /\ task'[t].status = "pending" => now # "rejected"
         /\ task'[t].status = "approved" => now \notin {"pending", "rejected"}
<1> USE DEF FSInv
<1>1. PICK c \in Clients : req[c].id = t /\ HasTask(c) /\ StatusChange(c, t)
  BY StatusChanges
<1>2. ~RetryWrite(c)
  <2>1. RetryWrite(c) => req[c].seen = task[t] /\ req[c] \in RetryRequest
    BY <1>1, RequestKinds
    DEF RetryWrite, SInv, IInv, Fresh, UpToDate, WritingOps
  <2> QED BY <2>1 DEF RetryRequest, TaskRequest
<1>3. SUFFICES ASSUME task'[t].status \in {"approved", "rejected", "pending"}
               PROVE  LET now == fund'[task[t].entity].status IN
                      /\ task'[t].status = "rejected" => now # "pending"
                      /\ task'[t].status = "pending" => now # "rejected"
                      /\ task'[t].status = "approved" => now \notin {"pending", "rejected"}
  OBVIOUS
<1>4. PICK s \in {"approved", "rejected", "pending"} :
        /\ task'[t].status = s
        /\ fund'[task[t].entity].status = Target(s, fund[task[t].entity].status)
  <2>1. PICK ok \in BOOLEAN, s \in {"approved", "rejected", "pending"} :
          Apply(c, s, ok) /\ task'[t].status = Outcome(s, ok)
    BY <1>1, <1>2, <1>3
    DEF StatusChange, FundApproveLast, FundReject, FundResubmit
  <2> QED BY <1>1, <1>3, <2>1, DecisionReaches
<1> QED BY <1>4 DEF Target

(* When requests do not overlap, a decision takes effect on its fund in the *)
(* step that makes it, whatever state the fund has come into in the         *)
(* meantime and whichever write-backs have failed before: a rejected task   *)
(* never leaves its fund pending, a resubmitted one never leaves it         *)
(* rejected, and an approved one takes it out of the approval stage         *)
(* (_apply_fund_approval_result).                                           *)
THEOREM VerdictsTakeEffect ==
  ASSUME Serial
  PROVE  FundSpec => VerdictTakesEffect
<1>1. FSInv /\ [FundNext]_fvars =>
        [\A t \in TaskIds :
           LET now == fund'[task[t].entity].status IN
           /\ Exists(t)
           /\ task[t].status \notin FailedStatus
           /\ task'[t].status # task[t].status
           => /\ task'[t].status = "rejected" => now # "pending"
              /\ task'[t].status = "pending" => now # "rejected"
              /\ task'[t].status = "approved" => now \notin {"pending", "rejected"}]_fvars
  BY VerdictStep
<1> QED BY <1>1, FSInvInit, FSInvStep, PTL DEF FundSpec, VerdictTakesEffect

(***************************************************************************)
(* The fund of an approved task.  A write-back of an approval that failed  *)
(* is retried with the status "approved_apply_failed", for which the       *)
(* handler does nothing: so the theorem needs that approvals do not fail.  *)
(***************************************************************************)
NoFailedApproval ==
  \A t \in TaskIds : Exists(t) => task[t].status # "approved_apply_failed"

\* A task that a step creates is pending.
LEMMA NewTaskPending ==
  ASSUME FSInv, [FundNext]_fvars, NEW t \in TaskIds, ~Exists(t), Exists(t)'
  PROVE  task'[t].status = "pending"
<1>1. SerialKind
  BY FundSerialKind DEF FSInv
<1> QED BY <1>1, SerialRowStep
     DEF FSInv, BInv, IInv, Exists, Opens, Advances, Approves, Rejects, Restarts,
         Reopens, Corrects, Amends, Written

LEMMA NoFailedApprovalStep ==
  ASSUME "approved" \notin FailOn, FSInv, NoFailedApproval, [FundNext]_fvars
  PROVE  NoFailedApproval'
<1> SUFFICES ASSUME NEW t \in TaskIds, Exists(t)'
             PROVE  task'[t].status # "approved_apply_failed"
  BY DEF NoFailedApproval
<1>1. CASE ~Exists(t)
  BY <1>1, NewTaskPending
<1>2. CASE Exists(t) /\ task'[t].status = task[t].status
  BY <1>2 DEF NoFailedApproval
<1>3. CASE Exists(t) /\ task'[t].status # task[t].status
  <2>1. PICK c \in Clients : HasTask(c) /\ StatusChange(c, t)
    BY <1>3, StatusChanges DEF FSInv
  <2>2. CASE RetryWrite(c) /\ task'[t].status = Restored[req[c].seen.status]
    <3>1. req[c] \in RetryRequest
      BY <2>2, RequestKinds DEF RetryWrite, FSInv, BInv, IInv
    <3> QED BY <2>2, <3>1 DEF RetryRequest, TaskRequest, FailedStatus, Restored
  <2>3. ASSUME NEW ok \in BOOLEAN, FundApproveLast(c, ok),
               task'[t].status = Outcome("approved", ok)
        PROVE  task'[t].status = "approved"
    BY <2>3 DEF FundApproveLast, ApproveLast, MayApply, Outcome
  <2> QED BY <2>1, <2>2, <2>3 DEF StatusChange, Outcome, ApplyFailed
<1> QED BY <1>1, <1>2, <1>3

LEMMA ApprovedFundStep ==
  ASSUME FSInv, NoFailedApproval, ApprovedTaskApprovedFund, [FundNext]_fvars
  PROVE  ApprovedTaskApprovedFund'
<1> USE DEF FSInv
<1> SUFFICES ASSUME NEW t \in TaskIds, Exists(t)', task'[t].status = "approved"
             PROVE  fund'[task'[t].entity].status \notin ApprovalStage
  BY DEF ApprovedTaskApprovedFund, ApprovalStage
<1>1. CASE ~Exists(t)
  BY <1>1, NewTaskPending
<1>2. CASE Exists(t)
  <2> DEFINE f == task[t].entity
  <2>1. task'[t].entity = f
    BY <1>2, TasksStay
  <2>2. f \in Entities /\ fund[f] # NoFund
    BY <1>2, TaskRows DEF BInv, IInv, FundsExist, TaskRow
  <2>3. CASE task[t].status = "approved"
    <3>1. fund[f].status \notin ApprovalStage
      BY <1>2, <2>3 DEF ApprovedTaskApprovedFund, ApprovalStage
    <3>2. SerialFundKind
      BY FundSerialFundKind
    <3> HIDE DEF f
    <3> QED BY <2>1, <2>2, <3>1, <3>2, SerialFundStep
  <2>4. CASE task[t].status # "approved"
    <3>1. task[t].status \notin FailedStatus
      <4>1. PICK c \in Clients : req[c].id = t /\ HasTask(c) /\ StatusChange(c, t)
        BY <1>2, <2>4, StatusChanges
      <4>2. CASE RetryWrite(c) /\ task'[t].status = Restored[req[c].seen.status]
        <5>1. req[c].seen = task[t] /\ req[c] \in RetryRequest
          BY <4>1, <4>2, RequestKinds
          DEF RetryWrite, SInv, BInv, IInv, Fresh, UpToDate, WritingOps
        <5>2. task[t].status = "approved_apply_failed"
          BY <4>2, <5>1 DEF RetryRequest, TaskRequest, FailedStatus, Restored
        <5> QED BY <1>2, <5>2 DEF NoFailedApproval
      <4>3. CASE \E ok \in BOOLEAN : FundApproveLast(c, ok)
        BY <4>1, <4>3 DEF FundApproveLast, ApproveLast, Claims, FailedStatus, Restored
      <4> QED BY <4>1, <4>2, <4>3 DEF StatusChange, Outcome, ApplyFailed
    <3> QED BY <1>2, <2>1, <2>4, <3>1, VerdictStep DEF ApprovalStage
  <2> QED BY <2>3, <2>4
<1> QED BY <1>1, <1>2

(* When requests do not overlap and the write-back of an approval does not  *)
(* raise, the fund of an approved task has left the approval stage and      *)
(* never falls back, whatever else is submitted, rejected, withdrawn,       *)
(* resubmitted or decided directly for it                                   *)
(* (_apply_fund_approval_result, _resolve_fund_approval_tasks).             *)
THEOREM ApprovedTasksApprovedFunds ==
  ASSUME Serial, "approved" \notin FailOn
  PROVE  FundSpec => []ApprovedTaskApprovedFund
<1>1. FundInit => NoFailedApproval /\ ApprovedTaskApprovedFund
  BY DEF FundInit, Init, Exists, NoFailedApproval, ApprovedTaskApprovedFund
<1>2. FSInv /\ NoFailedApproval /\ ApprovedTaskApprovedFund /\ [FundNext]_fvars =>
        NoFailedApproval' /\ ApprovedTaskApprovedFund'
  BY NoFailedApprovalStep, ApprovedFundStep
<1> QED BY <1>1, <1>2, FSInvInit, FSInvStep, PTL DEF FundSpec

(***************************************************************************)
(* Settling the tasks of a fund.  When nothing else is served, every       *)
(* pending task of the fund is one still to settle or the one in work, and *)
(* the ones still to settle are as the query loaded them.                  *)
(***************************************************************************)
InHand(c) ==
  freq[c].op = "resolve" =>
    /\ \A t \in PendingOf(freq[c].fund) :
         t \in DOMAIN freq[c].todo \/ (req[c].op \in SettleOps /\ t = req[c].id)
    /\ \A t \in DOMAIN freq[c].todo :
         task[t] = freq[c].todo[t] /\ task[t].status = "pending"
    /\ req[c].op \in SettleOps => req[c].id \notin DOMAIN freq[c].todo
    /\ req[c].op \in {"approve", "reload"} => req[c].arg = WhilePending
    /\ req[c].op \in {"approve", "reject"} => task[req[c].id].status = "pending"

AllInHand == \A c \in Clients : InHand(c)

\* An approval or rejection writes its own task only, and leaves it when it is
\* decided.
LEMMA SettlesTask ==
  ASSUME TypeOK, SeenRows, Fresh, NEW c \in Clients, req[c].op \in SettleOps, Write(c),
         req[c].op \in {"approve", "reload"} => req[c].arg = WhilePending,
         req[c].op \in {"approve", "reject"} => task[req[c].id].status = "pending"
  PROVE  /\ \A t \in TaskIds \ {req[c].id} : task'[t] = task[t]
         /\ req'[c] = Idle => task'[req[c].id].status # "pending"
         /\ req'[c].op \in {"approve", "reject"} => task'[req[c].id].status = "pending"
<1> USE DEF SettleOps
<1> DEFINE t == req[c].id
           Goal == /\ \A s \in TaskIds \ {t} : task'[s] = task[s]
                   /\ req'[c] = Idle => task'[t].status # "pending"
                   /\ req'[c].op \in {"approve", "reject"} => task'[t].status = "pending"
<1>0. t \in TaskIds /\ task[t] \in TaskRow
  BY SeenTask, TaskRows DEF HasTask, TaskOps, SeenRows
<1>1. CASE ApproveNext(c)
  <2>1. req'[c].op = "reload" /\ req'[c] # Idle
    BY <1>1 DEF ApproveNext, Continue, WhilePending, TypeOK, Idle
  <2> QED BY <1>1, <2>1 DEF ApproveNext, TypeOK
<1>2. CASE AutoReload(c)
  <2>1. CASE task[t].status = "pending"
    <3>1. req[c] \in ApproveRequest
      BY <1>2, RequestKinds DEF AutoReload
    <3>2. req'[c].op = "approve"
      BY <1>2, <2>1, <3>1 DEF AutoReload, TypeOK, ApproveRequest, TaskRequest
    <3>3. req'[c] # Idle
      BY <3>2 DEF Idle
    <3>4. task' = task
      BY <1>2 DEF AutoReload
    <3> QED BY <2>1, <3>3, <3>4
  <2>2. CASE task[t].status # "pending"
    BY <1>2, <2>2 DEF AutoReload, TypeOK, Idle
  <2> QED BY <2>1, <2>2
<1>3. ASSUME NEW ok \in BOOLEAN, ApproveLast(c, ok) \/ Reject(c, ok) PROVE Goal
  <2>1. PICK s \in {"approved", "rejected"} : task' = [task EXCEPT ![t].status = Outcome(s, ok)]
    BY <1>3 DEF ApproveLast, Reject
  <2>2. task'[t].status = Outcome(s, ok)
    BY <1>0, <2>1 DEF TypeOK, TaskRow
  <2>3. req'[c].op = "idle"
    BY <1>3 DEF ApproveLast, Reject, TypeOK, Idle
  <2> QED BY <2>1, <2>2, <2>3 DEF TypeOK, Outcome, ApplyFailed
<1>4. ~ClaimFails(c)
  BY DEF ClaimFails, Decides, Claims, Fresh, UpToDate, WritingOps
<1>5. /\ ~Withdraw(c) /\ ~Transfer(c) /\ ~RetryWrite(c)
      /\ \A ok \in BOOLEAN : ~Resubmit(c, ok) /\ ~RetryApply(c, ok)
  <2>1. /\ Withdraw(c) => req[c].op = "withdraw"
        /\ Transfer(c) => req[c].op = "transfer"
        /\ RetryWrite(c) => req[c].op = "retried"
    BY DEF Withdraw, Transfer, RetryWrite
  <2>2. \A ok \in BOOLEAN : /\ Resubmit(c, ok) => req[c].op = "resubmit"
                            /\ RetryApply(c, ok) => req[c].op = "retry"
    BY DEF Resubmit, RetryApply
  <2> QED BY <2>1, <2>2
<1> QED BY <1>1, <1>2, <1>3, <1>4, <1>5 DEF Write

LEMMA SettlingInHand ==
  ASSUME FSInv, AllInHand, NEW c \in Clients, freq[c].op = "resolve",
         TaskSteps(c) \/ Decide(c), [FundNext]_fvars
  PROVE  InHand(c)'
<1> USE DEF FSInv, BInv, IInv
<1>1. /\ req[c].op \in SettleOps /\ Write(c)
      /\ freq'[c].fund = freq[c].fund /\ freq'[c].todo = freq[c].todo
      /\ \/ req'[c] = Idle
         \/ /\ req[c].op \in {"approve", "reload"}
            /\ req'[c].op \in {"approve", "reload"}
            /\ req'[c].id = req[c].id
            /\ req[c].arg = WhilePending => req'[c].arg = WhilePending
  BY SettlesOn
<1>2. InHand(c)
  BY DEF AllInHand
<1>3. /\ \A t \in TaskIds \ {req[c].id} : task'[t] = task[t]
      /\ req'[c] = Idle => task'[req[c].id].status # "pending"
      /\ req'[c].op \in {"approve", "reject"} => task'[req[c].id].status = "pending"
  <2>1. /\ req[c].op \in {"approve", "reload"} => req[c].arg = WhilePending
        /\ req[c].op \in {"approve", "reject"} => task[req[c].id].status = "pending"
    BY <1>2 DEF InHand
  <2>2. Fresh
    BY DEF SInv
  <2> QED BY <1>1, <2>1, <2>2, SettlesTask
<1>4. DOMAIN freq[c].todo \subseteq TaskIds /\ req[c].id \notin DOMAIN freq[c].todo
  BY <1>1, <1>2, FundFields, TypedFields DEF InHand
<1>5. ASSUME NEW t \in PendingOf(freq[c].fund)'
      PROVE  t \in DOMAIN freq'[c].todo \/ (req'[c].op \in SettleOps /\ t = req'[c].id)
  <2>1. t \in TaskIds /\ task'[t].status = "pending" /\ task'[t].entity = freq'[c].fund
        /\ task'[t] # NoTask
    BY <1>5 DEF PendingOf, Exists
  <2>2. CASE t = req[c].id
    BY <1>1, <1>3, <2>1, <2>2 DEF SettleOps
  <2>3. CASE t # req[c].id
    <3>1. t \in PendingOf(freq[c].fund)
      BY <1>1, <1>3, <2>1, <2>3 DEF PendingOf, Exists
    <3> QED BY <1>1, <1>2, <2>3, <3>1 DEF InHand
  <2> QED BY <2>2, <2>3
<1>6. \A t \in DOMAIN freq'[c].todo :
        task'[t] = freq'[c].todo[t] /\ task'[t].status = "pending"
  BY <1>1, <1>2, <1>3, <1>4 DEF InHand
<1>7. req'[c].op \in SettleOps => req'[c].id = req[c].id
  BY <1>1 DEF SettleOps, Idle
<1>8. req'[c].op \in {"approve", "reload"} => req'[c].arg = WhilePending
  BY <1>1, <1>2 DEF InHand, Idle
<1>9. req'[c].op \in {"approve", "reject"} => task'[req'[c].id].status = "pending"
  BY <1>3, <1>7 DEF SettleOps
<1> QED BY <1>1, <1>4, <1>5, <1>6, <1>7, <1>8, <1>9 DEF InHand

LEMMA SettleFields ==
  ASSUME TypeOK, NEW c \in Clients, NEW v, NEW t, NEW u,
         req' = [req EXCEPT ![c] = SettleRequest(v, t, u)]
  PROVE  /\ req'[c].id = t
         /\ req'[c].op \in {"approve", "reject"}
         /\ req'[c].op = "approve" => req'[c].arg = WhilePending
<1>1. req'[c] = SettleRequest(v, t, u)
  BY DEF TypeOK
<1> QED BY <1>1 DEF SettleRequest

LEMMA QueryInHand ==
  ASSUME FSInv, NEW c \in Clients, ResolveQuery(c)
  PROVE  InHand(c)'
<1> USE DEF FSInv, BInv, IInv
<1>1. CASE freq'[c] = Idle
  BY <1>1 DEF InHand, Idle
<1>2. CASE freq'[c] # Idle
  <2>1. PICK t \in PendingOf(freq[c].fund) :
          /\ req' = [req EXCEPT ![c] =
                       SettleRequest(freq[c].verdict, t, freq[c].user)]
          /\ UNCHANGED <<task, record>>
          /\ freq'[c].op = "resolve" /\ freq'[c].fund = freq[c].fund
          /\ freq'[c].todo = [s \in PendingOf(freq[c].fund) \ {t} |-> task[s]]
    BY <1>2, QueryEffect
  <2>2. req'[c].id = t /\ req'[c].op \in {"approve", "reject"}
        /\ (req'[c].op = "approve" => req'[c].arg = WhilePending)
    <3> DEFINE v == freq[c].verdict
               u == freq[c].user
    <3>1. req' = [req EXCEPT ![c] = SettleRequest(v, t, u)]
      BY <2>1
    <3>2. TypeOK
      OBVIOUS
    <3> HIDE DEF v, u, FSInv, BInv, IInv
    <3> QED BY <3>1, <3>2, SettleFields
  <2>3. PendingOf(freq[c].fund)' = PendingOf(freq[c].fund)
    BY <2>1 DEF PendingOf, Exists
  <2>4. \A s \in PendingOf(freq[c].fund) : task'[s].status = "pending"
    BY <2>1 DEF PendingOf
  <2> QED BY <2>1, <2>2, <2>3, <2>4 DEF InHand, SettleOps
<1> QED BY <1>1, <1>2

LEMMA NextInHand ==
  ASSUME FSInv, AllInHand, NEW c \in Clients, ResolveNext(c)
  PROVE  InHand(c)'
<1> USE DEF FSInv, BInv, IInv
<1>1. InHand(c) /\ freq[c].op = "resolve"
  BY DEF AllInHand, ResolveNext
<1>2. PICK t \in DOMAIN freq[c].todo :
        /\ t \in TaskIds
        /\ \/ req' = [req EXCEPT ![c] = SettleRequest(freq[c].verdict, t, freq[c].user)]
           \/ task[t].status # "pending" \/ task[t] # freq[c].todo[t]
        /\ req[c] = Idle /\ UNCHANGED <<task, record>>
        /\ freq'[c].fund = freq[c].fund
        /\ freq'[c].todo = Without(freq[c].todo, t)
  BY NextEffect
<1>3. req'[c].id = t /\ req'[c].op \in {"approve", "reject"}
      /\ (req'[c].op = "approve" => req'[c].arg = WhilePending)
  BY <1>1, <1>2, SettleFields DEF InHand
<1>4. DOMAIN freq'[c].todo = DOMAIN freq[c].todo \ {t}
      /\ \A s \in DOMAIN freq'[c].todo : freq'[c].todo[s] = freq[c].todo[s]
  BY <1>2 DEF Without
<1>5. PendingOf(freq[c].fund)' = PendingOf(freq[c].fund)
  BY <1>2 DEF PendingOf, Exists
<1>6. req[c].op \notin SettleOps
  BY <1>2 DEF Idle, SettleOps
<1>7. task'[t].status = "pending"
  BY <1>1, <1>2 DEF InHand
<1>8. \A s \in PendingOf(freq[c].fund)' :
        s \in DOMAIN freq'[c].todo \/ (req'[c].op \in SettleOps /\ s = req'[c].id)
  BY <1>1, <1>3, <1>4, <1>5, <1>6 DEF InHand, SettleOps
<1>9. \A s \in DOMAIN freq'[c].todo :
        task'[s] = freq'[c].todo[s] /\ task'[s].status = "pending"
  BY <1>1, <1>2, <1>4 DEF InHand
<1>10. req'[c].id \notin DOMAIN freq'[c].todo
  BY <1>3, <1>4
<1>11. /\ req'[c].op \in {"approve", "reload"} => req'[c].arg = WhilePending
       /\ req'[c].op \in {"approve", "reject"} => task'[req'[c].id].status = "pending"
  BY <1>3, <1>7
<1> QED BY <1>8, <1>9, <1>10, <1>11 DEF InHand

LEMMA AllInHandStep ==
  ASSUME Serial, FSInv, AllInHand, [FundNext]_fvars
  PROVE  AllInHand'
<1> USE DEF FSInv, BInv, IInv
<1>1. ASSUME NEW c \in Clients, InHand(c)' PROVE AllInHand'
  BY <1>1 DEF Serial, AllInHand
<1>2. ASSUME NEW c \in Clients, freq'[c].op # "resolve" PROVE AllInHand'
  BY <1>1, <1>2 DEF InHand
<1>3. CASE UNCHANGED <<task, req, freq>>
  BY <1>3 DEF AllInHand, InHand, PendingOf, Exists
<1>4. CASE FundCrash
  BY <1>4 DEF FundCrash, AllInHand, InHand, Idle
<1>5. ASSUME NEW c \in Clients, TaskRequests(c) PROVE AllInHand'
  BY <1>2, <1>5 DEF TaskRequests, Idle
<1>6. ASSUME NEW c \in Clients, TaskSteps(c) \/ Decide(c) PROVE AllInHand'
  <2>1. CASE freq[c].op = "resolve"
    BY <1>1, <1>6, <2>1, SettlingInHand
  <2>2. CASE freq[c].op # "resolve"
    <3>1. freq'[c] = freq[c]
      BY <1>6, <2>2, ExpireFields
      DEF TaskSteps, Decide, FundApproveNext, FundApproveLast, FundReject,
          FundResubmit, FundRetry, Apply
    <3> QED BY <1>2, <2>2, <3>1
  <2> QED BY <2>1, <2>2
<1>7. ASSUME NEW c \in Clients, FundRequests(c) PROVE AllInHand'
  <2>1. freq'[c].op \in {"submit", "delete", "move"}
    BY <1>7
    DEF FundRequests, CreateFund, UpdateFund, DeleteRead, MoveRead, FundTypeOK
  <2> QED BY <1>2, <2>1
<1>8. ASSUME NEW c \in Clients, FundSteps(c) PROVE AllInHand'
  <2>1. CASE SubmitFund(c) \/ DeleteFund(c) \/ ResolveEnd(c) \/ Move(c)
    <3>1. freq'[c] = Idle \/ freq'[c] = NextAfterMove(freq[c])
      BY <2>1 DEF SubmitFund, DeleteFund, ResolveEnd, Move, FundTypeOK
    <3> QED BY <1>2, <3>1 DEF NextAfterMove, Idle
  <2> QED BY <1>1, <1>8, <2>1, QueryInHand, NextInHand DEF FundSteps
<1>9. CASE \/ Configure /\ UNCHANGED <<fund, history, freq>>
           \/ \E f \in Entities : RestoreFund(f)
           \/ UNCHANGED fvars
  BY <1>3, <1>9
  DEF Configure, CreateWorkflow, UpdateWorkflow, DeleteWorkflow, RestoreFund, fvars
<1> QED BY <1>4, <1>5, <1>6, <1>7, <1>8, <1>9 DEF FundNext

(* When requests do not overlap, approving or rejecting a fund directly     *)
(* leaves none of its tasks pending once all those it found are settled:    *)
(* each is approved through all its levels or rejected, however many levels *)
(* and tasks there are and whichever write-backs fail, and no claim fails   *)
(* on the way (_resolve_fund_approval_tasks, auto_approve_single_task).     *)
THEOREM DirectDecisionsSettle ==
  ASSUME Serial
  PROVE  FundSpec => []DirectDecisionSettlesTasks
<1>1. FundInit => AllInHand
  BY DEF FundInit, AllInHand, InHand, Idle
<1>2. FSInv /\ AllInHand /\ [FundNext]_fvars => AllInHand'
  BY AllInHandStep
<1>3. FSInv /\ AllInHand => DirectDecisionSettlesTasks
  BY DEF AllInHand, InHand, DirectDecisionSettlesTasks, PendingOf, SettleOps, Idle
<1> QED BY <1>1, <1>2, <1>3, FSInvInit, FSInvStep, PTL DEF FundSpec
=============================================================================
