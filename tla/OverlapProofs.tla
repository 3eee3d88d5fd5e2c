---------------------------- MODULE OverlapProofs ----------------------------
(***************************************************************************)
(* The state machine of the use cases holds for requests that run alone,   *)
(* for any users, posts, requests and bounds: LifecycleWhenAlone.          *)
(*                                                                         *)
(* The log says that a revision was asked for at SOME time; here the       *)
(* status itself is at stake, which is read in an earlier transaction than *)
(* it is written in.  The invariant: unless another commit has overlapped  *)
(* a request, the status it was let through for is the status still        *)
(* (Guarded).                                                              *)
(***************************************************************************)
EXTENDS Overlap, ModerationProofs

\* What a decision and a revision were let through for.
GuardHolds(q) ==
    (q.op \in {"moderate", "revise"} /\ q.pc \in {"write", "log"} /\ Present(q.post)) =>
        /\ q.op = "moderate" => post[q.post].status # "approved"
        /\ q.op = "revise" => post[q.post].status = "changes_requested"

\* The inductive invariant, with that of ModerationProofs.
Guarded == \A r \in Requests \ raced : GuardHolds(req[r])

\* Steps of a request: others stay as they are, and it can go on as it is.
OwnStep(r) == /\ \A s \in Requests \ {r} : req'[s] = req[s]
              /\ req[r] # req'[r]
              /\ r \notin raced => GuardHolds(req[r])'

LEMMA AnswerOwn ==
    ASSUME IInv, NEW r \in Requests, req[r].pc # "idle", Answer(r)
    PROVE  OwnStep(r)
  BY AnswerStep DEF OwnStep, GuardHolds

LEMMA GotoOwn ==
    ASSUME IInv, NEW r \in Requests, NEW phase \in Phases \ {req[r].pc}, Goto(r, phase),
           (phase \in {"write", "log"} /\ Present(req[r].post)') =>
               /\ req[r].op = "moderate" => r \in raced \/ post'[req[r].post].status # "approved"
               /\ req[r].op = "revise" => r \in raced \/ post'[req[r].post].status = "changes_requested"
    PROVE  OwnStep(r)
  BY GotoStep DEF OwnStep, GuardHolds, Present

LEMMA ArriveOwn == ASSUME IInv, NEW r \in Requests, Arrive(r) PROVE OwnStep(r)
  <1>1. ASSUME NEW op, NEW u, NEW phase, NEW t, NEW p, NEW a, NEW x,
               phase \in {"user", "post"}, Begin(r, op, u, phase, t, p, a, x)
        PROVE  OwnStep(r)
    <2> DEFINE q == [pc |-> phase, op |-> op, user |-> u, owner |-> t, post |-> p,
                     action |-> a, text |-> x, loaded |-> 0]
    <2>1. req \in [Requests -> Request] /\ req[r].pc = "idle" /\ req' = [req EXCEPT ![r] = q] /\ q.pc = phase
      BY <1>1 DEF Begin, IInv, TypeOK
    <2> HIDE DEF q
    <2>2. req'[r] = q /\ \A s \in Requests \ {r} : req'[s] = req[s]
      BY <2>1
    <2> QED
      BY <1>1, <2>1, <2>2 DEF OwnStep, GuardHolds
  <1> QED
    BY <1>1 DEF Arrive, BeginCreate, BeginModerate, BeginRevise, BeginUpdate, BeginErase, BeginEraseDb,
       BeginGetLog

\* The reads let through what they check.
LEMMA ReadOwn == ASSUME IInv, NEW r \in Requests, Read(r) PROVE OwnStep(r)
  <1>0. UNCHANGED post /\ req[r].pc # "idle"
    BY DEF Read, LookupUser, ReadForModeration, ReadForRevision, ReadForUpdate, ReadForErase, LoadForPurge,
       ReadForLog, ShowLog, Database
  <1>1. CASE Answer(r)
    BY <1>0, <1>1, AnswerOwn
  <1>2. CASE LookupUser(r)
    <2>1. req[r].op \notin {"moderate", "revise"} /\ req[r].pc = "user"
      BY <1>2 DEF LookupUser, IInv, RequestsOK, RequestOK
    <2>2. Answer(r) \/ Goto(r, AfterUser(req[r].op))
      BY <1>2 DEF LookupUser, Check
    <2> QED
      BY <1>1, <2>1, <2>2, GotoOwn DEF AfterUser, Phases
  <1>3. CASE ReadForModeration(r)
    <2>1. req[r].op = "moderate" /\ req[r].pc = "post"
      BY <1>3 DEF ReadForModeration
    <2>2. Answer(r) \/ (Goto(r, "write") /\ post[req[r].post].status # "approved")
      BY <1>3 DEF ReadForModeration, Check
    <2> QED
      BY <1>0, <1>1, <2>1, <2>2, GotoOwn DEF Phases
  <1>4. CASE ReadForRevision(r)
    <2>1. req[r].op = "revise" /\ req[r].pc = "post"
      BY <1>4 DEF ReadForRevision
    <2>2. Answer(r) \/ (Goto(r, "write") /\ post[req[r].post].status = "changes_requested")
      BY <1>4 DEF ReadForRevision, Check
    <2> QED
      BY <1>0, <1>1, <2>1, <2>2, GotoOwn DEF Phases
  <1>5. CASE ReadForUpdate(r) \/ ReadForErase(r) \/ ReadForLog(r)
    <2>1. req[r].op \notin {"moderate", "revise"} /\ req[r].pc = "post"
      BY <1>5 DEF ReadForUpdate, ReadForErase, ReadForLog
    <2>2. Answer(r) \/ \E phase \in {"write", "load", "show"} : Goto(r, phase)
      BY <1>5 DEF ReadForUpdate, ReadForErase, ReadForLog, Check, AfterPost
    <2> QED
      BY <1>1, <2>1, <2>2, GotoOwn DEF Phases
  <1>6. CASE LoadForPurge(r)
    <2>1. CASE Present(req[r].post)
      <3>1. /\ req \in [Requests -> Request] /\ req[r].pc = "load"
            /\ req' = [req EXCEPT ![r] = [req[r] EXCEPT !.pc = "purge", !.loaded = Len(log[req[r].post])]]
        BY <1>6, <2>1 DEF LoadForPurge, IInv, TypeOK
      <3>2. req'[r].pc = "purge" /\ \A s \in Requests \ {r} : req'[s] = req[s]
        BY <3>1 DEF Request
      <3> QED
        BY <3>1, <3>2 DEF OwnStep, GuardHolds
    <2>2. CASE ~Present(req[r].post)
      BY <1>1, <1>6, <2>2 DEF LoadForPurge, Answer
    <2> QED
      BY <2>1, <2>2
  <1>7. CASE ShowLog(r)
    BY <1>1, <1>7 DEF ShowLog
  <1> QED
    BY <1>2, <1>3, <1>4, <1>5, <1>6, <1>7 DEF Read

\* The UPDATE of a decision keeps what the read found, the other transactions
\* end their request.
LEMMA WriteOwn ==
    ASSUME IInv, Guarded, NEW r \in Requests, TakeLock(r) \/ Commit(r)
    PROVE  OwnStep(r)
  <1>1. CASE UpdateStatus(r)
    <2>1. req[r].pc = "write" /\ UNCHANGED post /\ (Answer(r) \/ Goto(r, "log"))
      BY <1>1 DEF UpdateStatus, Check, Database
    <2>2. r \notin raced => GuardHolds(req[r])
      BY DEF Guarded
    <2>3. CASE Answer(r)
      BY <2>1, <2>3, AnswerOwn
    <2>4. CASE Goto(r, "log")
      <3>1. req'[r].post = req[r].post
        BY <2>4, GotoStep DEF Phases
      <3>2. (r \notin raced /\ Present(req[r].post)') =>
               /\ req[r].op = "moderate" => post'[req[r].post].status # "approved"
               /\ req[r].op = "revise" => post'[req[r].post].status = "changes_requested"
        BY <2>1, <2>2, <3>1 DEF GuardHolds, Present
      <3>3. "log" \in Phases \ {req[r].pc} /\ req[r].pc # "idle"
        BY <2>1 DEF Phases
      <3> QED
        BY <2>4, <3>2, <3>3, GotoOwn
    <2> QED
      BY <2>1, <2>3, <2>4
  <1>2. CASE ~UpdateStatus(r)
    BY <1>2, AnswerOwn DEF TakeLock, Commit, WriteContent, SoftDelete, PurgePost, InsertPost,
       CommitDecision, CommitRevision
  <1> QED
    BY <1>1, <1>2

\* A step of one request; of the requests that go on, those a commit overlaps
\* are raced from now on.
LEMMA OwnGuarded ==
    ASSUME IInv, Guarded, Watch, NEW r \in Requests, OwnStep(r)
    PROVE  Guarded'
  <1> SUFFICES ASSUME NEW s \in Requests, s \notin raced', req'[s].pc # "idle" PROVE GuardHolds(req[s])'
    BY DEF Guarded, GuardHolds
  <1>1. s \notin raced
    BY DEF Watch
  <1>2. CASE s = r
    BY <1>1, <1>2 DEF OwnStep
  <1>3. CASE s # r
    <2>1. req'[s] = req[s]
      BY <1>3 DEF OwnStep
    <2>2. Database' = Database
      BY <2>1 DEF Watch
    <2>3. GuardHolds(req[s]) /\ UNCHANGED post
      BY <1>1, <2>2 DEF Guarded, Database
    <2> QED
      BY <2>1, <2>3 DEF GuardHolds, Present
  <1> QED
    BY <1>2, <1>3

LEMMA NextGuarded == IInv /\ Guarded /\ [Next /\ Watch]_<<vars, raced>> => Guarded'
  <1> SUFFICES ASSUME IInv, Guarded, [Next /\ Watch]_<<vars, raced>> PROVE Guarded'
    OBVIOUS
  <1>1. CASE UNCHANGED <<vars, raced>>
    BY <1>1 DEF vars, Guarded, GuardHolds, Present
  <1>2. CASE Next /\ Watch
    <2>1. ASSUME NEW r \in Requests, Arrive(r) \/ Read(r) \/ TakeLock(r) \/ Commit(r) PROVE Guarded'
      BY <1>2, <2>1, ArriveOwn, ReadOwn, WriteOwn, OwnGuarded
    <2>2. CASE Accounts \/ Quiet
      <3> SUFFICES ASSUME NEW s \in Requests, s \notin raced', req'[s].pc # "idle" PROVE GuardHolds(req[s])'
        BY DEF Guarded, GuardHolds
      <3>1. UNCHANGED <<post, req>>
        BY <2>2 DEF Accounts, SetRole, SoftDeleteUser, PurgeUser, Quiet, vars
      <3>2. s \notin raced
        BY <1>2 DEF Watch
      <3> QED
        BY <3>1, <3>2 DEF Guarded, GuardHolds, Present
    <2>3. CASE Crash
      BY <2>3 DEF Crash, Idle, Guarded, GuardHolds
    <2> QED
      BY <1>2, <2>1, <2>2, <2>3 DEF Next
  <1> QED
    BY <1>1, <1>2

-----------------------------------------------------------------------------
(* The commits.                                                            *)

LEMMA DecisionInLifecycle ==
    ASSUME IInv, NEW r \in Requests, CommitDecision(r), GuardHolds(req[r])
    PROVE  Workflow!LifecycleNext \/ UNCHANGED Workflow!vars
  <1>1. req[r].post \in Posts /\ Present(req[r].post) /\ post[req[r].post].status # "approved"
    BY DEF CommitDecision, IInv, RequestsOK, RequestOK, GuardHolds
  <1>2. req[r].user \in Users /\ req[r].action \in Decisions
    BY DEF CommitDecision, IInv, TypeOK, RequestsOK, RequestOK, Request
  <1> QED
    BY <1>1, <1>2, DecisionIsModerate DEF Workflow!LifecycleNext, Workflow!Moderate, Present, Decisions

LEMMA RevisionInLifecycle ==
    ASSUME IInv, NEW r \in Requests, CommitRevision(r), GuardHolds(req[r])
    PROVE  Workflow!LifecycleNext \/ UNCHANGED Workflow!vars
  <1>1. req[r].post \in Posts /\ Present(req[r].post) /\ post[req[r].post].status = "changes_requested"
    BY DEF CommitRevision, IInv, RequestsOK, RequestOK, GuardHolds
  <1> QED
    BY <1>1, RevisionIsRevise DEF Workflow!LifecycleNext, Workflow!Revise, Present

\* A decision of a request that ran alone is not taken on an approved post, and
\* a revision of one answers the request for changes that stands (the guards of
\* ModeratePostUseCase and RevisePostUseCase, though their adapters write in a
\* later transaction by the id alone).
THEOREM AloneObeysLifecycle == OverlapSpec => LifecycleWhenAlone
  <1>1. Init /\ raced = {} => IInv /\ Guarded
    BY InitInv DEF Init, Idle, Guarded, GuardHolds
  <1>2. IInv /\ [Next /\ Watch]_<<vars, raced>> => IInv'
    BY NextInv DEF vars
  <1>3. IInv /\ Guarded /\ [Next /\ Watch]_<<vars, raced>> =>
           [(\A r \in raced : req'[r] = req[r]) =>
               Workflow!LifecycleNext \/ UNCHANGED <<Workflow!vars>>]_<<vars, raced>>
    <2> SUFFICES ASSUME IInv, Guarded, Next, \A r \in raced : req'[r] = req[r]
                 PROVE  Workflow!LifecycleNext \/ UNCHANGED Workflow!vars
      OBVIOUS
    <2>1. CASE UNCHANGED <<post, log>>
      BY <2>1, Invisible
    <2>2. ASSUME NEW r \in Requests, TakeLock(r) \/ Commit(r)
          PROVE  Workflow!LifecycleNext \/ UNCHANGED Workflow!vars
      <3>1. r \notin raced
        BY <2>2, WriteOwn DEF OwnStep
      <3>2. GuardHolds(req[r])
        BY <3>1 DEF Guarded
      <3>3. CASE CommitDecision(r) \/ CommitRevision(r)
        BY <3>2, <3>3, DecisionInLifecycle, RevisionInLifecycle
      <3>4. CASE InsertPost(r)
        BY <3>4, InsertIsCreate DEF Workflow!LifecycleNext
      <3>5. CASE PurgePost(r)
        <4> req[r].post \in Posts
          BY <3>5 DEF PurgePost, IInv, RequestsOK, RequestOK
        <4> QED
          BY <3>5, PurgeIsPurge DEF Workflow!LifecycleNext, Workflow!Purge
      <3>6. CASE WriteContent(r) \/ SoftDelete(r)
        BY <3>6, ContentInvisible
      <3>7. CASE UpdateStatus(r)
        BY <2>1, <3>7 DEF UpdateStatus, Database
      <3> QED
        BY <2>2, <3>3, <3>4, <3>5, <3>6, <3>7 DEF TakeLock, Commit
    <2>3. ASSUME NEW r \in Requests, Arrive(r) \/ Read(r) PROVE UNCHANGED <<post, log>>
      BY <2>3 DEF Arrive, BeginCreate, BeginModerate, BeginRevise, BeginUpdate, BeginErase,
         BeginEraseDb, Begin, Read, LookupUser, ReadForModeration, ReadForRevision,
         BeginGetLog, ReadForUpdate, ReadForErase, LoadForPurge, ReadForLog, ShowLog, Database
    <2>4. Accounts \/ Crash \/ Quiet => UNCHANGED <<post, log>>
      BY DEF Accounts, SetRole, SoftDeleteUser, PurgeUser, Crash, Quiet, vars, Database
    <2> QED
      BY <2>1, <2>2, <2>3, <2>4 DEF Next
  <1> QED
    BY <1>1, <1>2, <1>3, NextGuarded, PTL DEF OverlapSpec, LifecycleWhenAlone
=============================================================================
