-------------------------- MODULE ModerationProofs --------------------------
(***************************************************************************)
(* Theorems about Moderation, for any users, posts, texts, requests and    *)
(* bounds.                                                                 *)
(*                                                                         *)
(* LogExplainsStatus and the others are not inductive on their own: what a *)
(* request commits depends on what it read some transactions earlier.      *)
(* RequestOK says what is still true of that copy when it is used: the     *)
(* author never changes and a request for changes stays in the log, while  *)
(* the status that was read may be outdated.                               *)
(***************************************************************************)
EXTENDS Moderation, TLAPS

WasAsked(p) == \E i \in DOMAIN log[p] : log[p][i].action = "changes_requested"

RequestOK(r) ==
    LET q == req[r]
        p == req[r].post
    IN
    /\ q.pc # "idle" => q.user \in Users
    /\ q.pc # "idle" /\ q.op # "create" => p \in Posts
    /\ q.pc = "user" => q.op \notin {"moderate", "revise"} /\ q.owner \in Users
    /\ q.pc = "write" /\ q.op = "create" => q.owner \in Users
    /\ q.pc = "post" => q.op # "create"
    /\ q.pc \in {"load", "purge"} => q.op = "erase_db"
    /\ q.pc = "log" => q.op \in {"moderate", "revise"} /\ Present(p)
    /\ q.pc \in {"write", "log"} /\ q.op = "moderate" =>
          post[p].row # "unborn" /\ post[p].owner # q.user
    /\ q.pc \in {"write", "log"} /\ q.op = "revise" =>
          post[p].row # "unborn" /\ post[p].owner = q.user /\ (Present(p) => WasAsked(p))

RequestsOK == \A r \in Requests : RequestOK(r)

\* A post that is there has an author.
AuthorsKnown == \A p \in Posts : Present(p) => post[p].owner \in Users

\* The row lock: at most one transaction has updated a post and not yet
\* committed, and the post is there until it does.
OneWriter ==
    \A r, s \in Requests, p \in Posts :
        Holder(r, p) => Present(p) /\ (Holder(s, p) => r = s)

\* The inductive invariant.
IInv == /\ TypeOK
        /\ RequestsOK
        /\ AuthorsKnown
        /\ LogExplainsStatus
        /\ LogAttribution
        /\ NoOrphans
        /\ RevisionWasAsked
        /\ OneWriter

\* The initial state satisfies the invariant.
LEMMA InitInv == Init => IInv
  <1> SUFFICES ASSUME Init PROVE IInv
    OBVIOUS
  <1> USE DEF Init, Idle, Present, Statuses
  <1>1. TypeOK
    BY RolesAssumption DEF TypeOK, PostRow, Request, Phases, AllOps, Decisions
  <1>2. RequestsOK
    BY DEF RequestsOK, RequestOK
  <1>3. OneWriter
    BY DEF OneWriter, Holder
  <1>4. AuthorsKnown /\ LogExplainsStatus /\ LogAttribution /\ NoOrphans /\ RevisionWasAsked
    BY DEF AuthorsKnown, LogExplainsStatus, LogAttribution, NoOrphans, RevisionWasAsked
  <1> QED
    BY <1>1, <1>2, <1>3, <1>4 DEF IInv

\* A step of one request that changes no table keeps the invariant if the
\* request is then in order and has only taken a row lock that was free.
LEMMA RequestStep ==
    ASSUME IInv, NEW r \in Requests,
           UNCHANGED Database,
           req' \in [Requests -> Request],
           \A s \in Requests \ {r} : req'[s] = req[s],
           RequestOK(r)',
           req'[r].pc = "log" => ~Locked(req'[r].post)
    PROVE  IInv'
  <1> USE DEF Database
  <1>1. TypeOK'
    BY DEF TypeOK, IInv
  <1>2. RequestsOK'
    <2> SUFFICES ASSUME NEW s \in Requests, s # r PROVE RequestOK(s)'
      BY DEF RequestsOK
    <2> QED
      BY DEF RequestsOK, RequestOK, Present, WasAsked, IInv
  <1>3. /\ AuthorsKnown' /\ LogExplainsStatus' /\ LogAttribution' /\ NoOrphans' /\ RevisionWasAsked'
    BY DEF IInv, AuthorsKnown, LogExplainsStatus, LogAttribution, NoOrphans, RevisionWasAsked, Present
  <1>4. OneWriter'
    <2> SUFFICES ASSUME NEW s \in Requests, NEW t \in Requests, NEW p \in Posts, Holder(s, p)'
                 PROVE  Present(p)' /\ (Holder(t, p)' => s = t)
      BY DEF OneWriter
    <2>1. Present(p)'
      BY <1>2 DEF RequestsOK, RequestOK, Holder
    <2>2. ASSUME Holder(t, p)' PROVE s = t
      BY <2>2 DEF IInv, OneWriter, Holder, Locked
    <2> QED
      BY <2>1, <2>2
  <1> QED
    BY <1>1, <1>2, <1>3, <1>4 DEF IInv

\* A request that has been answered is in order.
LEMMA AnswerStep ==
    ASSUME IInv, NEW r \in Requests, Answer(r)
    PROVE  /\ req' \in [Requests -> Request]
           /\ \A s \in Requests \ {r} : req'[s] = req[s]
           /\ RequestOK(r)'
           /\ req'[r].pc = "idle"
  <1> Idle \in Request
    BY DEF Idle, Request, Phases, AllOps, Decisions
  <1> QED
    BY DEF Answer, Idle, IInv, TypeOK, RequestOK

\* A request that goes on only changes its phase.
LEMMA GotoStep ==
    ASSUME IInv, NEW r \in Requests, NEW phase \in Phases, Goto(r, phase)
    PROVE  /\ req' \in [Requests -> Request]
           /\ \A s \in Requests \ {r} : req'[s] = req[s]
           /\ req'[r].pc = phase
           /\ req'[r].op = req[r].op /\ req'[r].post = req[r].post
           /\ req'[r].user = req[r].user /\ req'[r].owner = req[r].owner
  <1> /\ req \in [Requests -> Request] /\ req[r] \in Request
      /\ req' = [req EXCEPT ![r] = [req[r] EXCEPT !.pc = phase]]
    BY DEF Goto, IInv, TypeOK
  <1> [req[r] EXCEPT !.pc = phase] \in Request
    BY DEF Request
  <1> QED
    BY DEF Request

\* The arrival of a request.
LEMMA ArriveStep == ASSUME IInv, NEW r \in Requests, Arrive(r) PROVE IInv'
  <1>1. ASSUME NEW u \in Users, NEW t \in Users \cup {None}, NEW p \in Posts \cup {None},
               NEW a \in Decisions, NEW x \in Texts \cup {None},
               NEW op \in AllOps, NEW phase \in {"user", "post"},
               op # "create" => p \in Posts,
               phase = "user" => op \notin {"moderate", "revise"} /\ t \in Users,
               phase = "post" => op # "create",
               Begin(r, op, u, phase, t, p, a, x)
        PROVE  IInv'
    <2> DEFINE q == [pc |-> phase, op |-> op, user |-> u, owner |-> t, post |-> p,
                     action |-> a, text |-> x, loaded |-> 0]
    <2>1. q \in Request
      BY <1>1 DEF Request, Phases
    <2>2. /\ req' \in [Requests -> Request] /\ req'[r] = q
          /\ \A s \in Requests \ {r} : req'[s] = req[s]
          /\ UNCHANGED Database
      BY <1>1, <2>1 DEF Begin, IInv, TypeOK
    <2>3. RequestOK(r)' /\ req'[r].pc # "log"
      BY <1>1, <2>2 DEF RequestOK
    <2> QED
      BY <2>2, <2>3, RequestStep
  <1> USE DEF AllOps, Decisions, Revisions, Edits
  <1>2. CASE BeginCreate(r)
    BY <1>1, <1>2 DEF BeginCreate
  <1>3. CASE BeginModerate(r)
    BY <1>1, <1>3 DEF BeginModerate
  <1>4. CASE BeginRevise(r)
    BY <1>1, <1>4 DEF BeginRevise
  <1>5. CASE BeginUpdate(r)
    BY <1>1, <1>5 DEF BeginUpdate
  <1>6. CASE BeginErase(r)
    BY <1>1, <1>6 DEF BeginErase
  <1>7. CASE BeginEraseDb(r)
    BY <1>1, <1>7 DEF BeginEraseDb
  <1>8. CASE BeginGetLog(r)
    BY <1>1, <1>8 DEF BeginGetLog
  <1> QED
    BY <1>2, <1>3, <1>4, <1>5, <1>6, <1>7, <1>8 DEF Arrive

\* A read moves the request on or answers it.
LEMMA CheckStep ==
    ASSUME IInv, NEW r \in Requests, NEW phase \in Phases,
           Answer(r) \/ (Goto(r, phase) /\ RequestOK(r)'),
           phase = "log" => ~Locked(req[r].post),
           UNCHANGED Database
    PROVE  IInv'
  <1>1. CASE Goto(r, phase) /\ RequestOK(r)'
    BY <1>1, GotoStep, RequestStep
  <1>2. CASE Answer(r)
    BY <1>2, AnswerStep, RequestStep
  <1> QED
    BY <1>1, <1>2

\* The reads: what they let through is what RequestOK says.
LEMMA ReadStep == ASSUME IInv, NEW r \in Requests, Read(r) PROVE IInv'
  <1> USE DEF Phases
  <1>1. CASE LookupUser(r)
    <2> DEFINE passed == account[req[r].owner] = "active" /\ OwnPath(req[r])
               phase  == AfterUser(req[r].op)
    <2> USE DEF OwnPath, AfterUser
    <2>1. (passed /\ Goto(r, phase)) => RequestOK(r)'
      BY <1>1, GotoStep DEF LookupUser, IInv, RequestsOK, RequestOK, TypeOK
    <2> QED
      BY <1>1, <2>1, CheckStep DEF LookupUser, Check
  <1>2. CASE ReadForModeration(r)
    <2> DEFINE p == req[r].post
               passed == /\ Present(p)
                         /\ post[p].owner # req[r].user
                         /\ post[p].status # "approved"
    <2>1. (passed /\ Goto(r, "write")) => RequestOK(r)'
      BY <1>2, GotoStep DEF ReadForModeration, IInv, RequestsOK, RequestOK, TypeOK,
         Present, Database
    <2> QED
      BY <1>2, <2>1, CheckStep DEF ReadForModeration, Check
  <1>3. CASE ReadForRevision(r)
    <2> DEFINE p == req[r].post
               passed == /\ Present(p)
                         /\ post[p].owner = req[r].user
                         /\ post[p].status = "changes_requested"
    <2>1. passed => WasAsked(p)
      <3> SUFFICES ASSUME passed PROVE WasAsked(p)
        OBVIOUS
      <3>1. p \in Posts
        BY <1>3 DEF ReadForRevision, IInv, RequestsOK, RequestOK
      <3>2. log[p] \in Seq(LogRow) /\ StatusOf(log[p]) = "changes_requested"
        BY <3>1 DEF IInv, TypeOK, LogExplainsStatus
      <3>3. log[p] # <<>> /\ log[p][Len(log[p])].action = "changes_requested"
        BY <3>2 DEF StatusOf, Implied
      <3> QED
        BY <3>2, <3>3 DEF WasAsked
    <2>2. (passed /\ Goto(r, "write")) => RequestOK(r)'
      BY <1>3, <2>1, GotoStep DEF ReadForRevision, IInv, RequestsOK, RequestOK, TypeOK,
         Present, Database, WasAsked
    <2> QED
      BY <1>3, <2>2, CheckStep DEF ReadForRevision, Check
  <1>4. CASE ReadForUpdate(r)
    <2> DEFINE passed == Present(req[r].post) /\ ~post[req[r].post].deleted
    <2>1. (passed /\ Goto(r, "write")) => RequestOK(r)'
      BY <1>4, GotoStep DEF ReadForUpdate, IInv, RequestsOK, RequestOK, TypeOK
    <2> QED
      BY <1>4, <2>1, CheckStep DEF ReadForUpdate, Check
  <1>5. CASE ReadForErase(r)
    <2> DEFINE passed == PostOf(req[r].owner, req[r].post)
               phase  == AfterPost(req[r].op)
    <2> USE DEF PostOf, AfterPost
    <2>1. (passed /\ Goto(r, phase)) => RequestOK(r)'
      BY <1>5, GotoStep DEF ReadForErase, IInv, RequestsOK, RequestOK, TypeOK
    <2> QED
      BY <1>5, <2>1, CheckStep DEF ReadForErase, Check
  <1>6. CASE LoadForPurge(r)
    <2> DEFINE p == req[r].post
               q == IF Present(p) THEN [req[r] EXCEPT !.pc = "purge", !.loaded = Len(log[p])] ELSE Idle
    <2>1. p \in Posts /\ req[r] \in Request /\ req[r].pc = "load" /\ req[r].op = "erase_db"
      BY <1>6 DEF LoadForPurge, IInv, RequestsOK, RequestOK, TypeOK
    <2>2. q \in Request
      <3> Len(log[p]) \in Nat
        BY <2>1 DEF IInv, TypeOK
      <3> QED
        BY <2>1 DEF Request, Idle, AllOps, Decisions
    <2>3. /\ req' \in [Requests -> Request] /\ req'[r] = q
          /\ \A s \in Requests \ {r} : req'[s] = req[s]
          /\ UNCHANGED Database
      BY <1>6, <2>2 DEF LoadForPurge, IInv, TypeOK
    <2>4. RequestOK(r)' /\ req'[r].pc # "log"
      BY <2>1, <2>3 DEF RequestOK, Idle, IInv, RequestsOK, Request
    <2> QED
      BY <2>3, <2>4, RequestStep
  <1>7. CASE ReadForLog(r)
    <2> DEFINE p == req[r].post
               passed == Present(p) /\ ~post[p].deleted /\ req[r].owner \in {None, post[p].owner}
    <2>1. (passed /\ Goto(r, "show")) => RequestOK(r)'
      BY <1>7, GotoStep DEF ReadForLog, IInv, RequestsOK, RequestOK, TypeOK
    <2> QED
      BY <1>7, <2>1, CheckStep DEF ReadForLog, Check
  <1>8. CASE ShowLog(r)
    BY <1>8, AnswerStep, RequestStep DEF ShowLog
  <1> QED
    BY <1>1, <1>2, <1>3, <1>4, <1>5, <1>6, <1>7, <1>8 DEF Read

\* Taking the row lock for a decision or a revision.
LEMMA UpdateStatusStep == ASSUME IInv, NEW r \in Requests, UpdateStatus(r) PROVE IInv'
  <1>1. ASSUME Present(req[r].post), Goto(r, "log") PROVE RequestOK(r)'
    <2>1. RequestOK(r) /\ req[r].pc = "write" /\ req[r].op \in {"moderate", "revise"}
      BY DEF UpdateStatus, IInv, RequestsOK
    <2>2. /\ req'[r].pc = "log"
          /\ req'[r].op = req[r].op /\ req'[r].post = req[r].post
          /\ req'[r].user = req[r].user /\ req'[r].owner = req[r].owner
      BY <1>1, GotoStep DEF Phases
    <2>3. UNCHANGED Database
      BY DEF UpdateStatus
    <2> QED
      BY <1>1, <2>1, <2>2, <2>3 DEF RequestOK, Present, WasAsked, Database
  <1> QED
    BY <1>1, CheckStep DEF UpdateStatus, Check, Phases

\* A crash leaves no request and no lock.
LEMMA CrashStep == ASSUME IInv, Crash PROVE IInv'
  <1> USE DEF Crash, Database, IInv
  <1>1. Idle \in Request
    BY DEF Idle, Request, Phases, AllOps, Decisions
  <1>2. TypeOK'
    BY <1>1 DEF TypeOK
  <1>3. RequestsOK' /\ OneWriter'
    BY DEF RequestsOK, RequestOK, OneWriter, Holder, Idle
  <1>4. /\ AuthorsKnown' /\ LogExplainsStatus' /\ LogAttribution' /\ NoOrphans' /\ RevisionWasAsked'
    BY DEF AuthorsKnown, LogExplainsStatus, LogAttribution, NoOrphans, RevisionWasAsked, Present
  <1> QED
    BY <1>2, <1>3, <1>4

\* What a transaction must leave alone so that the other requests stay in
\* order: authors, requests for changes, and posts whose row lock they hold.
LEMMA OthersStay ==
    ASSUME IInv, NEW r \in Requests,
           /\ req' \in [Requests -> Request]
           /\ \A s \in Requests \ {r} : req'[s] = req[s]
           /\ RequestOK(r)'
           /\ req'[r].pc = "idle",
           \A p \in Posts : post[p].row # "unborn" =>
               post'[p].row # "unborn" /\ post'[p].owner = post[p].owner,
           \A p \in Posts : (Present(p)' /\ post[p].row # "unborn") =>
               Present(p) /\ (WasAsked(p) => WasAsked(p)'),
           \A p \in Posts, s \in Requests \ {r} : Holder(s, p) => Present(p)'
    PROVE  RequestsOK' /\ OneWriter'
  <1>1. ASSUME NEW s \in Requests, s # r PROVE RequestOK(s)'
    <2> req'[s] = req[s] /\ RequestOK(s)
      BY <1>1 DEF IInv, RequestsOK
    <2>1. CASE req[s].pc = "idle" \/ req[s].op = "create"
      BY <2>1 DEF RequestOK
    <2>2. CASE req[s].pc # "idle" /\ req[s].op # "create"
      <3> req[s].post \in Posts
        BY <2>2 DEF RequestOK
      <3> QED
        BY <1>1, <2>2 DEF RequestOK, Holder, Present
    <2> QED
      BY <2>1, <2>2
  <1>2. RequestsOK'
    BY <1>1 DEF RequestsOK
  <1>3. OneWriter'
    BY DEF IInv, OneWriter, Holder
  <1> QED
    BY <1>2, <1>3

\* A new post has no log yet, and its author's account row exists.
LEMMA InsertPostStep == ASSUME IInv, NEW r \in Requests, InsertPost(r) PROVE IInv'
  <1> USE DEF IInv
  <1> req[r].owner \in Users
    BY DEF InsertPost, RequestsOK, RequestOK
  <1>1. CASE UNCHANGED post
    <2> UNCHANGED Database /\ Answer(r)
      BY <1>1 DEF InsertPost, Database
    <2> QED
      BY AnswerStep, RequestStep
  <1>2. CASE ~UNCHANGED post
    <2>1. PICK p \in Posts :
             /\ post[p].row = "unborn"
             /\ account[req[r].owner] # "purged"
             /\ post' = [post EXCEPT ![p] = [row |-> "present", owner |-> req[r].owner,
                                             status |-> "pending_review",
                                             text |-> req[r].text, deleted |-> FALSE]]
      BY <1>2 DEF InsertPost
    <2>2. /\ Answer(r)
          /\ UNCHANGED <<log, account, moderators, approvedText>>
      BY DEF InsertPost
    <2>3. log[p] = <<>> /\ ~Present(p)
      BY <2>1 DEF NoOrphans, Present
    <2>4. [row |-> "present", owner |-> req[r].owner, status |-> "pending_review",
           text |-> req[r].text, deleted |-> FALSE] \in PostRow
      BY DEF TypeOK, Request, PostRow, Statuses
    <2>5. TypeOK'
      BY <2>1, <2>2, <2>4, AnswerStep DEF TypeOK
    <2> post \in [Posts -> PostRow] /\ log' = log
      BY <2>2 DEF TypeOK
    <2>6. RequestsOK' /\ OneWriter'
      <3>1. \A t \in Posts : post[t].row # "unborn" => post'[t] = post[t]
        BY <2>1
      <3>2. \A t \in Posts, s \in Requests \ {r} : Holder(s, t) => Present(t)'
        BY <3>1 DEF OneWriter, Present
      <3>3. \A t \in Posts : (Present(t)' /\ post[t].row # "unborn") =>
               Present(t) /\ (WasAsked(t) => WasAsked(t)')
        BY <3>1 DEF Present, WasAsked
      <3> QED
        BY <2>2, <3>1, <3>2, <3>3, AnswerStep, OthersStay
    <2>7. AuthorsKnown' /\ LogExplainsStatus'
      BY <2>1, <2>2, <2>3 DEF AuthorsKnown, LogExplainsStatus, StatusOf, Present, TypeOK
    <2>8. LogAttribution' /\ RevisionWasAsked'
      <3>1. \A t \in Posts : log[t] # <<>> => post'[t] = post[t]
        BY <2>1, <2>3
      <3>2. LogAttribution'
        BY <3>1 DEF LogAttribution
      <3> QED
        BY <3>2 DEF RevisionWasAsked
    <2>9. NoOrphans'
      BY <2>1, <2>2, <2>3 DEF NoOrphans, Present, TypeOK
    <2> QED
      BY <2>5, <2>6, <2>7, <2>8, <2>9
  <1> QED
    BY <1>1, <1>2

\* Writes that leave status, author and log alone.
LEMMA ContentStep ==
    ASSUME IInv, NEW r \in Requests, Answer(r),
           post' \in [Posts -> PostRow],
           \A p \in Posts : /\ post'[p].row = post[p].row
                            /\ post'[p].owner = post[p].owner
                            /\ post'[p].status = post[p].status,
           UNCHANGED <<log, account, moderators, approvedText>>
    PROVE  IInv'
  <1> USE DEF IInv
  <1>1. TypeOK'
    BY AnswerStep DEF TypeOK
  <1>2. RequestsOK' /\ OneWriter'
    BY AnswerStep, OthersStay DEF Present, WasAsked, OneWriter
  <1>3. /\ AuthorsKnown' /\ LogExplainsStatus' /\ LogAttribution' /\ NoOrphans' /\ RevisionWasAsked'
    BY DEF AuthorsKnown, LogExplainsStatus, LogAttribution, NoOrphans, RevisionWasAsked, Present
  <1> QED
    BY <1>1, <1>2, <1>3

\* Edits of the content and soft deletes are such writes.
LEMMA WriteContentStep ==
    ASSUME IInv, NEW r \in Requests, WriteContent(r) \/ SoftDelete(r) PROVE IInv'
  <1> DEFINE p == req[r].post
  <1>1. CASE UNCHANGED post
    <2> UNCHANGED Database /\ Answer(r)
      BY <1>1 DEF WriteContent, SoftDelete, Database
    <2> QED
      BY AnswerStep, RequestStep
  <1>2. CASE ~UNCHANGED post
    <2>1. p \in Posts /\ req[r].text \in Texts \cup {None}
      BY DEF WriteContent, SoftDelete, IInv, RequestsOK, RequestOK, TypeOK, Request
    <2>2. PICK x \in Texts \cup {None}, d \in BOOLEAN :
             post' = [post EXCEPT ![p] = [post[p] EXCEPT !.text = x, !.deleted = d]]
      <3> post \in [Posts -> PostRow] /\ post[p] \in PostRow
        BY <2>1 DEF IInv, TypeOK
      <3>1. CASE WriteContent(r)
        <4> post' = [post EXCEPT ![p] = [post[p] EXCEPT !.text = req[r].text, !.deleted = post[p].deleted]]
          BY <1>2, <3>1 DEF WriteContent, PostRow
        <4> QED
          BY <2>1 DEF PostRow
      <3>2. CASE SoftDelete(r)
        <4> post' = [post EXCEPT ![p] = [post[p] EXCEPT !.text = post[p].text, !.deleted = TRUE]]
          BY <1>2, <3>2 DEF SoftDelete, PostRow
        <4> QED
          BY DEF PostRow
      <3> QED
        BY <3>1, <3>2
    <2>3. /\ post' \in [Posts -> PostRow]
          /\ \A t \in Posts : /\ post'[t].row = post[t].row
                              /\ post'[t].owner = post[t].owner
                              /\ post'[t].status = post[t].status
      <3> DEFINE w == [post[p] EXCEPT !.text = x, !.deleted = d]
      <3>1. post \in [Posts -> PostRow] /\ post[p] \in PostRow
        BY <2>1 DEF IInv, TypeOK
      <3>2. w \in PostRow
        BY <3>1 DEF PostRow
      <3>3. w.row = post[p].row /\ w.owner = post[p].owner /\ w.status = post[p].status
        BY <3>1 DEF PostRow
      <3>4. post' = [post EXCEPT ![p] = w]
        BY <2>2
      <3> HIDE DEF w
      <3> QED
        BY <2>1, <3>1, <3>2, <3>3, <3>4
    <2>4. Answer(r) /\ UNCHANGED <<log, account, moderators, approvedText>>
      BY DEF WriteContent, SoftDelete
    <2> QED
      BY <2>3, <2>4, ContentStep
  <1> QED
    BY <1>1, <1>2

\* The commit of a decision or revision: status and log move together.
LEMMA AppendStep ==
    ASSUME IInv, NEW r \in Requests, NEW p \in Posts, NEW e \in LogRow,
           Present(p), Answer(r),
           log' = [log EXCEPT ![p] = Append(log[p], e)],
           post' \in [Posts -> PostRow],
           \A t \in Posts : /\ post'[t].row = post[t].row
                            /\ post'[t].owner = post[t].owner
                            /\ t # p => post'[t].status = post[t].status,
           post'[p].status = Implied(e),
           IF e.event = "moderator_review"
           THEN e.user # post[p].owner /\ e.action \in Decisions
           ELSE e.user = post[p].owner /\ e.action = None /\ WasAsked(p),
           account[e.user] # "purged",
           approvedText' \in [Posts -> Texts \cup {None}],
           UNCHANGED <<account, moderators>>
    PROVE  IInv'
  <1> USE DEF IInv
  <1>1. log[p] \in Seq(LogRow) /\ log' \in [Posts -> Seq(LogRow)]
    BY DEF TypeOK
  <1>2. /\ \A t \in Posts \ {p} : log'[t] = log[t]
        /\ Len(log'[p]) = Len(log[p]) + 1
        /\ log'[p] # <<>>
        /\ DOMAIN log'[p] = 1..(Len(log[p]) + 1)
        /\ DOMAIN log[p] = 1..Len(log[p])
        /\ Len(log[p]) \in Nat
        /\ log'[p][Len(log[p]) + 1] = e
        /\ \A i \in 1..Len(log[p]) : log'[p][i] = log[p][i]
    <2>1. log \in [Posts -> Seq(LogRow)]
      BY DEF TypeOK
    <2>2. log'[p] = Append(log[p], e) /\ \A t \in Posts \ {p} : log'[t] = log[t]
      BY <2>1
    <2> QED
      BY <1>1, <2>2
  <1>3. TypeOK'
    BY <1>1, AnswerStep DEF TypeOK
  <1>4. \A t \in Posts : WasAsked(t) => WasAsked(t)'
    BY <1>2 DEF WasAsked
  <1>5. RequestsOK' /\ OneWriter'
    <2> \A t \in Posts : Present(t)' <=> Present(t)
      BY DEF Present
    <2> QED
      BY <1>4, AnswerStep, OthersStay DEF OneWriter
  <1>6. AuthorsKnown'
    BY DEF AuthorsKnown, Present
  <1>7. LogExplainsStatus'
    BY <1>2 DEF LogExplainsStatus, StatusOf, Present
  <1>8. LogAttribution'
    BY <1>2 DEF LogAttribution
  <1>9. NoOrphans'
    BY <1>2 DEF NoOrphans, Present
  <1>10. RevisionWasAsked'
    <2> SUFFICES ASSUME NEW t \in Posts, NEW i \in DOMAIN log'[t],
                        log'[t][i].event = "author_revision"
                 PROVE  \E j \in 1..(i - 1) : log'[t][j].action = "changes_requested"
      BY DEF RevisionWasAsked
    <2>1. CASE t # p
      BY <1>2, <2>1 DEF RevisionWasAsked
    <2>2. CASE t = p /\ i \in 1..Len(log[p])
      <3>1. PICK j \in 1..(i - 1) : log[p][j].action = "changes_requested"
        BY <1>2, <2>2 DEF RevisionWasAsked
      <3>2. j \in 1..Len(log[p])
        BY <1>2, <2>2
      <3> QED
        BY <1>2, <2>2, <3>1, <3>2
    <2>3. CASE t = p /\ i = Len(log[p]) + 1
      <3>1. WasAsked(p)
        BY <1>2, <2>3
      <3>2. PICK j \in DOMAIN log[p] : log[p][j].action = "changes_requested"
        BY <3>1 DEF WasAsked
      <3>3. j \in 1..(i - 1) /\ log'[p][j] = log[p][j]
        BY <1>2, <2>3
      <3> QED
        BY <2>3, <3>2, <3>3
    <2> QED
      BY <1>2, <2>1, <2>2, <2>3
  <1> QED
    BY <1>3, <1>5, <1>6, <1>7, <1>8, <1>9, <1>10

\* A moderator's decision.
LEMMA CommitDecisionStep == ASSUME IInv, NEW r \in Requests, CommitDecision(r) PROVE IInv'
  <1> DEFINE p == req[r].post
             u == req[r].user
             e == Review(u, req[r].action)
  <1>1. /\ p \in Posts /\ u \in Users /\ Present(p) /\ post[p].owner # u
        /\ req[r].action \in Decisions
    BY DEF CommitDecision, IInv, TypeOK, RequestsOK, RequestOK, Request
  <1>2. Answer(r) /\ UNCHANGED <<account, moderators>>
    BY DEF CommitDecision
  <1>3. CASE account[u] = "purged"
    BY <1>2, <1>3, AnswerStep, RequestStep DEF CommitDecision, Database
  <1>4. CASE account[u] # "purged"
    <2>1. /\ post' = [post EXCEPT ![p] = [post[p] EXCEPT !.status = req[r].action]]
          /\ log' = [log EXCEPT ![p] = Append(log[p], e)]
          /\ approvedText' = [approvedText EXCEPT ![p] = post[p].text] \/ approvedText' = approvedText
      BY <1>4 DEF CommitDecision
    <2>2. /\ e \in LogRow /\ e.event = "moderator_review"
          /\ e.action = req[r].action /\ e.user = u /\ Implied(e) = req[r].action
      BY <1>1 DEF Review, LogRow, Implied
    <2>3. [post[p] EXCEPT !.status = req[r].action] \in PostRow
      <3> post[p] \in PostRow
        BY <1>1 DEF IInv, TypeOK
      <3> QED
        BY <1>1 DEF PostRow, Decisions, Statuses
    <2>4. /\ post' \in [Posts -> PostRow]
          /\ \A t \in Posts : /\ post'[t].row = post[t].row
                              /\ post'[t].owner = post[t].owner
                              /\ t # p => post'[t].status = post[t].status
          /\ post'[p].status = req[r].action
      BY <1>1, <2>1, <2>3 DEF IInv, TypeOK, PostRow
    <2>5. approvedText' \in [Posts -> Texts \cup {None}]
      BY <1>1, <2>1 DEF IInv, TypeOK, PostRow
    <2>6. IF e.event = "moderator_review"
          THEN e.user # post[p].owner /\ e.action \in Decisions
          ELSE e.user = post[p].owner /\ e.action = None /\ WasAsked(p)
      BY <1>1, <2>2
    <2>7. post'[p].status = Implied(e) /\ account[e.user] # "purged"
      BY <1>4, <2>2, <2>4
    <2> QED
      BY <1>1, <1>2, <2>1, <2>2, <2>4, <2>5, <2>6, <2>7, AppendStep
  <1> QED
    BY <1>3, <1>4

\* An author's revision.
LEMMA CommitRevisionStep == ASSUME IInv, NEW r \in Requests, CommitRevision(r) PROVE IInv'
  <1> DEFINE p == req[r].post
             u == req[r].user
             e == Revision(u)
             x == req[r].text
  <1>1. /\ p \in Posts /\ u \in Users /\ Present(p) /\ post[p].owner = u
        /\ WasAsked(p) /\ req[r].text \in Texts \cup {None}
    BY DEF CommitRevision, IInv, TypeOK, RequestsOK, RequestOK, Request
  <1>2. Answer(r) /\ UNCHANGED <<account, moderators, approvedText>>
    BY DEF CommitRevision
  <1>3. CASE account[u] = "purged"
    BY <1>2, <1>3, AnswerStep, RequestStep DEF CommitRevision, Database
  <1>4. CASE account[u] # "purged"
    <2>1. /\ post' = [post EXCEPT ![p] = [post[p] EXCEPT !.status = "pending_review", !.text = x]]
          /\ log' = [log EXCEPT ![p] = Append(log[p], e)]
      BY <1>4, <1>1 DEF CommitRevision, IInv, TypeOK, PostRow
    <2>2. /\ e \in LogRow /\ e.event = "author_revision"
          /\ e.action = None /\ e.user = u /\ Implied(e) = "pending_review"
      BY <1>1 DEF Revision, LogRow, Implied
    <2>3. [post[p] EXCEPT !.status = "pending_review", !.text = x] \in PostRow
      <3> post[p] \in PostRow
        BY <1>1 DEF IInv, TypeOK
      <3> QED
        BY <1>1 DEF PostRow, Statuses
    <2>4. /\ post' \in [Posts -> PostRow]
          /\ \A t \in Posts : /\ post'[t].row = post[t].row
                              /\ post'[t].owner = post[t].owner
                              /\ t # p => post'[t].status = post[t].status
          /\ post'[p].status = "pending_review"
      BY <1>1, <2>1, <2>3 DEF IInv, TypeOK, PostRow
    <2>5. approvedText' \in [Posts -> Texts \cup {None}]
      BY <1>2 DEF IInv, TypeOK
    <2>6. IF e.event = "moderator_review"
          THEN e.user # post[p].owner /\ e.action \in Decisions
          ELSE e.user = post[p].owner /\ e.action = None /\ WasAsked(p)
      BY <1>1, <2>2
    <2>7. post'[p].status = Implied(e) /\ account[e.user] # "purged"
      BY <1>4, <2>2, <2>4
    <2> QED
      BY <1>1, <1>2, <2>1, <2>2, <2>4, <2>5, <2>6, <2>7, AppendStep
  <1> QED
    BY <1>3, <1>4

\* A hard delete removes a post with all its log rows, and nobody holds it.
LEMMA PurgePostStep == ASSUME IInv, NEW r \in Requests, PurgePost(r) PROVE IInv'
  <1> USE DEF IInv
  <1> DEFINE p == req[r].post
  <1>1. p \in Posts /\ ~Locked(p) /\ Answer(r) /\ UNCHANGED <<account, moderators, approvedText>>
    BY DEF PurgePost, RequestsOK, RequestOK
  <1>2. CASE ~(Present(p) /\ Len(log[p]) = req[r].loaded)
    BY <1>1, <1>2, AnswerStep, RequestStep DEF PurgePost, Database
  <1>3. CASE Present(p) /\ Len(log[p]) = req[r].loaded
    <2>1. /\ post' = [post EXCEPT ![p] = [post[p] EXCEPT !.row = "purged"]]
          /\ log' = [log EXCEPT ![p] = <<>>]
      BY <1>3 DEF PurgePost
    <2> post[p] \in PostRow
      BY <1>1 DEF TypeOK
    <2>2. [post[p] EXCEPT !.row = "purged"] \in PostRow
      BY DEF PostRow
    <2>3. /\ post' \in [Posts -> PostRow]
          /\ log' \in [Posts -> Seq(LogRow)]
          /\ post'[p].row = "purged" /\ log'[p] = <<>> /\ post'[p].owner = post[p].owner
          /\ \A t \in Posts \ {p} : post'[t] = post[t] /\ log'[t] = log[t]
      BY <1>1, <2>1, <2>2 DEF TypeOK, PostRow
    <2>4. TypeOK'
      BY <1>1, <2>3, AnswerStep DEF TypeOK
    <2>5. RequestsOK' /\ OneWriter'
      <3>1. \A t \in Posts : post[t].row # "unborn" => post'[t].row # "unborn" /\ post'[t].owner = post[t].owner
        BY <2>3
      <3>2. \A t \in Posts : (Present(t)' /\ post[t].row # "unborn") =>
               Present(t) /\ (WasAsked(t) => WasAsked(t)')
        BY <2>3 DEF Present, WasAsked
      <3>3. \A t \in Posts, s \in Requests \ {r} : Holder(s, t) => Present(t)'
        BY <1>1, <2>3 DEF OneWriter, Present, Locked
      <3> QED
        BY <1>1, <3>1, <3>2, <3>3, AnswerStep, OthersStay
    <2>6. AuthorsKnown' /\ LogExplainsStatus'
      BY <2>3 DEF AuthorsKnown, LogExplainsStatus, Present
    <2>7. LogAttribution' /\ RevisionWasAsked'
      <3>1. \A t \in Posts : DOMAIN log'[t] # {} => post'[t] = post[t] /\ log'[t] = log[t]
        BY <2>3
      <3> QED
        BY <3>1 DEF LogAttribution, RevisionWasAsked
    <2>8. NoOrphans'
      BY <1>1, <2>3 DEF NoOrphans, Present
    <2> QED
      BY <2>4, <2>5, <2>6, <2>7, <2>8
  <1> QED
    BY <1>2, <1>3

\* Changes of accounts: the foreign keys keep the rows that are referenced.
LEMMA AccountStep == ASSUME IInv, NEW u \in Users, SetRole(u) \/ SoftDeleteUser(u) \/ PurgeUser(u) PROVE IInv'
  <1> USE DEF IInv
  <1>1. UNCHANGED <<post, log, req, approvedText>>
    BY DEF SetRole, SoftDeleteUser, PurgeUser
  <1>2. TypeOK'
    BY DEF TypeOK, SetRole, SoftDeleteUser, PurgeUser
  <1>3. RequestsOK' /\ OneWriter'
    BY <1>1 DEF RequestsOK, RequestOK, OneWriter, Holder, Present, WasAsked
  <1>4. AuthorsKnown' /\ LogExplainsStatus' /\ LogAttribution' /\ RevisionWasAsked'
    BY <1>1 DEF AuthorsKnown, LogExplainsStatus, LogAttribution, RevisionWasAsked, Present
  <1>5. NoOrphans'
    <2>1. CASE SetRole(u)
      BY <1>1, <2>1 DEF SetRole, NoOrphans, Present
    <2>2. CASE SoftDeleteUser(u)
      BY <1>1, <2>2 DEF SoftDeleteUser, NoOrphans, Present, AuthorsKnown, TypeOK
    <2>3. CASE PurgeUser(u)
      BY <1>1, <2>3 DEF PurgeUser, Referenced, NoOrphans, Present, AuthorsKnown, TypeOK
    <2> QED
      BY <2>1, <2>2, <2>3
  <1> QED
    BY <1>2, <1>3, <1>4, <1>5

-----------------------------------------------------------------------------
\* The invariant is inductive.
LEMMA NextInv == IInv /\ [Next]_vars => IInv'
  <1> SUFFICES ASSUME IInv, [Next]_vars PROVE IInv'
    OBVIOUS
  <1>1. CASE UNCHANGED vars
    BY <1>1 DEF vars, IInv, TypeOK, RequestsOK, RequestOK, AuthorsKnown, LogExplainsStatus,
       LogAttribution, NoOrphans, RevisionWasAsked, OneWriter, Holder, Present, WasAsked
  <1>2. ASSUME NEW r \in Requests, Arrive(r) PROVE IInv'
    BY <1>2, ArriveStep
  <1>3. ASSUME NEW r \in Requests, Read(r) PROVE IInv'
    BY <1>3, ReadStep
  <1>4. ASSUME NEW r \in Requests, TakeLock(r) PROVE IInv'
    BY <1>4, UpdateStatusStep, WriteContentStep, PurgePostStep DEF TakeLock
  <1>5. ASSUME NEW r \in Requests, Commit(r) PROVE IInv'
    BY <1>5, InsertPostStep, CommitDecisionStep, CommitRevisionStep DEF Commit
  <1>6. CASE Accounts
    BY <1>6, AccountStep, RolesAssumption DEF Accounts
  <1>7. CASE Crash
    BY <1>7, CrashStep
  <1> QED
    BY <1>1, <1>2, <1>3, <1>4, <1>5, <1>6, <1>7 DEF Next, Quiet

\* Every reachable state satisfies the inductive invariant.
THEOREM Invariance == Spec => []IInv
  BY InitInv, NextInv, PTL DEF Spec

\* The tables and the requests keep their types.
THEOREM TypeCorrect == Spec => []TypeOK
  <1> IInv => TypeOK
    BY DEF IInv
  <1> QED
    BY Invariance, PTL

\* Status and moderation log never drift apart, whatever decisions, revisions,
\* deletions and crashes run into each other.
THEOREM LogAlwaysExplainsStatus == Spec => []LogExplainsStatus
  <1> IInv => LogExplainsStatus
    BY DEF IInv
  <1> QED
    BY Invariance, PTL

\* Nobody ever reviews a post of their own or revises a post of somebody else.
THEOREM LogAlwaysAttributed == Spec => []LogAttribution
  <1> IInv => LogAttribution
    BY DEF IInv
  <1> QED
    BY Invariance, PTL

\* A revision in the log always has a request for changes before it.
THEOREM RevisionAlwaysAsked == Spec => []RevisionWasAsked
  <1> IInv => RevisionWasAsked
    BY DEF IInv
  <1> QED
    BY Invariance, PTL

\* No interleaving of deletes and writes leaves a row that points nowhere.
THEOREM NeverOrphans == Spec => []NoOrphans
  <1> IInv => NoOrphans
    BY DEF IInv
  <1> QED
    BY Invariance, PTL

-----------------------------------------------------------------------------
(* Refinement: the commits are the abstract operations, the rest stutters. *)

LEMMA WorkflowInit == Init => Workflow!Init
  BY DEF Init, Workflow!Init, Present

\* Steps that leave rows, authors, statuses and logs alone are invisible.
LEMMA Invisible ==
    ASSUME \A p \in Posts : /\ post'[p].row = post[p].row
                            /\ post'[p].owner = post[p].owner
                            /\ post'[p].status = post[p].status,
           log' = log
    PROVE  UNCHANGED Workflow!vars
  BY DEF Workflow!vars, Present

\* Edits and soft deletes are invisible to the workflow.
LEMMA ContentInvisible ==
    ASSUME IInv, NEW r \in Requests, WriteContent(r) \/ SoftDelete(r)
    PROVE  UNCHANGED Workflow!vars
  <1> post \in [Posts -> PostRow] /\ \A p \in Posts : post[p] \in PostRow
    BY DEF IInv, TypeOK
  <1> \A p \in Posts : /\ post'[p].row = post[p].row
                       /\ post'[p].owner = post[p].owner
                       /\ post'[p].status = post[p].status
    BY DEF WriteContent, SoftDelete, PostRow
  <1> log' = log
    BY DEF WriteContent, SoftDelete
  <1> QED
    BY Invisible

\* A new row is an abstract Create.
LEMMA InsertIsCreate ==
    ASSUME IInv, NEW r \in Requests, InsertPost(r)
    PROVE  (\E p \in Posts, u \in Users : Workflow!Create(p, u)) \/ UNCHANGED Workflow!vars
  <1>1. CASE UNCHANGED post
    BY <1>1, Invisible DEF InsertPost
  <1>2. CASE ~UNCHANGED post
    <2> DEFINE u == req[r].owner
    <2>1. u \in Users
      BY DEF InsertPost, IInv, RequestsOK, RequestOK
    <2>2. post \in [Posts -> PostRow]
      BY DEF IInv, TypeOK
    <2>3. PICK p \in Posts :
             /\ post[p].row = "unborn"
             /\ post' = [post EXCEPT ![p] = [row |-> "present", owner |-> u,
                                             status |-> "pending_review",
                                             text |-> req[r].text, deleted |-> FALSE]]
      BY <1>2 DEF InsertPost
    <2>4. Workflow!Create(p, u)
      BY <2>2, <2>3 DEF Workflow!Create, Present, InsertPost
    <2> QED
      BY <2>1, <2>3, <2>4 DEF Workflow!Create
  <1> QED
    BY <1>1, <1>2

\* A committed decision is an abstract Moderate.
LEMMA DecisionIsModerate ==
    ASSUME IInv, NEW r \in Requests, CommitDecision(r)
    PROVE  Workflow!Moderate(req[r].post, req[r].user, req[r].action) \/ UNCHANGED Workflow!vars
  <1> DEFINE p == req[r].post
             u == req[r].user
             a == req[r].action
  <1>1. /\ p \in Posts /\ u \in Users /\ Present(p) /\ post[p].owner # u
        /\ a \in Decisions /\ post \in [Posts -> PostRow] /\ post[p] \in PostRow
    BY DEF CommitDecision, IInv, TypeOK, RequestsOK, RequestOK, Request
  <1>2. CASE account[u] = "purged"
    BY <1>2, Invisible DEF CommitDecision
  <1>3. CASE account[u] # "purged"
    <2>1. /\ post' = [post EXCEPT ![p] = [post[p] EXCEPT !.status = a]]
          /\ log' = [log EXCEPT ![p] = Append(log[p], Review(u, a))]
      BY <1>3 DEF CommitDecision
    <2>2. /\ post'[p].status = a /\ post'[p].row = "present" /\ post'[p].owner = post[p].owner
          /\ \A t \in Posts \ {p} : post'[t] = post[t]
      BY <1>1, <2>1 DEF PostRow, Present
    <2>3. Workflow!Moderate(p, u, a)
      BY <1>1, <2>1, <2>2 DEF Workflow!Moderate, Workflow!Reviewable, Present, Review, PostRow, Statuses
    <2> QED
      BY <2>3
  <1> QED
    BY <1>2, <1>3

\* A committed revision is an abstract Revise.
LEMMA RevisionIsRevise ==
    ASSUME IInv, NEW r \in Requests, CommitRevision(r)
    PROVE  Workflow!Revise(req[r].post) \/ UNCHANGED Workflow!vars
  <1> DEFINE p == req[r].post
             u == req[r].user
             x == req[r].text
  <1>1. /\ p \in Posts /\ u \in Users /\ Present(p) /\ post[p].owner = u /\ WasAsked(p)
        /\ post \in [Posts -> PostRow] /\ post[p] \in PostRow
    BY DEF CommitRevision, IInv, TypeOK, RequestsOK, RequestOK, Request
  <1>2. CASE account[u] = "purged"
    BY <1>2, Invisible DEF CommitRevision
  <1>3. CASE account[u] # "purged"
    <2>1. /\ post' = [post EXCEPT ![p] = [post[p] EXCEPT !.status = "pending_review", !.text = x]]
          /\ log' = [log EXCEPT ![p] = Append(log[p], Revision(u))]
      BY <1>1, <1>3 DEF CommitRevision, PostRow
    <2>2. /\ post'[p].status = "pending_review" /\ post'[p].row = "present"
          /\ post'[p].owner = post[p].owner
          /\ \A t \in Posts \ {p} : post'[t] = post[t]
      BY <1>1, <2>1 DEF PostRow, Present
    <2>3. Workflow!Revise(p)
      BY <1>1, <2>1, <2>2 DEF Workflow!Revise, Workflow!WasAsked, Workflow!Reviewable, WasAsked,
         Present, Revision, PostRow, Statuses
    <2> QED
      BY <2>3
  <1> QED
    BY <1>2, <1>3

\* A hard delete that commits is an abstract Purge.
LEMMA PurgeIsPurge ==
    ASSUME IInv, NEW r \in Requests, PurgePost(r)
    PROVE  Workflow!Purge(req[r].post) \/ UNCHANGED Workflow!vars
  <1> DEFINE p == req[r].post
  <1>1. p \in Posts /\ post \in [Posts -> PostRow] /\ post[p] \in PostRow
    BY DEF PurgePost, IInv, TypeOK, RequestsOK, RequestOK
  <1>2. CASE ~(Present(p) /\ Len(log[p]) = req[r].loaded)
    BY <1>2, Invisible DEF PurgePost
  <1>3. CASE Present(p) /\ Len(log[p]) = req[r].loaded
    <2>1. /\ post' = [post EXCEPT ![p] = [post[p] EXCEPT !.row = "purged"]]
          /\ log' = [log EXCEPT ![p] = <<>>]
      BY <1>3 DEF PurgePost
    <2>2. /\ post'[p].row = "purged" /\ post'[p].owner = post[p].owner
          /\ \A t \in Posts \ {p} : post'[t] = post[t]
      BY <1>1, <2>1 DEF PostRow
    <2>3. Workflow!Purge(p)
      BY <1>1, <1>3, <2>1, <2>2 DEF Workflow!Purge, Workflow!Reviewable, Present, PostRow, Statuses
    <2> QED
      BY <2>3
  <1> QED
    BY <1>2, <1>3

\* Every step of the system is a step of the workflow or invisible.
LEMMA WorkflowStep == IInv /\ [Next]_vars => [Workflow!Next]_(Workflow!vars)
  <1> SUFFICES ASSUME IInv, [Next]_vars PROVE Workflow!Next \/ UNCHANGED Workflow!vars
    OBVIOUS
  <1>1. CASE UNCHANGED <<post, log>>
    BY <1>1, Invisible
  <1>2. ASSUME NEW r \in Requests, TakeLock(r) PROVE Workflow!Next \/ UNCHANGED Workflow!vars
    <2>1. CASE UpdateStatus(r)
      BY <2>1, <1>1 DEF UpdateStatus, Database
    <2>2. PurgePost(r) => req[r].post \in Posts
      BY DEF PurgePost, IInv, RequestsOK, RequestOK
    <2> QED
      BY <1>2, <2>1, <2>2, ContentInvisible, PurgeIsPurge
         DEF TakeLock, Workflow!Next, Workflow!Purge
  <1>3. ASSUME NEW r \in Requests, Commit(r) PROVE Workflow!Next \/ UNCHANGED Workflow!vars
    <2>1. CommitDecision(r) \/ CommitRevision(r) => req[r].post \in Posts
      BY DEF CommitDecision, CommitRevision, IInv, RequestsOK, RequestOK
    <2>2. CommitDecision(r) => req[r].user \in Users /\ req[r].action \in Decisions
      BY DEF CommitDecision, IInv, TypeOK, RequestsOK, RequestOK, Request
    <2>3. CASE InsertPost(r)
      BY <2>3, InsertIsCreate DEF Workflow!Next, Workflow!Create
    <2>4. CASE CommitDecision(r)
      BY <2>1, <2>2, <2>4, DecisionIsModerate DEF Workflow!Next, Workflow!Moderate, Decisions
    <2>5. CASE CommitRevision(r)
      BY <2>1, <2>5, RevisionIsRevise DEF Workflow!Next, Workflow!Revise
    <2> QED
      BY <1>3, <2>3, <2>4, <2>5 DEF Commit
  <1>4. ASSUME NEW r \in Requests, Arrive(r) \/ Read(r) PROVE UNCHANGED <<post, log>>
    BY <1>4 DEF Arrive, BeginCreate, BeginModerate, BeginRevise, BeginUpdate, BeginErase,
       BeginEraseDb, Begin, Read, LookupUser, ReadForModeration, ReadForRevision,
       BeginGetLog, ReadForUpdate, ReadForErase, LoadForPurge, ReadForLog, ShowLog, Database
  <1>5. Accounts \/ Crash \/ Quiet \/ UNCHANGED vars => UNCHANGED <<post, log>>
    BY DEF Accounts, SetRole, SoftDeleteUser, PurgeUser, Crash, Quiet, vars, Database
  <1> QED
    BY <1>1, <1>2, <1>3, <1>4, <1>5 DEF Next

\* Concurrent requests implement the abstract audit trail: decision and log row
\* are one event, reviews come from others, revisions were asked for.
THEOREM ImplementsTrail == Spec => TrailRefinement
  BY InitInv, NextInv, WorkflowInit, WorkflowStep, PTL DEF Spec, TrailRefinement, Workflow!TrailSpec

\* The log of a post only grows until the post goes with all of it.
THEOREM LogHistory == Spec => LogGrowsOrGoes
  <1>1. IInv /\ IInv' /\ [Next]_vars =>
          [\A p \in Posts :
              \/ /\ Len(log'[p]) >= Len(log[p])
                 /\ SubSeq(log'[p], 1, Len(log[p])) = log[p]
              \/ log'[p] = <<>> /\ post'[p].row = "purged"]_vars
    <2> SUFFICES ASSUME IInv, IInv', [Next]_vars, NEW p \in Posts
                 PROVE \/ Len(log'[p]) >= Len(log[p]) /\ SubSeq(log'[p], 1, Len(log[p])) = log[p]
                       \/ log'[p] = <<>> /\ post'[p].row = "purged"
      OBVIOUS
    <2>1. log[p] \in Seq(LogRow) /\ log \in [Posts -> Seq(LogRow)]
      BY DEF IInv, TypeOK
    <2>2. CASE log'[p] = log[p]
      BY <2>1, <2>2
    <2>3. ASSUME NEW e \in LogRow, log'[p] = Append(log[p], e)
          PROVE  Len(log'[p]) >= Len(log[p]) /\ SubSeq(log'[p], 1, Len(log[p])) = log[p]
      BY <2>1, <2>3
    <2>4. CASE log'[p] # log[p]
      <3>1. Workflow!Next
        BY <2>4, WorkflowStep DEF Workflow!vars
      <3>2. \/ \E e \in LogRow : log'[p] = Append(log[p], e)
            \/ Workflow!Purge(p)
        <4>1. \A q \in Posts, u \in Users, a \in {"approved", "changes_requested"} :
                 Workflow!Moderate(q, u, a) =>
                    q = p /\ Append(log[p], Review(u, a)) = log'[p] /\ Review(u, a) \in LogRow
          BY <2>1, <2>4 DEF Workflow!Moderate, Review, LogRow, Decisions
        <4>2. \A q \in Posts : Workflow!Revise(q) =>
                 q = p /\ Append(log[p], Revision(post[p].owner)) = log'[p]
                 /\ Revision(post[p].owner) \in LogRow
          <5> SUFFICES ASSUME NEW q \in Posts, Workflow!Revise(q)
                       PROVE  q = p /\ Append(log[p], Revision(post[p].owner)) = log'[p]
                              /\ Revision(post[p].owner) \in LogRow
            OBVIOUS
          <5>1. q = p /\ Append(log[p], Revision(post[p].owner)) = log'[p]
            BY <2>1, <2>4 DEF Workflow!Revise, Revision
          <5>2. post[p].row \in {"unborn", "present", "purged"}
            BY DEF IInv, TypeOK, PostRow
          <5>3. Present(p)
            BY <5>1, <5>2 DEF Workflow!Revise, Workflow!Reviewable
          <5>4. post[p].owner \in Users
            BY <5>3 DEF IInv, AuthorsKnown
          <5> QED
            BY <5>1, <5>4 DEF Revision, LogRow
        <4>3. \A q \in Posts : Workflow!Purge(q) => q = p
          BY <2>1, <2>4 DEF Workflow!Purge
        <4>4. \A q \in Posts, u \in Users : ~Workflow!Create(q, u)
          BY <2>4 DEF Workflow!Create
        <4> QED
          BY <3>1, <4>1, <4>2, <4>3, <4>4 DEF Workflow!Next
      <3>3. Workflow!Purge(p) => log'[p] = <<>> /\ post'[p].row = "purged"
        <4> post'[p] \in PostRow
          BY DEF IInv, TypeOK
        <4> QED
          BY <2>1 DEF Workflow!Purge, Present, PostRow, Statuses
      <3> QED
        BY <2>3, <3>2, <3>3
    <2> QED
      BY <2>2, <2>4
  <1> QED
    BY <1>1, Invariance, PTL DEF Spec, LogGrowsOrGoes
=============================================================================
