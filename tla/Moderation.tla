----------------------------- MODULE Moderation -----------------------------
(***************************************************************************)
(* The life of a post in the API: created, reviewed by moderators, revised *)
(* and edited by its author, erased and purged, by HTTP requests that run  *)
(* concurrently (src/api/src/app/features/posts).                          *)
(*                                                                         *)
(* A request is a task of the server.  Every adapter call it makes opens a *)
(* database session of its own, so one request is a chain of separate      *)
(* transactions and another request can run between any two of them:       *)
(*                                                                         *)
(*   idle -> user -> post -> write                 create, update, erase   *)
(*   idle ->         post -> write -> log          moderate, revise        *)
(*   idle -> user -> post -> load  -> purge        erase_db                *)
(*   idle ->         post -> show                  get_log                 *)
(*                                                                         *)
(* "user" and "post" are the reads the use case decides on, "write" the    *)
(* transaction that acts on what was read.  moderate and revise write in   *)
(* two statements of ONE transaction: the UPDATE of the post row ("write", *)
(* which takes the row lock) and the INSERT of the log row with the commit *)
(* ("log").  PostgreSQL runs at its default isolation, READ COMMITTED: a   *)
(* reader sees committed rows only, and a second writer of the row waits   *)
(* for the first to end, then acts on the row as it is.                    *)
(*                                                                         *)
(* Abstractions: a request that is refused before its use case runs takes  *)
(* no step here (401 and 403 of the dependencies, 422 of the schemas: they *)
(* demand a message for a request for changes and a text for a revision);  *)
(* the UPDATE and COMMIT of the one-statement transactions are one step    *)
(* (nothing of them is visible in between); title, text and media of a     *)
(* post are one version, a text; answers are not kept, a request that ends *)
(* becomes idle.                                                           *)
(***************************************************************************)
EXTENDS Naturals, Sequences, FiniteSets

CONSTANTS Users,            \* accounts
          Superusers,       \* accounts with is_superuser (set outside the API)
          FirstModerators,  \* accounts with is_moderator at the start
          Posts,            \* post ids, handed out once each
          Texts,            \* versions of a title and text
          Requests,         \* requests the server works on at once
          Ops,              \* the endpoints this instance calls
          Mutable,          \* accounts whose role or existence changes
          MaxLog,           \* bound: log rows of one post
          None              \* SQL NULL

ASSUME RolesAssumption == Superusers \cup FirstModerators \cup Mutable \subseteq Users
ASSUME NoneAssumption == None \notin Users \cup Posts \cup Texts
ASSUME BoundAssumption == MaxLog \in Nat

VARIABLES post,        \* table "post"
          log,         \* table "post_moderation_log", per post in created_at order
          account,     \* table "user": active, is_deleted, or row deleted
          moderators,  \* accounts with is_moderator
          req,         \* the server's requests
          approvedText \* history: the text each post had when last approved

vars == <<post, log, account, moderators, req, approvedText>>

Statuses  == {"pending_review", "changes_requested", "approved"}
Decisions == {"approved", "changes_requested"}
AllOps    == {"create", "moderate", "revise", "update", "erase", "erase_db", "get_log"}
Phases    == {"idle", "user", "post", "write", "log", "load", "purge", "show"}

\* What the bodies of requests bring: a revision has a title or a text, an
\* update may have neither.
Revisions == Texts
Edits     == Texts \cup {None}

PostRow  == [row     : {"unborn", "present", "purged"},
             owner   : Users \cup {None},
             status  : Statuses,
             text    : Texts \cup {None},
             deleted : BOOLEAN]

LogRow   == [event : {"moderator_review", "author_revision"},
             action : Decisions \cup {None},
             user : Users]

Request  == [pc      : Phases,
             op      : AllOps,
             user    : Users \cup {None},   \* the authenticated caller
             owner   : Users \cup {None},   \* user_id of the path; of get_log, the
                                            \* only author it may be about
             post    : Posts \cup {None},
             action  : Decisions,
             text    : Texts \cup {None},
             loaded  : Nat]                 \* log rows hard_delete loaded

Idle == [pc |-> "idle", op |-> "create", user |-> None, owner |-> None,
         post |-> None, action |-> "approved", text |-> None, loaded |-> 0]

Present(p) == post[p].row = "present"

Review(u, a) == [event |-> "moderator_review", action |-> a, user |-> u]
Revision(u)  == [event |-> "author_revision", action |-> None, user |-> u]

(***************************************************************************)
(* The row lock of a post: held from the UPDATE to the commit.             *)
(***************************************************************************)
Holder(r, p) == req[r].pc = "log" /\ req[r].post = p
Locked(p)    == \E r \in Requests : Holder(r, p)

(***************************************************************************)
(* Bounds: a request is only started if the instance has an id and a log   *)
(* row left for it.                                                        *)
(***************************************************************************)
Working(op, p) == {r \in Requests : req[r].pc # "idle" /\ req[r].op = op /\ req[r].post = p}
IdLeft     == Cardinality({p \in Posts : post[p].row = "unborn"}) > Cardinality(Working("create", None))
LogLeft(p) == Len(log[p]) + Cardinality(Working("moderate", p) \cup Working("revise", p)) < MaxLog

-----------------------------------------------------------------------------
Init ==
    /\ post = [p \in Posts |-> [row |-> "unborn", owner |-> None, status |-> "pending_review",
                                text |-> None, deleted |-> FALSE]]
    /\ log = [p \in Posts |-> <<>>]
    /\ account = [u \in Users |-> "active"]
    /\ moderators = FirstModerators
    /\ req = [r \in Requests |-> Idle]
    /\ approvedText = [p \in Posts |-> None]

Answer(r)      == req' = [req EXCEPT ![r] = Idle]
Goto(r, phase) == req' = [req EXCEPT ![r].pc = phase]
Database       == <<post, log, account, moderators, approvedText>>

\* Go on with the request if its checks pass, answer 403, 404 or 409 if not.
Check(r, passed, phase) == IF passed THEN Goto(r, phase) ELSE Answer(r)

-----------------------------------------------------------------------------
(* The request arrives and get_current_user finds an active account, whose *)
(* roles the checks that follow go by.                                     *)

Reviewers == moderators \cup Superusers

Begin(r, op, u, phase, t, p, a, x) ==
    /\ req[r].pc = "idle"
    /\ op \in Ops
    /\ account[u] = "active"
    /\ req' = [req EXCEPT ![r] = [pc |-> phase, op |-> op, user |-> u, owner |-> t, post |-> p,
                                  action |-> a, text |-> x, loaded |-> 0]]
    /\ UNCHANGED Database

BeginCreate(r) ==
    /\ IdLeft
    /\ \E u, t \in Users, x \in Texts : Begin(r, "create", u, "user", t, None, "approved", x)

BeginModerate(r) ==
    \E u \in Users, p \in Posts, a \in Decisions :
        /\ u \in Reviewers
        /\ LogLeft(p)
        /\ Begin(r, "moderate", u, "post", None, p, a, None)

BeginRevise(r) ==
    \E u \in Users, p \in Posts, x \in Revisions :
        /\ LogLeft(p)
        /\ Begin(r, "revise", u, "post", None, p, "approved", x)

BeginUpdate(r) ==
    \E u, t \in Users, p \in Posts, x \in Edits :
        Begin(r, "update", u, "user", t, p, "approved", x)

BeginErase(r) ==
    \E u, t \in Users, p \in Posts : Begin(r, "erase", u, "user", t, p, "approved", None)

BeginEraseDb(r) ==
    \E u, t \in Users, p \in Posts :
        /\ u \in Superusers
        /\ Begin(r, "erase_db", u, "user", t, p, "approved", None)

\* A reviewer may see the log of any post, others that of their own.
BeginGetLog(r) ==
    \E u \in Users, p \in Posts :
        Begin(r, "get_log", u, "post", IF u \in Reviewers THEN None ELSE u, p, "approved", None)

-----------------------------------------------------------------------------
(* The reads the use cases decide on, each in a session of its own.        *)

\* create has nothing more to look up, the others go on to the post.
AfterUser(op) == IF op = "create" THEN "write" ELSE "post"
AfterPost(op) == IF op = "erase_db" THEN "load" ELSE "write"

\* check_post_owner, which erase_db leaves to the superuser's discretion.
OwnPath(q) == q.op = "erase_db" \/ q.user = q.owner

\* get_active_user_by_id on the user of the path.
LookupUser(r) ==
    /\ req[r].pc = "user"
    /\ Check(r, account[req[r].owner] = "active" /\ OwnPath(req[r]), AfterUser(req[r].op))
    /\ UNCHANGED Database

\* Defects: the check of the author, the check of the status forgotten.
ReadForModeration_OwnPost(r) ==
    LET p == req[r].post IN
    /\ req[r].pc = "post" /\ req[r].op = "moderate"
    /\ Check(r,
             /\ Present(p)
             /\ post[p].status # "approved",
             "write")
    /\ UNCHANGED Database

ReadForModeration_Approved(r) ==
    LET p == req[r].post IN
    /\ req[r].pc = "post" /\ req[r].op = "moderate"
    /\ Check(r,
             Present(p) /\ post[p].owner # req[r].user,
             "write")
    /\ UNCHANGED Database

ReadForModeration(r) ==
    LET p == req[r].post IN
    /\ req[r].pc = "post" /\ req[r].op = "moderate"
    /\ Check(r,
             /\ Present(p)
             /\ post[p].owner # req[r].user
             /\ post[p].status # "approved",
             "write")
    /\ UNCHANGED Database

\* Defect: the check of the status forgotten.
ReadForRevision_AnyStatus(r) ==
    LET p == req[r].post IN
    /\ req[r].pc = "post" /\ req[r].op = "revise"
    /\ Check(r, Present(p) /\ post[p].owner = req[r].user, "write")
    /\ UNCHANGED Database

ReadForRevision(r) ==
    LET p == req[r].post IN
    /\ req[r].pc = "post" /\ req[r].op = "revise"
    /\ Check(r,
             /\ Present(p)
             /\ post[p].owner = req[r].user
             /\ post[p].status = "changes_requested",
             "write")
    /\ UNCHANGED Database

\* update_post looks the post up by its id alone, whoever owns it.
ReadForUpdate(r) ==
    LET p == req[r].post IN
    /\ req[r].pc = "post" /\ req[r].op = "update"
    /\ Check(r, Present(p) /\ ~post[p].deleted, "write")
    /\ UNCHANGED Database

\* find_post: the post of the user of the path, if not erased yet.
PostOf(u, p) == Present(p) /\ post[p].owner = u /\ ~post[p].deleted
ReadForErase(r) ==
    LET q == req[r] IN
    /\ q.pc = "post" /\ q.op \in {"erase", "erase_db"}
    /\ Check(r, PostOf(q.owner, q.post), AfterPost(q.op))
    /\ UNCHANGED Database

\* get_moderation_log: the post, then its log, empty if purged meanwhile.
ReadForLog(r) ==
    LET p == req[r].post IN
    /\ req[r].pc = "post" /\ req[r].op = "get_log"
    /\ Check(r,
             Present(p) /\ ~post[p].deleted /\ req[r].owner \in {None, post[p].owner},
             "show")
    /\ UNCHANGED Database
ShowLog(r) == req[r].pc = "show" /\ Answer(r) /\ UNCHANGED Database

-----------------------------------------------------------------------------
(* The transactions.  Every id is handed out once.                         *)

\* Defect: the column left to a default the database does not have.
InsertPost_NoStatus(r) ==
    /\ req[r].pc = "write" /\ req[r].op = "create"
    /\ \E p \in Posts :
          /\ post[p].row = "unborn"
          /\ post' = [post EXCEPT ![p] = [row |-> "present", owner |-> req[r].owner, status |-> None,
                                          text |-> req[r].text, deleted |-> FALSE]]
    /\ Answer(r)
    /\ UNCHANGED <<log, account, moderators, approvedText>>

InsertPost(r) ==
    /\ req[r].pc = "write" /\ req[r].op = "create"
    /\ IF account[req[r].owner] = "purged"      \* the foreign key to "user" fails
       THEN UNCHANGED post
       ELSE \E p \in Posts :
               /\ post[p].row = "unborn"
               /\ post' = [post EXCEPT ![p] = [row |-> "present", owner |-> req[r].owner,
                                               status |-> "pending_review",
                                               text |-> req[r].text, deleted |-> FALSE]]
    /\ Answer(r)
    /\ UNCHANGED <<log, account, moderators, approvedText>>

\* Defect: the UPDATE committed on its own.
UpdateStatus_Autocommit(r) ==
    LET p == req[r].post IN
    /\ req[r].pc = "write" /\ req[r].op \in {"moderate", "revise"}
    /\ ~Locked(p)
    /\ Check(r, Present(p), "log")
    /\ post' = IF ~Present(p) THEN post
               ELSE [post EXCEPT ![p].status = IF req[r].op = "moderate" THEN req[r].action
                                               ELSE "pending_review"]
    /\ UNCHANGED <<log, account, moderators, approvedText>>

\* apply_decision and apply_revision: the UPDATE by id.  It waits for the row
\* lock and does not look at the status again.  If the row is gone it matches
\* nothing, and what follows (the log row's foreign key, scalar_one) fails.
UpdateStatus(r) ==
    /\ req[r].pc = "write" /\ req[r].op \in {"moderate", "revise"}
    /\ ~Locked(req[r].post)
    /\ Check(r, Present(req[r].post), "log")
    /\ UNCHANGED Database

\* The log row is inserted and the transaction commits: the status and the
\* log change together.  If the caller's account row is gone, the foreign
\* key of the log row fails and the UPDATE is rolled back.
CommitDecision(r) ==
    LET p == req[r].post
        u == req[r].user
    IN
    /\ req[r].pc = "log" /\ req[r].op = "moderate"
    /\ IF account[u] = "purged"
       THEN UNCHANGED <<post, log, approvedText>>
       ELSE /\ post' = [post EXCEPT ![p].status = req[r].action]
            /\ log' = [log EXCEPT ![p] = Append(@, Review(u, req[r].action))]
            /\ approvedText' = IF req[r].action = "approved"
                               THEN [approvedText EXCEPT ![p] = post[p].text]
                               ELSE approvedText
    /\ Answer(r)
    /\ UNCHANGED <<account, moderators>>

\* Defect: the revision not logged.
CommitRevision_NoLog(r) ==
    /\ req[r].pc = "log" /\ req[r].op = "revise"
    /\ post' = [post EXCEPT ![req[r].post].status = "pending_review"]
    /\ Answer(r)
    /\ UNCHANGED <<log, account, moderators, approvedText>>

CommitRevision(r) ==
    LET p == req[r].post
        u == req[r].user
    IN
    /\ req[r].pc = "log" /\ req[r].op = "revise"
    /\ IF account[u] = "purged"
       THEN UNCHANGED <<post, log>>
       ELSE /\ post' = [post EXCEPT ![p].status = "pending_review",
                                    ![p].text = req[r].text]
            /\ log' = [log EXCEPT ![p] = Append(@, Revision(u))]
    /\ Answer(r)
    /\ UNCHANGED <<account, moderators, approvedText>>

\* update: content columns only, the status is left as it is.
WriteContent(r) ==
    LET p == req[r].post IN
    /\ req[r].pc = "write" /\ req[r].op = "update"
    /\ ~Locked(p)
    /\ post' = IF Present(p) /\ req[r].text # None
               THEN [post EXCEPT ![p].text = req[r].text]
               ELSE post
    /\ Answer(r)
    /\ UNCHANGED <<log, account, moderators, approvedText>>

SoftDelete(r) ==
    LET p == req[r].post IN
    /\ req[r].pc = "write" /\ req[r].op = "erase"
    /\ ~Locked(p)
    /\ post' = IF Present(p) THEN [post EXCEPT ![p].deleted = TRUE] ELSE post
    /\ Answer(r)
    /\ UNCHANGED <<log, account, moderators, approvedText>>

\* hard_delete: the post and its log rows are loaded ...
LoadForPurge(r) ==
    LET p == req[r].post IN
    /\ req[r].pc = "load"
    /\ req' = [req EXCEPT ![r] = IF Present(p)
                                 THEN [@ EXCEPT !.pc = "purge", !.loaded = Len(log[p])]
                                 ELSE Idle]
    /\ UNCHANGED Database

\* Defects: the log rows left behind, deleted in a transaction of their own,
\* the delete retried without loading again.
PurgePost_KeepsLog(r) ==
    LET p == req[r].post IN
    /\ req[r].pc = "purge"
    /\ ~Locked(p)
    /\ post' = IF Present(p) THEN [post EXCEPT ![p].row = "purged"] ELSE post
    /\ Answer(r)
    /\ UNCHANGED <<log, account, moderators, approvedText>>

PurgePost_TwoCommits(r) ==
    LET p == req[r].post IN
    /\ req[r].pc = "purge"
    /\ ~Locked(p)
    /\ log' = [log EXCEPT ![p] = SubSeq(@, req[r].loaded + 1, Len(@))]
    /\ post' = IF Present(p) /\ log'[p] = <<>> THEN [post EXCEPT ![p].row = "purged"] ELSE post
    /\ Answer(r)
    /\ UNCHANGED <<account, moderators, approvedText>>

PurgePost_Retries(r) ==
    LET p == req[r].post IN
    /\ req[r].pc = "purge"
    /\ ~Locked(p)
    /\ Present(p) => Len(log[p]) = req[r].loaded
    /\ IF Present(p)
       THEN /\ post' = [post EXCEPT ![p].row = "purged"]
            /\ log' = [log EXCEPT ![p] = <<>>]
       ELSE UNCHANGED <<post, log>>
    /\ Answer(r)
    /\ UNCHANGED <<account, moderators, approvedText>>

\* ... then the loaded log rows and the post row are deleted.  A log row
\* committed in between still references the post: the foreign key fails and
\* the whole transaction is rolled back.
PurgePost(r) ==
    LET p == req[r].post IN
    /\ req[r].pc = "purge"
    /\ ~Locked(p)
    /\ IF Present(p) /\ Len(log[p]) = req[r].loaded
       THEN /\ post' = [post EXCEPT ![p].row = "purged"]
            /\ log' = [log EXCEPT ![p] = <<>>]
       ELSE UNCHANGED <<post, log>>
    /\ Answer(r)
    /\ UNCHANGED <<account, moderators, approvedText>>

\* The server process dies: open transactions are rolled back.
Crash ==
    /\ \E r \in Requests : req[r].pc # "idle"
    /\ req' = [r \in Requests |-> Idle]
    /\ UNCHANGED Database

-----------------------------------------------------------------------------
(* Changes of accounts that requests on posts can meet.  Their own reads   *)
(* and races are not modelled here: each is the transaction that commits.  *)

SetRole(u) ==
    /\ account[u] = "active"
    /\ moderators' = IF u \in moderators THEN moderators \ {u} ELSE moderators \cup {u}
    /\ UNCHANGED <<post, log, account, req, approvedText>>

SoftDeleteUser(u) ==
    /\ account[u] = "active"
    /\ account' = [account EXCEPT ![u] = "deleted"]
    /\ UNCHANGED <<post, log, moderators, req, approvedText>>

\* Rows of "post" and "post_moderation_log" that reference the account make
\* the DELETE fail with "User has dependent records".
Referenced(u) ==
    \E p \in Posts : /\ Present(p)
                     /\ post[p].owner = u \/ \E i \in DOMAIN log[p] : log[p][i].user = u

PurgeUser(u) ==
    /\ account[u] # "purged"
    /\ ~Referenced(u)
    /\ account' = [account EXCEPT ![u] = "purged"]
    /\ moderators' = moderators \ {u}
    /\ UNCHANGED <<post, log, req, approvedText>>

-----------------------------------------------------------------------------
Arrive(r)   == BeginCreate(r) \/ BeginModerate(r) \/ BeginRevise(r)
                \/ BeginUpdate(r) \/ BeginErase(r) \/ BeginEraseDb(r) \/ BeginGetLog(r)
Read(r)     == LookupUser(r) \/ ReadForModeration(r) \/ ReadForRevision(r)
                \/ ReadForUpdate(r) \/ ReadForErase(r) \/ LoadForPurge(r)
                \/ ReadForLog(r) \/ ShowLog(r)
TakeLock(r) == UpdateStatus(r) \/ WriteContent(r) \/ SoftDelete(r) \/ PurgePost(r)
Commit(r)   == InsertPost(r) \/ CommitDecision(r) \/ CommitRevision(r)
Accounts    == \E u \in Mutable : SetRole(u) \/ SoftDeleteUser(u) \/ PurgeUser(u)

\* A server without clients waits; one with an open request never may.
Quiet == (\A r \in Requests : req[r].pc = "idle") /\ UNCHANGED vars

Next == \/ \E r \in Requests : Arrive(r) \/ Read(r) \/ TakeLock(r) \/ Commit(r)
        \/ Accounts
        \/ Crash
        \/ Quiet

Spec == Init /\ [][Next]_vars

\* The event loop resumes every request whose awaited reply is there.  Row
\* locks are granted in the order they were asked for, so a request is not
\* overtaken for ever: strong fairness for the steps that wait for one.
Fairness == \A r \in Requests : WF_vars(Read(r) \/ Commit(r)) /\ SF_vars(TakeLock(r))

FairSpec == Spec /\ Fairness

-----------------------------------------------------------------------------
(* Properties                                                              *)

\* Type invariant.
TypeOK ==
    /\ post \in [Posts -> PostRow]
    /\ log \in [Posts -> Seq(LogRow)]
    /\ account \in [Users -> {"active", "deleted", "purged"}]
    /\ moderators \in SUBSET Users
    /\ req \in [Requests -> Request]
    /\ approvedText \in [Posts -> Texts \cup {None}]

\* The log explains the status: a post has the status its newest log row
\* gives it, pending_review if it has none.  Status and log are two tables
\* written by two statements; concurrent decisions and revisions, or a crash
\* in the middle of one, must not let them drift apart.
Implied(entry) == IF entry.event = "moderator_review" THEN entry.action ELSE "pending_review"
StatusOf(trail) == IF trail = <<>> THEN "pending_review" ELSE Implied(trail[Len(trail)])
LogExplainsStatus == \A p \in Posts : Present(p) => post[p].status = StatusOf(log[p])

\* Every log row is attributed to the right side: reviews to somebody other
\* than the author, with a verdict, revisions to the author, although the
\* ownership checks ran in an earlier transaction on an earlier copy of the row.
LogAttribution ==
    \A p \in Posts : \A i \in DOMAIN log[p] :
        IF log[p][i].event = "moderator_review"
        THEN log[p][i].user # post[p].owner /\ log[p][i].action \in Decisions
        ELSE log[p][i].user = post[p].owner /\ log[p][i].action = None

\* Referential integrity under hard deletes: a log row has its post and its
\* user, a post has its author, whatever was deleted while they were written.
NoOrphans ==
    \A p \in Posts :
        /\ log[p] # <<>> => Present(p)
        /\ Present(p) => account[post[p].owner] # "purged"
        /\ \A i \in DOMAIN log[p] : account[log[p][i].user] # "purged"

\* An author revises only what a moderator asked to be changed: a revision is
\* never the first word of a log, and one comes after a request for changes,
\* even if other requests changed the status between its check and its write.
RevisionWasAsked ==
    \A p \in Posts : \A i \in DOMAIN log[p] :
        log[p][i].event = "author_revision" =>
            \E j \in 1..(i - 1) : log[p][j].action = "changes_requested"

\* A log only grows, or goes as a whole with its post: a hard delete that
\* loaded the log rows before another decision was committed removes nothing.
LogGrowsOrGoes ==
    [][\A p \in Posts :
          \/ /\ Len(log'[p]) >= Len(log[p])
             /\ SubSeq(log'[p], 1, Len(log[p])) = log[p]
          \/ log'[p] = <<>> /\ post'[p].row = "purged"]_vars

\* No answer is lost: a request the server has taken up ends, however the
\* other requests queue for the row locks it needs.
RequestsAnswered == \A r \in Requests : req[r].pc # "idle" ~> req[r].pc = "idle"

\* The abstract workflow, read off the tables.
Workflow == INSTANCE PostWorkflow WITH
    state  <- [p \in Posts |-> IF Present(p) THEN post[p].status ELSE post[p].row],
    author <- [p \in Posts |-> post[p].owner],
    trail  <- log

\* Overlapping requests still implement the audit trail: each commit is one
\* abstract operation, everything else is invisible.
TrailRefinement == Workflow!TrailSpec

\* The documents' claim that an approved post takes no further decision: it
\* keeps its status until it is removed.
ApprovedIsTerminal ==
    [][\A p \in Posts :
          (Present(p) /\ post[p].status = "approved" /\ post'[p].row = "present") =>
              post'[p].status = "approved"]_vars

\* The documents' claim that what is published has been approved: a visible
\* approved post shows the text it had when it was approved.
PublishedTextWasApproved ==
    \A p \in Posts :
        (Present(p) /\ post[p].status = "approved" /\ ~post[p].deleted) =>
            post[p].text = approvedText[p]
=============================================================================
