------------------------------ MODULE Accounts ------------------------------
(***************************************************************************)
(* Accounts, tiers and rate limits: the endpoints of                       *)
(* src/api/src/app/features/{users,tiers,rate_limits} on the tables        *)
(* "user", "tier" and "rate_limit".                                        *)
(*                                                                         *)
(* As in Moderation a request is a chain of statements between any two of  *)
(* which another request can commit: the features of users and tiers open  *)
(* a session for each adapter call, the use cases of rate_limits and       *)
(* user_tier_patch use one session at READ COMMITTED.  All of them check   *)
(* first (is the name free, does the tier exist) and write later, so what  *)
(* holds in the end is what the constraints of the tables enforce when the *)
(* write commits.  A request goes through some of the phases               *)
(*                                                                         *)
(*   read -> email -> username -> tier -> limit -> write -> reload         *)
(*                                                                         *)
(* and ends with a status code, kept until the slot is used again.         *)
(* "reload" is the SELECT of the row a request has just committed.         *)
(*                                                                         *)
(* Abstractions: requests refused with 401, 403 of a dependency or 422     *)
(* take no step; of a row only the columns below are kept (no display      *)
(* name, password, path, limit or period: RequestGate has the last three); *)
(* the numbers of a request fit an INTEGER column, its text holds no NUL;  *)
(* posts do not reference accounts here (Moderation).                      *)
(***************************************************************************)
EXTENDS Naturals, FiniteSets

CONSTANTS UserIds, TierIds, LimitIds,  \* ids, handed out once each
          Names,                       \* usernames, names of tiers and of rate limits
          Emails, LongEmails,          \* those the schemas admit, those longer than the column
          Root, FirstTier,             \* ids of the rows the deployment scripts insert
          RootName, RootEmail,         \* ADMIN_USERNAME and ADMIN_EMAIL
          Requests,                    \* requests the server works on at once
          MaxStarts,                   \* bound: requests started
          None                         \* SQL NULL, a field left out

ASSUME SetupAssumption ==
    /\ Root \in UserIds /\ FirstTier \in TierIds
    /\ RootName \in Names /\ LongEmails \subseteq Emails /\ RootEmail \in Emails \ LongEmails
ASSUME NoneIsNothing == None \notin UserIds \cup TierIds \cup LimitIds \cup Names \cup Emails
ASSUME StartsAssumption == MaxStarts \in Nat

VARIABLES user, tier, limit,  \* the tables
          req,                \* the server's requests
          starts,             \* requests started so far
          raced               \* history: requests during which another one committed

vars   == <<user, tier, limit, req, starts, raced>>
tables == <<user, tier, limit>>

Rows   == {"unborn", "present", "gone"}
Phases == {"idle", "read", "email", "username", "tier", "limit", "write", "reload"}
Codes  == {0, 200, 201, 403, 404, 409, 500}
Ops    == {"create_user", "update_user", "delete_user", "delete_db_user", "assign_moderator",
           "revoke_moderator", "patch_user_tier", "get_user", "get_user_tier", "get_user_limits",
           "create_tier", "update_tier", "delete_tier", "get_tier",
           "post_limit", "patch_limit", "delete_limit", "get_limit", "get_limits"}

StoredEmails == Emails \ LongEmails
UserRow  == [row : Rows, username : Names \cup {None}, email : StoredEmails \cup {None},
             deleted : BOOLEAN, superuser : BOOLEAN, moderator : BOOLEAN,
             grantor : UserIds \cup {None}, tier : TierIds \cup {None}]
TierRow  == [row : Rows, name : Names \cup {None}]
LimitRow == [row : Rows, name : Names \cup {None}, tier : TierIds \cup {None}]

Request  == [pc : Phases, op : Ops,
             by : UserIds \cup {None},                       \* the authenticated caller
             id : UserIds \cup TierIds \cup LimitIds \cup {None},  \* the row asked for, or created
             name : Names \cup {None}, email : Emails \cup {None},
             tier : Names \cup TierIds \cup {None},          \* named by the request, then found
             rename : BOOLEAN,                               \* the username is to be checked
             code : Codes]

NoUser  == [row |-> "unborn", username |-> None, email |-> None, deleted |-> FALSE,
            superuser |-> FALSE, moderator |-> FALSE, grantor |-> None, tier |-> None]
NoTier  == [row |-> "unborn", name |-> None]
NoLimit == [row |-> "unborn", name |-> None, tier |-> None]
Free    == [pc |-> "idle", op |-> "get_user", by |-> None, id |-> None, name |-> None,
            email |-> None, tier |-> None, rename |-> FALSE, code |-> 0]

NewUser(n, e)  == [NoUser EXCEPT !.row = "present", !.username = n, !.email = e]
NewTier(n)     == [row |-> "present", name |-> n]

\* (Defect: the name stored for the id.)
NewLimit_ByName(n, t) == [row |-> "present", name |-> n, tier |-> n]
NewLimit(n, t)        == [row |-> "present", name |-> n, tier |-> t]

\* What the scripts create_first_superuser and create_first_tier insert.
RootRow      == [NewUser(RootName, RootEmail) EXCEPT !.superuser = TRUE]
FirstTierRow == NewTier(RootName)

There(t, i) == i # None /\ t[i].row = "present"
Active(i)   == There(user, i) /\ ~user[i].deleted
Unborn(t)   == {i \in DOMAIN t : t[i].row = "unborn"}
Named(t, n) == {i \in DOMAIN t : t[i].row = "present" /\ t[i].name = n}

Init == /\ user  = [[i \in UserIds |-> NoUser] EXCEPT ![Root] = RootRow]
        /\ tier  = [[i \in TierIds |-> NoTier] EXCEPT ![FirstTier] = FirstTierRow]
        /\ limit = [i \in LimitIds |-> NoLimit]
        /\ req = [r \in Requests |-> Free]
        /\ starts = 0
        /\ raced = {}

-----------------------------------------------------------------------------
(* How requests move on and end.                                           *)

Goto(r, phase)  == req' = [req EXCEPT ![r].pc = phase]
Answer(r, code) == req' = [req EXCEPT ![r] = [Free EXCEPT !.op = req[r].op, !.code = code]]

\* Go on if a check passes, answer with an error if not.
Check(r, passed, code, phase) == IF passed THEN Goto(r, phase) ELSE Answer(r, code)

At(r, op, phase) == req[r].op = op /\ req[r].pc = phase
Reads    == UNCHANGED <<tables, starts, raced>>
Running  == {r \in Requests : req[r].pc # "idle"}
Commits(r) == raced' = raced \cup (Running \ {r}) /\ UNCHANGED starts
Fails(r, code) == Answer(r, code) /\ Reads

Begin(r, op, by, id, n, e, t, phase) ==
    /\ req[r].pc = "idle"
    /\ starts < MaxStarts
    /\ starts' = starts + 1
    /\ req' = [req EXCEPT ![r] = [pc |-> phase, op |-> op, by |-> by, id |-> id, name |-> n,
                                  email |-> e, tier |-> t, rename |-> n # None, code |-> 0]]
    /\ raced' = raced \ {r}
    /\ UNCHANGED tables

Superusers == {i \in UserIds : Active(i) /\ user[i].superuser}
Opt(S)     == S \cup {None}

\* Bound: a request that inserts a row is started only if an id is left for it.
Room(t, op) == Cardinality(Unborn(t)) > Cardinality({r \in Running : req[r].op = op})

BeginCreateUser(r) == Room(user, "create_user") /\ \E n \in Names, e \in Emails :
    Begin(r, "create_user", None, None, n, e, None, "email")
BeginUpdateUser(r) == \E u, i \in UserIds, n \in Opt(Names), e \in Opt(Emails) :
    Active(u) /\ Begin(r, "update_user", u, i, n, e, None, "read")
BeginDeleteUser(r) == \E u, i \in UserIds :
    Active(u) /\ Begin(r, "delete_user", u, i, None, None, None, "read")
BeginDeleteDbUser(r) == \E u \in Superusers, i \in UserIds :
    Begin(r, "delete_db_user", u, i, None, None, None, "read")
BeginAssign(r) == \E u \in Superusers, i \in UserIds :
    Begin(r, "assign_moderator", u, i, None, None, None, "read")
BeginRevoke(r) == \E u \in Superusers, i \in UserIds :
    Begin(r, "revoke_moderator", u, i, None, None, None, "read")
BeginPatchUserTier(r) == \E u \in Superusers, i \in UserIds, t \in TierIds :
    Begin(r, "patch_user_tier", u, i, None, None, t, "read")
BeginGetUser(r) == \E i \in UserIds : Begin(r, "get_user", None, i, None, None, None, "read")
BeginGetUserTier(r) == \E i \in UserIds : Begin(r, "get_user_tier", None, i, None, None, None, "read")
BeginGetUserLimits(r) == \E u \in Superusers, i \in UserIds :
    Begin(r, "get_user_limits", u, i, None, None, None, "read")
BeginCreateTier(r) == Room(tier, "create_tier") /\ \E u \in Superusers, n \in Names :
    Begin(r, "create_tier", u, None, n, None, None, "write")
BeginUpdateTier(r) == \E u \in Superusers, i \in TierIds, n \in Names :
    Begin(r, "update_tier", u, i, n, None, None, "read")
BeginDeleteTier(r) == \E u \in Superusers, i \in TierIds :
    Begin(r, "delete_tier", u, i, None, None, None, "read")
BeginGetTier(r) == \E i \in TierIds : Begin(r, "get_tier", None, i, None, None, None, "read")
BeginLimit(r) ==
    \/ Room(limit, "post_limit") /\ \E u \in Superusers, t \in Names, n \in Opt(Names) :
          Begin(r, "post_limit", u, None, n, None, t, "tier")
    \/ \E u \in Superusers, t \in Names, i \in LimitIds, n \in Opt(Names) :
          Begin(r, "patch_limit", u, i, n, None, t, "tier")
    \/ \E u \in Superusers, t \in Names, i \in LimitIds :
          Begin(r, "delete_limit", u, i, None, None, t, "tier")
    \/ \E t \in Names, i \in LimitIds : Begin(r, "get_limit", None, i, None, None, t, "tier")
    \/ \E t \in Names : Begin(r, "get_limits", None, None, None, None, t, "tier")

-----------------------------------------------------------------------------
(* Users.                                                                  *)

EmailTaken(e)    == \E i \in UserIds : There(user, i) /\ user[i].email = e
UsernameTaken(n) == \E i \in UserIds : There(user, i) /\ user[i].username = n

\* The unique columns username and email, over every row, deleted or not.
\* (Defect: an index over the rows not deleted.)
Clash_ActiveRows(i, n, e) ==
    \E j \in UserIds \ {i} : Active(j) /\ (user[j].username = n \/ user[j].email = e)
Clash(i, n, e) ==
    \E j \in UserIds \ {i} : There(user, j) /\ (user[j].username = n \/ user[j].email = e)

\* Foreign keys to "user": accounts that other accounts' roles were granted by.
\* (Defect: the column without its foreign key.)
IsGrantor_No(i) == FALSE
IsGrantor(i) == \E j \in UserIds \ {i} : There(user, j) /\ user[j].grantor = i

\* An account is changed by nobody but its owner.
OwnAccount(q) == Active(q.id) /\ q.by = q.id

ReadForUpdate(r) ==
    LET q == req[r]
        newEmail == q.email # None /\ q.email # user[q.id].email
        newName  == q.name # None /\ q.name # user[q.id].username
    IN
    /\ At(r, "update_user", "read")
    /\ \/ ~Active(q.id) /\ Answer(r, 404)
       \/ Active(q.id) /\ q.by # q.id /\ Answer(r, 403)
       \/ /\ OwnAccount(q)
          /\ req' = [req EXCEPT ![r].rename = newName,
                                ![r].pc = IF newEmail THEN "email"
                                          ELSE IF newName THEN "username" ELSE "write"]
    /\ Reads

CheckEmail_Skipped(r) ==
    /\ req[r].pc = "email"
    /\ Goto(r, IF req[r].rename THEN "username" ELSE "write")
    /\ Reads
CheckEmail(r) ==
    /\ req[r].pc = "email"
    /\ Check(r, ~EmailTaken(req[r].email), 409, IF req[r].rename THEN "username" ELSE "write")
    /\ Reads

CheckUsername(r) ==
    /\ req[r].pc = "username"
    /\ Check(r, ~UsernameTaken(req[r].name), 409, "write")
    /\ Reads

\* Neither schema caps the e-mail, the column does: a longer one is an error
\* of the statement that no adapter translates.
TooLong(r) == req[r].email \in LongEmails

InsertUser(r) ==
    LET q == req[r] IN
    /\ At(r, "create_user", "write")
    /\ \/ TooLong(r) /\ Fails(r, 500)
       \/ ~TooLong(r) /\ Clash(None, q.name, q.email) /\ Fails(r, 409)
       \/ /\ ~TooLong(r) /\ ~Clash(None, q.name, q.email)
          /\ \E i \in Unborn(user) :
                /\ user' = [user EXCEPT ![i] = NewUser(q.name, q.email)]
                /\ req' = [req EXCEPT ![r].pc = "reload", ![r].id = i]
          /\ Commits(r) /\ UNCHANGED <<tier, limit>>

\* The UPDATE names the row by its id alone and succeeds on no row (whether the
\* length is looked at then depends on the plan); a unique column fails in it,
\* before the try that would translate the failure.
UpdateUser(r) ==
    LET q == req[r]
        n == IF q.name = None THEN user[q.id].username ELSE q.name
        e == IF q.email = None THEN user[q.id].email ELSE q.email
    IN
    /\ At(r, "update_user", "write")
    /\ \/ ~There(user, q.id) /\ Fails(r, 200)
       \/ TooLong(r) /\ Fails(r, 500)
       \/ There(user, q.id) /\ Clash(q.id, n, e) /\ Fails(r, 500)
       \/ /\ There(user, q.id) /\ ~TooLong(r) /\ ~Clash(q.id, n, e)
          /\ user' = [user EXCEPT ![q.id].username = n, ![q.id].email = e]
          /\ Answer(r, 200) /\ Commits(r) /\ UNCHANGED <<tier, limit>>

ReadForDelete(r) ==
    LET q == req[r] IN
    /\ At(r, "delete_user", "read")
    /\ \/ ~Active(q.id) /\ Answer(r, 404)
       \/ Active(q.id) /\ q.by # q.id /\ Answer(r, 403)
       \/ Active(q.id) /\ q.by = q.id /\ Goto(r, "write")
    /\ Reads

\* Blacklisting the caller's token, which follows, is in AuthTokens.
SoftDelete(r) ==
    /\ At(r, "delete_user", "write")
    /\ \/ ~There(user, req[r].id) /\ Fails(r, 200)
       \/ /\ There(user, req[r].id)
          /\ user' = [user EXCEPT ![req[r].id].deleted = TRUE]
          /\ Answer(r, 200) /\ Commits(r) /\ UNCHANGED <<tier, limit>>

ReadForPurge(r) ==
    /\ At(r, "delete_db_user", "read")
    /\ Check(r, There(user, req[r].id), 404, "write")
    /\ Reads

PurgeUser(r) ==
    LET i == req[r].id IN
    /\ At(r, "delete_db_user", "write")
    /\ \/ ~There(user, i) /\ Fails(r, 200)
       \/ There(user, i) /\ IsGrantor(i) /\ Fails(r, 409)
       \/ /\ There(user, i) /\ ~IsGrantor(i)
          /\ user' = [user EXCEPT ![i] = [NoUser EXCEPT !.row = "gone"]]
          /\ Answer(r, 200) /\ Commits(r) /\ UNCHANGED <<tier, limit>>

\* The accounts that can be made moderator, and those that can cease to be.
Candidate(i) == Active(i) /\ ~user[i].moderator
Serving(i)   == Active(i) /\ user[i].moderator

ReadForAssign(r) ==
    LET i == req[r].id IN
    /\ At(r, "assign_moderator", "read")
    /\ \/ ~Active(i) /\ Answer(r, 404)
       \/ Active(i) /\ ~Candidate(i) /\ Answer(r, 409)
       \/ Candidate(i) /\ Goto(r, "write")
    /\ Reads

ReadForRevoke(r) ==
    LET i == req[r].id IN
    /\ At(r, "revoke_moderator", "read")
    /\ \/ ~Active(i) /\ Answer(r, 404)
       \/ Active(i) /\ ~Serving(i) /\ Answer(r, 409)
       \/ Serving(i) /\ Goto(r, "write")
    /\ Reads

\* assign: the grantor is a foreign key.  On no row the UPDATE succeeds and
\* the SELECT that follows fails.
Assign(r) ==
    LET q == req[r] IN
    /\ At(r, "assign_moderator", "write")
    /\ \/ ~There(user, q.id) /\ Goto(r, "reload") /\ Reads
       \/ There(user, q.id) /\ ~There(user, q.by) /\ Fails(r, 500)
       \/ /\ There(user, q.id) /\ There(user, q.by)
          /\ user' = [user EXCEPT ![q.id].moderator = TRUE, ![q.id].grantor = q.by]
          /\ Goto(r, "reload") /\ Commits(r) /\ UNCHANGED <<tier, limit>>

\* (Defect: the grantor left in place.)
Revoked_KeepsGrantor(row) == [row EXCEPT !.moderator = FALSE]
Revoked(row) == [row EXCEPT !.moderator = FALSE, !.grantor = None]
Revoke(r) ==
    LET i == req[r].id IN
    /\ At(r, "revoke_moderator", "write")
    /\ Goto(r, "reload")
    /\ \/ ~There(user, i) /\ Reads
       \/ /\ There(user, i)
          /\ user' = [user EXCEPT ![i] = Revoked(@)]
          /\ Commits(r) /\ UNCHANGED <<tier, limit>>

\* user_tier_patch: the user, deleted or not, then the tier, then the UPDATE.
ReadForPlace(r) ==
    /\ At(r, "patch_user_tier", "read")
    /\ Check(r, There(user, req[r].id), 404, "tier")
    /\ Reads
FindTier(r) ==
    /\ At(r, "patch_user_tier", "tier")
    /\ Check(r, There(tier, req[r].tier), 404, "write")
    /\ Reads
\* FastCRUD either refuses to write a row that is not there or writes none.
Place(r) ==
    LET q == req[r] IN
    /\ At(r, "patch_user_tier", "write")
    /\ \/ ~There(user, q.id) /\ \E c \in {200, 500} : Fails(r, c)
       \/ There(user, q.id) /\ ~There(tier, q.tier) /\ Fails(r, 500)
       \/ /\ There(user, q.id) /\ There(tier, q.tier)
          /\ user' = [user EXCEPT ![q.id].tier = q.tier]
          /\ Answer(r, 200) /\ Commits(r) /\ UNCHANGED <<tier, limit>>

\* The SELECT after the commit: of the row inserted or updated by request r.
Reload(r) ==
    LET q == req[r]
        found == CASE q.op = "create_tier" -> There(tier, q.id)
                   [] q.op = "post_limit"  -> There(limit, q.id)
                   [] OTHER                -> There(user, q.id)
    IN
    /\ q.pc = "reload"
    /\ Answer(r, IF ~found THEN IF q.op = "post_limit" THEN 404 ELSE 500
                 ELSE IF q.op \in {"create_user", "create_tier", "post_limit"} THEN 201 ELSE 200)
    /\ Reads

GetUser(r) ==
    /\ At(r, "get_user", "read")
    /\ Answer(r, IF Active(req[r].id) THEN 200 ELSE 404)
    /\ Reads

\* get_user_tier and user_rate_limits_get: the user, then its tier.
ReadUserTier(r) ==
    LET q == req[r]
        found == IF q.op = "get_user_tier" THEN Active(q.id) ELSE There(user, q.id)
    IN
    /\ q.op \in {"get_user_tier", "get_user_limits"} /\ q.pc = "read"
    /\ \/ ~found /\ Answer(r, 404)
       \/ found /\ user[q.id].tier = None /\ Answer(r, 200)
       \/ /\ found /\ user[q.id].tier # None
          /\ req' = [req EXCEPT ![r].pc = "tier", ![r].tier = user[q.id].tier]
    /\ Reads
ReadTierOf(r) ==
    /\ At(r, "get_user_tier", "tier")
    /\ Answer(r, IF There(tier, req[r].tier) THEN 200 ELSE 404)
    /\ Reads
ReadLimitsOf(r) ==
    /\ req[r].op = "get_user_limits"
    /\ \/ req[r].pc = "tier" /\ Check(r, There(tier, req[r].tier), 404, "limit")
       \/ req[r].pc = "limit" /\ Answer(r, 200)
    /\ Reads

-----------------------------------------------------------------------------
(* Tiers.                                                                  *)

\* Foreign keys to "tier".  (Defect: that of "rate_limit" forgotten.)
TierInUse_ByUsers(t) == \E i \in UserIds : There(user, i) /\ user[i].tier = t
TierInUse(t) == \/ \E i \in UserIds : There(user, i) /\ user[i].tier = t
                \/ \E l \in LimitIds : There(limit, l) /\ limit[l].tier = t

InsertTier(r) ==
    LET n == req[r].name IN
    /\ At(r, "create_tier", "write")
    /\ \/ Named(tier, n) # {} /\ Fails(r, 409)
       \/ /\ Named(tier, n) = {}
          /\ \E t \in Unborn(tier) : /\ tier' = [tier EXCEPT ![t] = NewTier(n)]
                                     /\ req' = [req EXCEPT ![r].pc = "reload", ![r].id = t]
          /\ Commits(r) /\ UNCHANGED <<user, limit>>

\* The use cases of update_tier and delete_tier: 404 if the tier is not there.
ReadForTierUpdate(r) ==
    /\ At(r, "update_tier", "read")
    /\ Check(r, There(tier, req[r].id), 404, "write")
    /\ Reads
ReadForTierDelete(r) ==
    /\ At(r, "delete_tier", "read")
    /\ Check(r, There(tier, req[r].id), 404, "write")
    /\ Reads

RenameTier(r) ==
    LET q == req[r] IN
    /\ At(r, "update_tier", "write")
    /\ \/ ~There(tier, q.id) /\ Fails(r, 200)
       \/ There(tier, q.id) /\ Named(tier, q.name) \ {q.id} # {} /\ Fails(r, 409)
       \/ /\ There(tier, q.id) /\ Named(tier, q.name) \subseteq {q.id}
          /\ tier' = [tier EXCEPT ![q.id].name = q.name]
          /\ Answer(r, 200) /\ Commits(r) /\ UNCHANGED <<user, limit>>

\* A tier in use fails the foreign keys, and nothing translates the failure.
DeleteTier(r) ==
    LET t == req[r].id IN
    /\ At(r, "delete_tier", "write")
    /\ \/ ~There(tier, t) /\ Fails(r, 200)
       \/ There(tier, t) /\ TierInUse(t) /\ Fails(r, 500)
       \/ /\ There(tier, t) /\ ~TierInUse(t)
          /\ tier' = [tier EXCEPT ![t] = [row |-> "gone", name |-> None]]
          /\ Answer(r, 200) /\ Commits(r) /\ UNCHANGED <<user, limit>>

GetTier(r) ==
    /\ At(r, "get_tier", "read")
    /\ Answer(r, IF There(tier, req[r].id) THEN 200 ELSE 404)
    /\ Reads

-----------------------------------------------------------------------------
(* Rate limits, addressed by the name of their tier and their id.          *)

LimitOps == {"post_limit", "patch_limit", "delete_limit", "get_limit", "get_limits"}

FindTierByName(r) ==
    /\ req[r].op \in LimitOps /\ req[r].pc = "tier"
    /\ \/ Named(tier, req[r].tier) = {} /\ Answer(r, 404)
       \/ \E t \in Named(tier, req[r].tier) :
             req' = [req EXCEPT ![r].tier = t, ![r].pc = "limit"]
    /\ Reads

LimitNameTaken(n) == Named(limit, n) # {}
CheckLimitName(r) ==
    /\ At(r, "post_limit", "limit")
    /\ Check(r, ~LimitNameTaken(req[r].name), 409, "write")
    /\ Reads

FindLimit(r) ==
    LET q == req[r]
        found == There(limit, q.id) /\ limit[q.id].tier = q.tier
    IN
    /\ q.op \in {"patch_limit", "delete_limit"} /\ q.pc = "limit"
    /\ Check(r, found, 404, "write")
    /\ Reads
GetLimit(r) ==
    LET q == req[r]
        found == There(limit, q.id) /\ limit[q.id].tier = q.tier
    IN
    /\ At(r, "get_limit", "limit")
    /\ Answer(r, IF found THEN 200 ELSE 404)
    /\ Reads

\* A page of them, also when there are none, or no tier any more.
GetLimits(r) == At(r, "get_limits", "limit") /\ Answer(r, 200) /\ Reads

\* The name may be left out and is NOT NULL: the INSERT fails.
InsertLimit(r) ==
    LET q == req[r]
        legal == q.name # None /\ ~LimitNameTaken(q.name) /\ There(tier, q.tier)
    IN
    /\ At(r, "post_limit", "write")
    /\ \/ ~legal /\ Fails(r, 500)
       \/ /\ legal
          /\ \E l \in Unborn(limit) :
                /\ limit' = [limit EXCEPT ![l] = NewLimit(q.name, q.tier)]
                /\ req' = [req EXCEPT ![r].pc = "reload", ![r].id = l]
          /\ Commits(r) /\ UNCHANGED <<user, tier>>

\* The new name is not looked up first.
UpdateLimit(r) ==
    LET q == req[r]
        taken == q.name # None /\ Named(limit, q.name) \ {q.id} # {}
    IN
    /\ At(r, "patch_limit", "write")
    /\ \/ ~There(limit, q.id) /\ \E c \in {200, 500} : Fails(r, c)
       \/ There(limit, q.id) /\ taken /\ Fails(r, 500)
       \/ /\ There(limit, q.id) /\ ~taken
          /\ limit' = [limit EXCEPT ![q.id].name = IF q.name = None THEN @ ELSE q.name]
          /\ Answer(r, 200) /\ Commits(r) /\ UNCHANGED <<user, tier>>

DeleteLimit(r) ==
    LET l == req[r].id IN
    /\ At(r, "delete_limit", "write")
    /\ \/ ~There(limit, l) /\ \E c \in {200, 500} : Fails(r, c)
       \/ /\ There(limit, l)
          /\ limit' = [limit EXCEPT ![l] = [NoLimit EXCEPT !.row = "gone"]]
          /\ Answer(r, 200) /\ Commits(r) /\ UNCHANGED <<user, tier>>

-----------------------------------------------------------------------------
\* The script make_all_users_superusers, run by an operator at any time.
MakeAllSuperusers ==
    /\ user' = [i \in UserIds |-> IF There(user, i) THEN [user[i] EXCEPT !.superuser = TRUE] ELSE user[i]]
    /\ user' # user
    /\ raced' = Running
    /\ UNCHANGED <<tier, limit, req, starts>>

Arrive(r) == \/ BeginCreateUser(r) \/ BeginUpdateUser(r) \/ BeginDeleteUser(r) \/ BeginDeleteDbUser(r)
             \/ BeginAssign(r) \/ BeginRevoke(r) \/ BeginPatchUserTier(r) \/ BeginGetUser(r)
             \/ BeginGetUserTier(r) \/ BeginGetUserLimits(r) \/ BeginCreateTier(r)
             \/ BeginUpdateTier(r) \/ BeginDeleteTier(r) \/ BeginGetTier(r) \/ BeginLimit(r)

Look(r) == \/ ReadForUpdate(r) \/ CheckEmail(r) \/ CheckUsername(r) \/ ReadForDelete(r)
           \/ ReadForPurge(r) \/ ReadForAssign(r) \/ ReadForRevoke(r) \/ ReadForPlace(r)
           \/ FindTier(r) \/ Reload(r) \/ GetUser(r) \/ ReadUserTier(r) \/ ReadTierOf(r)
           \/ ReadLimitsOf(r) \/ ReadForTierUpdate(r) \/ ReadForTierDelete(r) \/ GetTier(r)
           \/ FindTierByName(r) \/ CheckLimitName(r) \/ FindLimit(r) \/ GetLimit(r)
           \/ GetLimits(r)

Write(r) == \/ InsertUser(r) \/ UpdateUser(r) \/ SoftDelete(r) \/ PurgeUser(r) \/ Assign(r)
            \/ Revoke(r) \/ Place(r) \/ InsertTier(r) \/ RenameTier(r) \/ DeleteTier(r)
            \/ InsertLimit(r) \/ UpdateLimit(r) \/ DeleteLimit(r)

\* The instance has used its requests up and the server waits.
Quiet == Running = {} /\ UNCHANGED vars

Next == (\E r \in Requests : Arrive(r) \/ Look(r) \/ Write(r)) \/ MakeAllSuperusers \/ Quiet

Spec == Init /\ [][Next]_vars

-----------------------------------------------------------------------------
(* Properties                                                              *)

\* Type invariant.
TypeOK ==
    /\ user \in [UserIds -> UserRow]
    /\ tier \in [TierIds -> TierRow]
    /\ limit \in [LimitIds -> LimitRow]
    /\ req \in [Requests -> Request]
    /\ starts \in 0..MaxStarts
    /\ raced \subseteq Requests

\* No two accounts, deleted ones included, share a username or an e-mail, no
\* two tiers or rate limits a name: the checks of the use cases run in earlier
\* transactions, two registrations or renames can both pass them.
Unique(t) == \A i, j \in DOMAIN t :
    (i # j /\ There(t, i) /\ There(t, j)) => t[i].name # t[j].name
UniqueNames ==
    /\ \A i, j \in UserIds : (i # j /\ There(user, i) /\ There(user, j)) =>
          user[i].username # user[j].username /\ user[i].email # user[j].email
    /\ Unique(tier) /\ Unique(limit)

\* An account's tier and a rate limit's tier exist, although both are looked
\* up before the statement that references them and tiers can be deleted in
\* between.
TiersExist ==
    /\ \A i \in UserIds : (There(user, i) /\ user[i].tier # None) => There(tier, user[i].tier)
    /\ \A l \in LimitIds : There(limit, l) => There(tier, limit[l].tier)

\* Nobody moderates without a superuser who granted it: the flag and the
\* grantor are set and cleared together, and the grantor's row, a superuser's,
\* cannot be removed while the role lasts, however grants, revocations and
\* hard deletes overlap.
ModeratorsAreGranted ==
    \A i \in UserIds : There(user, i) =>
        /\ user[i].moderator <=> user[i].grantor # None
        /\ user[i].moderator => There(user, user[i].grantor) /\ user[user[i].grantor].superuser

\* What the code leaves to the tables to refuse, alone or not.  As an error
\* nobody translates: an e-mail longer than the column, a rate limit without a
\* name or renamed to a name in use, the deletion of a tier in use.
UntranslatedRefusal(r) ==
    LET q == req[r] IN
    \/ q.op \in {"create_user", "update_user"} /\ TooLong(r)
    \/ q.op = "post_limit" /\ q.name = None
    \/ q.op = "patch_limit" /\ Named(limit, q.name) \ {q.id} # {}
    \/ q.op = "delete_tier" /\ TierInUse(q.id)
\* As a 409: a tier's name in use, the hard deletion of an account that others'
\* roles were granted by.
TranslatedRefusal(r) ==
    LET q == req[r] IN
    \/ q.op = "create_tier" /\ Named(tier, q.name) # {}
    \/ q.op = "update_tier" /\ Named(tier, q.name) \ {q.id} # {}
    \/ q.op = "delete_db_user" /\ IsGrantor(q.id)

\* The checks before the writes are enough for a request that no other commit
\* overlaps, but for what they leave to the tables: such a request is answered
\* 500, or 409 at its write, only for a reason listed above, and is not told
\* that the tier whose id it has just read from an account does not exist.
Ends(r) == req[r].pc # "idle" /\ req'[r].pc = "idle"
OnlyRacesSurprise ==
    [][\A r \in Requests : Ends(r) =>
          /\ req'[r].code = 500 => r \in raced \/ UntranslatedRefusal(r)
          /\ (req'[r].code = 409 /\ req[r].pc = "write") => r \in raced \/ TranslatedRefusal(r)
          /\ (req'[r].code = 404 /\ req[r].pc = "tier" /\ req[r].op \in {"get_user_tier", "get_user_limits"})
                => r \in raced
      ]_vars

\* Whatever overlaps, what happens to the tables is a sequence of the single
\* operations the registry promises.
Abstract == INSTANCE Registry WITH Emails <- StoredEmails
RegistryRefinement == Abstract!Spec
=============================================================================
