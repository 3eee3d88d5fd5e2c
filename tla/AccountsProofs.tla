--------------------------- MODULE AccountsProofs ---------------------------
(***************************************************************************)
(* Theorems about Accounts, for any sets of ids, names, e-mails and        *)
(* requests, and any number of requests.                                   *)
(*                                                                         *)
(* What the tables promise is inductive only together with what is still   *)
(* true of a request's copy when it writes: ids and names of its body are  *)
(* of their kind, and the caller of a grant, a superuser when it arrived,  *)
(* is one still unless the account is gone (Grants).  For a request that   *)
(* nobody overlapped all it has looked up is true still (Alone).           *)
(***************************************************************************)
EXTENDS Accounts, TLAPS

UserOps  == {"update_user", "delete_user", "delete_db_user", "assign_moderator", "revoke_moderator",
             "patch_user_tier", "get_user", "get_user_tier", "get_user_limits"}

\* What a request's fields hold while it runs.
ReqOK(q) == q.pc # "idle" =>
    /\ q.pc \in {"email", "username"} => q.op \in {"create_user", "update_user"}
    /\ q.op \in UserOps => q.id \in UserIds
    /\ q.op \in {"update_tier", "delete_tier", "get_tier"} => q.id \in TierIds
    /\ q.op \in {"patch_limit", "delete_limit", "get_limit"} => q.id \in LimitIds
    /\ q.op \in {"create_user", "create_tier", "update_tier"} => q.name \in Names
    /\ q.op = "create_user" => q.email \in Emails
    /\ q.op = "patch_user_tier" => q.tier \in TierIds
    /\ q.op \in LimitOps /\ q.pc \in {"limit", "write"} => q.tier \in TierIds

\* The caller of a grant was a superuser, and is one as long as it exists.
GrantOK(q) == (q.pc # "idle" /\ q.op = "assign_moderator") =>
    /\ q.by \in UserIds
    /\ user[q.by].row # "unborn"
    /\ There(user, q.by) => user[q.by].superuser

\* An account has a username and an e-mail that fits its column.
Filled == \A i \in UserIds : There(user, i) => user[i].username \in Names /\ user[i].email \in StoredEmails

TablesOK == /\ user \in [UserIds -> UserRow]
            /\ tier \in [TierIds -> TierRow]
            /\ limit \in [LimitIds -> LimitRow]
            /\ Filled /\ UniqueNames /\ TiersExist /\ ModeratorsAreGranted

RequestsOK == /\ req \in [Requests -> Request]
              /\ \A r \in Requests : ReqOK(req[r]) /\ GrantOK(req[r])

\* The inductive invariant.
IInv == TablesOK /\ RequestsOK /\ starts \in 0..MaxStarts /\ raced \subseteq Requests

LEMMA InvImplies ==
    IInv => TypeOK /\ UniqueNames /\ TiersExist /\ ModeratorsAreGranted
  BY DEF IInv, TablesOK, RequestsOK, TypeOK

\* The rows the scripts insert satisfy it.
LEMMA InitInv == Init => IInv
  <1> SUFFICES ASSUME Init PROVE IInv
    OBVIOUS
  <1> USE SetupAssumption, NoneIsNothing, StartsAssumption
          DEF Init, NoUser, NoTier, NoLimit, RootRow, FirstTierRow, NewUser, NewTier, StoredEmails
  <1>1. /\ user \in [UserIds -> UserRow]
        /\ tier \in [TierIds -> TierRow]
        /\ limit \in [LimitIds -> LimitRow]
    BY DEF UserRow, TierRow, LimitRow, Rows
  <1>2. Filled /\ UniqueNames /\ TiersExist /\ ModeratorsAreGranted
    BY DEF Filled, UniqueNames, Unique, TiersExist, ModeratorsAreGranted, There
  <1>3. RequestsOK
    BY DEF RequestsOK, ReqOK, GrantOK, Free, Request, Phases, Ops, Codes
  <1>4. starts \in 0..MaxStarts /\ raced \subseteq Requests
    OBVIOUS
  <1> QED
    BY <1>1, <1>2, <1>3, <1>4 DEF IInv, TablesOK

-----------------------------------------------------------------------------
(* Requests.                                                               *)

\* Request r, and no other, has ended, or goes on as the same request.
Moved(r) == /\ req' \in [Requests -> Request]
            /\ \A s \in Requests \ {r} : req'[s] = req[s]
            /\ ReqOK(req'[r])
            /\ \/ req'[r].pc = "idle"
               \/ req[r].pc # "idle" /\ req'[r].op = req[r].op /\ req'[r].by = req[r].by

\* No row is born again, no superuser ceases to be one.
Kept == \A i \in UserIds : user[i].row # "unborn" =>
            /\ user'[i].row # "unborn"
            /\ There(user', i) => There(user, i) /\ (user[i].superuser => user'[i].superuser)

LEMMA GrantKept ==
    ASSUME IInv, Kept, NEW q, GrantOK(q)
    PROVE  (q.pc # "idle" /\ q.op = "assign_moderator") =>
              /\ q.by \in UserIds
              /\ user'[q.by].row # "unborn"
              /\ There(user', q.by) => user'[q.by].superuser
  BY DEF Kept, GrantOK

\* A step of one request that leaves the tables in order.
LEMMA Assemble ==
    ASSUME IInv, NEW r \in Requests, Moved(r), Kept, TablesOK',
           starts' = starts, raced' \subseteq Requests
    PROVE  IInv'
  <1>1. ASSUME NEW s \in Requests PROVE ReqOK(req'[s])
    BY DEF Moved, IInv, RequestsOK
  <1>2. ASSUME NEW s \in Requests PROVE GrantOK(req[s])'
    <2>1. GrantOK(req[s])
      BY DEF IInv, RequestsOK
    <2>2. req'[s].pc = "idle" \/ (req[s].pc # "idle" /\ req'[s].op = req[s].op /\ req'[s].by = req[s].by)
      BY DEF Moved
    <2> QED
      BY <2>1, <2>2, GrantKept DEF GrantOK
  <1> QED
    BY <1>1, <1>2 DEF IInv, RequestsOK, Moved, ReqOK

\* An answered request is idle.
LEMMA Answered == ASSUME IInv, NEW r \in Requests, NEW c \in Codes, Answer(r, c) PROVE Moved(r)
  <1> DEFINE q == [Free EXCEPT !.op = req[r].op, !.code = c]
  <1>1. q \in Request /\ q.pc = "idle"
    BY DEF Free, Request, Phases, IInv, RequestsOK
  <1>2. req' = [req EXCEPT ![r] = q]
    BY DEF Answer
  <1> QED
    BY <1>1, <1>2 DEF Moved, ReqOK, IInv, RequestsOK

\* A running request that goes on: its phase, and what it has found, change.
LEMMA GoesOn ==
    ASSUME IInv, NEW r \in Requests, req[r].pc # "idle",
           NEW q \in Request, ReqOK(q), q.op = req[r].op, q.by = req[r].by,
           req' = [req EXCEPT ![r] = q]
    PROVE  Moved(r)
  BY DEF Moved, IInv, RequestsOK

LEMMA WentTo ==
    ASSUME IInv, NEW r \in Requests, req[r].pc # "idle", NEW phase \in Phases, Goto(r, phase),
           phase \in {"email", "username"} => req[r].op \in {"create_user", "update_user"},
           (req[r].op \in LimitOps /\ phase \in {"limit", "write"}) => req[r].tier \in TierIds
    PROVE  Moved(r)
  <1> DEFINE q == [req[r] EXCEPT !.pc = phase]
  <1>1. req[r] \in Request /\ ReqOK(req[r])
    BY DEF IInv, RequestsOK
  <1>2. q \in Request /\ q.op = req[r].op /\ q.by = req[r].by
    BY <1>1 DEF Request
  <1>3. ReqOK(q)
    BY <1>1 DEF ReqOK, Request
  <1>4. req' = [req EXCEPT ![r] = q]
    BY DEF Goto
  <1> QED
    BY <1>2, <1>3, <1>4, GoesOn

\* A step that leaves the tables alone.
LEMMA Unwritten ==
    ASSUME IInv, UNCHANGED tables
    PROVE  TablesOK' /\ Kept
  BY DEF tables, IInv, TablesOK, Filled, UniqueNames, Unique, TiersExist, ModeratorsAreGranted,
     Kept, There

LEMMA ReadOnly == ASSUME IInv, NEW r \in Requests, Moved(r), Reads PROVE IInv'
  BY Unwritten, Assemble DEF Reads, IInv

\* What the body, the path and the caller of a new request are.
Fits(op, by, id, n, e, t, phase) ==
    /\ op \in Ops /\ by \in UserIds \cup {None} /\ n \in Names \cup {None}
    /\ id \in UserIds \cup TierIds \cup LimitIds \cup {None}
    /\ e \in Emails \cup {None} /\ t \in Names \cup TierIds \cup {None}
    /\ phase \in {"read", "email", "tier", "write"}
    /\ op \in UserOps => id \in UserIds
    /\ op \in {"update_tier", "delete_tier", "get_tier"} => id \in TierIds
    /\ op \in {"patch_limit", "delete_limit", "get_limit"} => id \in LimitIds
    /\ op \in {"create_user", "create_tier", "update_tier"} => n \in Names
    /\ op = "create_user" => e \in Emails
    /\ op = "patch_user_tier" => t \in TierIds
    /\ op \in LimitOps => phase = "tier"
    /\ phase = "email" => op = "create_user"
    /\ op = "assign_moderator" => by \in Superusers

LEMMA Begun ==
    ASSUME IInv, NEW r \in Requests, NEW op, NEW by, NEW id, NEW n, NEW e, NEW t, NEW phase,
           Fits(op, by, id, n, e, t, phase), Begin(r, op, by, id, n, e, t, phase)
    PROVE  IInv'
  <1> DEFINE q == [pc |-> phase, op |-> op, by |-> by, id |-> id, name |-> n,
                   email |-> e, tier |-> t, rename |-> n # None, code |-> 0]
  <1>1. q \in Request
    BY DEF Fits, Request, Phases, Codes
  <1>2. ReqOK(q)
    BY DEF Fits, ReqOK
  <1>3. req' = [req EXCEPT ![r] = q] /\ UNCHANGED tables /\ starts < MaxStarts
        /\ starts' = starts + 1 /\ raced' = raced \ {r}
    BY DEF Begin
  <1>4. GrantOK(q)'
    BY <1>3 DEF Fits, GrantOK, Superusers, Active, There, tables
  <1>5. TablesOK'
    BY <1>3, Unwritten
  <1>6. RequestsOK'
    <2>1. ASSUME NEW s \in Requests, s # r PROVE ReqOK(req'[s]) /\ GrantOK(req[s])'
      BY <2>1, <1>3 DEF IInv, RequestsOK, GrantOK, There, tables
    <2>2. req' \in [Requests -> Request] /\ req'[r] = q
      BY <1>1, <1>3 DEF IInv, RequestsOK
    <2>3. GrantOK(req[r])'
      BY <1>4, <2>2 DEF GrantOK
    <2> QED
      BY <1>2, <2>1, <2>2, <2>3 DEF RequestsOK, ReqOK
  <1>7. starts' \in 0..MaxStarts /\ raced' \subseteq Requests
    BY <1>3, StartsAssumption DEF IInv
  <1> QED
    BY <1>5, <1>6, <1>7 DEF IInv

\* A request arrives with what its endpoint asks for.
LEMMA ArriveStep == ASSUME IInv, NEW r \in Requests, Arrive(r) PROVE IInv'
  <1>0. Superusers \subseteq UserIds
    BY DEF Superusers
  <1> USE DEF Fits, Ops, UserOps, LimitOps, Opt
  <1>1. CASE BeginCreateUser(r)
    <2>1. PICK n \in Names, e \in Emails : Begin(r, "create_user", None, None, n, e, None, "email")
      BY <1>1, <1>0 DEF BeginCreateUser
    <2>2. Fits("create_user", None, None, n, e, None, "email")
      BY <1>0
    <2> QED
      BY <2>1, <2>2, Begun
  <1>2. CASE BeginUpdateUser(r)
    <2>1. PICK u \in UserIds, i \in UserIds, n \in Opt(Names), e \in Opt(Emails) : Begin(r, "update_user", u, i, n, e, None, "read")
      BY <1>2, <1>0 DEF BeginUpdateUser
    <2>2. Fits("update_user", u, i, n, e, None, "read")
      BY <1>0
    <2> QED
      BY <2>1, <2>2, Begun
  <1>3. CASE BeginDeleteUser(r)
    <2>1. PICK u, i \in UserIds : Begin(r, "delete_user", u, i, None, None, None, "read")
      BY <1>3, <1>0 DEF BeginDeleteUser
    <2>2. Fits("delete_user", u, i, None, None, None, "read")
      BY <1>0
    <2> QED
      BY <2>1, <2>2, Begun
  <1>4. CASE BeginDeleteDbUser(r)
    <2>1. PICK u \in Superusers, i \in UserIds : Begin(r, "delete_db_user", u, i, None, None, None, "read")
      BY <1>4, <1>0 DEF BeginDeleteDbUser
    <2>2. Fits("delete_db_user", u, i, None, None, None, "read")
      BY <1>0
    <2> QED
      BY <2>1, <2>2, Begun
  <1>5. CASE BeginAssign(r)
    <2>1. PICK u \in Superusers, i \in UserIds : Begin(r, "assign_moderator", u, i, None, None, None, "read")
      BY <1>5, <1>0 DEF BeginAssign
    <2>2. Fits("assign_moderator", u, i, None, None, None, "read")
      BY <1>0
    <2> QED
      BY <2>1, <2>2, Begun
  <1>6. CASE BeginRevoke(r)
    <2>1. PICK u \in Superusers, i \in UserIds : Begin(r, "revoke_moderator", u, i, None, None, None, "read")
      BY <1>6, <1>0 DEF BeginRevoke
    <2>2. Fits("revoke_moderator", u, i, None, None, None, "read")
      BY <1>0
    <2> QED
      BY <2>1, <2>2, Begun
  <1>7. CASE BeginPatchUserTier(r)
    <2>1. PICK u \in Superusers, i \in UserIds, t \in TierIds : Begin(r, "patch_user_tier", u, i, None, None, t, "read")
      BY <1>7, <1>0 DEF BeginPatchUserTier
    <2>2. Fits("patch_user_tier", u, i, None, None, t, "read")
      BY <1>0
    <2> QED
      BY <2>1, <2>2, Begun
  <1>8. CASE BeginGetUser(r)
    <2>1. PICK i \in UserIds : Begin(r, "get_user", None, i, None, None, None, "read")
      BY <1>8, <1>0 DEF BeginGetUser
    <2>2. Fits("get_user", None, i, None, None, None, "read")
      BY <1>0
    <2> QED
      BY <2>1, <2>2, Begun
  <1>9. CASE BeginGetUserTier(r)
    <2>1. PICK i \in UserIds : Begin(r, "get_user_tier", None, i, None, None, None, "read")
      BY <1>9, <1>0 DEF BeginGetUserTier
    <2>2. Fits("get_user_tier", None, i, None, None, None, "read")
      BY <1>0
    <2> QED
      BY <2>1, <2>2, Begun
  <1>10. CASE BeginGetUserLimits(r)
    <2>1. PICK u \in Superusers, i \in UserIds : Begin(r, "get_user_limits", u, i, None, None, None, "read")
      BY <1>10, <1>0 DEF BeginGetUserLimits
    <2>2. Fits("get_user_limits", u, i, None, None, None, "read")
      BY <1>0
    <2> QED
      BY <2>1, <2>2, Begun
  <1>11. CASE BeginCreateTier(r)
    <2>1. PICK u \in Superusers, n \in Names : Begin(r, "create_tier", u, None, n, None, None, "write")
      BY <1>11, <1>0 DEF BeginCreateTier
    <2>2. Fits("create_tier", u, None, n, None, None, "write")
      BY <1>0
    <2> QED
      BY <2>1, <2>2, Begun
  <1>12. CASE BeginUpdateTier(r)
    <2>1. PICK u \in Superusers, i \in TierIds, n \in Names : Begin(r, "update_tier", u, i, n, None, None, "read")
      BY <1>12, <1>0 DEF BeginUpdateTier
    <2>2. Fits("update_tier", u, i, n, None, None, "read")
      BY <1>0
    <2> QED
      BY <2>1, <2>2, Begun
  <1>13. CASE BeginDeleteTier(r)
    <2>1. PICK u \in Superusers, i \in TierIds : Begin(r, "delete_tier", u, i, None, None, None, "read")
      BY <1>13, <1>0 DEF BeginDeleteTier
    <2>2. Fits("delete_tier", u, i, None, None, None, "read")
      BY <1>0
    <2> QED
      BY <2>1, <2>2, Begun
  <1>14. CASE BeginGetTier(r)
    <2>1. PICK i \in TierIds : Begin(r, "get_tier", None, i, None, None, None, "read")
      BY <1>14, <1>0 DEF BeginGetTier
    <2>2. Fits("get_tier", None, i, None, None, None, "read")
      BY <1>0
    <2> QED
      BY <2>1, <2>2, Begun
  <1>15. CASE BeginLimit(r)
    <2>1. ASSUME NEW u \in Superusers, NEW t \in Names, NEW n \in Opt(Names),
                 Begin(r, "post_limit", u, None, n, None, t, "tier")
          PROVE  IInv'
      <3> Fits("post_limit", u, None, n, None, t, "tier")
        BY <1>0
      <3> QED
        BY <2>1, Begun
    <2>2. ASSUME NEW u \in Superusers, NEW t \in Names, NEW i \in LimitIds, NEW n \in Opt(Names),
                 Begin(r, "patch_limit", u, i, n, None, t, "tier")
          PROVE  IInv'
      <3> Fits("patch_limit", u, i, n, None, t, "tier")
        BY <1>0
      <3> QED
        BY <2>2, Begun
    <2>3. ASSUME NEW u \in Superusers, NEW t \in Names, NEW i \in LimitIds,
                 Begin(r, "delete_limit", u, i, None, None, t, "tier")
          PROVE  IInv'
      <3> Fits("delete_limit", u, i, None, None, t, "tier")
        BY <1>0
      <3> QED
        BY <2>3, Begun
    <2>4. ASSUME NEW t \in Names, NEW i \in LimitIds,
                 Begin(r, "get_limit", None, i, None, None, t, "tier")
          PROVE  IInv'
      <3> Fits("get_limit", None, i, None, None, t, "tier")
        BY <1>0
      <3> QED
        BY <2>4, Begun
    <2>5. ASSUME NEW t \in Names,
                 Begin(r, "get_limits", None, None, None, None, t, "tier")
          PROVE  IInv'
      <3> Fits("get_limits", None, None, None, None, t, "tier")
        BY <1>0
      <3> QED
        BY <2>5, Begun
    <2> QED
      BY <1>15, <2>1, <2>2, <2>3, <2>4, <2>5 DEF BeginLimit
  <1> QED
    BY <1>1, <1>2, <1>3, <1>4, <1>5, <1>6, <1>7, <1>8, <1>9, <1>10, <1>11, <1>12, <1>13, <1>14, <1>15
    DEF Arrive

\* A check moves the request on or answers it.
LEMMA Checked ==
    ASSUME IInv, NEW r \in Requests, req[r].pc # "idle", NEW phase \in Phases, NEW c \in Codes,
           Answer(r, c) \/ Goto(r, phase),
           phase \in {"email", "username"} => req[r].op \in {"create_user", "update_user"},
           (req[r].op \in LimitOps /\ phase \in {"limit", "write"}) => req[r].tier \in TierIds,
           Reads
    PROVE  IInv'
  BY Answered, WentTo, ReadOnly

\* What a read stores in the request: whether the name changes, a tier.
LEMMA Noted ==
    ASSUME NEW q \in Request, NEW phase \in Phases
    PROVE  /\ \A b \in BOOLEAN : [q EXCEPT !.rename = b, !.pc = phase] \in Request
           /\ \A t \in TierIds : /\ [q EXCEPT !.tier = t, !.pc = phase] \in Request
                                 /\ [q EXCEPT !.pc = phase, !.tier = t] \in Request
  <1>1. ASSUME NEW b \in BOOLEAN PROVE [q EXCEPT !.rename = b, !.pc = phase] \in Request
    BY DEF Request
  <1>2. ASSUME NEW t \in TierIds PROVE [q EXCEPT !.tier = t, !.pc = phase] \in Request
    BY DEF Request
  <1>3. ASSUME NEW t \in TierIds PROVE [q EXCEPT !.pc = phase, !.tier = t] \in Request
    BY DEF Request
  <1> QED
    BY <1>1, <1>2, <1>3

\* The reads.
LEMMA LookStep == ASSUME IInv, NEW r \in Requests, Look(r) PROVE IInv'
  <1> USE DEF Phases, Codes, At, LimitOps
  <1>0. req[r] \in Request /\ ReqOK(req[r])
    BY DEF IInv, RequestsOK
  <1>1. CASE ReadForUpdate(r)
    <2>1. CASE \E c \in Codes : Answer(r, c)
      BY <1>1, <2>1, Answered, ReadOnly DEF ReadForUpdate
    <2>2. CASE ~\E c \in Codes : Answer(r, c)
      <3>1. PICK b \in BOOLEAN, ph \in {"email", "username", "write"} :
               req' = [req EXCEPT ![r].rename = b, ![r].pc = ph]
        <4> DEFINE newEmail == req[r].email # None /\ req[r].email # user[req[r].id].email
                   newName == req[r].name # None /\ req[r].name # user[req[r].id].username
                   next == IF newEmail THEN "email" ELSE IF newName THEN "username" ELSE "write"
        <4>1. ~Answer(r, 404) /\ ~Answer(r, 403)
          BY <2>2 DEF Codes
        <4>2. req' = [req EXCEPT ![r].rename = newName, ![r].pc = next]
          BY <1>1, <4>1, Zenon DEF ReadForUpdate
        <4>3. newName \in BOOLEAN /\ next \in {"email", "username", "write"}
          OBVIOUS
        <4> HIDE DEF newName, next
        <4> QED
          BY <4>2, <4>3
      <3> DEFINE q == [req[r] EXCEPT !.rename = b, !.pc = ph]
      <3>2. req' = [req EXCEPT ![r] = q]
        BY <3>1 DEF IInv, RequestsOK
      <3>3. q \in Request
        BY <1>0, Noted
      <3>a. q.op = req[r].op /\ q.by = req[r].by
        BY <1>0 DEF Request
      <3>4. ReqOK(q)
        BY <1>0, <1>1 DEF ReqOK, ReadForUpdate, Request
      <3> QED
        BY <1>1, <3>2, <3>3, <3>4, <3>a, GoesOn, ReadOnly DEF ReadForUpdate
    <2> QED
      BY <2>1, <2>2
  <1>2. CASE CheckEmail(r) \/ CheckUsername(r)
    <2>1. req[r].op \in {"create_user", "update_user"}
      BY <1>0, <1>2 DEF ReqOK, CheckEmail, CheckUsername
    <2> QED
      BY <1>2, <2>1, Checked DEF CheckEmail, CheckUsername, Check
  <1>3. CASE ReadForDelete(r) \/ ReadForPurge(r) \/ ReadForAssign(r) \/ ReadForRevoke(r) \/ ReadForPlace(r)
    BY <1>3, Checked DEF ReadForDelete, ReadForPurge, ReadForAssign, ReadForRevoke, ReadForPlace, Check
  <1>4. CASE FindTier(r) \/ ReadForTierUpdate(r) \/ ReadForTierDelete(r)
    BY <1>4, Checked DEF FindTier, ReadForTierUpdate, ReadForTierDelete, Check
  <1>5. CASE Reload(r) \/ GetUser(r) \/ ReadTierOf(r) \/ GetTier(r) \/ GetLimit(r) \/ GetLimits(r)
    BY <1>5, Answered, ReadOnly DEF Reload, GetUser, ReadTierOf, GetTier, GetLimit, GetLimits
  <1>6. CASE ReadLimitsOf(r)
    BY <1>6, Checked DEF ReadLimitsOf, Check
  <1>7. CASE CheckLimitName(r) \/ FindLimit(r)
    <2>1. req[r].tier \in TierIds
      BY <1>0, <1>7 DEF ReqOK, CheckLimitName, FindLimit
    <2> QED
      BY <1>7, <2>1, Checked DEF CheckLimitName, FindLimit, Check
  <1>8. CASE ReadUserTier(r)
    <2>1. CASE \E c \in Codes : Answer(r, c)
      BY <1>8, <2>1, Answered, ReadOnly DEF ReadUserTier
    <2>2. CASE ~\E c \in Codes : Answer(r, c)
      <3> DEFINE t == user[req[r].id].tier
                 q == [req[r] EXCEPT !.pc = "tier", !.tier = t]
      <3>1. t # None /\ req' = [req EXCEPT ![r].pc = "tier", ![r].tier = t]
        BY <1>8, <2>2 DEF ReadUserTier
      <3>2. t \in TierIds
        BY <1>0, <1>8, <3>1 DEF ReadUserTier, ReqOK, UserOps, IInv, TablesOK, UserRow
      <3>3. req' = [req EXCEPT ![r] = q]
        BY <3>1 DEF IInv, RequestsOK
      <3>4. q \in Request
        BY <1>0, <3>2, Noted
      <3>a. q.op = req[r].op /\ q.by = req[r].by
        BY <1>0 DEF Request
      <3>5. ReqOK(q)
        BY <1>0, <1>8, <3>2 DEF ReqOK, ReadUserTier, Request
      <3> QED
        BY <1>8, <3>3, <3>4, <3>5, <3>a, GoesOn, ReadOnly DEF ReadUserTier
    <2> QED
      BY <2>1, <2>2
  <1>9. CASE FindTierByName(r)
    <2>1. CASE Answer(r, 404)
      BY <1>9, <2>1, Answered, ReadOnly DEF FindTierByName
    <2>2. CASE ~Answer(r, 404)
      <3>1. PICK t \in TierIds : req' = [req EXCEPT ![r].tier = t, ![r].pc = "limit"]
        BY <1>9, <2>2 DEF FindTierByName, Named, IInv, TablesOK
      <3> DEFINE q == [req[r] EXCEPT !.tier = t, !.pc = "limit"]
      <3>2. req' = [req EXCEPT ![r] = q]
        BY <3>1 DEF IInv, RequestsOK
      <3>3. q \in Request
        BY <1>0, Noted
      <3>a. q.op = req[r].op /\ q.by = req[r].by
        BY <1>0 DEF Request
      <3>4. ReqOK(q)
        BY <1>0, <1>9 DEF ReqOK, FindTierByName, Request
      <3> QED
        BY <1>9, <3>2, <3>3, <3>4, <3>a, GoesOn, ReadOnly DEF FindTierByName
    <2> QED
      BY <2>1, <2>2
  <1> QED
    BY <1>1, <1>2, <1>3, <1>4, <1>5, <1>6, <1>7, <1>8, <1>9 DEF Look

-----------------------------------------------------------------------------
(* Writes.                                                                 *)

\* A row the table "user" can hold under the id i.
RowOK(i, w) ==
    /\ w \in UserRow /\ w.row # "unborn"
    /\ w.row = "gone" => ~IsGrantor(i)
    /\ w.row = "present" =>
          /\ user[i].row # "gone"
          /\ w.username \in Names /\ w.email \in StoredEmails /\ ~Clash(i, w.username, w.email)
          /\ w.tier # None => There(tier, w.tier)
          /\ w.moderator <=> w.grantor # None
          /\ w.moderator => There(user, w.grantor) /\ user[w.grantor].superuser
          /\ There(user, i) /\ user[i].superuser => w.superuser

LEMMA UserChange ==
    ASSUME IInv, NEW i \in UserIds, NEW w, RowOK(i, w),
           user' = [user EXCEPT ![i] = w], UNCHANGED <<tier, limit>>
    PROVE  TablesOK' /\ Kept
  <1> USE NoneIsNothing DEF There
  <1>1. /\ user \in [UserIds -> UserRow] /\ w \in UserRow
        /\ Filled /\ UniqueNames /\ TiersExist /\ ModeratorsAreGranted
        /\ tier \in [TierIds -> TierRow] /\ limit \in [LimitIds -> LimitRow]
    BY DEF IInv, TablesOK, RowOK
  <1>2. /\ user' \in [UserIds -> UserRow] /\ user'[i] = w
        /\ \A j \in UserIds \ {i} : user'[j] = user[j]
    BY <1>1
  <1>3. Filled'
    BY <1>1, <1>2 DEF Filled, RowOK
  <1>4. UniqueNames'
    <2>1. Unique(tier)' /\ Unique(limit)'
      BY <1>1 DEF UniqueNames, Unique
    <2>2. ASSUME NEW j \in UserIds, NEW k \in UserIds, j # k, There(user', j), There(user', k)
          PROVE  user'[j].username # user'[k].username /\ user'[j].email # user'[k].email
      BY <1>1, <1>2, <2>2 DEF UniqueNames, RowOK, Clash
    <2> QED
      BY <2>1, <2>2 DEF UniqueNames
  <1>5. TiersExist'
    BY <1>1, <1>2 DEF TiersExist, RowOK
  <1>6. ModeratorsAreGranted'
    <2>1. ASSUME NEW g \in UserIds, There(user, g), user[g].superuser,
                 g = i => w.row = "present"
          PROVE  There(user', g) /\ user'[g].superuser
      BY <1>1, <1>2, <2>1 DEF RowOK
    <2>2. ASSUME NEW j \in UserIds, There(user', j), j # i
          PROVE  /\ user'[j].moderator <=> user'[j].grantor # None
                 /\ user'[j].moderator =>
                       There(user', user'[j].grantor) /\ user'[user'[j].grantor].superuser
      <3>1. user'[j] = user[j] /\ There(user, j)
        BY <1>2, <2>2
      <3>2. user[j].moderator <=> user[j].grantor # None
        BY <1>1, <3>1 DEF ModeratorsAreGranted
      <3>3. ASSUME user[j].moderator
            PROVE  There(user', user[j].grantor) /\ user'[user[j].grantor].superuser
        <4>1. /\ user[j].grantor \in UserIds /\ There(user, user[j].grantor)
              /\ user[user[j].grantor].superuser
          BY <1>1, <3>1, <3>3 DEF ModeratorsAreGranted, UserRow
        <4>2. user[j].grantor = i => w.row = "present"
          BY <1>1, <2>2, <3>1 DEF RowOK, IsGrantor, UserRow, Rows
        <4> QED
          BY <4>1, <4>2, <2>1
      <3> QED
        BY <3>1, <3>2, <3>3
    <2>3. ASSUME There(user', i)
          PROVE  /\ w.moderator <=> w.grantor # None
                 /\ w.moderator => There(user', w.grantor) /\ user'[w.grantor].superuser
      <3>1. w.row = "present" /\ w.grantor \in UserIds \cup {None}
        BY <1>1, <1>2, <2>3 DEF UserRow
      <3> QED
        BY <2>1, <3>1 DEF RowOK
    <2> QED
      BY <1>2, <2>2, <2>3 DEF ModeratorsAreGranted
  <1>7. Kept
    BY <1>1, <1>2 DEF Kept, RowOK, UserRow, Rows
  <1> QED
    BY <1>1, <1>2, <1>3, <1>4, <1>5, <1>6, <1>7 DEF TablesOK

LEMMA TierChange ==
    ASSUME IInv, NEW t \in TierIds, NEW w \in TierRow,
           tier' = [tier EXCEPT ![t] = w], UNCHANGED <<user, limit>>,
           w.row = "present" => Named(tier, w.name) \subseteq {t},
           w.row # "present" => ~TierInUse(t)
    PROVE  TablesOK' /\ Kept
  <1> USE NoneIsNothing DEF There
  <1>1. /\ user \in [UserIds -> UserRow] /\ limit \in [LimitIds -> LimitRow]
        /\ Filled /\ UniqueNames /\ TiersExist /\ ModeratorsAreGranted
        /\ tier \in [TierIds -> TierRow]
    BY DEF IInv, TablesOK
  <1>2. /\ tier' \in [TierIds -> TierRow] /\ tier'[t] = w
        /\ \A u \in TierIds \ {t} : tier'[u] = tier[u]
    BY <1>1
  <1>3. Filled' /\ ModeratorsAreGranted' /\ Kept
    BY <1>1 DEF Filled, ModeratorsAreGranted, Kept
  <1>4. UniqueNames'
    <2>1. Unique(tier')
      BY <1>1, <1>2 DEF UniqueNames, Unique, Named
    <2> QED
      BY <1>1, <2>1 DEF UniqueNames, Unique
  <1>5. TiersExist'
    BY <1>1, <1>2 DEF TiersExist, TierInUse
  <1> QED
    BY <1>1, <1>2, <1>3, <1>4, <1>5 DEF TablesOK

LEMMA LimitChange ==
    ASSUME IInv, NEW l \in LimitIds, NEW w \in LimitRow,
           limit' = [limit EXCEPT ![l] = w], UNCHANGED <<user, tier>>,
           w.row = "present" => Named(limit, w.name) \subseteq {l} /\ There(tier, w.tier)
    PROVE  TablesOK' /\ Kept
  <1> USE NoneIsNothing DEF There
  <1>1. /\ user \in [UserIds -> UserRow] /\ limit \in [LimitIds -> LimitRow]
        /\ Filled /\ UniqueNames /\ TiersExist /\ ModeratorsAreGranted
        /\ tier \in [TierIds -> TierRow]
    BY DEF IInv, TablesOK
  <1>2. /\ limit' \in [LimitIds -> LimitRow] /\ limit'[l] = w
        /\ \A k \in LimitIds \ {l} : limit'[k] = limit[k]
    BY <1>1
  <1>3. Filled' /\ ModeratorsAreGranted' /\ Kept
    BY <1>1 DEF Filled, ModeratorsAreGranted, Kept
  <1>4. UniqueNames'
    <2>1. Unique(limit')
      BY <1>1, <1>2 DEF UniqueNames, Unique, Named
    <2> QED
      BY <1>1, <2>1 DEF UniqueNames, Unique
  <1>5. TiersExist'
    BY <1>1, <1>2 DEF TiersExist
  <1> QED
    BY <1>1, <1>2, <1>3, <1>4, <1>5 DEF TablesOK

\* A write that fails or matches no row, and one that commits.
LEMMA Failed == ASSUME IInv, NEW r \in Requests, NEW c \in Codes, Fails(r, c) PROVE IInv'
  BY Answered, ReadOnly DEF Fails

LEMMA Committed ==
    ASSUME IInv, NEW r \in Requests, Moved(r), TablesOK', Kept, Commits(r)
    PROVE  IInv'
  BY Assemble DEF Commits, Running, IInv

\* The INSERT returns the id of the row.
LEMMA Created ==
    ASSUME IInv, NEW r \in Requests, NEW i \in UserIds \cup TierIds \cup LimitIds,
           req[r].op \in {"create_user", "create_tier", "post_limit"}, req[r].pc # "idle",
           req' = [req EXCEPT ![r].pc = "reload", ![r].id = i]
    PROVE  Moved(r)
  <1> DEFINE q == [req[r] EXCEPT !.pc = "reload", !.id = i]
  <1>1. req[r] \in Request /\ ReqOK(req[r])
    BY DEF IInv, RequestsOK
  <1>2. q \in Request
    BY <1>1 DEF Request, Phases
  <1>3. ReqOK(q) /\ q.op = req[r].op /\ q.by = req[r].by
    BY <1>1 DEF ReqOK, Request, UserOps, LimitOps
  <1>4. req' = [req EXCEPT ![r] = q]
    BY <1>1 DEF IInv, RequestsOK
  <1> QED
    BY <1>2, <1>3, <1>4, GoesOn

LEMMA InsertUserStep == ASSUME IInv, NEW r \in Requests, InsertUser(r) PROVE IInv'
  <1>0. req[r] \in Request /\ ReqOK(req[r]) /\ At(r, "create_user", "write")
    BY DEF IInv, RequestsOK, InsertUser
  <1>1. CASE TooLong(r) \/ Clash(None, req[r].name, req[r].email)
    BY <1>1, Failed DEF InsertUser, Codes
  <1>2. CASE ~TooLong(r) /\ ~Clash(None, req[r].name, req[r].email)
    <2>1. PICK i \in Unborn(user) :
             /\ user' = [user EXCEPT ![i] = NewUser(req[r].name, req[r].email)]
             /\ req' = [req EXCEPT ![r].pc = "reload", ![r].id = i]
      BY <1>2 DEF InsertUser
    <2>2. UNCHANGED <<tier, limit>> /\ Commits(r)
      BY <1>2 DEF InsertUser
    <2>3. i \in UserIds /\ user[i].row = "unborn"
      BY DEF Unborn, IInv, TablesOK
    <2>4. req[r].name \in Names /\ req[r].email \in StoredEmails
      BY <1>0, <1>2 DEF ReqOK, At, TooLong, StoredEmails
    <2>5. RowOK(i, NewUser(req[r].name, req[r].email))
      BY <1>2, <2>3, <2>4, NoneIsNothing DEF RowOK, NewUser, NoUser, UserRow, Rows, Clash, There, StoredEmails
    <2>6. Moved(r)
      BY <1>0, <2>1, <2>3, Created DEF At
    <2> QED
      BY <2>1, <2>2, <2>3, <2>5, <2>6, UserChange, Committed
  <1> QED
    BY <1>1, <1>2

\* What an UPDATE that names a row keeps of it.
LEMMA RowInOrder ==
    ASSUME IInv, NEW i \in UserIds, There(user, i)
    PROVE  RowOK(i, user[i])
  <1>1. user[i] \in UserRow /\ Filled /\ UniqueNames /\ TiersExist /\ ModeratorsAreGranted
    BY DEF IInv, TablesOK
  <1>2. ~Clash(i, user[i].username, user[i].email)
    BY <1>1 DEF UniqueNames, Clash
  <1> QED
    BY <1>1, <1>2 DEF RowOK, There, Filled, TiersExist, ModeratorsAreGranted

\* A request that updates the row it named and is answered.
LEMMA Updated ==
    ASSUME IInv, NEW r \in Requests, NEW i \in UserIds, NEW w, RowOK(i, w),
           user' = [user EXCEPT ![i] = w], UNCHANGED <<tier, limit>>, Answer(r, 200), Commits(r)
    PROVE  IInv'
  <1> 200 \in Codes
    BY DEF Codes
  <1> QED
    BY UserChange, Answered, Committed

LEMMA UpdateUserStep == ASSUME IInv, NEW r \in Requests, UpdateUser(r) PROVE IInv'
  <1> DEFINE q == req[r]
             i == q.id
             n == IF q.name = None THEN user[i].username ELSE q.name
             e == IF q.email = None THEN user[i].email ELSE q.email
             w == [user[i] EXCEPT !.username = n, !.email = e]
  <1>0. q \in Request /\ i \in UserIds
    BY DEF IInv, RequestsOK, UpdateUser, At, ReqOK, UserOps
  <1>1. CASE TooLong(r) \/ ~There(user, i) \/ Clash(i, n, e)
    BY <1>1, Failed DEF UpdateUser, Codes
  <1>2. CASE ~TooLong(r) /\ There(user, i) /\ ~Clash(i, n, e)
    <2>1. /\ user' = [user EXCEPT ![i].username = n, ![i].email = e]
          /\ UNCHANGED <<tier, limit>> /\ Answer(r, 200) /\ Commits(r)
      BY <1>2 DEF UpdateUser
    <2>2. user \in [UserIds -> UserRow] /\ user[i] \in UserRow /\ RowOK(i, user[i])
      BY <1>0, <1>2, RowInOrder DEF IInv, TablesOK
    <2>3. user' = [user EXCEPT ![i] = w]
      BY <2>1, <2>2
    <2>4. user[i].row = "present" /\ n \in Names /\ e \in StoredEmails
      BY <1>0, <1>2, <2>2 DEF RowOK, There, Request, TooLong, StoredEmails
    <2>5. w \in UserRow /\ w.username = n /\ w.email = e
      BY <2>2, <2>4 DEF UserRow
    <2>6. w.row = "present" /\ w.tier = user[i].tier /\ w.moderator = user[i].moderator
          /\ w.grantor = user[i].grantor /\ w.superuser = user[i].superuser
      BY <2>2, <2>4 DEF UserRow
    <2>7. RowOK(i, w)
      BY <1>2, <2>2, <2>4, <2>5, <2>6 DEF RowOK
    <2> HIDE DEF w
    <2> QED
      BY <1>0, <2>1, <2>3, <2>7, Updated
  <1> QED
    BY <1>1, <1>2

LEMMA SoftDeleteStep == ASSUME IInv, NEW r \in Requests, SoftDelete(r) PROVE IInv'
  <1> DEFINE i == req[r].id
             w == [user[i] EXCEPT !.deleted = TRUE]
  <1>0. i \in UserIds
    BY DEF IInv, RequestsOK, SoftDelete, At, ReqOK, UserOps
  <1>1. CASE ~There(user, i)
    BY <1>1, Failed DEF SoftDelete, Codes
  <1>2. CASE There(user, i)
    <2>1. /\ user' = [user EXCEPT ![i].deleted = TRUE]
          /\ UNCHANGED <<tier, limit>> /\ Answer(r, 200) /\ Commits(r)
      BY <1>2 DEF SoftDelete
    <2>2. user \in [UserIds -> UserRow] /\ user[i] \in UserRow /\ RowOK(i, user[i])
      BY <1>0, <1>2, RowInOrder DEF IInv, TablesOK
    <2>3. user' = [user EXCEPT ![i] = w]
      BY <2>1, <2>2
    <2>4. RowOK(i, w)
      BY <2>2 DEF RowOK, UserRow
    <2> HIDE DEF w
    <2> QED
      BY <1>0, <2>1, <2>3, <2>4, Updated
  <1> QED
    BY <1>1, <1>2

LEMMA PurgeUserStep == ASSUME IInv, NEW r \in Requests, PurgeUser(r) PROVE IInv'
  <1> DEFINE i == req[r].id
             w == [NoUser EXCEPT !.row = "gone"]
  <1>0. i \in UserIds
    BY DEF IInv, RequestsOK, PurgeUser, At, ReqOK, UserOps
  <1>1. CASE ~There(user, i) \/ IsGrantor(i)
    BY <1>1, Failed DEF PurgeUser, Codes
  <1>2. CASE There(user, i) /\ ~IsGrantor(i)
    <2>1. /\ user' = [user EXCEPT ![i] = w]
          /\ UNCHANGED <<tier, limit>> /\ Answer(r, 200) /\ Commits(r)
      BY <1>2 DEF PurgeUser
    <2>2. RowOK(i, w)
      BY <1>2 DEF RowOK, NoUser, UserRow, Rows
    <2> HIDE DEF w
    <2> QED
      BY <1>0, <2>1, <2>2, Updated
  <1> QED
    BY <1>1, <1>2

\* The two changes of role end with the SELECT of the row.
LEMMA Reloads ==
    ASSUME IInv, NEW r \in Requests, req[r].op \in {"assign_moderator", "revoke_moderator"},
           req[r].pc = "write", Goto(r, "reload")
    PROVE  Moved(r)
  BY WentTo DEF Phases, LimitOps

LEMMA AssignStep == ASSUME IInv, NEW r \in Requests, Assign(r) PROVE IInv'
  <1> DEFINE i == req[r].id
             g == req[r].by
             w == [user[i] EXCEPT !.moderator = TRUE, !.grantor = g]
  <1>0. /\ i \in UserIds /\ g \in UserIds /\ GrantOK(req[r])
        /\ req[r].op = "assign_moderator" /\ req[r].pc = "write"
    BY DEF IInv, RequestsOK, Assign, At, ReqOK, GrantOK, UserOps
  <1>1. CASE ~There(user, i)
    BY <1>0, <1>1, Reloads, ReadOnly DEF Assign
  <1>2. CASE There(user, i) /\ ~There(user, g)
    BY <1>2, Failed DEF Assign, Codes
  <1>3. CASE There(user, i) /\ There(user, g)
    <2>1. /\ user' = [user EXCEPT ![i].moderator = TRUE, ![i].grantor = g]
          /\ UNCHANGED <<tier, limit>> /\ Goto(r, "reload") /\ Commits(r)
      BY <1>3 DEF Assign
    <2>2. user \in [UserIds -> UserRow] /\ user[i] \in UserRow /\ RowOK(i, user[i])
      BY <1>0, <1>3, RowInOrder DEF IInv, TablesOK
    <2>3. user' = [user EXCEPT ![i] = w]
      BY <2>1, <2>2
    <2>4. user[g].superuser
      BY <1>0, <1>3 DEF GrantOK
    <2>5. RowOK(i, w)
      BY <1>0, <1>3, <2>2, <2>4, NoneIsNothing DEF RowOK, UserRow, There
    <2> QED
      BY <1>0, <2>1, <2>3, <2>5, Reloads, UserChange, Committed
  <1> QED
    BY <1>1, <1>2, <1>3

LEMMA RevokeStep == ASSUME IInv, NEW r \in Requests, Revoke(r) PROVE IInv'
  <1> DEFINE i == req[r].id
  <1>0. i \in UserIds /\ req[r].op = "revoke_moderator" /\ req[r].pc = "write"
    BY DEF IInv, RequestsOK, Revoke, At, ReqOK, UserOps
  <1>1. Moved(r)
    BY <1>0, Reloads DEF Revoke
  <1>2. CASE ~There(user, i)
    BY <1>1, <1>2, ReadOnly DEF Revoke
  <1>3. CASE There(user, i)
    <2>1. user' = [user EXCEPT ![i] = Revoked(user[i])] /\ UNCHANGED <<tier, limit>> /\ Commits(r)
      BY <1>3 DEF Revoke
    <2>2. user[i] \in UserRow /\ RowOK(i, user[i])
      BY <1>0, <1>3, RowInOrder DEF IInv, TablesOK
    <2>3. RowOK(i, Revoked(user[i]))
      BY <2>2 DEF RowOK, UserRow, Revoked
    <2> QED
      BY <1>0, <1>1, <2>1, <2>3, UserChange, Committed
  <1> QED
    BY <1>2, <1>3

LEMMA PlaceStep == ASSUME IInv, NEW r \in Requests, Place(r) PROVE IInv'
  <1> DEFINE i == req[r].id
             t == req[r].tier
             w == [user[i] EXCEPT !.tier = t]
  <1>0. i \in UserIds /\ t \in TierIds
    BY DEF IInv, RequestsOK, Place, At, ReqOK, UserOps
  <1>1. CASE ~There(user, i) \/ ~There(tier, t)
    BY <1>1, Failed DEF Place, Codes
  <1>2. CASE There(user, i) /\ There(tier, t)
    <2>1. /\ user' = [user EXCEPT ![i].tier = t]
          /\ UNCHANGED <<tier, limit>> /\ Answer(r, 200) /\ Commits(r)
      BY <1>2 DEF Place
    <2>2. user \in [UserIds -> UserRow] /\ user[i] \in UserRow /\ RowOK(i, user[i])
      BY <1>0, <1>2, RowInOrder DEF IInv, TablesOK
    <2>3. user' = [user EXCEPT ![i] = w]
      BY <2>1, <2>2
    <2>4. RowOK(i, w)
      BY <1>0, <1>2, <2>2 DEF RowOK, UserRow
    <2> HIDE DEF w
    <2> QED
      BY <1>0, <2>1, <2>3, <2>4, Updated
  <1> QED
    BY <1>1, <1>2

LEMMA InsertTierStep == ASSUME IInv, NEW r \in Requests, InsertTier(r) PROVE IInv'
  <1> DEFINE n == req[r].name
  <1>0. n \in Names /\ req[r].op = "create_tier" /\ req[r].pc = "write"
    BY DEF IInv, RequestsOK, InsertTier, At, ReqOK
  <1>1. CASE Named(tier, n) # {}
    BY <1>1, Failed DEF InsertTier, Codes
  <1>2. CASE Named(tier, n) = {}
    <2>1. PICK t \in Unborn(tier) : /\ tier' = [tier EXCEPT ![t] = NewTier(n)]
                                    /\ req' = [req EXCEPT ![r].pc = "reload", ![r].id = t]
      BY <1>2 DEF InsertTier
    <2>2. UNCHANGED <<user, limit>> /\ Commits(r)
      BY <1>2 DEF InsertTier
    <2>3. t \in TierIds
      BY DEF Unborn, IInv, TablesOK
    <2>4. NewTier(n) \in TierRow /\ NewTier(n).row = "present" /\ NewTier(n).name = n
      BY <1>0 DEF NewTier, TierRow, Rows
    <2>5. TablesOK' /\ Kept
      BY <1>2, <2>1, <2>2, <2>3, <2>4, TierChange
    <2> QED
      BY <1>0, <2>1, <2>2, <2>3, <2>5, Created, Committed
  <1> QED
    BY <1>1, <1>2

LEMMA RenameTierStep == ASSUME IInv, NEW r \in Requests, RenameTier(r) PROVE IInv'
  <1> DEFINE n == req[r].name
             t == req[r].id
             w == [tier[t] EXCEPT !.name = n]
  <1>0. n \in Names /\ t \in TierIds
    BY DEF IInv, RequestsOK, RenameTier, At, ReqOK
  <1>1. CASE ~There(tier, t) \/ Named(tier, n) \ {t} # {}
    BY <1>1, Failed DEF RenameTier, Codes
  <1>2. CASE There(tier, t) /\ Named(tier, n) \ {t} = {}
    <2>1. /\ tier' = [tier EXCEPT ![t].name = n] /\ Answer(r, 200)
          /\ UNCHANGED <<user, limit>> /\ Commits(r) /\ Named(tier, n) \subseteq {t}
      BY <1>2 DEF RenameTier
    <2>2. tier[t] \in TierRow /\ tier[t].row = "present"
      BY <1>0, <1>2 DEF IInv, TablesOK, There
    <2>3. tier' = [tier EXCEPT ![t] = w] /\ w \in TierRow /\ w.name = n /\ w.row = "present"
      BY <1>0, <2>1, <2>2 DEF IInv, TablesOK, TierRow
    <2>4. TablesOK' /\ Kept
      BY <1>0, <2>1, <2>3, TierChange
    <2> QED
      BY <2>1, <2>4, Answered, Committed DEF Codes
  <1> QED
    BY <1>1, <1>2

LEMMA DeleteTierStep == ASSUME IInv, NEW r \in Requests, DeleteTier(r) PROVE IInv'
  <1> DEFINE t == req[r].id
             w == [row |-> "gone", name |-> None]
  <1>0. t \in TierIds
    BY DEF IInv, RequestsOK, DeleteTier, At, ReqOK
  <1>1. CASE ~There(tier, t) \/ TierInUse(t)
    BY <1>1, Failed DEF DeleteTier, Codes
  <1>2. CASE There(tier, t) /\ ~TierInUse(t)
    <2>1. /\ tier' = [tier EXCEPT ![t] = w] /\ Answer(r, 200)
          /\ UNCHANGED <<user, limit>> /\ Commits(r)
      BY <1>2 DEF DeleteTier
    <2>2. w \in TierRow /\ w.row = "gone"
      BY DEF TierRow, Rows
    <2>3. TablesOK' /\ Kept
      BY <1>0, <1>2, <2>1, <2>2, TierChange
    <2> QED
      BY <2>1, <2>3, Answered, Committed DEF Codes
  <1> QED
    BY <1>1, <1>2

LEMMA InsertLimitStep == ASSUME IInv, NEW r \in Requests, InsertLimit(r) PROVE IInv'
  <1> DEFINE n == req[r].name
             t == req[r].tier
             legal == n # None /\ ~LimitNameTaken(n) /\ There(tier, t)
  <1>0. /\ n \in Names \cup {None} /\ t \in TierIds
        /\ req[r].op = "post_limit" /\ req[r].pc = "write"
    BY DEF IInv, RequestsOK, InsertLimit, At, ReqOK, LimitOps, Request
  <1>1. CASE ~legal
    BY <1>1, Failed DEF InsertLimit, Codes
  <1>2. CASE legal
    <2>1. PICK l \in Unborn(limit) : /\ limit' = [limit EXCEPT ![l] = NewLimit(n, t)]
                                     /\ req' = [req EXCEPT ![r].pc = "reload", ![r].id = l]
      BY <1>2 DEF InsertLimit
    <2>2. UNCHANGED <<user, tier>> /\ Commits(r)
      BY <1>2 DEF InsertLimit
    <2>3. l \in LimitIds
      BY DEF Unborn, IInv, TablesOK
    <2>4. /\ NewLimit(n, t) \in LimitRow
          /\ NewLimit(n, t).name = n /\ NewLimit(n, t).tier = t
      BY <1>0 DEF NewLimit, LimitRow, Rows
    <2>5. TablesOK' /\ Kept
      BY <1>2, <2>1, <2>2, <2>3, <2>4, LimitChange DEF LimitNameTaken
    <2> QED
      BY <1>0, <2>1, <2>2, <2>3, <2>5, Created, Committed
  <1> QED
    BY <1>1, <1>2

LEMMA UpdateLimitStep == ASSUME IInv, NEW r \in Requests, UpdateLimit(r) PROVE IInv'
  <1> DEFINE l == req[r].id
             n == req[r].name
             w == [limit[l] EXCEPT !.name = IF n = None THEN limit[l].name ELSE n]
             taken == n # None /\ Named(limit, n) \ {l} # {}
  <1>0. l \in LimitIds /\ n \in Names \cup {None}
    BY DEF IInv, RequestsOK, UpdateLimit, At, ReqOK, Request
  <1>1. CASE ~There(limit, l) \/ taken
    BY <1>1, Failed DEF UpdateLimit, Codes
  <1>2. CASE There(limit, l) /\ ~taken
    <2>1. /\ limit' = [limit EXCEPT ![l].name = IF n = None THEN @ ELSE n] /\ Answer(r, 200)
          /\ UNCHANGED <<user, tier>> /\ Commits(r)
      BY <1>2 DEF UpdateLimit
    <2>2. limit \in [LimitIds -> LimitRow] /\ limit[l] \in LimitRow /\ limit[l].row = "present"
      BY <1>0, <1>2 DEF IInv, TablesOK, There
    <2>3. limit' = [limit EXCEPT ![l] = w]
      BY <2>1, <2>2
    <2>4. w \in LimitRow /\ w.row = "present" /\ w.tier = limit[l].tier
          /\ w.name = IF n = None THEN limit[l].name ELSE n
      BY <1>0, <2>2 DEF LimitRow
    <2>5. Named(limit, w.name) \subseteq {l}
      <3>1. CASE n = None
        BY <1>0, <1>2, <2>2, <2>4, <3>1, NoneIsNothing
           DEF Named, IInv, TablesOK, UniqueNames, Unique, There
      <3>2. CASE n # None
        BY <1>2, <2>4, <3>2
      <3> QED
        BY <3>1, <3>2
    <2>6. There(tier, w.tier)
      BY <1>0, <1>2, <2>4 DEF IInv, TablesOK, TiersExist
    <2>7. TablesOK' /\ Kept
      <3> HIDE DEF w
      <3> QED
        BY <1>0, <2>1, <2>3, <2>4, <2>5, <2>6, LimitChange
    <2> QED
      BY <2>1, <2>7, Answered, Committed DEF Codes
  <1> QED
    BY <1>1, <1>2

LEMMA DeleteLimitStep == ASSUME IInv, NEW r \in Requests, DeleteLimit(r) PROVE IInv'
  <1> DEFINE l == req[r].id
             w == [NoLimit EXCEPT !.row = "gone"]
  <1>0. l \in LimitIds
    BY DEF IInv, RequestsOK, DeleteLimit, At, ReqOK
  <1>1. CASE ~There(limit, l)
    BY <1>1, Failed DEF DeleteLimit, Codes
  <1>2. CASE There(limit, l)
    <2>1. /\ limit' = [limit EXCEPT ![l] = w] /\ Answer(r, 200)
          /\ UNCHANGED <<user, tier>> /\ Commits(r)
      BY <1>2 DEF DeleteLimit
    <2>2. w \in LimitRow /\ w.row = "gone"
      BY DEF LimitRow, Rows, NoLimit
    <2>3. TablesOK' /\ Kept
      BY <1>0, <2>1, <2>2, LimitChange
    <2> QED
      BY <2>1, <2>3, Answered, Committed DEF Codes
  <1> QED
    BY <1>1, <1>2

LEMMA WriteStep == ASSUME IInv, NEW r \in Requests, Write(r) PROVE IInv'
  BY InsertUserStep, UpdateUserStep, SoftDeleteStep, PurgeUserStep, AssignStep, RevokeStep,
     PlaceStep, InsertTierStep, RenameTierStep, DeleteTierStep, InsertLimitStep, UpdateLimitStep,
     DeleteLimitStep DEF Write

\* The script changes one column of every row and no request.
LEMMA PromoteStep == ASSUME IInv, MakeAllSuperusers PROVE IInv'
  <1>1. /\ user \in [UserIds -> UserRow]
        /\ Filled /\ UniqueNames /\ TiersExist /\ ModeratorsAreGranted
        /\ tier' = tier /\ limit' = limit /\ req' = req /\ starts' = starts /\ raced' = Running
    BY DEF IInv, TablesOK, MakeAllSuperusers
  <1>2. ASSUME NEW i \in UserIds
        PROVE  /\ user'[i] \in UserRow /\ user'[i].row = user[i].row
               /\ user'[i].username = user[i].username /\ user'[i].email = user[i].email
               /\ user'[i].tier = user[i].tier /\ user'[i].moderator = user[i].moderator
               /\ user'[i].grantor = user[i].grantor
               /\ user[i].superuser \/ There(user, i) => user'[i].superuser
    BY <1>1 DEF MakeAllSuperusers, UserRow
  <1>3. user' \in [UserIds -> UserRow]
    BY <1>2 DEF MakeAllSuperusers
  <1>4. ASSUME NEW i \in UserIds PROVE There(user', i) <=> There(user, i)
    BY <1>2 DEF There
  <1>5. Filled' /\ TiersExist'
    BY <1>1, <1>2, <1>4 DEF Filled, TiersExist, There
  <1>6. UniqueNames'
    BY <1>1, <1>2, <1>4 DEF UniqueNames, Unique, There
  <1>7. ModeratorsAreGranted'
    <2> SUFFICES ASSUME NEW i \in UserIds, There(user', i)
                 PROVE  /\ user'[i].moderator <=> user'[i].grantor # None
                        /\ user'[i].moderator =>
                              There(user', user'[i].grantor) /\ user'[user'[i].grantor].superuser
      BY DEF ModeratorsAreGranted
    <2>1. /\ user[i].moderator <=> user[i].grantor # None
          /\ user[i].moderator => There(user, user[i].grantor)
          /\ user[i] \in UserRow
      BY <1>1, <1>4 DEF ModeratorsAreGranted
    <2>2. ASSUME user[i].moderator
          PROVE  There(user', user[i].grantor) /\ user'[user[i].grantor].superuser
      BY <2>1, <2>2, <1>2, <1>4 DEF UserRow
    <2> QED
      BY <1>2, <2>1, <2>2
  <1>8. TablesOK'
    BY <1>1, <1>3, <1>5, <1>6, <1>7 DEF IInv, TablesOK
  <1>9. ASSUME NEW r \in Requests PROVE GrantOK(req[r])'
    <2>1. GrantOK(req[r])
      BY DEF IInv, RequestsOK
    <2> QED
      BY <1>1, <1>2, <1>4, <2>1 DEF GrantOK
  <1>10. RequestsOK'
    BY <1>1, <1>9 DEF IInv, RequestsOK, ReqOK
  <1> QED
    BY <1>1, <1>8, <1>10 DEF IInv, Running

LEMMA NextInv == IInv /\ [Next]_vars => IInv'
  <1> SUFFICES ASSUME IInv, [Next]_vars PROVE IInv'
    OBVIOUS
  <1>1. CASE \E r \in Requests : Arrive(r) \/ Look(r) \/ Write(r)
    BY <1>1, ArriveStep, LookStep, WriteStep
  <1>2. CASE MakeAllSuperusers
    BY <1>2, PromoteStep
  <1>3. CASE UNCHANGED vars
    <2>1. UNCHANGED <<user, tier, limit, req, starts, raced>>
      BY <1>3 DEF vars
    <2>2. TablesOK'
      BY <2>1, Unwritten DEF tables
    <2>3. RequestsOK'
      BY <2>1 DEF IInv, RequestsOK, ReqOK, GrantOK, There
    <2> QED
      BY <2>1, <2>2, <2>3 DEF IInv
  <1> QED
    BY <1>1, <1>2, <1>3 DEF Next, Quiet

THEOREM Inductive == Spec => []IInv
  <1> QED
    BY InitInv, NextInv, PTL DEF Spec

\* Type correctness.
THEOREM AccountsTypes == Spec => []TypeOK
  BY Inductive, InvImplies, PTL

\* Usernames, e-mails and the names of tiers and rate limits stay unique,
\* however many registrations and renames overlap: use cases check them in
\* transactions of their own, the unique columns decide.
THEOREM NamesStayUnique == Spec => []UniqueNames
  BY Inductive, InvImplies, PTL

\* No account and no rate limit refers to a tier that is not there, although
\* tiers are deleted between a request's look-up and its write.
THEOREM TiersStay == Spec => []TiersExist
  BY Inductive, InvImplies, PTL

\* A moderator's grantor is recorded, is still in the table and a superuser.
THEOREM RolesAreGranted == Spec => []ModeratorsAreGranted
  BY Inductive, InvImplies, PTL

-----------------------------------------------------------------------------
(* Accounts implements Registry: every commit is one of its operations.    *)

UserDone  == Abstract!UserStep /\ UNCHANGED <<tier, limit>>
TierDone  == Abstract!TierStep /\ UNCHANGED <<user, limit>>
LimitDone == Abstract!LimitStep /\ UNCHANGED <<user, tier>>

LEMMA UserMaps ==
    ASSUME IInv, NEW r \in Requests,
           InsertUser(r) \/ UpdateUser(r) \/ SoftDelete(r) \/ PurgeUser(r)
    PROVE  UserDone \/ UNCHANGED tables
  <1> DEFINE q == req[r]
             i == q.id
  <1> USE DEF UserDone, Abstract!UserStep, Abstract!There, Abstract!FreeUser, There, Clash, tables
  <1>0. q \in Request /\ ReqOK(q) /\ user \in [UserIds -> UserRow] /\ Filled
    BY DEF IInv, RequestsOK, TablesOK
  <1>1. CASE InsertUser(r)
    <2>1. CASE TooLong(r) \/ Clash(None, q.name, q.email)
      BY <1>1, <2>1 DEF InsertUser, Fails, Reads
    <2>2. CASE ~TooLong(r) /\ ~Clash(None, q.name, q.email)
      <3>1. PICK j \in Unborn(user) : user' = [user EXCEPT ![j] = NewUser(q.name, q.email)]
        BY <1>1, <2>2 DEF InsertUser
      <3>2. j \in UserIds /\ user[j].row = "unborn" /\ q.name \in Names /\ q.email \in StoredEmails
        BY <1>0, <1>1, <2>2 DEF Unborn, InsertUser, At, ReqOK, TooLong, StoredEmails
      <3>3. Abstract!Register(j, q.name, q.email)
        BY <2>2, <3>1, <3>2, NoneIsNothing
           DEF Abstract!Register, Abstract!Account, Abstract!Blank, NewUser, NoUser
      <3> QED
        BY <1>1, <2>2, <3>2, <3>3 DEF InsertUser
    <2> QED
      BY <2>1, <2>2
  <1>2. CASE UpdateUser(r)
    <2> DEFINE n == IF q.name = None THEN user[i].username ELSE q.name
               e == IF q.email = None THEN user[i].email ELSE q.email
    <2>0. i \in UserIds
      BY <1>0, <1>2 DEF UpdateUser, At, ReqOK, UserOps
    <2>1. CASE TooLong(r) \/ ~There(user, i) \/ Clash(i, n, e)
      BY <1>2, <2>1 DEF UpdateUser, Fails, Reads
    <2>2. CASE ~TooLong(r) /\ There(user, i) /\ ~Clash(i, n, e)
      <3>1. user' = [user EXCEPT ![i].username = n, ![i].email = e] /\ UNCHANGED <<tier, limit>>
        BY <1>2, <2>2 DEF UpdateUser
      <3>2. n \in Names /\ e \in StoredEmails
        BY <1>0, <2>0, <2>2 DEF Filled, Request, TooLong, StoredEmails
      <3>3. Abstract!Rename(i, n, e)
        BY <2>0, <2>2, <3>1 DEF Abstract!Rename
      <3> HIDE DEF n, e
      <3> QED
        BY <2>0, <3>1, <3>2, <3>3
    <2> QED
      BY <2>1, <2>2
  <1>3. CASE SoftDelete(r)
    <2>0. i \in UserIds
      BY <1>0, <1>3 DEF SoftDelete, At, ReqOK, UserOps
    <2> QED
      BY <1>3, <2>0 DEF SoftDelete, Fails, Reads, Abstract!Deactivate
  <1>4. CASE PurgeUser(r)
    <2>0. i \in UserIds
      BY <1>0, <1>4 DEF PurgeUser, At, ReqOK, UserOps
    <2> QED
      BY <1>4, <2>0 DEF PurgeUser, Fails, Reads, Abstract!Remove, Abstract!Blank, NoUser, IsGrantor
  <1> QED
    BY <1>1, <1>2, <1>3, <1>4

LEMMA RoleMaps ==
    ASSUME IInv, NEW r \in Requests, Assign(r) \/ Revoke(r) \/ Place(r)
    PROVE  UserDone \/ UNCHANGED tables
  <1> DEFINE q == req[r]
             i == q.id
  <1> USE DEF UserDone, Abstract!UserStep, Abstract!There, There, tables
  <1>0. /\ q \in Request /\ ReqOK(q) /\ GrantOK(q) /\ user \in [UserIds -> UserRow]
        /\ i \in UserIds
    BY DEF IInv, RequestsOK, TablesOK, ReqOK, UserOps, Assign, Revoke, Place, At
  <1>1. CASE Assign(r)
    <2>1. q.by \in UserIds /\ (There(user, q.by) => user[q.by].superuser)
      BY <1>0, <1>1 DEF Assign, At, GrantOK
    <2> QED
      BY <1>0, <1>1, <2>1 DEF Assign, Fails, Reads, Abstract!Grant
  <1>2. CASE Revoke(r)
    <2>1. There(user, i) =>
             user' = [user EXCEPT ![i].moderator = FALSE, ![i].grantor = None]
      BY <1>0, <1>2 DEF Revoke, Revoked
    <2> QED
      BY <1>0, <1>2, <2>1 DEF Revoke, Reads, Abstract!Withdraw
  <1>3. CASE Place(r)
    <2>1. q.tier \in TierIds
      BY <1>0, <1>3 DEF Place, At, ReqOK
    <2> QED
      BY <1>0, <1>3, <2>1 DEF Place, Fails, Reads, Abstract!Place
  <1> QED
    BY <1>1, <1>2, <1>3

LEMMA TierMaps ==
    ASSUME IInv, NEW r \in Requests, InsertTier(r) \/ RenameTier(r) \/ DeleteTier(r)
    PROVE  TierDone \/ UNCHANGED tables
  <1> DEFINE q == req[r]
             t == q.id
  <1> USE DEF TierDone, Abstract!TierStep, Abstract!There, Abstract!FreeName, There, Named, tables
  <1>0. ReqOK(q) /\ tier \in [TierIds -> TierRow]
    BY DEF IInv, RequestsOK, TablesOK
  <1>1. CASE InsertTier(r)
    <2>1. q.name \in Names
      BY <1>0, <1>1 DEF InsertTier, At, ReqOK
    <2>2. CASE Named(tier, q.name) # {}
      BY <1>1, <2>2 DEF InsertTier, Fails, Reads
    <2>3. CASE Named(tier, q.name) = {}
      <3>1. PICK u \in Unborn(tier) : tier' = [tier EXCEPT ![u] = NewTier(q.name)]
        BY <1>1, <2>3 DEF InsertTier
      <3>2. u \in TierIds /\ tier[u].row = "unborn"
        BY <1>0 DEF Unborn
      <3>3. Abstract!FreeName(tier, u, q.name)
        BY <2>3
      <3> QED
        BY <1>1, <2>1, <2>3, <3>1, <3>2, <3>3 DEF InsertTier, NewTier
    <2> QED
      BY <2>2, <2>3
  <1>2. CASE RenameTier(r)
    <2>1. q.name \in Names /\ t \in TierIds
      BY <1>0, <1>2 DEF RenameTier, At, ReqOK
    <2>2. CASE ~There(tier, t) \/ Named(tier, q.name) \ {t} # {}
      BY <1>2, <2>2 DEF RenameTier, Fails, Reads
    <2>3. CASE There(tier, t) /\ Named(tier, q.name) \ {t} = {}
      <3>1. tier' = [tier EXCEPT ![t].name = q.name] /\ UNCHANGED <<user, limit>>
        BY <1>2, <2>3 DEF RenameTier
      <3>2. [tier[t] EXCEPT !.name = q.name] = [row |-> "present", name |-> q.name]
        BY <1>0, <2>1, <2>3 DEF TierRow
      <3>3. tier' = [tier EXCEPT ![t] = [row |-> "present", name |-> q.name]]
        BY <1>0, <3>1, <3>2
      <3>4. Abstract!FreeName(tier, t, q.name)
        BY <2>3
      <3> QED
        BY <2>1, <2>3, <3>1, <3>3, <3>4
    <2> QED
      BY <2>2, <2>3
  <1>3. CASE DeleteTier(r)
    <2>1. t \in TierIds
      BY <1>0, <1>3 DEF DeleteTier, At, ReqOK
    <2> QED
      BY <1>3, <2>1 DEF DeleteTier, Fails, Reads, TierInUse
  <1> QED
    BY <1>1, <1>2, <1>3

LEMMA LimitMaps ==
    ASSUME IInv, NEW r \in Requests, InsertLimit(r) \/ UpdateLimit(r) \/ DeleteLimit(r)
    PROVE  LimitDone \/ UNCHANGED tables
  <1> DEFINE q == req[r]
             l == q.id
  <1> USE DEF LimitDone, Abstract!LimitStep, Abstract!There, Abstract!FreeName, There, Named, tables
  <1>0. q \in Request /\ ReqOK(q) /\ limit \in [LimitIds -> LimitRow]
    BY DEF IInv, RequestsOK, TablesOK
  <1>1. CASE InsertLimit(r)
    <2> DEFINE legal == q.name # None /\ ~LimitNameTaken(q.name) /\ There(tier, q.tier)
    <2>1. q.name \in Names \cup {None} /\ q.tier \in TierIds
      BY <1>0, <1>1 DEF InsertLimit, At, ReqOK, Request, LimitOps
    <2>2. CASE ~legal
      BY <1>1, <2>2 DEF InsertLimit, Fails, Reads
    <2>3. CASE legal
      <3>1. PICK k \in Unborn(limit) : limit' = [limit EXCEPT ![k] = NewLimit(q.name, q.tier)]
        BY <1>1, <2>3 DEF InsertLimit
      <3>2. k \in LimitIds /\ limit[k].row = "unborn"
        BY <1>0 DEF Unborn
      <3>3. Abstract!FreeName(limit, k, q.name)
        BY <2>3 DEF LimitNameTaken
      <3> QED
        BY <1>1, <2>1, <2>3, <3>1, <3>2, <3>3 DEF InsertLimit, NewLimit
    <2> QED
      BY <2>2, <2>3
  <1>2. CASE UpdateLimit(r)
    <2> DEFINE n == IF q.name = None THEN limit[l].name ELSE q.name
               taken == q.name # None /\ Named(limit, q.name) \ {l} # {}
    <2>1. q.name \in Names \cup {None} /\ l \in LimitIds
      BY <1>0, <1>2 DEF UpdateLimit, At, ReqOK, Request
    <2>2. CASE ~There(limit, l) \/ taken
      BY <1>2, <2>2 DEF UpdateLimit, Fails, Reads
    <2>3. CASE There(limit, l) /\ ~taken
      <3>1. limit' = [limit EXCEPT ![l].name = n] /\ UNCHANGED <<user, tier>>
        BY <1>2, <2>3 DEF UpdateLimit
      <3>2. CASE q.name = None
        <4>1. [limit[l] EXCEPT !.name = n] = limit[l]
          BY <1>0, <2>1, <3>2 DEF LimitRow
        <4> QED
          BY <1>0, <3>1, <4>1
      <3>3. CASE q.name # None
        <4>1. Abstract!FreeName(limit, l, q.name) /\ q.name \in Names
          BY <2>1, <2>3, <3>3
        <4> QED
          BY <2>1, <2>3, <3>1, <3>3, <4>1
      <3> QED
        BY <3>2, <3>3
    <2> QED
      BY <2>2, <2>3
  <1>3. CASE DeleteLimit(r)
    <2>1. l \in LimitIds
      BY <1>0, <1>3 DEF DeleteLimit, At, ReqOK
    <2> QED
      BY <1>3, <2>1 DEF DeleteLimit, Fails, Reads, NoLimit
  <1> QED
    BY <1>1, <1>2, <1>3

LEMMA ReadsMap == ASSUME NEW r \in Requests, Arrive(r) \/ Look(r) PROVE UNCHANGED tables
  <1>1. CASE Arrive(r)
    BY <1>1 DEF Arrive, BeginCreateUser, BeginUpdateUser, BeginDeleteUser, BeginDeleteDbUser,
       BeginAssign, BeginRevoke, BeginPatchUserTier, BeginGetUser, BeginGetUserTier,
       BeginGetUserLimits, BeginCreateTier, BeginUpdateTier, BeginDeleteTier, BeginGetTier,
       BeginLimit, Begin
  <1>2. CASE Look(r)
    BY <1>2 DEF Look, Reads, ReadForUpdate, CheckEmail, CheckUsername, ReadForDelete, ReadForPurge,
       ReadForAssign, ReadForRevoke, ReadForPlace, FindTier, Reload, GetUser, ReadUserTier,
       ReadTierOf, ReadLimitsOf, ReadForTierUpdate, ReadForTierDelete, GetTier, FindTierByName,
       CheckLimitName, FindLimit, GetLimit, GetLimits
  <1> QED
    BY <1>1, <1>2

\* Whatever the requests do at the same time, the tables only ever change by
\* the operations of the registry, one at a time.
THEOREM ImplementsRegistry == Spec => RegistryRefinement
  <1>1. Init => Abstract!Init
    BY DEF Init, NoUser, NoTier, NoLimit, RootRow, FirstTierRow, NewUser, NewTier,
       Abstract!Init, Abstract!Account, Abstract!Blank
  <1>2. IInv /\ [Next]_vars => [Abstract!Next]_<<user, tier, limit>>
    <2> SUFFICES ASSUME IInv, [Next]_vars
                 PROVE  Abstract!Next \/ UNCHANGED <<user, tier, limit>>
      OBVIOUS
    <2>1. CASE \E r \in Requests : Arrive(r) \/ Look(r)
      BY <2>1, ReadsMap DEF tables
    <2>2. CASE \E r \in Requests : Write(r)
      <3>1. UserDone \/ TierDone \/ LimitDone \/ UNCHANGED tables
        BY <2>2, UserMaps, RoleMaps, TierMaps, LimitMaps DEF Write
      <3> QED
        BY <3>1 DEF UserDone, TierDone, LimitDone, tables, Abstract!Next
    <2>3. CASE MakeAllSuperusers
      BY <2>3 DEF MakeAllSuperusers, Abstract!Next, Abstract!PromoteAll, Abstract!There, There
    <2>4. CASE UNCHANGED vars
      BY <2>4 DEF vars
    <2> QED
      BY <2>1, <2>2, <2>3, <2>4 DEF Next, Quiet
  <1> QED
    BY <1>1, <1>2, Inductive, PTL DEF Spec, RegistryRefinement, Abstract!Spec

-----------------------------------------------------------------------------
(* A request that runs alone meets no surprise (OnlyRacesSurprise).        *)
(*                                                                         *)
(* The invariant says what a request that no commit has overlapped may     *)
(* rely on at each phase: what it has read still holds (StillHolds).  A    *)
(* commit of another request ends that promise, so each step is judged by  *)
(* what it means for its own request (Sound).                              *)

\* Nobody else has the name, or the e-mail, that the request is about to store.
NameFree(q)  == q.name # None =>
                   \A j \in UserIds \ {q.id} : There(user, j) => user[j].username # q.name
EmailFree(q) == q.email # None =>
                   \A j \in UserIds \ {q.id} : There(user, j) => user[j].email # q.email

\* Registrations and changes of an account, as far as they have looked.
ProfileHolds(q) ==
    /\ q.op = "create_user" /\ q.pc # "reload" => q.id = None /\ q.rename
    /\ q.op = "update_user" /\ q.pc # "read" => There(user, q.id)
    /\ q.op \in {"create_user", "update_user"} =>
          /\ q.pc = "email" /\ ~q.rename => NameFree(q)
          /\ q.pc \in {"username", "write"} => EmailFree(q)
          /\ q.pc = "write" => NameFree(q)

\* Roles and the tier of an account.
RoleHolds(q) ==
    /\ q.op = "assign_moderator" => There(user, q.by)
    /\ q.op \in {"assign_moderator", "revoke_moderator", "patch_user_tier"} /\ q.pc \in {"tier", "write"} =>
          There(user, q.id)
    /\ q.op = "patch_user_tier" /\ q.pc = "write" => There(tier, q.tier)
    /\ q.op \in {"get_user_tier", "get_user_limits"} /\ q.pc = "tier" => There(tier, q.tier)

\* Rate limits.
LimitHolds(q) ==
    /\ q.op \in LimitOps /\ q.pc \in {"limit", "write"} => There(tier, q.tier)
    /\ q.op = "post_limit" /\ q.pc = "write" /\ q.name # None => ~LimitNameTaken(q.name)
    /\ q.op \in {"patch_limit", "delete_limit"} /\ q.pc = "write" => There(limit, q.id)

\* The row that is read back after the write.
RowHolds(q) == q.pc = "reload" =>
    CASE q.op = "create_tier" -> There(tier, q.id)
      [] q.op = "post_limit"  -> There(limit, q.id)
      [] OTHER                -> There(user, q.id)

StillHolds(q) == ProfileHolds(q) /\ RoleHolds(q) /\ LimitHolds(q) /\ RowHolds(q)

\* The inductive invariant, with that of AccountsProofs.
Alone == \A r \in Requests \ raced : req[r].pc # "idle" => StillHolds(req[r])

-----------------------------------------------------------------------------
(* What a step means for the request that takes it.                        *)

\* Answers a request that ran alone may get.
Fair(r, c) ==
    /\ c = 500 => UntranslatedRefusal(r)
    /\ c = 409 /\ req[r].pc = "write" => TranslatedRefusal(r)
    /\ c = 404 /\ req[r].pc = "tier" => req[r].op \notin {"get_user_tier", "get_user_limits"}

\* The step is request r's alone; either nothing is committed or everybody else
\* is overlapped; and if r was not, it goes on rightly or gets a fair answer.
Only(r) == \A s \in Requests \ {r} : req'[s] = req[s]
Sound(r) ==
    /\ Only(r)
    /\ \/ UNCHANGED tables /\ raced' = raced
       \/ raced' = raced \cup (Running \ {r})
    /\ r \notin raced =>
          \/ req'[r].pc = "idle" /\ Fair(r, req'[r].code)
          \/ req'[r].pc # "idle" /\ StillHolds(req[r])'

\* The request goes on to a phase with nothing else changed.
Turned(r, phase) ==
    /\ req'[r].pc = phase /\ req'[r].op = req[r].op /\ req'[r].by = req[r].by /\ req'[r].id = req[r].id
    /\ req'[r].name = req[r].name /\ req'[r].email = req[r].email /\ req'[r].tier = req[r].tier
    /\ req'[r].rename = req[r].rename

LEMMA GotoTurns ==
    ASSUME IInv, NEW r \in Requests, NEW phase, Goto(r, phase)
    PROVE  Turned(r, phase) /\ Only(r)
  <1>1. req \in [Requests -> Request]
    BY DEF IInv, RequestsOK
  <1> QED
    BY <1>1 DEF Goto, Turned, Only, Request

LEMMA AnswerEnds ==
    ASSUME IInv, NEW r \in Requests, NEW c, Answer(r, c)
    PROVE  req'[r].pc = "idle" /\ req'[r].code = c /\ Only(r)
  <1> DEFINE q == [Free EXCEPT !.op = req[r].op, !.code = c]
  <1>1. req \in [Requests -> Request] /\ req' = [req EXCEPT ![r] = q]
    BY DEF IInv, RequestsOK, Answer
  <1>2. q.pc = "idle" /\ q.code = c
    BY DEF Free
  <1> HIDE DEF q
  <1> QED
    BY <1>1, <1>2 DEF Only

\* An answer without a write, one after a commit, and a step to another phase.
LEMMA AnswerSound ==
    ASSUME IInv, NEW r \in Requests, NEW c, Answer(r, c), Reads, r \notin raced => Fair(r, c)
    PROVE  Sound(r)
  BY AnswerEnds DEF Sound, Reads

LEMMA DoneSound ==
    ASSUME IInv, NEW r \in Requests, Answer(r, 200), Commits(r)
    PROVE  Sound(r)
  <1>1. Fair(r, 200)
    BY DEF Fair
  <1> QED
    BY <1>1, AnswerEnds DEF Sound, Commits

LEMMA GoSound ==
    ASSUME IInv, NEW r \in Requests, NEW phase \in Phases \ {"idle"}, Goto(r, phase), Reads,
           r \notin raced => StillHolds(req[r])'
    PROVE  Sound(r)
  BY GotoTurns DEF Sound, Reads, Turned

-----------------------------------------------------------------------------
(* The requests arrive, and look.                                          *)

\* What a request relies on when it arrives.
LEMMA ArriveHolds ==
    ASSUME IInv, NEW r \in Requests, Arrive(r)
    PROVE  /\ Only(r) /\ UNCHANGED tables /\ raced' = raced \ {r} /\ req[r].pc = "idle"
           /\ StillHolds(req[r])'
  <1> USE NoneIsNothing
  <1>1. req \in [Requests -> Request]
    BY DEF IInv, RequestsOK
  <1>2. ASSUME NEW op, NEW by, NEW id, NEW n, NEW e, NEW t, NEW phase,
               Begin(r, op, by, id, n, e, t, phase),
               phase \in {"read", "email", "tier", "write"},
               op = "create_user" => id = None /\ n # None /\ phase = "email",
               op \in {"update_user", "revoke_moderator", "patch_user_tier", "assign_moderator"} => phase = "read",
               op = "assign_moderator" => There(user, by),
               op \in {"get_user_tier", "get_user_limits"} => phase = "read",
               op \in LimitOps => phase = "tier"
        PROVE  /\ Only(r) /\ UNCHANGED tables /\ raced' = raced \ {r} /\ req[r].pc = "idle"
               /\ StillHolds(req[r])'
    <2> DEFINE q == [pc |-> phase, op |-> op, by |-> by, id |-> id, name |-> n,
                     email |-> e, tier |-> t, rename |-> n # None, code |-> 0]
    <2>1. req' = [req EXCEPT ![r] = q] /\ UNCHANGED tables /\ raced' = raced \ {r} /\ req[r].pc = "idle"
      BY <1>2 DEF Begin
    <2>2. /\ q.pc = phase /\ q.op = op /\ q.by = by /\ q.id = id /\ q.rename = (n # None)
      OBVIOUS
    <2> HIDE DEF q
    <2>3. req'[r] = q /\ Only(r)
      BY <1>1, <2>1 DEF Only
    <2>4. StillHolds(req[r])'
      BY <1>2, <2>1, <2>2, <2>3
         DEF StillHolds, ProfileHolds, RoleHolds, LimitHolds, RowHolds, LimitOps, tables, There
    <2> QED
      BY <2>1, <2>3, <2>4
  <1>3. \A u \in Superusers : There(user, u)
    BY DEF Superusers, Active
  <1>4. \A u \in UserIds : Active(u) => There(user, u)
    BY DEF Active
  <1> QED
    BY <1>2, <1>3, <1>4 DEF Arrive, BeginCreateUser, BeginUpdateUser, BeginDeleteUser, BeginDeleteDbUser,
       BeginAssign, BeginRevoke, BeginPatchUserTier, BeginGetUser, BeginGetUserTier,
       BeginGetUserLimits, BeginCreateTier, BeginUpdateTier, BeginDeleteTier, BeginGetTier, BeginLimit, LimitOps

\* Every look at the tables says something that the next step relies on.
LEMMA LookSound ==
    ASSUME IInv, Alone, NEW r \in Requests, Look(r)
    PROVE  Sound(r)
  <1> USE NoneIsNothing
  <1> DEFINE q == req[r]
  <1>1. /\ req \in [Requests -> Request] /\ q \in Request /\ ReqOK(q) /\ UniqueNames /\ TiersExist
        /\ user \in [UserIds -> UserRow]
        /\ \A p \in {"email", "username", "tier", "limit", "write"} : p \in Phases \ {"idle"}
    BY DEF IInv, RequestsOK, TablesOK, Phases
  <1>2. r \notin raced /\ q.pc # "idle" => StillHolds(q)
    BY DEF Alone
  <1>3. CASE ReadForUpdate(r)
    <2>1. CASE Active(q.id) /\ q.by = q.id
      <3> DEFINE newEmail == q.email # None /\ q.email # user[q.id].email
                 newName  == q.name # None /\ q.name # user[q.id].username
                 phase    == IF newEmail THEN "email" ELSE IF newName THEN "username" ELSE "write"
      <3>1. /\ req' = [req EXCEPT ![r].rename = newName, ![r].pc = phase]
            /\ Reads /\ q.op = "update_user" /\ q.pc = "read"
        BY <1>3, <2>1 DEF ReadForUpdate, OwnAccount, At
      <3>2. q.id \in UserIds /\ There(user, q.id)
        BY <1>1, <2>1, <3>1 DEF ReqOK, UserOps, Active
      <3>3. /\ ~newName => NameFree(q)
            /\ ~newEmail => EmailFree(q)
        BY <1>1, <3>2 DEF UniqueNames, NameFree, EmailFree
      <3>4. phase = "email" \/ ~newEmail
        OBVIOUS
      <3>5. phase \in {"email", "username"} \/ ~newName
        OBVIOUS
      <3>6. phase \in {"email", "username", "write"}
        OBVIOUS
      <3>7. newName \in BOOLEAN
        OBVIOUS
      <3> HIDE DEF newEmail, newName, phase
      <3>8. /\ req'[r].pc = phase /\ req'[r].op = q.op /\ req'[r].id = q.id /\ req'[r].name = q.name
            /\ req'[r].email = q.email /\ req'[r].rename = newName /\ Only(r)
        BY <1>1, <3>1 DEF Only, Request
      <3>9. UNCHANGED user /\ (newName \/ NameFree(q)) /\ (newEmail \/ EmailFree(q))
        BY <3>1, <3>3 DEF Reads, tables
      <3>10. (newName \/ NameFree(req[r])') /\ (newEmail \/ EmailFree(req[r])')
        BY <3>8, <3>9 DEF NameFree, EmailFree, There
      <3>11. ProfileHolds(req[r])'
        BY <3>1, <3>2, <3>4, <3>5, <3>8, <3>9, <3>10 DEF ProfileHolds, There
      <3>12. StillHolds(req[r])'
        BY <3>1, <3>6, <3>8, <3>11 DEF StillHolds, RoleHolds, LimitHolds, RowHolds, LimitOps
      <3> QED
        BY <3>1, <3>6, <3>8, <3>12 DEF Sound, Reads
    <2>2. CASE ~(Active(q.id) /\ q.by = q.id)
      BY <1>3, <2>2, AnswerSound DEF ReadForUpdate, OwnAccount, At, Fair
    <2> QED
      BY <2>1, <2>2
  <1>4. CASE CheckEmail(r) \/ CheckUsername(r)
    <2>1. q.op \in {"create_user", "update_user"} /\ q.pc # "idle"
      BY <1>1, <1>4 DEF CheckEmail, CheckUsername, ReqOK
    <2>2. q.op = "update_user" => q.id \in UserIds
      BY <1>1, <2>1 DEF ReqOK, UserOps
    <2>3. CASE CheckEmail(r)
      <3>1. CASE EmailTaken(q.email)
        BY <2>3, <3>1, AnswerSound DEF CheckEmail, Check, Fair
      <3>2. CASE ~EmailTaken(q.email)
        <4> DEFINE phase == IF q.rename THEN "username" ELSE "write"
        <4>1. Goto(r, phase) /\ Reads /\ q.pc = "email" /\ phase \in {"username", "write"}
          BY <2>3, <3>2 DEF CheckEmail, Check
        <4>2. phase = "username" \/ ~q.rename
          OBVIOUS
        <4> HIDE DEF phase
        <4>3. EmailFree(q)
          BY <3>2 DEF EmailTaken, EmailFree
        <4>4. r \notin raced => StillHolds(req[r])'
          BY <1>2, <2>1, <4>1, <4>2, <4>3, GotoTurns
             DEF Turned, StillHolds, ProfileHolds, RoleHolds, LimitHolds, RowHolds, LimitOps, Reads, tables,
                 There, NameFree, EmailFree
        <4> QED
          BY <1>1, <4>1, <4>4, GoSound
      <3> QED
        BY <3>1, <3>2
    <2>4. CASE CheckUsername(r)
      <3>1. CASE UsernameTaken(q.name)
        BY <2>4, <3>1, AnswerSound DEF CheckUsername, Check, Fair
      <3>2. CASE ~UsernameTaken(q.name)
        <4>1. Goto(r, "write") /\ Reads /\ q.pc = "username"
          BY <2>4, <3>2 DEF CheckUsername, Check
        <4>2. NameFree(q)
          BY <3>2 DEF UsernameTaken, NameFree
        <4>3. r \notin raced => StillHolds(req[r])'
          BY <1>2, <2>1, <4>1, <4>2, GotoTurns
             DEF Turned, StillHolds, ProfileHolds, RoleHolds, LimitHolds, RowHolds, LimitOps, Reads, tables,
                 There, NameFree, EmailFree
        <4> QED
          BY <1>1, <4>1, <4>3, GoSound
      <3> QED
        BY <3>1, <3>2
    <2> QED
      BY <1>4, <2>3, <2>4
  <1>5. ASSUME NEW phase \in {"tier", "limit", "write"}, Goto(r, phase), Reads, q.pc # "idle",
               q.op \notin {"create_user", "update_user"},
               q.op \in {"assign_moderator", "revoke_moderator", "patch_user_tier"} => There(user, q.id),
               q.op = "patch_user_tier" /\ phase = "write" => There(tier, q.tier),
               q.op \in {"get_user_tier", "get_user_limits"} => phase # "tier",
               q.op \in LimitOps => q.pc = "limit",
               q.op = "post_limit" => ~LimitNameTaken(q.name),
               q.op \in {"patch_limit", "delete_limit"} => There(limit, q.id)
        PROVE  Sound(r)
    <2>1. r \notin raced => StillHolds(req[r])'
      BY <1>2, <1>5, GotoTurns
         DEF Turned, StillHolds, ProfileHolds, RoleHolds, LimitHolds, RowHolds, LimitOps, Reads, tables,
             There, LimitNameTaken, Named
    <2> QED
      BY <1>1, <1>5, <2>1, GoSound
  <1>6. CASE ReadForDelete(r) \/ ReadForAssign(r) \/ ReadForRevoke(r)
    <2>1. /\ q.op \in {"delete_user", "assign_moderator", "revoke_moderator"} /\ q.pc = "read" /\ Reads
          /\ (\E c \in {403, 404, 409} : Answer(r, c)) \/ (There(user, q.id) /\ Goto(r, "write"))
      BY <1>6 DEF ReadForDelete, ReadForAssign, ReadForRevoke, At, Active, Candidate, Serving
    <2>2. \A c \in {403, 404, 409} : Fair(r, c)
      BY <2>1 DEF Fair
    <2> QED
      BY <1>5, <2>1, <2>2, AnswerSound DEF LimitOps
  <1>7. CASE ReadForPurge(r) \/ ReadForPlace(r) \/ ReadForTierUpdate(r) \/ ReadForTierDelete(r) \/ FindTier(r)
    <2>1. /\ q.op \in {"delete_db_user", "patch_user_tier", "update_tier", "delete_tier"} /\ Reads
          /\ q.pc = "read" \/ (q.op = "patch_user_tier" /\ q.pc = "tier")
      BY <1>7 DEF ReadForPurge, ReadForPlace, ReadForTierUpdate, ReadForTierDelete, FindTier, At
    <2>2. Fair(r, 404)
      BY <2>1 DEF Fair
    <2>3. CASE Answer(r, 404)
      BY <2>1, <2>2, <2>3, AnswerSound
    <2>4. CASE ~Answer(r, 404)
      <3>1. CASE FindTier(r)
        <4>1. There(tier, q.tier) /\ Goto(r, "write") /\ q.op = "patch_user_tier" /\ q.pc = "tier"
          BY <2>4, <3>1 DEF FindTier, Check, At
        <4>2. r \notin raced => StillHolds(req[r])'
          BY <1>2, <2>1, <4>1, GotoTurns
             DEF Turned, StillHolds, ProfileHolds, RoleHolds, LimitHolds, RowHolds, LimitOps, Reads, tables, There
        <4> QED
          BY <1>1, <2>1, <4>1, <4>2, GoSound
      <3>2. CASE ~FindTier(r)
        <4>1. PICK phase \in {"tier", "write"} :
                 /\ Goto(r, phase) /\ q.pc = "read"
                 /\ q.op = "patch_user_tier" => phase = "tier" /\ There(user, q.id)
          BY <1>7, <2>4, <3>2
             DEF ReadForPurge, ReadForPlace, ReadForTierUpdate, ReadForTierDelete, Check, At
        <4> QED
          BY <1>5, <2>1, <4>1 DEF LimitOps
      <3> QED
        BY <3>1, <3>2
    <2> QED
      BY <2>3, <2>4
  <1>8. CASE Reload(r)
    <2> DEFINE found == CASE q.op = "create_tier" -> There(tier, q.id)
                          [] q.op = "post_limit"  -> There(limit, q.id)
                          [] OTHER                -> There(user, q.id)
    <2>1. r \notin raced => found
      BY <1>2, <1>8 DEF Reload, StillHolds, RowHolds
    <2>2. q.pc = "reload" /\ Reads
      BY <1>8 DEF Reload
    <2>3. PICK c \in {200, 201, 404, 500} : Answer(r, c) /\ (c = 500 => ~found)
      BY <1>8 DEF Reload
    <2>4. r \notin raced => Fair(r, c)
      BY <2>1, <2>2, <2>3 DEF Fair
    <2> QED
      BY <2>2, <2>3, <2>4, AnswerSound
  <1>9. CASE GetUser(r) \/ GetTier(r) \/ GetLimit(r) \/ GetLimits(r)
    <2>1. Reads /\ q.pc \in {"read", "limit"} /\ \E c \in {200, 404} : Answer(r, c)
      BY <1>9 DEF GetUser, GetTier, GetLimit, GetLimits, At
    <2>2. \A c \in {200, 404} : Fair(r, c)
      BY <2>1 DEF Fair
    <2> QED
      BY <2>1, <2>2, AnswerSound
  <1>10. CASE ReadUserTier(r)
    <2>1. q.op \in {"get_user_tier", "get_user_limits"} /\ q.pc = "read" /\ Reads
      BY <1>10 DEF ReadUserTier
    <2>2. CASE \E c \in {200, 404} : Answer(r, c)
      <3>1. \A c \in {200, 404} : Fair(r, c)
        BY <2>1 DEF Fair
      <3> QED
        BY <2>1, <2>2, <3>1, AnswerSound
    <2>3. CASE ~\E c \in {200, 404} : Answer(r, c)
      <3>1. /\ There(user, q.id) /\ user[q.id].tier # None
            /\ req' = [req EXCEPT ![r].pc = "tier", ![r].tier = user[q.id].tier]
        BY <1>10, <2>3 DEF ReadUserTier, Active
      <3>2. There(tier, user[q.id].tier)
        BY <1>1, <2>1, <3>1 DEF TiersExist, ReqOK, UserOps
      <3>3. req'[r].pc = "tier" /\ req'[r].op = q.op /\ req'[r].tier = user[q.id].tier /\ Only(r)
        BY <1>1, <3>1 DEF Only, Request
      <3>4. StillHolds(req[r])'
        BY <2>1, <3>2, <3>3
           DEF StillHolds, ProfileHolds, RoleHolds, LimitHolds, RowHolds, LimitOps, Reads, tables, There
      <3> QED
        BY <2>1, <3>3, <3>4 DEF Sound, Reads
    <2> QED
      BY <2>2, <2>3
  <1>11. CASE ReadTierOf(r) \/ ReadLimitsOf(r)
    <2>1. q.op \in {"get_user_tier", "get_user_limits"} /\ q.pc \in {"tier", "limit"} /\ Reads
      BY <1>11 DEF ReadTierOf, ReadLimitsOf, At
    <2>2. \/ Answer(r, 200)
          \/ Answer(r, 404) /\ ~There(tier, q.tier) /\ q.pc = "tier"
          \/ Goto(r, "limit")
      BY <1>11 DEF ReadTierOf, ReadLimitsOf, At, Check
    <2>3. Fair(r, 200) /\ (r \notin raced /\ q.pc = "tier" => There(tier, q.tier))
      BY <1>2, <2>1 DEF Fair, StillHolds, RoleHolds
    <2> QED
      BY <1>5, <2>1, <2>2, <2>3, AnswerSound DEF LimitOps
  <1>12. CASE FindTierByName(r)
    <2>1. q.op \in LimitOps /\ q.pc = "tier" /\ Reads
      BY <1>12 DEF FindTierByName
    <2>2. CASE Answer(r, 404)
      BY <2>1, <2>2, AnswerSound DEF Fair, LimitOps
    <2>3. CASE ~Answer(r, 404)
      <3>1. PICK t \in Named(tier, q.tier) : req' = [req EXCEPT ![r].tier = t, ![r].pc = "limit"]
        BY <1>12, <2>3 DEF FindTierByName
      <3>2. There(tier, t)
        BY <3>1 DEF Named, There, IInv, TablesOK
      <3>3. req'[r].pc = "limit" /\ req'[r].op = q.op /\ req'[r].tier = t /\ Only(r)
        BY <1>1, <3>1 DEF Only, Request
      <3>4. StillHolds(req[r])'
        BY <2>1, <3>2, <3>3
           DEF StillHolds, ProfileHolds, RoleHolds, LimitHolds, RowHolds, LimitOps, Reads, tables, There
      <3> QED
        BY <2>1, <3>3, <3>4 DEF Sound, Reads
    <2> QED
      BY <2>2, <2>3
  <1>13. CASE CheckLimitName(r) \/ FindLimit(r)
    <2>1. /\ q.op \in {"post_limit", "patch_limit", "delete_limit"} /\ q.pc = "limit" /\ Reads
          /\ \/ \E c \in {404, 409} : Answer(r, c)
             \/ /\ Goto(r, "write")
                /\ q.op = "post_limit" => ~LimitNameTaken(q.name)
                /\ q.op \in {"patch_limit", "delete_limit"} => There(limit, q.id)
      BY <1>13 DEF CheckLimitName, FindLimit, At, Check
    <2>2. \A c \in {404, 409} : Fair(r, c)
      BY <2>1 DEF Fair
    <2> QED
      BY <1>5, <2>1, <2>2, AnswerSound
  <1> QED
    BY <1>3, <1>4, <1>6, <1>7, <1>8, <1>9, <1>10, <1>11, <1>12, <1>13 DEF Look

-----------------------------------------------------------------------------
(* The requests write.                                                     *)

\* A row is inserted under an id not used yet, and is there to be read back.
LEMMA InsertSound ==
    ASSUME IInv, NEW r \in Requests, NEW i, i # None,
           req' = [req EXCEPT ![r].pc = "reload", ![r].id = i], Commits(r),
           \/ req[r].op = "create_user" /\ user'[i].row = "present"
           \/ req[r].op = "create_tier" /\ tier'[i].row = "present"
           \/ req[r].op = "post_limit" /\ limit'[i].row = "present"
    PROVE  Sound(r)
  <1>1. req \in [Requests -> Request]
    BY DEF IInv, RequestsOK
  <1>2. req'[r].pc = "reload" /\ req'[r].id = i /\ req'[r].op = req[r].op /\ Only(r)
    BY <1>1 DEF Only, Request
  <1>3. StillHolds(req[r])'
    BY <1>2 DEF StillHolds, ProfileHolds, RoleHolds, LimitHolds, RowHolds, LimitOps, There
  <1> QED
    BY <1>2, <1>3 DEF Sound, Commits

LEMMA WriteSound ==
    ASSUME IInv, Alone, NEW r \in Requests, Write(r)
    PROVE  Sound(r)
  <1> USE NoneIsNothing
  <1> DEFINE q == req[r]
  <1>1. /\ req \in [Requests -> Request] /\ q \in Request /\ ReqOK(q) /\ UniqueNames /\ Filled
        /\ user \in [UserIds -> UserRow] /\ tier \in [TierIds -> TierRow] /\ limit \in [LimitIds -> LimitRow]
    BY DEF IInv, RequestsOK, TablesOK
  <1>2. r \notin raced /\ q.pc # "idle" => StillHolds(q)
    BY DEF Alone
  <1>3. CASE InsertUser(r)
    <2>1. At(r, "create_user", "write") /\ q.name # None /\ q.email # None
      BY <1>1, <1>3 DEF InsertUser, At, ReqOK
    <2>4. CASE TooLong(r)
      <3>1. Fair(r, 500)
        BY <2>1, <2>4 DEF Fair, UntranslatedRefusal, At
      <3> QED
        BY <1>3, <2>4, <3>1, AnswerSound DEF InsertUser, Fails
    <2>2. CASE ~TooLong(r) /\ Clash(None, q.name, q.email)
      <3>1. r \notin raced => Fair(r, 409)
        <4>1. r \notin raced => q.id = None /\ EmailFree(q) /\ NameFree(q)
          BY <1>2, <2>1 DEF At, StillHolds, ProfileHolds
        <4> QED
          BY <2>1, <2>2, <4>1 DEF Clash, EmailFree, NameFree
      <3> QED
        BY <1>3, <2>2, <3>1, AnswerSound DEF InsertUser, Fails
    <2>3. CASE ~TooLong(r) /\ ~Clash(None, q.name, q.email)
      <3>1. PICK i \in Unborn(user) : /\ user' = [user EXCEPT ![i] = NewUser(q.name, q.email)]
                                      /\ req' = [req EXCEPT ![r].pc = "reload", ![r].id = i]
        BY <1>3, <2>3 DEF InsertUser
      <3>2. i # None /\ user'[i].row = "present"
        BY <1>1, <3>1 DEF Unborn, NewUser, NoUser
      <3> QED
        BY <1>3, <2>1, <2>3, <3>1, <3>2, InsertSound DEF InsertUser, At
    <2> QED
      BY <2>2, <2>3, <2>4
  <1>4. CASE InsertTier(r)
    <2>1. At(r, "create_tier", "write")
      BY <1>4 DEF InsertTier
    <2>2. CASE Named(tier, q.name) # {}
      <3>1. Fair(r, 409)
        BY <2>1, <2>2 DEF Fair, At, TranslatedRefusal
      <3> QED
        BY <1>4, <2>2, <3>1, AnswerSound DEF InsertTier, Fails
    <2>3. CASE Named(tier, q.name) = {}
      <3>1. PICK i \in Unborn(tier) : /\ tier' = [tier EXCEPT ![i] = NewTier(q.name)]
                                      /\ req' = [req EXCEPT ![r].pc = "reload", ![r].id = i]
        BY <1>4, <2>3 DEF InsertTier
      <3>2. i # None /\ tier'[i].row = "present"
        BY <1>1, <3>1 DEF Unborn, NewTier
      <3> QED
        BY <1>4, <2>1, <2>3, <3>1, <3>2, InsertSound DEF InsertTier, At
    <2> QED
      BY <2>2, <2>3
  <1>5. CASE InsertLimit(r)
    <2> DEFINE legal == q.name # None /\ ~LimitNameTaken(q.name) /\ There(tier, q.tier)
    <2>1. At(r, "post_limit", "write")
      BY <1>5 DEF InsertLimit
    <2>2. CASE ~legal
      <3>1. r \notin raced => Fair(r, 500)
        BY <1>2, <2>1, <2>2 DEF Fair, UntranslatedRefusal, At, StillHolds, LimitHolds, LimitOps
      <3> QED
        BY <1>5, <2>2, <3>1, AnswerSound DEF InsertLimit, Fails
    <2>3. CASE legal
      <3>1. PICK i \in Unborn(limit) : /\ limit' = [limit EXCEPT ![i] = NewLimit(q.name, q.tier)]
                                       /\ req' = [req EXCEPT ![r].pc = "reload", ![r].id = i]
        BY <1>5, <2>3 DEF InsertLimit
      <3>2. i # None /\ limit'[i].row = "present"
        BY <1>1, <3>1 DEF Unborn, NewLimit
      <3> QED
        BY <1>5, <2>1, <2>3, <3>1, <3>2, InsertSound DEF InsertLimit, At
    <2> QED
      BY <2>2, <2>3
  <1>6. CASE UpdateUser(r)
    <2> DEFINE n == IF q.name = None THEN user[q.id].username ELSE q.name
               e == IF q.email = None THEN user[q.id].email ELSE q.email
    <2>1. At(r, "update_user", "write") /\ q.id \in UserIds
      BY <1>1, <1>6 DEF UpdateUser, At, ReqOK, UserOps
    <2>2. CASE ~There(user, q.id)
      <3>1. Fair(r, 200)
        BY DEF Fair
      <3>2. TooLong(r) => Fair(r, 500)
        BY <2>1 DEF Fair, UntranslatedRefusal, At
      <3> QED
        BY <1>6, <2>2, <3>1, <3>2, AnswerSound DEF UpdateUser, Fails
    <2>5. CASE There(user, q.id) /\ TooLong(r)
      <3>1. Fair(r, 500)
        BY <2>1, <2>5 DEF Fair, UntranslatedRefusal, At
      <3> QED
        BY <1>6, <2>5, <3>1, AnswerSound DEF UpdateUser, Fails
    <2>3. CASE There(user, q.id) /\ ~TooLong(r) /\ Clash(q.id, n, e)
      <3>1. r \in raced
        <4>1. SUFFICES ASSUME EmailFree(q) /\ NameFree(q) PROVE FALSE
          BY <1>2, <2>1 DEF At, StillHolds, ProfileHolds
        <4> QED
          BY <1>1, <2>1, <2>3, <4>1 DEF Clash, EmailFree, NameFree, UniqueNames
      <3> QED
        BY <1>6, <2>3, <3>1, AnswerSound DEF UpdateUser, Fails
    <2>4. CASE There(user, q.id) /\ ~TooLong(r) /\ ~Clash(q.id, n, e)
      BY <1>6, <2>4, DoneSound DEF UpdateUser
    <2> QED
      BY <2>2, <2>3, <2>4, <2>5
  <1>7. CASE SoftDelete(r)
    <2>1. Fair(r, 200)
      BY DEF Fair
    <2> QED
      BY <1>7, <2>1, AnswerSound, DoneSound DEF SoftDelete, Fails
  <1>8. CASE PurgeUser(r) \/ RenameTier(r) \/ DeleteTier(r)
    <2>1. Fair(r, 200)
      BY DEF Fair
    <2>2. CASE PurgeUser(r)
      <3>1. IsGrantor(q.id) => Fair(r, 409)
        BY <2>2 DEF PurgeUser, At, Fair, TranslatedRefusal
      <3> QED
        BY <2>1, <2>2, <3>1, AnswerSound, DoneSound DEF PurgeUser, Fails
    <2>3. CASE RenameTier(r)
      <3>1. Named(tier, q.name) \ {q.id} # {} => Fair(r, 409)
        BY <2>3 DEF RenameTier, At, Fair, TranslatedRefusal
      <3> QED
        BY <2>1, <2>3, <3>1, AnswerSound, DoneSound DEF RenameTier, Fails
    <2>4. CASE DeleteTier(r)
      <3>1. TierInUse(q.id) => Fair(r, 500)
        BY <2>4 DEF DeleteTier, At, Fair, UntranslatedRefusal
      <3> QED
        BY <2>1, <2>4, <3>1, AnswerSound, DoneSound DEF DeleteTier, Fails
    <2> QED
      BY <1>8, <2>2, <2>3, <2>4
  <1>12. CASE UpdateLimit(r)
    <2>1. At(r, "patch_limit", "write")
      BY <1>12 DEF UpdateLimit
    <2>2. r \notin raced => There(limit, q.id)
      BY <1>2, <2>1 DEF At, StillHolds, LimitHolds
    <2>3. CASE Named(limit, q.name) \ {q.id} # {}
      <3>1. Fair(r, 500) /\ Fair(r, 200)
        BY <2>1, <2>3 DEF Fair, UntranslatedRefusal, At
      <3> QED
        BY <1>12, <3>1, AnswerSound, DoneSound DEF UpdateLimit, Fails
    <2>4. CASE Named(limit, q.name) \ {q.id} = {}
      <3>1. CASE ~There(limit, q.id)
        <4>1. PICK c : Fails(r, c)
          BY <1>12, <3>1 DEF UpdateLimit
        <4> QED
          BY <2>2, <3>1, <4>1, AnswerSound DEF Fails
      <3>2. CASE There(limit, q.id)
        BY <1>12, <2>4, <3>2, DoneSound DEF UpdateLimit
      <3> QED
        BY <3>1, <3>2
    <2> QED
      BY <2>3, <2>4
  <1>9. CASE Assign(r) \/ Revoke(r)
    <2>1. q.op \in {"assign_moderator", "revoke_moderator"} /\ q.pc = "write" /\ q.id \in UserIds
      BY <1>1, <1>9 DEF Assign, Revoke, At, ReqOK, UserOps
    <2>2. r \notin raced => There(user, q.id) /\ (Assign(r) => There(user, q.by))
      BY <1>2, <2>1 DEF StillHolds, RoleHolds, Assign, At
    <2>3. CASE Fails(r, 500)
      <3>1. r \in raced
        BY <1>9, <2>2, <2>3, AnswerEnds, GotoTurns DEF Assign, Revoke, Fails, Turned
      <3> QED
        BY <2>3, <3>1, AnswerSound DEF Fails
    <2>4. CASE ~Fails(r, 500)
      <3>1. /\ Goto(r, "reload")
            /\ \/ Reads /\ ~There(user, q.id)
               \/ /\ Commits(r) /\ There(user, q.id)
                  /\ user'[q.id].row = "present"
                  /\ Assign(r) => user'[q.by].row = "present" /\ q.by # None
        <4>1. Goto(r, "reload")
          BY <1>9, <2>4 DEF Assign, Revoke
        <4>2. CASE ~There(user, q.id)
          BY <1>9, <2>4, <4>1, <4>2 DEF Assign, Revoke
        <4>3. CASE There(user, q.id) /\ Assign(r)
          <5>1. /\ user' = [user EXCEPT ![q.id].moderator = TRUE, ![q.id].grantor = q.by]
                /\ There(user, q.by) /\ Commits(r)
            BY <2>4, <4>3 DEF Assign
          <5>2. user'[q.id].row = "present" /\ user'[q.by].row = "present" /\ q.by # None
            BY <1>1, <2>1, <4>3, <5>1 DEF There, UserRow
          <5> QED
            BY <4>1, <4>3, <5>1, <5>2
        <4>4. CASE There(user, q.id) /\ ~Assign(r)
          <5>1. user' = [user EXCEPT ![q.id] = Revoked(user[q.id])] /\ Commits(r)
            BY <1>9, <4>4 DEF Revoke
          <5>2. user'[q.id].row = "present"
            BY <1>1, <2>1, <4>4, <5>1 DEF There, UserRow, Revoked
          <5> QED
            BY <4>1, <4>4, <5>1, <5>2
        <4> QED
          BY <4>2, <4>3, <4>4
      <3>2. Turned(r, "reload") /\ Only(r)
        BY <3>1, GotoTurns
      <3>3. CASE Reads /\ ~There(user, q.id)
        BY <2>2, <3>2, <3>3 DEF Sound, Reads
      <3>4. CASE Commits(r) /\ There(user, q.id)
        <4>1. q.op = "assign_moderator" <=> Assign(r)
          BY <1>9, <2>1 DEF Assign, Revoke, At
        <4>2. StillHolds(req[r])'
          BY <2>1, <2>2, <3>1, <3>2, <3>4, <4>1
             DEF Turned, StillHolds, ProfileHolds, RoleHolds, LimitHolds, RowHolds, LimitOps, There, Reads
        <4> QED
          BY <3>2, <3>4, <4>2 DEF Sound, Commits, Turned
      <3> QED
        BY <3>1, <3>3, <3>4
    <2> QED
      BY <2>3, <2>4
  <1>10. CASE Place(r)
    <2>1. At(r, "patch_user_tier", "write")
      BY <1>10 DEF Place
    <2>2. r \notin raced => There(user, q.id) /\ There(tier, q.tier)
      BY <1>2, <2>1 DEF At, StillHolds, RoleHolds
    <2>3. CASE There(user, q.id) /\ There(tier, q.tier)
      BY <1>10, <2>3, DoneSound DEF Place
    <2>4. CASE ~(There(user, q.id) /\ There(tier, q.tier))
      <3>1. PICK c : Fails(r, c)
        BY <1>10, <2>4 DEF Place
      <3> QED
        BY <2>2, <2>4, <3>1, AnswerSound DEF Fails
    <2> QED
      BY <2>3, <2>4
  <1>11. CASE DeleteLimit(r)
    <2>1. At(r, "delete_limit", "write")
      BY <1>11 DEF DeleteLimit
    <2>2. r \notin raced => There(limit, q.id)
      BY <1>2, <2>1 DEF At, StillHolds, LimitHolds
    <2>3. CASE There(limit, q.id)
      BY <1>11, <2>3, DoneSound DEF DeleteLimit
    <2>4. CASE ~There(limit, q.id)
      <3>1. PICK c : Fails(r, c)
        BY <1>11, <2>4 DEF DeleteLimit
      <3> QED
        BY <2>2, <2>4, <3>1, AnswerSound DEF Fails
    <2> QED
      BY <2>3, <2>4
  <1> QED
    BY <1>3, <1>4, <1>5, <1>6, <1>7, <1>8, <1>9, <1>10, <1>11, <1>12 DEF Write

-----------------------------------------------------------------------------
(* All together.                                                           *)

\* What a request relies on depends on the tables and on itself alone.
LEMMA OthersHold ==
    ASSUME IInv, Alone, NEW r \in Requests, Only(r),
           \/ UNCHANGED tables /\ raced' \in {raced, raced \ {r}}
           \/ raced' = raced \cup (Running \ {r}),
           r \in raced' \/ req'[r].pc = "idle" \/ StillHolds(req[r])'
    PROVE  Alone'
  <1> SUFFICES ASSUME NEW s \in Requests, s \notin raced', req'[s].pc # "idle"
               PROVE  StillHolds(req[s])'
    BY DEF Alone
  <1>1. CASE s = r
    BY <1>1
  <1>2. CASE s # r
    <2>1. req'[s] = req[s]
      BY <1>2 DEF Only
    <2>2. s \notin raced /\ UNCHANGED tables
      BY <1>2, <2>1 DEF Running
    <2>3. StillHolds(req[s])
      BY <2>1, <2>2 DEF Alone
    <2>4. ProfileHolds(req[s])'
      BY <2>1, <2>2, <2>3 DEF tables, StillHolds, ProfileHolds, NameFree, EmailFree, There
    <2>5. RoleHolds(req[s])' /\ RowHolds(req[s])'
      BY <2>1, <2>2, <2>3 DEF tables, StillHolds, RoleHolds, RowHolds, There
    <2>6. LimitHolds(req[s])'
      BY <2>1, <2>2, <2>3 DEF tables, StillHolds, LimitHolds, There, LimitNameTaken, Named
    <2> QED
      BY <2>4, <2>5, <2>6 DEF StillHolds
  <1> QED
    BY <1>1, <1>2

LEMMA NextAlone == IInv /\ Alone /\ [Next]_vars => Alone'
  <1> SUFFICES ASSUME IInv, Alone, [Next]_vars PROVE Alone'
    OBVIOUS
  <1>1. ASSUME NEW r \in Requests, Arrive(r) PROVE Alone'
    BY <1>1, ArriveHolds, OthersHold
  <1>2. ASSUME NEW r \in Requests, Look(r) \/ Write(r) PROVE Alone'
    <2>1. Sound(r)
      BY <1>2, LookSound, WriteSound
    <2>2. r \notin raced' => r \notin raced
      BY <2>1 DEF Sound
    <2> QED
      BY <2>1, <2>2, OthersHold DEF Sound
  <1>3. CASE MakeAllSuperusers
    BY <1>3 DEF MakeAllSuperusers, Alone, Running
  <1>4. CASE UNCHANGED vars
    BY <1>4 DEF vars, Alone, StillHolds, ProfileHolds, RoleHolds, LimitHolds, RowHolds, NameFree, EmailFree,
             There, LimitNameTaken, Named
  <1> QED
    BY <1>1, <1>2, <1>3, <1>4 DEF Next, Quiet

\* What the use cases of features/users, features/tiers and features/rate_limits
\* check before they write is enough for a request no other commit overlaps, up
\* to the refusals they leave to the tables and that the property lists: such a
\* request is answered 500, or 409 at its write, for one of those reasons only,
\* and finds the tier whose id it has just read from an account.
THEOREM NoSurpriseAlone == Spec => OnlyRacesSurprise
  <1>1. Init => Alone
    BY DEF Init, Alone, Free
  <1>2. IInv /\ Alone /\ [Next]_vars =>
           [\A r \in Requests : Ends(r) =>
                /\ req'[r].code = 500 => r \in raced \/ UntranslatedRefusal(r)
                /\ (req'[r].code = 409 /\ req[r].pc = "write") => r \in raced \/ TranslatedRefusal(r)
                /\ (req'[r].code = 404 /\ req[r].pc = "tier"
                       /\ req[r].op \in {"get_user_tier", "get_user_limits"}) => r \in raced]_vars
    <2> SUFFICES ASSUME IInv, Alone, Next, NEW r \in Requests, Ends(r), r \notin raced
                 PROVE  Fair(r, req'[r].code)
      BY DEF Fair
    <2>1. ASSUME NEW s \in Requests, Arrive(s) \/ Look(s) \/ Write(s), s # r PROVE FALSE
      <3>1. Only(s)
        BY <2>1, ArriveHolds, LookSound, WriteSound DEF Sound
      <3> QED
        BY <2>1, <3>1 DEF Only, Ends
    <2>2. CASE Arrive(r)
      BY <2>2, ArriveHolds DEF Ends
    <2>3. CASE Look(r) \/ Write(r)
      BY <2>3, LookSound, WriteSound DEF Sound, Ends
    <2>4. ASSUME UNCHANGED req PROVE FALSE
      BY <2>4 DEF Ends
    <2> QED
      BY <2>1, <2>2, <2>3, <2>4 DEF Next, Quiet, MakeAllSuperusers, vars
  <1> QED
    BY <1>1, <1>2, NextAlone, Inductive, PTL DEF Spec, OnlyRacesSurprise

=============================================================================
