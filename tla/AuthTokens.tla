----------------------------- MODULE AuthTokens -----------------------------
(***************************************************************************)
(* Tokens: login, refresh, logout, the dependencies that turn a token into *)
(* a user, and the blacklist (src/api/src/app/core/security.py,            *)
(* features/auth, shared_dependencies.py, adapters/db/token_blacklist).    *)
(*                                                                         *)
(* A JWT is its payload: the subject, which is a USERNAME, the kind and    *)
(* the second it expires.  It has no id, so two tokens of one user and     *)
(* kind made in the same second are the same string, and it names a user   *)
(* by a name that can change hands.  A token is valid as long as it is not *)
(* in the blacklist, checked in a session of its own, and not expired; the *)
(* user is looked up by another statement.  logout blacklists the access   *)
(* token of the header, then the refresh token of the cookie, in two       *)
(* transactions, and does not verify either first.                         *)
(*                                                                         *)
(* A call is one HTTP request.  It passes through                          *)
(*                                                                         *)
(*   login, refresh:   start -> done                                       *)
(*   me, browse:       start -> user -> done                               *)
(*   delete:           start -> user -> erase -> revoke -> done            *)
(*   logout:           start -> second -> done                             *)
(*                                                                         *)
(* "me" stands for every endpoint behind get_current_user, "browse" for    *)
(* those behind get_optional_user, "delete" is DELETE /user/{id} of the    *)
(* caller's own account.  A call can be cut off anywhere: code 0.          *)
(***************************************************************************)
EXTENDS Naturals

CONSTANTS Accounts,                \* rows of "user"; each has its own password
          Names,                   \* usernames
          Calls,                   \* HTTP requests in progress
          AccessTTL, RefreshTTL,   \* ACCESS_TOKEN_EXPIRE_MINUTES, REFRESH_TOKEN_EXPIRE_DAYS
          MaxTime,                 \* bound: the clock
          None

ASSUME TimesAssumption == AccessTTL \in Nat /\ RefreshTTL \in Nat /\ MaxTime \in Nat

VARIABLES account,    \* name of each account, None without a row; and whether it is active
          blacklist,  \* table "token_blacklist"
          call,       \* the calls
          now,        \* the clock, in steps of any length
          issued,     \* history: which account logged in for which token
          out,        \* history: tokens of logouts that were answered 200
          owners      \* history: the accounts each name has belonged to

server == <<account, blacklist, call, now, issued, out, owners>>

Token == [kind : {"access", "refresh"}, sub : Names, exp : 0..(MaxTime + AccessTTL + RefreshTTL)]
ASSUME NoneAssumption == None \notin Accounts \cup Names \cup Calls \cup Token

CallOps == {"login", "refresh", "logout", "me", "browse", "delete"}

Call == [pc : {"free", "start", "user", "erase", "second", "revoke", "done"},
         op : CallOps,
         token : Token \cup {None}, cookie : Token \cup {None},   \* header and cookie sent
         name : Names \cup {None}, person : Accounts \cup {None}, \* credentials sent
         stale : BOOLEAN,                \* history: sent a credential that had been logged out
         as : Accounts \cup {None},      \* the user it was admitted as
         code : {0, 200, 401, 404, 500},
         access : Token \cup {None}, set : Token \cup {None}]     \* tokens of the answer

NoCall == [pc |-> "free", op |-> "me", token |-> None, cookie |-> None, name |-> None,
           person |-> None, stale |-> FALSE, as |-> None, code |-> 0,
           access |-> None, set |-> None]

\* (Defect: the kind of the token not told apart.)
NewAccess_Bearer(n) == [kind |-> "bearer", sub |-> n, exp |-> now + AccessTTL]
NewAccess(n)  == [kind |-> "access", sub |-> n, exp |-> now + AccessTTL]
NewRefresh(n) == [kind |-> "refresh", sub |-> n, exp |-> now + RefreshTTL]

HasRow(a)  == account[a].name # None
Called(n)  == {a \in Accounts : account[a].name = n /\ account[a].active}
Decodes(t) == now <= t.exp

InitServer ==
    /\ account \in [Accounts -> [name : Names \cup {None}, active : {TRUE}]]
    /\ \A a, b \in Accounts : a # b /\ HasRow(a) => account[a].name # account[b].name
    /\ blacklist = {} /\ now = 0 /\ out = {}
    /\ call = [c \in Calls |-> NoCall]
    /\ owners = [n \in Names |-> {a \in Accounts : account[a].name = n}]

-----------------------------------------------------------------------------
(* A call arrives, moves on, ends.                                         *)

Accept(c, op, token, cookie, name, person) ==
    /\ call[c].pc = "free"
    /\ call' = [call EXCEPT ![c] = [NoCall EXCEPT
                   !.pc = "start", !.op = op, !.token = token, !.cookie = cookie,
                   !.name = name, !.person = person,
                   !.stale = (IF op = "refresh" THEN cookie ELSE token) \in out]]

At(c, ops, pc)   == call[c].op \in ops /\ call[c].pc = pc
Move(c, pc)      == call' = [call EXCEPT ![c].pc = pc]
Respond(c, code) == call' = [call EXCEPT ![c].pc = "done", ![c].code = code]

\* verify_token: the blacklist first, then signature, expiry and kind.
\* (Defect: the signature and expiry alone.)
Verifies_Unlisted(t, kind) == t # None /\ Decodes(t) /\ t.kind = kind
Verifies(t, kind) == t # None /\ t \notin blacklist /\ Decodes(t) /\ t.kind = kind

\* authenticate_user: an active account of that name and its password.
\* (Defect: any password will do.)
Authentic_NoPassword(n, p) == Called(n) # {}
Authentic(n, p) == p \in Called(n)

Login(c) ==
    LET n == call[c].name IN
    /\ At(c, {"login"}, "start")
    /\ IF Authentic(n, call[c].person)
       THEN /\ call' = [call EXCEPT ![c].pc = "done", ![c].code = 200,
                                    ![c].access = NewAccess(n), ![c].set = NewRefresh(n)]
            /\ issued' = issued \cup ({NewAccess(n), NewRefresh(n)} \X {call[c].person})
       ELSE Respond(c, 401) /\ UNCHANGED issued
    /\ UNCHANGED <<account, blacklist, now, out, owners>>

\* A refresh asks nothing of the account: a new access token for the subject.
Refresh(c) ==
    LET t == call[c].cookie IN
    /\ At(c, {"refresh"}, "start")
    /\ IF Verifies(t, "refresh")
       THEN /\ call' = [call EXCEPT ![c].pc = "done", ![c].code = 200, ![c].access = NewAccess(t.sub)]
            /\ issued' = issued \cup {<<NewAccess(t.sub), i[2]>> : i \in {j \in issued : j[1] = t}}
       ELSE Respond(c, 401) /\ UNCHANGED issued
    /\ UNCHANGED <<account, blacklist, now, out, owners>>

\* get_current_user refuses an invalid token, get_optional_user goes on as nobody.
VerifyAccess(c) ==
    /\ At(c, {"me", "browse", "delete"}, "start")
    /\ IF Verifies(call[c].token, "access") THEN Move(c, "user")
       ELSE Respond(c, IF call[c].op = "browse" THEN 200 ELSE 401)
    /\ UNCHANGED <<account, blacklist, now, issued, out, owners>>

\* _get_user_by_credential: the active account that has the name NOW.
FindUser(c) ==
    LET found == Called(call[c].token.sub) IN
    /\ At(c, {"me", "browse", "delete"}, "user")
    /\ \/ /\ found = {}
          /\ Respond(c, IF call[c].op = "browse" THEN 200 ELSE 401)
       \/ \E a \in found :
             call' = [call EXCEPT ![c].as = a,
                                  ![c].pc = IF call[c].op = "delete" THEN "erase" ELSE "done",
                                  ![c].code = IF call[c].op = "delete" THEN 0 ELSE 200]
    /\ UNCHANGED <<account, blacklist, now, issued, out, owners>>

\* DELETE /user/{id}: the account is deactivated, then the token blacklisted.
\* The use case looks for an active account first and updates the row by its id
\* in a transaction of its own: one that has been deactivated meanwhile is
\* either not found, or updated once more.
EraseAccount(c) ==
    /\ At(c, {"delete"}, "erase")
    /\ \/ ~account[call[c].as].active /\ Respond(c, 404) /\ UNCHANGED account
       \/ account' = [account EXCEPT ![call[c].as].active = FALSE] /\ Move(c, "revoke")
    /\ UNCHANGED <<blacklist, now, issued, out, owners>>

\* blacklist_token(s): decode, then INSERT; a token can be inserted once.
Blacklist(c, t, next, code) ==
    \/ ~Decodes(t) /\ Respond(c, IF call[c].op = "logout" THEN 401 ELSE 500) /\ UNCHANGED blacklist
    \/ Decodes(t) /\ t \in blacklist /\ Respond(c, 500) /\ UNCHANGED blacklist
    \/ /\ Decodes(t) /\ t \notin blacklist
       /\ blacklist' = blacklist \cup {t}
       /\ call' = [call EXCEPT ![c].pc = next, ![c].code = code]

RevokeToken(c) ==
    /\ At(c, {"delete"}, "revoke")
    /\ Blacklist(c, call[c].token, "done", 200)
    /\ UNCHANGED <<account, now, issued, out, owners>>

\* logout without either token is refused; the access token goes first ...
LogoutAccess(c) ==
    /\ At(c, {"logout"}, "start")
    /\ IF call[c].token = None \/ call[c].cookie = None
       THEN Respond(c, 401) /\ UNCHANGED blacklist
       ELSE Blacklist(c, call[c].token, "second", 0)
    /\ UNCHANGED <<account, now, issued, out, owners>>

\* ... then, in a transaction of its own, the refresh token.
LogoutRefresh(c) ==
    /\ At(c, {"logout"}, "second")
    /\ Blacklist(c, call[c].cookie, "done", 200)
    /\ out' = IF call'[c].code = 200 THEN out \cup {call[c].token, call[c].cookie} ELSE out
    /\ UNCHANGED <<account, now, issued, owners>>

Serve(c) == \/ Login(c) \/ Refresh(c) \/ VerifyAccess(c) \/ FindUser(c) \/ EraseAccount(c)
            \/ RevokeToken(c) \/ LogoutAccess(c) \/ LogoutRefresh(c)

\* The connection breaks, the 30 s of the client pass or the server stops.
Cut(c) ==
    /\ call[c].pc \notin {"free", "done"}
    /\ Respond(c, 0)
    /\ UNCHANGED <<account, blacklist, now, issued, out, owners>>

-----------------------------------------------------------------------------
(* What else happens to accounts (Accounts has their requests), and time.  *)

\* An active account is renamed, or one without a row registers.  (A hard
\* deletion frees a name as a rename does.)
Rename(a, n) ==
    /\ account[a].active
    /\ \A b \in Accounts : account[b].name # n
    /\ account' = [account EXCEPT ![a].name = n]
    /\ owners' = [owners EXCEPT ![n] = @ \cup {a}]
    /\ UNCHANGED <<blacklist, call, now, issued, out>>

Tick ==
    /\ now < MaxTime
    /\ now' = now + 1
    /\ UNCHANGED <<account, blacklist, call, issued, out, owners>>

-----------------------------------------------------------------------------
(* Properties                                                              *)

\* Type invariant of the server.
ServerTypeOK ==
    /\ account \in [Accounts -> [name : Names \cup {None}, active : BOOLEAN]]
    /\ blacklist \subseteq Token /\ out \subseteq Token
    /\ issued \subseteq Token \X Accounts
    /\ call \in [Calls -> Call]
    /\ now \in 0..MaxTime
    /\ owners \in [Names -> SUBSET Accounts]

\* Logout is final: a call that sends a token after a logout with it was
\* answered 200 is admitted as nobody, and gets no token, though the two
\* tokens are blacklisted apart, the same string may be issued again within
\* the second, and the check and the lookup are two transactions.
LogoutIsFinal == \A c \in Calls :
    call[c].stale => call[c].as = None /\ call[c].access = None

\* A token speaks for the account that logged in for it, whatever is renamed
\* while it lives, unless another account has taken the name it carries.
TokenSpeaksForItsOwner == \A c \in Calls :
    call[c].as # None =>
        \/ <<call[c].token, call[c].as>> \in issued
        \/ \E a \in owners[call[c].token.sub] : a # call[c].as
=============================================================================
