----------------------------- MODULE ClientAuth -----------------------------
(***************************************************************************)
(* The session of the Flutter client, on top of AuthTokens: AuthCubit,     *)
(* AuthInterceptor, TokenHolder and the secure storage                     *)
(* (src/flutter/lib/core/auth).                                            *)
(*                                                                         *)
(* The cubit's methods are coroutines on one event loop; each runs up to   *)
(* its next await in one step.  bootstrap runs before the app is shown,    *)
(* login from the login form, logout from the menu; forceLogout is started *)
(* by the interceptor whenever ANY answer but a login's is a 401, and by   *)
(* the screen that deleted the account.  They share the token in memory    *)
(* (held), the two keys in storage (stored), and the state that screens    *)
(* and the route guard see; nothing keeps them apart.                      *)
(*                                                                         *)
(* Bounds: one login and one logout at a time (the screens lock their      *)
(* buttons only while they are shown), a call's slot is used again once    *)
(* the forceLogout it started has ended.                                   *)
(***************************************************************************)
EXTENDS AuthTokens

CONSTANTS Person,        \* who uses the app: an account
          KeepsCookies,  \* a browser keeps the refresh cookie, the native client does not
          Ops,           \* requests the screens make: a subset of {"me", "browse", "delete"}
          MaxSends,      \* bound: calls the users send, and renames
          MaxKills       \* bound: times the app is killed

ASSUME ClientAssumption ==
    /\ Person \in Accounts /\ KeepsCookies \in BOOLEAN
    /\ Ops \subseteq {"me", "browse", "delete"}
    /\ MaxSends \in Nat /\ MaxKills \in Nat

VARIABLES state,     \* AuthState
          held,      \* TokenHolder.current
          stored,    \* the keys auth.access_token and auth.username
          jar,       \* the browser's refresh cookie
          flow,      \* where bootstrap, login and logout are, and the call each waits for
          force,     \* where the forceLogout started by the answer to each call is
          lost,      \* calls whose answer does not reach the running app
          sends, kills,
          tangled    \* history: a login and the clearing of another session overlapped

client == <<state, held, stored, jar, flow, force, lost, sends, kills, tangled>>
vars   == <<server, client>>

States == {"unknown", "authenticating", "authenticated", "unauthenticated", "error"}
Flows  == {"bootstrap", "login", "logout"}
Steps  == {"idle", "read", "api", "write1", "write2", "me", "clear1", "clear2"}
Doing(pc, c) == [pc |-> pc, call |-> c, token |-> None, name |-> None]
Empty  == [token |-> None, name |-> None]
Booting == [f \in Flows |-> Doing(IF f = "bootstrap" THEN "read" ELSE "idle", None)]

\* The app is opened for the first time, or with the session of an earlier login.
Init ==
    /\ InitServer
    /\ \/ issued = {} /\ stored = Empty /\ jar = None
       \/ /\ HasRow(Person)
          /\ LET n == account[Person].name IN
                /\ issued = {NewAccess(n), NewRefresh(n)} \X {Person}
                /\ stored = [token |-> NewAccess(n), name |-> n]
                /\ jar = IF KeepsCookies THEN NewRefresh(n) ELSE None
    /\ state = "unknown" /\ held = None
    /\ flow = Booting /\ force = [c \in Calls |-> "idle"] /\ lost = {}
    /\ sends = 0 /\ kills = 0 /\ tangled = FALSE

In(f, pc) == flow[f].pc = pc
Clearing  == \/ \E c \in Calls : force[c] # "idle"
             \/ \E f \in {"bootstrap", "logout"} : flow[f].pc \in {"clear1", "clear2"}
Tangle    == tangled' = (tangled \/ (flow'["login"].pc # "idle" /\ Clearing'))
Quiet     == (\A f \in Flows : In(f, "idle")) /\ \A c \in Calls : force[c] = "idle"

-----------------------------------------------------------------------------
(* Requests.                                                               *)

\* AuthInterceptor.onRequest: every request but login carries the held token.
Header(op, token) == IF op = "login" THEN None ELSE token

Awaited(c) == \E f \in Flows : flow[f].call = c

Send(c, op, token, name) ==
    /\ force[c] = "idle" /\ ~Awaited(c)
    /\ Accept(c, op, Header(op, token), IF op = "logout" THEN jar ELSE None, name, Person)
    /\ UNCHANGED <<account, blacklist, now, issued, out, owners>>

Spend == sends < MaxSends /\ sends' = sends + 1

\* AuthInterceptor.onError: a 401 to anything but a login starts forceLogout,
\* as does the screen that deleted the account.
StartsForce(c) == \/ call[c].code = 401 /\ call[c].op # "login"
                  \/ call[c].code = 200 /\ call[c].op = "delete"

\* forceLogout drops the held token before its first await.
\* (Defect: only the stored token is dropped.)
Released_Not(token) == token
Released(token) == None

\* An answer arrives: the interceptors see it before the code that awaits it.
Deliver(c) ==
    /\ call[c].pc = "done"
    /\ call' = [call EXCEPT ![c] = IF Awaited(c) THEN [@ EXCEPT !.pc = "free"] ELSE NoCall]
    /\ lost' = lost \ {c}
    /\ IF c \notin lost /\ StartsForce(c)
       THEN held' = Released(held) /\ force' = [force EXCEPT ![c] = "clear1"]
       ELSE UNCHANGED <<held, force>>
    /\ jar' = CASE c \in lost -> jar
                [] call[c].set # None /\ KeepsCookies -> call[c].set
                [] call[c].op = "logout" /\ call[c].code = 200 -> None
                [] OTHER -> jar
    /\ UNCHANGED <<account, blacklist, now, issued, out, owners, state, stored, flow, sends, kills>>
    /\ Tangle

Answered(f) == flow[f].call # None /\ call[flow[f].call].pc = "free"
Result(f)   == call[flow[f].call]
Go(f, pc)       == flow' = [flow EXCEPT ![f] = Doing(pc, None)]
Await(f, pc, c) == flow' = [flow EXCEPT ![f] = Doing(pc, c)]
Take(f)         == /\ call' = [call EXCEPT ![flow[f].call] = NoCall]
                   /\ UNCHANGED <<account, blacklist, now, issued, out, owners>>

-----------------------------------------------------------------------------
(* AuthCubit.bootstrap.                                                    *)

\* The stored session is taken up if both keys are there, and tried out.
Bootstrap ==
    /\ In("bootstrap", "read")
    /\ IF stored.token = None \/ stored.name = None
       THEN /\ state' = "unauthenticated" /\ Go("bootstrap", "idle")
            /\ UNCHANGED <<server, held>>
       ELSE /\ held' = stored.token /\ UNCHANGED state
            /\ \E c \in Calls : Send(c, "me", stored.token, None) /\ Await("bootstrap", "me", c)
    /\ UNCHANGED <<stored, jar, force, lost, sends, kills, tangled>>

BootstrapMe ==
    /\ In("bootstrap", "me") /\ Answered("bootstrap")
    /\ IF Result("bootstrap").code = 200
       THEN state' = "authenticated" /\ Go("bootstrap", "idle") /\ UNCHANGED held
       ELSE held' = None /\ Go("bootstrap", "clear1") /\ UNCHANGED state
    /\ Take("bootstrap")
    /\ UNCHANGED <<stored, jar, force, lost, sends, kills>>
    /\ Tangle

(* AuthCubit.login.                                                        *)

LoginStart(c, name) ==
    /\ In("login", "idle") /\ state \in {"unauthenticated", "error"}
    /\ Spend /\ Send(c, "login", None, name)
    /\ state' = "authenticating" /\ Await("login", "api", c)
    /\ UNCHANGED <<held, stored, jar, force, lost, kills>>
    /\ Tangle

LoginAnswer ==
    /\ In("login", "api") /\ Answered("login")
    /\ IF Result("login").code = 200
       THEN /\ flow' = [flow EXCEPT !["login"] = [pc |-> "write1", call |-> None,
                            token |-> Result("login").access, name |-> Result("login").name]]
            /\ UNCHANGED state
       ELSE state' = "error" /\ Go("login", "idle")
    /\ Take("login")
    /\ UNCHANGED <<held, stored, jar, force, lost, sends, kills, tangled>>

LoginWriteToken ==
    /\ In("login", "write1")
    /\ stored' = [stored EXCEPT !.token = flow["login"].token]
    /\ flow' = [flow EXCEPT !["login"].pc = "write2"]
    /\ UNCHANGED <<server, state, held, jar, force, lost, sends, kills, tangled>>

LoginWriteName ==
    /\ In("login", "write2")
    /\ stored' = [stored EXCEPT !.name = flow["login"].name]
    /\ held' = flow["login"].token
    /\ \E c \in Calls : Send(c, "me", held', None) /\ Await("login", "me", c)
    /\ UNCHANGED <<state, jar, force, lost, sends, kills, tangled>>

\* Whatever /me answers, the user is let in.
LoginMe ==
    /\ In("login", "me") /\ Answered("login")
    /\ state' = "authenticated" /\ Go("login", "idle")
    /\ Take("login")
    /\ UNCHANGED <<held, stored, jar, force, lost, sends, kills, tangled>>

(* AuthCubit.logout and forceLogout.                                       *)

LogoutStart(c) ==
    /\ In("logout", "idle") /\ state = "authenticated"
    /\ Spend /\ Send(c, "logout", held, None)
    /\ Await("logout", "api", c)
    /\ UNCHANGED <<state, held, stored, jar, force, lost, kills, tangled>>

LogoutAnswer ==
    /\ In("logout", "api") /\ Answered("logout")
    /\ held' = None /\ Go("logout", "clear1")
    /\ Take("logout")
    /\ UNCHANGED <<state, stored, jar, force, lost, sends, kills>>
    /\ Tangle

\* SecureTokenStorageAdapter.clear, in bootstrap and logout: one key, then the
\* other, then the state.
ClearToken(f) ==
    /\ f \in {"bootstrap", "logout"} /\ In(f, "clear1")
    /\ stored' = [stored EXCEPT !.token = None]
    /\ Go(f, "clear2")
    /\ UNCHANGED <<server, state, held, jar, force, lost, sends, kills, tangled>>
\* (Defect: a bootstrap that failed emits nothing.)
SignedOut_Logout(f) == IF f = "logout" THEN "unauthenticated" ELSE state
SignedOut(f) == "unauthenticated"
ClearName(f) ==
    /\ f \in {"bootstrap", "logout"} /\ In(f, "clear2")
    /\ stored' = [stored EXCEPT !.name = None]
    /\ state' = SignedOut(f) /\ Go(f, "idle")
    /\ UNCHANGED <<server, held, jar, force, lost, sends, kills, tangled>>

\* (Defect: an answer without a token ends no session.)
Ended_IfHeld(s) == IF held = None THEN s ELSE "unauthenticated"
Ended(s) == "unauthenticated"

ForceLogout(c) ==
    /\ \/ /\ force[c] = "clear1"
          /\ stored' = [stored EXCEPT !.token = None]
          /\ force' = [force EXCEPT ![c] = "clear2"]
          /\ UNCHANGED state
       \/ /\ force[c] = "clear2"
          /\ stored' = [stored EXCEPT !.name = None]
          /\ force' = [force EXCEPT ![c] = "idle"]
          /\ state' = Ended(state)
    /\ UNCHANGED <<server, held, jar, flow, lost, sends, kills, tangled>>

-----------------------------------------------------------------------------
\* A screen asks for something.
Fetch(c, op) ==
    /\ state = "authenticated" /\ op \in Ops
    /\ Spend /\ Send(c, op, held, None)
    /\ UNCHANGED <<state, held, stored, jar, flow, force, lost, kills, tangled>>

\* Another client of the API, with tokens issued so far, perhaps of the wrong kind.
Replay(c) ==
    /\ Spend
    /\ force[c] = "idle" /\ ~Awaited(c)
    /\ \E i, j \in issued :
          /\ i[1].kind = "access"
          /\ \/ Accept(c, "me", i[1], None, None, Person)
             \/ Accept(c, "refresh", None, j[1], None, Person)
             \/ Accept(c, "logout", i[1], j[1], None, Person)
    /\ lost' = lost \cup {c}
    /\ UNCHANGED <<account, blacklist, now, issued, out, owners>>
    /\ UNCHANGED <<state, held, stored, jar, flow, force, kills, tangled>>

\* The app is killed and started again: memory is gone, storage is not, and
\* the server goes on with what it was sent.
Restart ==
    /\ kills < MaxKills /\ kills' = kills + 1
    /\ state' = "unknown" /\ held' = None /\ flow' = Booting
    /\ force' = [c \in Calls |-> "idle"]
    /\ lost' = {c \in Calls : call[c].pc # "free"}
    /\ UNCHANGED <<server, stored, jar, sends, tangled>>

Server == (\E c \in Calls : Serve(c) \/ Cut(c)) \/ Tick

Continue(f) == \/ f = "bootstrap" /\ (Bootstrap \/ BootstrapMe)
               \/ f = "login" /\ (LoginAnswer \/ LoginWriteToken \/ LoginWriteName \/ LoginMe)
               \/ f = "logout" /\ LogoutAnswer
               \/ ClearToken(f) \/ ClearName(f)

User == \E c \in Calls : \/ \E n \in Names : LoginStart(c, n)
                         \/ LogoutStart(c) \/ Replay(c)
                         \/ \E op \in Ops : Fetch(c, op)

\* An account is renamed or registers, with this app or another.
Renaming ==
    /\ Spend
    /\ \E a \in Accounts, n \in Names : Rename(a, n)
    /\ UNCHANGED <<state, held, stored, jar, flow, force, lost, kills, tangled>>

Next == \/ Server /\ UNCHANGED client
        \/ \E c \in Calls : Deliver(c) \/ ForceLogout(c)
        \/ \E f \in Flows : Continue(f)
        \/ User \/ Renaming
        \/ Restart

\* The server and the client's event loop go on; users, other clients, time
\* and failures may do nothing.
Fairness == /\ \A c \in Calls : /\ WF_vars((Serve(c) \/ Cut(c)) /\ UNCHANGED client)
                                /\ WF_vars(Deliver(c)) /\ WF_vars(ForceLogout(c))
            /\ \A f \in Flows : WF_vars(Continue(f))

Spec == Init /\ [][Next]_vars /\ Fairness

-----------------------------------------------------------------------------
(* Properties                                                              *)

\* Type invariant.
TypeOK ==
    /\ ServerTypeOK
    /\ state \in States
    /\ held \in Token \cup {None} /\ jar \in Token \cup {None}
    /\ stored \in [token : Token \cup {None}, name : Names \cup {None}]
    /\ flow \in [Flows -> [pc : Steps, call : Calls \cup {None},
                         token : Token \cup {None}, name : Names \cup {None}]]
    /\ force \in [Calls -> {"idle", "clear1", "clear2"}]
    /\ lost \subseteq Calls

\* When no method of the cubit is running, what the screens believe agrees
\* with what the requests send and what a restart would find: signed in with a
\* token, in memory and in storage, or signed out without either, although
\* bootstrap, login, logout and forceLogout interleave and the app may be
\* killed between the two keys.  Not claimed once a login has overlapped the
\* clearing of another session.
SessionAgrees ==
    (Quiet /\ ~tangled) =>
        /\ state = "authenticated" => held # None /\ stored.token = held
        /\ state \in {"unauthenticated", "error"} =>
              held = None /\ (stored.token = None \/ stored.name = None)

\* A refused request ends the session: once a screen's request is answered
\* 401 the user is signed out, unless the app is killed first.
RefusalSignsOut ==
    \A c \in Calls, k \in 0..MaxKills :
        (/\ call[c].pc = "done" /\ call[c].code = 401 /\ call[c].op # "login"
         /\ c \notin lost /\ kills = k)
        ~> (state = "unauthenticated" \/ kills # k)

\* The app never hangs on its start: main awaits bootstrap before it shows
\* anything, so the request bootstrap makes must end one way or the other.
AppStarts == state = "unknown" ~> state # "unknown"
=============================================================================
