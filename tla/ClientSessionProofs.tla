------------------------ MODULE ClientSessionProofs ------------------------
(***************************************************************************)
(* The session agrees with itself, for any number of requests, users and   *)
(* restarts: SessionAgrees of ClientAuth.                                  *)
(*                                                                         *)
(* What memory, storage and the state shown must have in common depends on *)
(* which of the cubit's methods are on their way (Session).  The property  *)
(* speaks of the moments when none is; the invariant says what has to hold *)
(* in between so that, whichever ends last, the rest is in order.          *)
(***************************************************************************)
EXTENDS ClientAuthProofs

\* Requests and the methods that wait for them.  A request whose answer is lost
\* is still on its way, and nobody waits for it; two methods wait for two.
Links ==
    /\ \A c \in lost : call[c].pc # "free"
    /\ \A f \in Flows : flow[f].call \notin lost
    /\ \A f \in Flows : flow[f].pc \in {"api", "me"} <=> flow[f].call # None
    /\ \A f, g \in Flows : f # g /\ flow[f].call # None => flow[f].call # flow[g].call
    /\ In("bootstrap", "me") => call[flow["bootstrap"].call].op = "me"
    /\ In("login", "api") => call[flow["login"].call].op = "login"
    /\ flow["bootstrap"].pc \in {"read", "me", "clear1", "clear2", "idle"}
    /\ flow["login"].pc \in {"idle", "api", "write1", "write2", "me"}
    /\ flow["logout"].pc \in {"idle", "api", "clear1", "clear2"}

\* bootstrap has not been answered yet, or was let in.
Refused == In("bootstrap", "me") /\ Answered("bootstrap") /\ Result("bootstrap").code # 200
Fresh   == In("bootstrap", "read") \/ (In("bootstrap", "me") /\ ~Refused)

\* The only answer that can reach the app is the one bootstrap waits for.
Undisturbed == \A c \in Calls : call[c].pc = "free" \/ c \in lost \/ c = flow["bootstrap"].call

\* Somebody has cleared the stored token and is yet to clear the name.
HalfCleared == \/ \E c \in Calls : force[c] = "clear2"
               \/ In("bootstrap", "clear2") \/ In("logout", "clear2")

NoSession == held = None /\ (stored.token = None \/ stored.name = None)
AtRest    == /\ state = "authenticated" => held # None /\ stored.token = held
             /\ state \in {"unauthenticated", "error"} => NoSession

\* What is common to memory, storage and the state shown at each stage.
Session ==
    /\ In("login", "idle") \/ ~Clearing
    /\ Clearing => held = None
    /\ HalfCleared => stored.token = None
    /\ In("bootstrap", "read") => held = None
    /\ Fresh => /\ state = "unknown" /\ In("login", "idle") /\ In("logout", "idle") /\ ~Clearing
                /\ Undisturbed
                /\ In("bootstrap", "me") => held # None /\ stored.token = held
    /\ In("login", "api") => NoSession
    /\ In("login", "write1") => held = None /\ flow["login"].token # None
    /\ In("login", "write2") => held = None /\ stored.token = flow["login"].token /\ stored.token # None
    /\ In("login", "me") => held # None /\ stored.token = held
    /\ In("login", "idle") /\ ~Fresh /\ ~Clearing => AtRest

\* The inductive invariant, with that of ClientAuthProofs.
SInv == Links /\ (tangled \/ Session)

LEMMA SessionImplies == SInv => SessionAgrees
  BY DEF SInv, Session, Fresh, SessionAgrees, Quiet, AtRest, NoSession, Clearing, In, Flows

-----------------------------------------------------------------------------
(* What the steps do to requests and methods.                              *)

\* The requests go on: none starts, none ends, and those answered stay so.
GoOn == \A d \in Calls : /\ call'[d].op = call[d].op
                         /\ call'[d].pc = "free" <=> call[d].pc = "free"
                         /\ call[d].pc = "free" => call'[d].code = call[d].code

LEMMA ServeGoesOn ==
    ASSUME IInv, NEW c \in Calls, Serve(c) \/ Cut(c)
    PROVE  GoOn
  <1>1. call \in [Calls -> Call]
    BY DEF IInv, ServerInv, ServerTypeOK
  <1>2. \A p \in {"user", "revoke"} : Move(c, p) /\ call[c].pc # "free" => GoOn
    BY <1>1 DEF Move, GoOn, Call
  <1>3. \A x \in Codes : Respond(c, x) /\ call[c].pc # "free" => GoOn
    BY <1>1 DEF Respond, GoOn, Call
  <1>4. \A t \in Token, p \in {"second", "done"}, x \in {0, 200} :
            Blacklist(c, t, p, x) /\ call[c].pc # "free" => GoOn
    BY <1>1, <1>3, Values DEF Blacklist, GoOn, Call
  <1>5. CASE Login(c)
    BY <1>1, <1>3, <1>5, Values DEF Login, At, GoOn, Call
  <1>6. CASE Refresh(c)
    BY <1>1, <1>3, <1>6, Values DEF Refresh, At, GoOn, Call
  <1>7. CASE VerifyAccess(c)
    BY <1>1, <1>2, <1>3, <1>7, Values DEF VerifyAccess, At
  <1>8. CASE FindUser(c)
    <2>1. call[c].pc = "user"
      BY <1>8 DEF FindUser, At
    <2>2. ASSUME NEW a \in Accounts, NEW p \in {"erase", "done"}, NEW x \in {0, 200}, Admits(c, a, p, x)
          PROVE  GoOn
      BY <1>1, <2>1, <2>2 DEF GoOn, Call, Admits
    <2>3. \/ \E x \in {200, 401} : Respond(c, x)
          \/ \E a \in Accounts, p \in {"erase", "done"}, x \in {0, 200} : Admits(c, a, p, x)
      BY <1>8, ZenonT(40) DEF FindUser, Called, Admits
    <2> QED
      BY <1>3, <2>1, <2>2, <2>3, Values
  <1>9. CASE EraseAccount(c)
    BY <1>2, <1>3, <1>9 DEF EraseAccount, At, Codes
  <1>10. CASE RevokeToken(c)
    <2>1. call[c].token \in Token
      BY <1>10 DEF RevokeToken, At, IInv, ServerInv, ServerTypeOK, CallOK, Call
    <2> QED
      BY <1>4, <1>10, <2>1 DEF RevokeToken, At
  <1>11. CASE LogoutAccess(c)
    BY <1>1, <1>3, <1>4, <1>11, Values DEF LogoutAccess, At, Call
  <1>12. CASE LogoutRefresh(c)
    <2>1. call[c].cookie \in Token
      BY <1>12 DEF LogoutRefresh, At, IInv, ServerInv, ServerTypeOK, CallOK, Call
    <2> QED
      BY <1>4, <1>12, <2>1 DEF LogoutRefresh, At
  <1>13. CASE Cut(c)
    BY <1>3, <1>13, Values DEF Cut
  <1> QED
    BY <1>5, <1>6, <1>7, <1>8, <1>9, <1>10, <1>11, <1>12, <1>13 DEF Serve

\* The server works on and the app does not move.
LEMMA ServerKeepsSession ==
    ASSUME IInv, SInv, GoOn, UNCHANGED <<state, held, stored, flow, force, lost, tangled>>
    PROVE  SInv'
  <1>1. UNCHANGED <<state, held, stored, flow, force, lost, tangled>> /\ flow \in [Flows -> Doings]
    BY DEF IInv, AppInv, FlowOK
  <1>2. \A f \in Flows : flow[f].call # None => flow[f].call \in Calls
    BY <1>1 DEF Doings, Maybe
  <1>3. Links'
    BY <1>1, <1>2 DEF SInv, Links, GoOn, In, IInv, AppInv, Flows
  <1>4. Refused' <=> Refused
    BY <1>1, <1>2 DEF Refused, Answered, Result, In, GoOn, Flows
  <1>5. Undisturbed' <=> Undisturbed
    BY <1>1 DEF Undisturbed, GoOn
  <1>6. Session' <=> Session
    BY <1>1, <1>4, <1>5 DEF Session, Fresh, In, Clearing, HalfCleared, AtRest, NoSession
  <1> QED
    BY <1>1, <1>3, <1>6 DEF SInv

\* Where the methods are: the types of what follows.
LEMMA FlowTypes ==
    ASSUME IInv
    PROVE  /\ "bootstrap" \in Flows /\ "login" \in Flows /\ "logout" \in Flows
           /\ flow \in [Flows -> Doings] /\ call \in [Calls -> Call] /\ force \in [Calls -> {"idle", "clear1", "clear2"}]
           /\ \A f \in Flows : flow[f].call # None => flow[f].call \in Calls
           /\ \A f \in Flows : f \in {"bootstrap", "login", "logout"}
           /\ lost \subseteq Calls /\ None \notin Calls
  BY NoneAssumption DEF IInv, AppInv, FlowOK, ForceOK, ServerInv, ServerTypeOK, Doings, Maybe, Flows

\* A new request is nobody's, and no other changes.
Starts(c, op) == /\ call[c].pc = "free" /\ ~Awaited(c) /\ force[c] = "idle"
                 /\ call'[c].pc = "start" /\ call'[c].op = op
                 /\ \A d \in Calls : d # c => call'[d] = call[d]

LEMMA AcceptStarts ==
    ASSUME IInv, NEW c \in Calls, NEW op, NEW t, NEW k, NEW n, force[c] = "idle", ~Awaited(c),
           Accept(c, op, t, k, n, Person)
    PROVE  Starts(c, op)
  <1> DEFINE q == [NoCall EXCEPT !.pc = "start", !.op = op, !.token = t, !.cookie = k,
                                 !.name = n, !.person = Person,
                                 !.stale = (IF op = "refresh" THEN k ELSE t) \in out]
  <1>1. call[c].pc = "free" /\ call' = [call EXCEPT ![c] = q]
    BY DEF Accept
  <1>2. q.pc = "start" /\ q.op = op
    BY DEF NoCall
  <1> HIDE DEF q
  <1> QED
    BY <1>1, <1>2, FlowTypes DEF Starts

LEMMA SendStarts ==
    ASSUME IInv, NEW c \in Calls, NEW op, NEW t, NEW n, Send(c, op, t, n)
    PROVE  Starts(c, op)
  BY AcceptStarts DEF Send

\* The request that f waited for is done with, and no other changes.
Ends(f) == /\ flow[f].call # None /\ call[flow[f].call].pc = "free"
           /\ call'[flow[f].call].pc = "free"
           /\ \A d \in Calls : d # flow[f].call => call'[d] = call[d]

LEMMA TakeEnds ==
    ASSUME IInv, NEW f \in Flows, Answered(f), Take(f)
    PROVE  Ends(f)
  BY FlowTypes DEF Answered, Take, Ends, NoCall

\* Method f goes on to d, and the others stay where they are.
Goes(f, d) == flow'[f] = d /\ \A g \in Flows : g # f => flow'[g] = flow[g]

LEMMA FlowGoes ==
    ASSUME IInv, NEW f \in Flows, NEW d, flow' = [flow EXCEPT ![f] = d]
    PROVE  Goes(f, d)
  BY FlowTypes DEF Goes

\* What each method may be doing.
May(f, pc) == \/ f = "bootstrap" /\ pc \in {"read", "me", "clear1", "clear2", "idle"}
              \/ f = "login" /\ pc \in {"idle", "api", "write1", "write2", "me"}
              \/ f = "logout" /\ pc \in {"idle", "api", "clear1", "clear2"}

\* A method goes on without a request.
LEMMA LinksGo ==
    ASSUME IInv, Links, NEW f \in Flows, NEW d, Goes(f, d), d.call = None,
           d.pc \notin {"api", "me"}, May(f, d.pc), call' = call \/ Ends(f), lost' = lost
    PROVE  Links'
  BY FlowTypes DEF Links, Goes, Ends, May, In

\* A method goes on to wait for a request it makes.
LEMMA LinksWait ==
    ASSUME IInv, Links, NEW f \in Flows, NEW d, NEW c \in Calls, NEW op, Goes(f, d), d.call = c,
           d.pc \in {"api", "me"}, May(f, d.pc), Starts(c, op), lost' = lost,
           f = "bootstrap" => op = "me", f = "login" /\ d.pc = "api" => op = "login"
    PROVE  Links'
  <1>1. c \notin lost /\ \A g \in Flows : flow[g].call # c
    BY DEF Links, Starts, Awaited
  <1> QED
    BY <1>1, FlowTypes DEF Links, Goes, Starts, May, In

\* A request that no method waits for starts.
LEMMA LinksStart ==
    ASSUME IInv, Links, NEW c \in Calls, NEW op, Starts(c, op), flow' = flow, lost' = lost \/ lost' = lost \cup {c}
    PROVE  Links'
  <1>1. \A g \in Flows : flow[g].call # c
    BY DEF Starts, Awaited
  <1> QED
    BY <1>1, FlowTypes DEF Links, Starts, In

\* bootstrap is where it was as long as its stage and its request stay.
LEMMA FreshStays ==
    ASSUME IInv, Links, flow'["bootstrap"] = flow["bootstrap"],
           flow["bootstrap"].call # None => call'[flow["bootstrap"].call] = call[flow["bootstrap"].call]
    PROVE  (Fresh' <=> Fresh) /\ (Refused' <=> Refused)
  BY FlowTypes DEF Fresh, Refused, Answered, Result, In, Links

-----------------------------------------------------------------------------
(* bootstrap.                                                              *)

LEMMA HalfIsClearing == HalfCleared => Clearing
  BY DEF HalfCleared, Clearing, In

LEMMA BootstrapSession ==
    ASSUME IInv, SInv, Bootstrap
    PROVE  SInv'
  <1>1. Links /\ In("bootstrap", "read") /\ UNCHANGED <<stored, force, lost, tangled>>
    BY DEF SInv, Bootstrap
  <1>2. CASE stored.token = None \/ stored.name = None
    <2>1. state' = "unauthenticated" /\ UNCHANGED <<call, held>> /\ Goes("bootstrap", Doing("idle", None))
      BY <1>2, FlowGoes, FlowTypes DEF Bootstrap, Go, server
    <2>2. Doing("idle", None).call = None /\ Doing("idle", None).pc = "idle"
      BY DEF Doing
    <2>3. Links'
      BY <1>1, <2>1, <2>2, LinksGo, FlowTypes DEF May
    <2>4. flow'["bootstrap"].pc = "idle" /\ flow'["login"] = flow["login"] /\ flow'["logout"] = flow["logout"]
      BY <2>1, <2>2, FlowTypes DEF Goes
    <2>5. ASSUME Session PROVE Session'
      <3>1. In("login", "idle") /\ In("logout", "idle") /\ ~Clearing /\ held = None
        BY <1>1, <2>5 DEF Session, Fresh
      <3>2. ~Fresh' /\ ~Clearing' /\ ~HalfCleared' /\ ~In("bootstrap", "read")'
        BY <1>1, <2>4, <3>1 DEF Clearing, HalfCleared, In, Fresh
      <3>3. AtRest'
        BY <1>1, <1>2, <2>1, <3>1 DEF AtRest, NoSession
      <3> QED
        BY <2>4, <3>1, <3>2, <3>3 DEF Session, In
    <2> QED
      BY <1>1, <2>3, <2>5 DEF SInv
  <1>3. CASE ~(stored.token = None \/ stored.name = None)
    <2>1. PICK c \in Calls : Send(c, "me", stored.token, None) /\ Await("bootstrap", "me", c)
      BY <1>3 DEF Bootstrap
    <2>2. held' = stored.token /\ state' = state
      BY <1>3 DEF Bootstrap
    <2>3. Goes("bootstrap", Doing("me", c)) /\ Starts(c, "me")
      BY <2>1, FlowGoes, FlowTypes, SendStarts DEF Await
    <2>4. Doing("me", c).call = c /\ Doing("me", c).pc = "me"
      BY DEF Doing
    <2>5. Links'
      BY <1>1, <2>3, <2>4, LinksWait, FlowTypes DEF May
    <2>6. /\ flow'["bootstrap"].pc = "me" /\ flow'["bootstrap"].call = c
          /\ flow'["login"] = flow["login"] /\ flow'["logout"] = flow["logout"]
      BY <2>3, <2>4, FlowTypes DEF Goes
    <2>7. ASSUME Session PROVE Session'
      <3>1. state = "unknown" /\ In("login", "idle") /\ In("logout", "idle") /\ ~Clearing /\ Undisturbed
        BY <1>1, <2>7 DEF Session, Fresh
      <3>2. ~Clearing' /\ ~HalfCleared' /\ ~In("bootstrap", "read")'
        BY <1>1, <2>6, <3>1 DEF Clearing, HalfCleared, In
      <3>3. Undisturbed'
        BY <1>1, <2>3, <2>6, <3>1, FlowTypes DEF Undisturbed, Starts, Links, In
      <3>4. Fresh'
        BY <2>3, <2>6 DEF Fresh, Refused, In, Answered, Starts
      <3> QED
        BY <1>1, <1>3, <2>2, <2>6, <3>1, <3>2, <3>3, <3>4 DEF Session, In
    <2> QED
      BY <1>1, <2>5, <2>7 DEF SInv
  <1> QED
    BY <1>2, <1>3

\* The answer to bootstrap's request: let in, or the clearing begins.
LEMMA BootstrapMeSession ==
    ASSUME IInv, SInv, BootstrapMe
    PROVE  SInv'
  <1> DEFINE d == IF Result("bootstrap").code = 200 THEN Doing("idle", None) ELSE Doing("clear1", None)
  <1>1. /\ Links /\ In("bootstrap", "me") /\ Answered("bootstrap") /\ UNCHANGED <<stored, force, lost>>
        /\ tangled => tangled'
    BY DEF SInv, BootstrapMe, Tangle
  <1>2. Ends("bootstrap") /\ Goes("bootstrap", d)
    BY FlowGoes, FlowTypes, TakeEnds DEF BootstrapMe, Go
  <1>3. d.call = None /\ d.pc = IF Result("bootstrap").code = 200 THEN "idle" ELSE "clear1"
    BY DEF Doing
  <1> HIDE DEF d
  <1>4. Links'
    BY <1>1, <1>2, <1>3, LinksGo, FlowTypes DEF May
  <1>5. flow'["bootstrap"] = d /\ flow'["login"] = flow["login"] /\ flow'["logout"] = flow["logout"]
    BY <1>2, FlowTypes DEF Goes
  <1>6. ~Fresh' /\ ~In("bootstrap", "read")' /\ (In("login", "idle")' <=> In("login", "idle"))
    BY <1>3, <1>5 DEF Fresh, In
  <1>7. ASSUME Session, Result("bootstrap").code = 200 PROVE Session'
    <2>1. state' = "authenticated" /\ held' = held /\ Fresh
      BY <1>1, <1>7 DEF BootstrapMe, Fresh, Refused
    <2>2. In("login", "idle") /\ ~Clearing /\ held # None /\ stored.token = held
      BY <1>1, <1>7, <2>1 DEF Session
    <2>3. ~Clearing'
      BY <1>1, <1>3, <1>5, <1>7, <2>2 DEF Clearing
    <2>4. ~HalfCleared'
      BY <2>3, HalfIsClearing, PTL
    <2> QED
      BY <1>1, <1>6, <2>1, <2>2, <2>3, <2>4 DEF Session, In, AtRest
  <1>8. ASSUME Session, ~tangled', Result("bootstrap").code # 200 PROVE Session'
    <2>1. held' = None /\ flow'["bootstrap"].pc = "clear1"
      BY <1>3, <1>5, <1>8 DEF BootstrapMe
    <2>2. Clearing' /\ (HalfCleared' => HalfCleared)
      BY <1>1, <1>5, <2>1 DEF Clearing, HalfCleared, In
    <2>3. In("login", "idle")'
      BY <1>8, <2>2 DEF BootstrapMe, Tangle, In
    <2> QED
      BY <1>1, <1>6, <1>8, <2>1, <2>2, <2>3 DEF Session, In
  <1> QED
    BY <1>1, <1>4, <1>7, <1>8 DEF SInv

-----------------------------------------------------------------------------
(* login.  It starts signed out and runs alone until it is through, or it  *)
(* is tangled.                                                             *)

LEMMA LoginStartSession ==
    ASSUME IInv, SInv, NEW c \in Calls, NEW n, LoginStart(c, n)
    PROVE  SInv'
  <1>1. /\ Links /\ In("login", "idle") /\ state \in {"unauthenticated", "error"}
        /\ UNCHANGED <<held, stored, force, lost>> /\ state' = "authenticating"
        /\ tangled => tangled'
    BY DEF SInv, LoginStart, Tangle
  <1>2. Starts(c, "login") /\ Goes("login", Doing("api", c))
    BY SendStarts, FlowGoes, FlowTypes DEF LoginStart, Await
  <1>3. Doing("api", c).call = c /\ Doing("api", c).pc = "api"
    BY DEF Doing
  <1>4. Links'
    BY <1>1, <1>2, <1>3, LinksWait, FlowTypes DEF May
  <1>5. /\ flow'["login"].pc = "api"
        /\ flow'["bootstrap"] = flow["bootstrap"] /\ flow'["logout"] = flow["logout"]
    BY <1>2, <1>3, FlowTypes DEF Goes
  <1>6. (Fresh' <=> Fresh) /\ (Refused' <=> Refused)
    <2>1. flow["bootstrap"].call # None => call'[flow["bootstrap"].call] = call[flow["bootstrap"].call]
      BY <1>2, FlowTypes DEF Starts, Awaited
    <2> QED
      BY <1>1, <1>5, <2>1, FreshStays
  <1>7. ASSUME Session, ~tangled' PROVE Session'
    <2>1. ~Clearing' /\ (Clearing' <=> Clearing)
      BY <1>1, <1>5, <1>7 DEF LoginStart, Tangle, Clearing
    <2>2. ~Fresh /\ AtRest
      BY <1>1, <1>7, <2>1 DEF Session
    <2>3. ~HalfCleared'
      BY <2>1, HalfIsClearing, PTL
    <2>4. NoSession' /\ ~In("bootstrap", "read")
      BY <1>1, <2>2 DEF AtRest, NoSession, Fresh
    <2> QED
      BY <1>5, <1>6, <2>1, <2>2, <2>3, <2>4 DEF Session, In
  <1> QED
    BY <1>1, <1>4, <1>7 DEF SInv

\* What the later stages of login share: bootstrap is over, nothing is being
\* cleared, and it stays so.
LEMMA LoginAlone ==
    ASSUME IInv, Session, ~In("login", "idle"), flow'["bootstrap"] = flow["bootstrap"],
           flow'["logout"] = flow["logout"], force' = force, Links,
           flow["bootstrap"].call # None => call'[flow["bootstrap"].call] = call[flow["bootstrap"].call]
    PROVE  ~Clearing' /\ ~HalfCleared' /\ ~Fresh' /\ ~In("bootstrap", "read")'
  <1>1. ~Clearing /\ ~Fresh
    BY DEF Session
  <1>2. ~Clearing'
    BY <1>1 DEF Clearing
  <1>3. ~HalfCleared'
    BY <1>2, HalfIsClearing, PTL
  <1>4. ~Fresh'
    BY <1>1, FreshStays
  <1> QED
    BY <1>2, <1>3, <1>4 DEF Fresh

\* The request another method waits for is not this one's.
LEMMA OthersKept ==
    ASSUME IInv, Links, NEW f \in Flows \ {"bootstrap"}, Ends(f)
    PROVE  flow["bootstrap"].call # None => call'[flow["bootstrap"].call] = call[flow["bootstrap"].call]
  BY FlowTypes DEF Links, Ends

LEMMA LoginAnswerSession ==
    ASSUME IInv, SInv, LoginAnswer
    PROVE  SInv'
  <1> DEFINE k == Result("login")
  <1> DEFINE d == IF k.code = 200 THEN [pc |-> "write1", call |-> None, token |-> k.access, name |-> k.name]
                                  ELSE Doing("idle", None)
  <1>1. /\ Links /\ In("login", "api") /\ UNCHANGED <<held, stored, force, lost, tangled>>
        /\ k.code # 200 => state' = "error"
    BY DEF SInv, LoginAnswer
  <1>2. Ends("login") /\ Goes("login", d)
    <2>1. flow' = [flow EXCEPT !["login"] = d]
      BY DEF LoginAnswer, Go
    <2>2. Ends("login")
      BY FlowTypes, TakeEnds DEF LoginAnswer
    <2> HIDE DEF d
    <2> QED
      BY <2>1, <2>2, FlowGoes, FlowTypes
  <1>3. /\ d.call = None /\ d.pc = IF k.code = 200 THEN "write1" ELSE "idle"
        /\ k.code = 200 => d.token = k.access
    BY DEF Doing
  <1>4. k.code = 200 => k.access # None
    BY <1>1, <1>2, FlowTypes DEF Links, Ends, IInv, ServerInv, CallOK, Result
  <1> HIDE DEF d, k
  <1>5. Links'
    BY <1>1, <1>2, <1>3, LinksGo, FlowTypes DEF May
  <1>6. flow'["login"] = d /\ flow'["bootstrap"] = flow["bootstrap"] /\ flow'["logout"] = flow["logout"]
    BY <1>2, FlowTypes DEF Goes
  <1>7. ASSUME Session PROVE Session'
    <2>1. ~Clearing' /\ ~HalfCleared' /\ ~Fresh' /\ ~In("bootstrap", "read")'
      BY <1>1, <1>2, <1>6, <1>7, OthersKept, LoginAlone, FlowTypes DEF In
    <2>2. NoSession
      BY <1>1, <1>7 DEF Session
    <2> QED
      BY <1>1, <1>3, <1>4, <1>6, <2>1, <2>2 DEF Session, In, NoSession, AtRest
  <1> QED
    BY <1>1, <1>5, <1>7 DEF SInv

LEMMA LoginWriteTokenSession ==
    ASSUME IInv, SInv, LoginWriteToken
    PROVE  SInv'
  <1> DEFINE d == [flow["login"] EXCEPT !.pc = "write2"]
  <1>1. /\ Links /\ In("login", "write1") /\ UNCHANGED <<call, state, held, force, lost, tangled>>
    BY DEF SInv, LoginWriteToken, server
  <1>2. d.pc = "write2" /\ d.call = None /\ d.token = flow["login"].token
    BY <1>1, FlowTypes DEF Links, In, Doings
  <1>3. Goes("login", d)
    <2>1. flow' = [flow EXCEPT !["login"] = d]
      BY FlowTypes DEF LoginWriteToken
    <2> QED
      BY <2>1, FlowGoes, FlowTypes
  <1> HIDE DEF d
  <1>4. Links'
    BY <1>1, <1>2, <1>3, LinksGo, FlowTypes DEF May
  <1>5. flow'["login"] = d /\ flow'["bootstrap"] = flow["bootstrap"] /\ flow'["logout"] = flow["logout"]
    BY <1>3, FlowTypes DEF Goes
  <1>6. ASSUME Session PROVE Session'
    <2>1. ~Clearing' /\ ~HalfCleared' /\ ~Fresh' /\ ~In("bootstrap", "read")'
      BY <1>1, <1>5, <1>6, LoginAlone DEF In
    <2>2. stored'.token = flow["login"].token
      BY DEF LoginWriteToken, IInv, AppInv, StoredOK
    <2> QED
      BY <1>1, <1>2, <1>5, <1>6, <2>1, <2>2 DEF Session, In
  <1> QED
    BY <1>1, <1>4, <1>6 DEF SInv

LEMMA LoginWriteNameSession ==
    ASSUME IInv, SInv, LoginWriteName
    PROVE  SInv'
  <1>1. /\ Links /\ In("login", "write2") /\ UNCHANGED <<state, force, lost, tangled>>
        /\ held' = flow["login"].token
    BY DEF SInv, LoginWriteName
  <1>2. PICK c \in Calls : Send(c, "me", held', None) /\ Await("login", "me", c)
    BY DEF LoginWriteName
  <1>3. Starts(c, "me") /\ Goes("login", Doing("me", c))
    BY <1>2, SendStarts, FlowGoes, FlowTypes DEF Await
  <1>4. Doing("me", c).call = c /\ Doing("me", c).pc = "me"
    BY DEF Doing
  <1>5. Links'
    BY <1>1, <1>3, <1>4, LinksWait, FlowTypes DEF May
  <1>6. /\ flow'["login"].pc = "me"
        /\ flow'["bootstrap"] = flow["bootstrap"] /\ flow'["logout"] = flow["logout"]
    BY <1>3, <1>4, FlowTypes DEF Goes
  <1>7. ASSUME Session PROVE Session'
    <2>1. flow["bootstrap"].call # None => call'[flow["bootstrap"].call] = call[flow["bootstrap"].call]
      BY <1>3, FlowTypes DEF Starts, Awaited
    <2>2. ~Clearing' /\ ~HalfCleared' /\ ~Fresh' /\ ~In("bootstrap", "read")'
      BY <1>1, <1>6, <1>7, <2>1, LoginAlone DEF In
    <2>3. stored'.token = stored.token
      BY DEF LoginWriteName, IInv, AppInv, StoredOK
    <2> QED
      BY <1>1, <1>6, <1>7, <2>2, <2>3 DEF Session, In
  <1> QED
    BY <1>1, <1>5, <1>7 DEF SInv

LEMMA LoginMeSession ==
    ASSUME IInv, SInv, LoginMe
    PROVE  SInv'
  <1>1. /\ Links /\ In("login", "me") /\ UNCHANGED <<held, stored, force, lost, tangled>>
        /\ state' = "authenticated"
    BY DEF SInv, LoginMe
  <1>2. Ends("login") /\ Goes("login", Doing("idle", None))
    BY FlowGoes, FlowTypes, TakeEnds DEF LoginMe, Go
  <1>3. Doing("idle", None).call = None /\ Doing("idle", None).pc = "idle"
    BY DEF Doing
  <1>4. Links'
    BY <1>1, <1>2, <1>3, LinksGo, FlowTypes DEF May
  <1>5. /\ flow'["login"].pc = "idle"
        /\ flow'["bootstrap"] = flow["bootstrap"] /\ flow'["logout"] = flow["logout"]
    BY <1>2, <1>3, FlowTypes DEF Goes
  <1>6. ASSUME Session PROVE Session'
    <2>1. ~Clearing' /\ ~HalfCleared' /\ ~Fresh' /\ ~In("bootstrap", "read")'
      BY <1>1, <1>2, <1>5, <1>6, OthersKept, LoginAlone, FlowTypes DEF In
    <2> QED
      BY <1>1, <1>5, <1>6, <2>1 DEF Session, In, AtRest
  <1> QED
    BY <1>1, <1>4, <1>6 DEF SInv

-----------------------------------------------------------------------------
(* logout, and clearing.                                                   *)

LEMMA LogoutStartSession ==
    ASSUME IInv, SInv, NEW c \in Calls, LogoutStart(c)
    PROVE  SInv'
  <1>1. /\ Links /\ In("logout", "idle") /\ state = "authenticated"
        /\ UNCHANGED <<state, held, stored, force, lost, tangled>>
    BY DEF SInv, LogoutStart
  <1>2. Starts(c, "logout") /\ Goes("logout", Doing("api", c))
    BY SendStarts, FlowGoes, FlowTypes DEF LogoutStart, Await
  <1>3. Doing("api", c).call = c /\ Doing("api", c).pc = "api"
    BY DEF Doing
  <1>4. Links'
    BY <1>1, <1>2, <1>3, LinksWait, FlowTypes DEF May
  <1>5. /\ flow'["logout"].pc = "api"
        /\ flow'["bootstrap"] = flow["bootstrap"] /\ flow'["login"] = flow["login"]
    BY <1>2, <1>3, FlowTypes DEF Goes
  <1>6. Fresh' <=> Fresh
    <2>1. flow["bootstrap"].call # None => call'[flow["bootstrap"].call] = call[flow["bootstrap"].call]
      BY <1>2, FlowTypes DEF Starts, Awaited
    <2> QED
      BY <1>1, <1>5, <2>1, FreshStays
  <1>7. (Clearing' <=> Clearing) /\ (HalfCleared' => HalfCleared)
    BY <1>1, <1>5 DEF Clearing, HalfCleared, In
  <1>8. ASSUME Session PROVE Session'
    BY <1>1, <1>5, <1>6, <1>7, <1>8 DEF Session, In, NoSession, AtRest
  <1> QED
    BY <1>1, <1>4, <1>8 DEF SInv

LEMMA LogoutAnswerSession ==
    ASSUME IInv, SInv, LogoutAnswer
    PROVE  SInv'
  <1>1. /\ Links /\ In("logout", "api") /\ UNCHANGED <<state, stored, force, lost>>
        /\ held' = None
        /\ tangled => tangled'
    BY DEF SInv, LogoutAnswer, Tangle
  <1>2. Ends("logout") /\ Goes("logout", Doing("clear1", None))
    BY FlowGoes, FlowTypes, TakeEnds DEF LogoutAnswer, Go
  <1>3. Doing("clear1", None).call = None /\ Doing("clear1", None).pc = "clear1"
    BY DEF Doing
  <1>4. Links'
    BY <1>1, <1>2, <1>3, LinksGo, FlowTypes DEF May
  <1>5. /\ flow'["logout"].pc = "clear1"
        /\ flow'["bootstrap"] = flow["bootstrap"] /\ flow'["login"] = flow["login"]
    BY <1>2, <1>3, FlowTypes DEF Goes
  <1>6. Fresh' <=> Fresh
    BY <1>1, <1>2, <1>5, OthersKept, FreshStays, FlowTypes
  <1>7. ASSUME Session, ~tangled' PROVE Session'
    <2>1. Clearing' /\ (HalfCleared' => HalfCleared)
      BY <1>1, <1>5 DEF Clearing, HalfCleared, In
    <2>2. In("login", "idle")' /\ ~Fresh
      BY <1>1, <1>7, <2>1 DEF LogoutAnswer, Tangle, In, Session
    <2> QED
      BY <1>1, <1>6, <1>7, <2>1, <2>2 DEF Session, In
  <1> QED
    BY <1>1, <1>4, <1>7 DEF SInv

LEMMA ClearTokenSession ==
    ASSUME IInv, SInv, NEW f \in Flows, ClearToken(f)
    PROVE  SInv'
  <1>1. /\ Links /\ f \in {"bootstrap", "logout"} /\ In(f, "clear1")
        /\ UNCHANGED <<call, state, held, force, lost, tangled>>
    BY DEF SInv, ClearToken, server
  <1>2. Goes(f, Doing("clear2", None))
    BY FlowGoes DEF ClearToken, Go
  <1>3. Doing("clear2", None).call = None /\ Doing("clear2", None).pc = "clear2"
    BY DEF Doing
  <1>4. Links'
    BY <1>1, <1>2, <1>3, LinksGo, FlowTypes DEF May
  <1>5. stored'.token = None
    BY DEF ClearToken, IInv, AppInv, StoredOK
  <1>6. ASSUME Session PROVE Session'
    <2>1. Clearing /\ In("login", "idle") /\ held = None /\ ~Fresh
      BY <1>1, <1>6 DEF Clearing, In, Session
    <2>2. Clearing'
      BY <1>1, <1>2, <1>3 DEF Clearing, Goes
    <2>3. In("login", "idle")' /\ ~Fresh'
      BY <1>1, <1>2, <1>3, <2>1, FlowTypes DEF In, Goes, Fresh, Refused, Answered, Result
    <2> QED
      BY <1>1, <1>5, <2>1, <2>2, <2>3 DEF Session, In
  <1> QED
    BY <1>1, <1>4, <1>6 DEF SInv

LEMMA ClearNameSession ==
    ASSUME IInv, SInv, NEW f \in Flows, ClearName(f)
    PROVE  SInv'
  <1>1. /\ Links /\ f \in {"bootstrap", "logout"} /\ In(f, "clear2")
        /\ UNCHANGED <<call, held, force, lost, tangled>> /\ state' = "unauthenticated"
    BY DEF SInv, ClearName, SignedOut, server
  <1>2. Goes(f, Doing("idle", None))
    BY FlowGoes DEF ClearName, Go
  <1>3. Doing("idle", None).call = None /\ Doing("idle", None).pc = "idle"
    BY DEF Doing
  <1>4. Links'
    BY <1>1, <1>2, <1>3, LinksGo, FlowTypes DEF May
  <1>5. stored'.token = stored.token
    BY DEF ClearName, IInv, AppInv, StoredOK
  <1>6. ASSUME Session PROVE Session'
    <2>1. Clearing /\ HalfCleared /\ In("login", "idle") /\ held = None /\ ~Fresh /\ stored.token = None
      BY <1>1, <1>6 DEF Clearing, HalfCleared, In, Session
    <2>2. In("login", "idle")' /\ ~Fresh'
      BY <1>1, <1>2, <1>3, <2>1, FlowTypes DEF In, Goes, Fresh, Refused, Answered, Result
    <2> QED
      BY <1>1, <1>5, <2>1, <2>2 DEF Session, In, AtRest, NoSession
  <1> QED
    BY <1>1, <1>4, <1>6 DEF SInv

LEMMA ForceLogoutSession ==
    ASSUME IInv, SInv, NEW c \in Calls, ForceLogout(c)
    PROVE  SInv'
  <1>1. Links /\ UNCHANGED <<call, held, flow, lost, tangled>>
    BY DEF SInv, ForceLogout, server
  <1>2. Links' /\ (Fresh' <=> Fresh)
    BY <1>1 DEF Links, In, Fresh, Refused, Answered, Result
  <1>3. \/ /\ force[c] = "clear1" /\ force'[c] = "clear2" /\ stored'.token = None /\ state' = state
        \/ /\ force[c] = "clear2" /\ stored'.token = stored.token /\ state' = "unauthenticated"
    BY DEF ForceLogout, Ended, IInv, AppInv, StoredOK, ForceOK
  <1>4. ASSUME Session PROVE Session'
    <2>1. Clearing /\ In("login", "idle") /\ held = None /\ ~Fresh
      BY <1>3, <1>4 DEF Clearing, Session
    <2>2. CASE force[c] = "clear1"
      <3>1. Clearing' /\ stored'.token = None
        BY <1>3, <2>2 DEF Clearing
      <3> QED
        BY <1>1, <1>2, <2>1, <3>1 DEF Session, In
    <2>3. CASE force[c] = "clear2"
      <3>1. stored'.token = None /\ state' = "unauthenticated"
        BY <1>3, <1>4, <2>3 DEF Session, HalfCleared
      <3> QED
        BY <1>1, <1>2, <2>1, <3>1 DEF Session, In, AtRest, NoSession
    <2> QED
      BY <1>3, <2>2, <2>3
  <1> QED
    BY <1>1, <1>2, <1>4 DEF SInv

-----------------------------------------------------------------------------
(* Requests of screens and of other clients, answers, restarts.            *)

LEMMA FetchSession ==
    ASSUME IInv, SInv, NEW c \in Calls, NEW op, Fetch(c, op)
    PROVE  SInv'
  <1>1. Links /\ state = "authenticated" /\ UNCHANGED <<state, held, stored, flow, force, lost, tangled>>
    BY DEF SInv, Fetch
  <1>2. Starts(c, op)
    BY SendStarts DEF Fetch
  <1>3. Links'
    BY <1>1, <1>2, LinksStart
  <1>4. Fresh' <=> Fresh
    <2>1. flow["bootstrap"].call # None => call'[flow["bootstrap"].call] = call[flow["bootstrap"].call]
      BY <1>2, FlowTypes DEF Starts, Awaited
    <2> QED
      BY <1>1, <2>1, FreshStays
  <1>5. ASSUME Session PROVE Session'
    BY <1>1, <1>4, <1>5 DEF Session, In, Clearing, HalfCleared, AtRest, NoSession
  <1> QED
    BY <1>1, <1>3, <1>5 DEF SInv

LEMMA ReplaySession ==
    ASSUME IInv, SInv, NEW c \in Calls, Replay(c)
    PROVE  SInv'
  <1>1. /\ Links /\ UNCHANGED <<state, held, stored, flow, force, tangled>>
        /\ lost' = lost \cup {c}
    BY DEF SInv, Replay
  <1>2. PICK op \in CallOps : Starts(c, op)
    <2>1. PICK op \in CallOps : \E t, k : Accept(c, op, t, k, None, Person)
      BY DEF Replay, CallOps
    <2> QED
      BY <2>1, AcceptStarts DEF Replay
  <1>3. Links'
    BY <1>1, <1>2, LinksStart
  <1>4. Fresh' <=> Fresh
    <2>1. flow["bootstrap"].call # None => call'[flow["bootstrap"].call] = call[flow["bootstrap"].call]
      BY <1>2, FlowTypes DEF Starts, Awaited
    <2> QED
      BY <1>1, <2>1, FreshStays
  <1>5. Undisturbed => Undisturbed'
    BY <1>1, <1>2 DEF Undisturbed, Starts
  <1>6. ASSUME Session PROVE Session'
    BY <1>1, <1>4, <1>5, <1>6 DEF Session, In, Clearing, HalfCleared, AtRest, NoSession
  <1> QED
    BY <1>1, <1>3, <1>6 DEF SInv

LEMMA RestartSession ==
    ASSUME IInv, SInv, Restart
    PROVE  SInv'
  <1>1. /\ \A f \in Flows : flow'[f].pc = (IF f = "bootstrap" THEN "read" ELSE "idle") /\ flow'[f].call = None
        /\ \A c \in Calls : force'[c] = "idle"
        /\ held' = None /\ state' = "unknown" /\ UNCHANGED <<call, stored, tangled>>
        /\ \A c \in Calls : c \in lost' <=> call[c].pc # "free"
        /\ lost' \subseteq Calls
    BY DEF Restart, Booting, Doing, server
  <1>2. Links'
    BY <1>1, FlowTypes DEF Links, In
  <1>3. ~Clearing' /\ ~HalfCleared' /\ Fresh' /\ Undisturbed'
    BY <1>1, FlowTypes DEF Clearing, HalfCleared, Fresh, Undisturbed, In
  <1>4. Session'
    BY <1>1, <1>3, FlowTypes DEF Session, In
  <1> QED
    BY <1>2, <1>4 DEF SInv

\* An answer arrives.  If it is bootstrap's own and not a 200, bootstrap is
\* refused; if it starts a forceLogout, the clearing begins.
LEMMA DeliverSession ==
    ASSUME IInv, SInv, NEW c \in Calls, Deliver(c)
    PROVE  SInv'
  <1>1. /\ Links /\ call[c].pc = "done" /\ lost' = lost \ {c} /\ UNCHANGED <<state, stored, flow>>
        /\ tangled => tangled'
    BY DEF SInv, Deliver, Tangle
  <1>2. /\ \A d \in Calls : d # c => call'[d] = call[d]
        /\ call'[c].pc = "free"
        /\ Awaited(c) => call'[c].op = call[c].op /\ call'[c].code = call[c].code
    BY FlowTypes DEF Deliver, NoCall, Call
  <1>3. Links'
    <2>1. \A f \in Flows : flow[f].call # None => call'[flow[f].call].op = call[flow[f].call].op
      BY <1>2, FlowTypes DEF Awaited
    <2>2. \A d \in lost' : call'[d].pc # "free"
      BY <1>1, <1>2, FlowTypes DEF Links
    <2> QED
      BY <1>1, <2>1, <2>2, FlowTypes DEF Links, In
  <1>4. Fresh' => Fresh
    BY <1>1, <1>2, FlowTypes DEF Fresh, Refused, Answered, Result, In, Links
  <1>5. CASE c \notin lost /\ StartsForce(c)
    <2>1. /\ held' = None /\ force'[c] = "clear1"
          /\ \A d \in Calls : d # c => force'[d] = force[d]
      BY <1>5, FlowTypes DEF Deliver, Released
    <2>2. Clearing' /\ (HalfCleared' => HalfCleared)
      BY <1>1, <2>1 DEF Clearing, HalfCleared, In
    <2>3. ASSUME Session, ~tangled' PROVE Session'
      <3>1. In("login", "idle")'
        BY <2>2, <2>3 DEF Deliver, Tangle, In
      <3>2. ASSUME Fresh' PROVE FALSE
        <4>1. c = flow["bootstrap"].call
          BY <1>1, <1>4, <1>5, <2>3, <3>2 DEF Session, Undisturbed
        <4>2. In("bootstrap", "me")
          BY <1>1, <4>1, FlowTypes DEF Links, In
        <4>3. call[c].code # 200
          BY <1>1, <1>5, <4>1, <4>2 DEF Links, StartsForce
        <4>4. Refused' /\ ~In("bootstrap", "read")'
          BY <1>1, <1>2, <4>1, <4>2, <4>3, FlowTypes DEF Refused, In, Answered, Result, Awaited
        <4> QED
          BY <3>2, <4>4 DEF Fresh
      <3> QED
        BY <1>1, <2>1, <2>2, <2>3, <3>1, <3>2 DEF Session, In
    <2> QED
      BY <1>1, <1>3, <2>3 DEF SInv
  <1>6. CASE ~(c \notin lost /\ StartsForce(c))
    <2>1. UNCHANGED <<held, force>>
      BY <1>6 DEF Deliver
    <2>2. (Clearing' <=> Clearing) /\ (HalfCleared' <=> HalfCleared)
      BY <1>1, <2>1 DEF Clearing, HalfCleared, In
    <2>3. Undisturbed => Undisturbed'
      BY <1>1, <1>2 DEF Undisturbed
    <2>4. ASSUME Session PROVE Session'
      <3>1. Fresh /\ ~Clearing => AtRest'
        BY <1>1, <2>4 DEF Session, AtRest
      <3>2. ~Fresh /\ In("login", "idle") /\ ~Clearing => AtRest'
        BY <1>1, <2>1, <2>4 DEF Session, AtRest, NoSession
      <3> QED
        BY <1>1, <1>4, <2>1, <2>2, <2>3, <2>4, <3>1, <3>2 DEF Session, In, NoSession
    <2> QED
      BY <1>1, <1>3, <2>4 DEF SInv
  <1> QED
    BY <1>5, <1>6

-----------------------------------------------------------------------------
(* All together.                                                           *)

LEMMA InitSession == Init => SInv
  <1> SUFFICES ASSUME Init PROVE SInv
    OBVIOUS
  <1>1. \A f \in Flows : flow[f].pc = (IF f = "bootstrap" THEN "read" ELSE "idle") /\ flow[f].call = None
    BY DEF Init, Booting, Doing
  <1>2. "bootstrap" \in Flows /\ "login" \in Flows /\ "logout" \in Flows
    BY DEF Flows
  <1>3. /\ lost = {} /\ state = "unknown" /\ held = None
        /\ \A c \in Calls : force[c] = "idle" /\ call[c].pc = "free"
    BY DEF Init, InitServer, NoCall
  <1>4. Links
    BY <1>1, <1>2, <1>3 DEF Links, In, Flows
  <1>5. ~Clearing /\ ~HalfCleared /\ Undisturbed
    BY <1>1, <1>2, <1>3 DEF Clearing, HalfCleared, In, Undisturbed
  <1> QED
    BY <1>1, <1>2, <1>3, <1>4, <1>5 DEF SInv, Session, In, Fresh

LEMMA NextSession == IInv /\ SInv /\ [Next]_vars => SInv'
  <1> SUFFICES ASSUME IInv, SInv, [Next]_vars PROVE SInv'
    OBVIOUS
  <1>1. ASSUME UNCHANGED <<call, state, held, stored, flow, force, lost, tangled>> PROVE SInv'
    BY <1>1, ServerKeepsSession DEF GoOn
  <1>2. CASE UNCHANGED vars
    BY <1>1, <1>2 DEF vars, server, client
  <1>3. CASE Server /\ UNCHANGED client
    <2>1. UNCHANGED <<state, held, stored, flow, force, lost, tangled>>
      BY <1>3 DEF client
    <2>2. CASE Tick
      BY <1>1, <2>1, <2>2 DEF Tick
    <2>3. ASSUME NEW c \in Calls, Serve(c) \/ Cut(c) PROVE SInv'
      BY <2>1, <2>3, ServeGoesOn, ServerKeepsSession
    <2> QED
      BY <1>3, <2>2, <2>3 DEF Server
  <1>4. ASSUME NEW c \in Calls, Deliver(c) \/ ForceLogout(c) PROVE SInv'
    BY <1>4, DeliverSession, ForceLogoutSession
  <1>5. ASSUME NEW f \in Flows, Continue(f) PROVE SInv'
    BY <1>5, BootstrapSession, BootstrapMeSession, LoginAnswerSession, LoginWriteTokenSession,
       LoginWriteNameSession, LoginMeSession, LogoutAnswerSession, ClearTokenSession, ClearNameSession
       DEF Continue
  <1>6. ASSUME User PROVE SInv'
    BY <1>6, LoginStartSession, LogoutStartSession, FetchSession, ReplaySession DEF User
  <1>7. CASE Renaming
    BY <1>1, <1>7 DEF Renaming, Rename
  <1> QED
    BY <1>2, <1>3, <1>4, <1>5, <1>6, <1>7, RestartSession DEF Next

\* Whenever none of the cubit's methods is running, what the screens believe,
\* what the requests carry and what a restart would find agree: signed in with
\* one and the same token in memory and in storage, or signed out of both
\* (AuthCubit and AuthInterceptor, whatever the server answers and however
\* often the app is killed), unless a login overlapped the clearing of another
\* session.
THEOREM ScreensMemoryStorageAgree == Spec => []SessionAgrees
  BY AlwaysIInv, InitSession, NextSession, SessionImplies, PTL DEF Spec

=============================================================================
