-------------------------- MODULE ClientAuthProofs --------------------------
(***************************************************************************)
(* Theorems about AuthTokens and ClientAuth, for any sets of accounts,     *)
(* names and requests, any lifetimes and any number of sends and restarts. *)
(*                                                                         *)
(* Logout is final because what a logout with 200 has ended is in the      *)
(* blacklist (EndedAreListed), so a request that sends it afterwards never *)
(* gets as far as the lookup of a user.  A token speaks for its owner      *)
(* because every token that is held, stored or sent was issued to some     *)
(* account, which has been called what the token says.                     *)
(***************************************************************************)
EXTENDS ClientAuth, TLAPS

PCs   == {"free", "start", "user", "erase", "second", "revoke", "done"}
Codes == {0, 200, 401, 404, 500}
Maybe(S) == S \cup {None}

\* A token is known if it was issued to an account.
KnownIn(t, iss) == t # None => \E a \in Accounts : <<t, a>> \in iss

Credential(q) == IF q.op = "refresh" THEN q.cookie ELSE q.token

\* What a request's fields hold, given the tokens issued, blacklisted and ended.
CallOK(q, iss, black, ended) ==
    /\ q.op = "login" => q.token = None
    /\ q.op = "login" /\ q.pc = "start" => q.name \in Names
    /\ q.op = "login" /\ q.code = 200 => q.access # None
    /\ q.pc \in {"user", "erase", "revoke"} \/ q.as # None => q.token # None
    /\ q.pc = "erase" => q.as # None
    /\ q.pc = "second" => q.token \in black /\ q.cookie # None
    /\ KnownIn(q.token, iss) /\ KnownIn(q.cookie, iss) /\ KnownIn(q.access, iss) /\ KnownIn(q.set, iss)
    /\ q.stale => /\ q.as = None /\ q.access = None /\ q.pc \notin {"user", "erase"}
                  /\ q.op # "login" /\ Credential(q) \in ended

EndedAreListed == out \subseteq blacklist
IssuedToACalled == \A i \in issued : i[2] \in owners[i[1].sub]
OwnersRemembered == \A a \in Accounts : HasRow(a) => a \in owners[account[a].name]

ServerInv == /\ ServerTypeOK
             /\ \A c \in Calls : CallOK(call[c], issued, blacklist, out)
             /\ EndedAreListed /\ IssuedToACalled /\ OwnersRemembered

\* What the app keeps: tokens that were issued.
Doings == [pc : Steps, call : Maybe(Calls), token : Maybe(Token), name : Maybe(Names)]
HeldOK   == held \in Maybe(Token) /\ KnownIn(held, issued)
JarOK    == jar \in Maybe(Token) /\ KnownIn(jar, issued)
StoredOK == stored \in [token : Maybe(Token), name : Maybe(Names)] /\ KnownIn(stored.token, issued)
FlowOK   == flow \in [Flows -> Doings] /\ \A f \in Flows : KnownIn(flow[f].token, issued)
ForceOK  == force \in [Calls -> {"idle", "clear1", "clear2"}]
AppInv == /\ state \in States /\ lost \subseteq Calls
          /\ HeldOK /\ JarOK /\ StoredOK /\ FlowOK /\ ForceOK

\* The inductive invariant.
IInv == ServerInv /\ AppInv

LEMMA InvImplies == IInv => TypeOK /\ LogoutIsFinal /\ TokenSpeaksForItsOwner
  <1> SUFFICES ASSUME IInv PROVE TypeOK /\ LogoutIsFinal /\ TokenSpeaksForItsOwner
    OBVIOUS
  <1>3. TypeOK
    BY DEF IInv, ServerInv, AppInv, HeldOK, JarOK, StoredOK, FlowOK, ForceOK, TypeOK, Doings, Maybe
  <1>1. LogoutIsFinal
    BY DEF IInv, ServerInv, CallOK, LogoutIsFinal
  <1>2. ASSUME NEW c \in Calls, call[c].as # None, <<call[c].token, call[c].as>> \notin issued
        PROVE  \E a \in owners[call[c].token.sub] : a # call[c].as
    <2>1. PICK a \in Accounts : <<call[c].token, a>> \in issued
      BY <1>2 DEF IInv, ServerInv, CallOK, KnownIn
    <2>2. a \in owners[call[c].token.sub]
      BY <2>1 DEF IInv, ServerInv, IssuedToACalled
    <2> QED
      BY <1>2, <2>1, <2>2
  <1> QED
    BY <1>1, <1>2, <1>3 DEF TokenSpeaksForItsOwner

-----------------------------------------------------------------------------
(* Helpers.                                                                *)

\* A new token is one, and carries what it was made of.
LEMMA NewTokens ==
    ASSUME now \in 0..MaxTime, NEW n \in Names
    PROVE  /\ NewAccess(n) \in Token /\ NewAccess(n).sub = n /\ NewAccess(n).kind = "access"
           /\ NewRefresh(n) \in Token /\ NewRefresh(n).sub = n /\ NewRefresh(n).kind = "refresh"
  BY TimesAssumption DEF NewAccess, NewRefresh, Token

\* What a request sent does not change when it moves on.
Same(k, q) == /\ k.op = q.op /\ k.token = q.token /\ k.cookie = q.cookie
              /\ k.name = q.name /\ k.person = q.person /\ k.stale = q.stale

\* The ways in which a request moves on: to p, answered x, given t and s, admitted as a.
GoneOn(q, p)          == [q EXCEPT !.pc = p]
Coded(q, p, x)        == [q EXCEPT !.pc = p, !.code = x]
Given(q, p, x, t)     == [q EXCEPT !.pc = p, !.code = x, !.access = t]
Given2(q, p, x, t, s) == [q EXCEPT !.pc = p, !.code = x, !.access = t, !.set = s]
Admitted(q, a, p, x)  == [q EXCEPT !.as = a, !.pc = p, !.code = x]

Fields(k, p, x, a, t, s) == /\ k \in Call /\ k.pc = p /\ k.code = x
                            /\ k.as = a /\ k.access = t /\ k.set = s

LEMMA Update ==
    ASSUME NEW q \in Call
    PROVE  /\ \A v \in PCs : [q EXCEPT !.pc = v] \in Call
           /\ \A v \in Codes : [q EXCEPT !.code = v] \in Call
           /\ \A v \in Maybe(Accounts) : [q EXCEPT !.as = v] \in Call
           /\ \A v \in Maybe(Token) : [q EXCEPT !.access = v] \in Call /\ [q EXCEPT !.set = v] \in Call
  BY DEF Call, PCs, Codes, Maybe

LEMMA Moved ==
    ASSUME NEW q \in Call, NEW p \in PCs
    PROVE  /\ Same(GoneOn(q, p), q) /\ Fields(GoneOn(q, p), p, q.code, q.as, q.access, q.set)
           /\ \A x \in Codes :
                 /\ Same(Coded(q, p, x), q)
                 /\ Fields(Coded(q, p, x), p, x, q.as, q.access, q.set)
                 /\ \A a \in Maybe(Accounts) : /\ Same(Admitted(q, a, p, x), q)
                                        /\ Fields(Admitted(q, a, p, x), p, x, a, q.access, q.set)
                 /\ \A t \in Maybe(Token) : /\ Same(Given(q, p, x, t), q)
                                     /\ Fields(Given(q, p, x, t), p, x, q.as, t, q.set)
                 /\ \A t, s \in Maybe(Token) : /\ Same(Given2(q, p, x, t, s), q)
                                        /\ Fields(Given2(q, p, x, t, s), p, x, q.as, t, s)
  <1> DEFINE q1 == [q EXCEPT !.pc = p]
  <1>1. q1 \in Call
    BY Update
  <1>2. Same(q1, q) /\ Fields(q1, p, q.code, q.as, q.access, q.set)
    BY <1>1 DEF Same, Fields, Call
  <1>3. q1 = GoneOn(q, p)
    BY DEF GoneOn
  <1>4. ASSUME NEW x \in Codes, NEW a \in Maybe(Accounts), NEW t \in Maybe(Token), NEW s \in Maybe(Token)
        PROVE  /\ Same(Coded(q, p, x), q)
               /\ Fields(Coded(q, p, x), p, x, q.as, q.access, q.set)
               /\ Same(Admitted(q, a, p, x), q)
               /\ Fields(Admitted(q, a, p, x), p, x, a, q.access, q.set)
               /\ Same(Given(q, p, x, t), q)
               /\ Fields(Given(q, p, x, t), p, x, q.as, t, q.set)
               /\ Same(Given2(q, p, x, t, s), q)
               /\ Fields(Given2(q, p, x, t, s), p, x, q.as, t, s)
    <2> DEFINE q2 == [q1 EXCEPT !.code = x]
               q3 == [q2 EXCEPT !.access = t]
               q4 == [q3 EXCEPT !.set = s]
               q5 == [q EXCEPT !.as = a]
               q6 == [q5 EXCEPT !.pc = p]
               q7 == [q6 EXCEPT !.code = x]
    <2>1. q5 \in Call
      BY Update
    <2>2. q2 \in Call /\ q6 \in Call
      <3> HIDE DEF q1, q5
      <3> QED BY <1>1, <2>1, Update
    <2>3. q3 \in Call /\ q7 \in Call
      <3> HIDE DEF q2, q6
      <3> QED BY <2>2, Update
    <2>4. q4 \in Call
      <3> HIDE DEF q3
      <3> QED BY <2>3, Update
    <2>5. Same(q2, q) /\ Fields(q2, p, x, q.as, q.access, q.set)
      BY <2>2 DEF Same, Fields, Call
    <2>6. Same(q3, q) /\ Fields(q3, p, x, q.as, t, q.set)
      BY <2>3 DEF Same, Fields, Call
    <2>7. Same(q4, q) /\ Fields(q4, p, x, q.as, t, s)
      BY <2>4 DEF Same, Fields, Call
    <2>8. Same(q7, q) /\ Fields(q7, p, x, a, q.access, q.set)
      BY <2>3 DEF Same, Fields, Call
    <2>9. /\ q2 = Coded(q, p, x) /\ q3 = Given(q, p, x, t)
          /\ q4 = Given2(q, p, x, t, s) /\ q7 = Admitted(q, a, p, x)
      BY DEF Coded, Given, Given2, Admitted
    <2> HIDE DEF q2, q3, q4, q7
    <2> QED
      BY <2>5, <2>6, <2>7, <2>8, <2>9
  <1>5. None \in Maybe(Accounts) /\ None \in Maybe(Token)
    BY DEF Maybe
  <1> QED
    BY <1>2, <1>3, <1>4, <1>5

LEMMA CallFields ==
    ASSUME NEW q \in Call
    PROVE  /\ q.pc \in PCs /\ q.code \in Codes /\ q.as \in Maybe(Accounts)
           /\ q.token \in Maybe(Token) /\ q.cookie \in Maybe(Token)
           /\ q.access \in Maybe(Token) /\ q.set \in Maybe(Token)
  BY DEF Call, PCs, Codes, Maybe

\* Where a request can get to, and the codes of answers.
LEMMA Values ==
    /\ "free" \in PCs /\ "start" \in PCs /\ "user" \in PCs /\ "erase" \in PCs
    /\ "second" \in PCs /\ "revoke" \in PCs /\ "done" \in PCs
    /\ 0 \in Codes /\ 200 \in Codes /\ 401 \in Codes /\ 500 \in Codes
    /\ \A t \in Token : t \in Maybe(Token)
    /\ \A a \in Accounts : a \in Maybe(Accounts)
  BY DEF PCs, Codes, Maybe

\* What holds of a request goes on holding as tokens are issued and ended.
LEMMA Grows ==
    ASSUME NEW q, NEW i, NEW b, NEW o, NEW i2, NEW b2, NEW o2, CallOK(q, i, b, o),
           i \subseteq i2, b \subseteq b2, o \subseteq o2
    PROVE  CallOK(q, i2, b2, o2)
  BY DEF CallOK, KnownIn

\* The histories do not forget.
Remembers == issued \subseteq issued' /\ blacklist \subseteq blacklist' /\ out \subseteq out'

\* A request changes to k, and no other.
Becomes(c, k) == call' = [call EXCEPT ![c] = k]

\* One request changes, to one that is in order.
LEMMA OneCall ==
    ASSUME call \in [Calls -> Call], \A d \in Calls : CallOK(call[d], issued, blacklist, out),
           Remembers, NEW c \in Calls, NEW k \in Call, CallOK(k, issued', blacklist', out'),
           Becomes(c, k)
    PROVE  call' \in [Calls -> Call] /\ \A d \in Calls : CallOK(call'[d], issued', blacklist', out')
  <1>1. ASSUME NEW d \in Calls PROVE CallOK(call'[d], issued', blacklist', out')
    <2>1. CASE d = c
      BY <2>1 DEF Becomes
    <2>2. CASE d # c
      <3> DEFINE q == call[d]
      <3>1. call'[d] = q /\ CallOK(q, issued, blacklist, out)
        BY <2>2 DEF Becomes
      <3> HIDE DEF q
      <3> QED
        BY <3>1, Grows DEF Remembers
    <2> QED
      BY <2>1, <2>2
  <1> QED
    BY <1>1 DEF Becomes

-----------------------------------------------------------------------------
(* The server's steps.                                                     *)

\* One request changes; what is issued, listed and ended grows in order.
LEMMA CallStep ==
    ASSUME ServerInv, Remembers, NEW c \in Calls, NEW k \in Call,
           CallOK(k, issued', blacklist', out'), Becomes(c, k),
           blacklist' \subseteq Token, out' \subseteq blacklist',
           issued' \subseteq Token \X Accounts, IssuedToACalled',
           UNCHANGED <<account, now, owners>>
    PROVE  ServerInv'
  <1>1. call' \in [Calls -> Call] /\ \A d \in Calls : CallOK(call'[d], issued', blacklist', out')
    BY OneCall DEF ServerInv, ServerTypeOK
  <1>2. ServerTypeOK'
    BY <1>1 DEF ServerInv, ServerTypeOK
  <1>3. EndedAreListed' /\ OwnersRemembered'
    BY DEF EndedAreListed, ServerInv, OwnersRemembered, HasRow
  <1> QED
    BY <1>1, <1>2, <1>3 DEF ServerInv

\* A request changes and nothing else does.
LEMMA OnlyCall ==
    ASSUME ServerInv, NEW c \in Calls, NEW k \in Call,
           CallOK(k, issued, blacklist, out), Becomes(c, k),
           UNCHANGED <<account, blacklist, now, issued, out, owners>>
    PROVE  ServerInv'
  <1>1. Remembers
    BY DEF Remembers
  <1>2. CallOK(k, issued', blacklist', out')
    OBVIOUS
  <1>3. IssuedToACalled'
    BY DEF ServerInv, IssuedToACalled
  <1>4. /\ blacklist' \subseteq Token /\ out' \subseteq blacklist'
        /\ issued' \subseteq Token \X Accounts
    BY DEF ServerInv, ServerTypeOK, EndedAreListed
  <1> QED
    BY <1>1, <1>2, <1>3, <1>4, CallStep

\* An answer without tokens.
LEMMA Answers ==
    ASSUME ServerInv, NEW c \in Calls, NEW x \in Codes, Respond(c, x),
           call[c].op = "login" => x # 200
    PROVE  \E k \in Call : /\ Becomes(c, k) /\ Same(k, call[c])
                           /\ k.pc = "done" /\ k.code = x
                           /\ CallOK(k, issued, blacklist, out)
  <1>1. PICK q \in Call : q = call[c]
    BY DEF ServerInv, ServerTypeOK
  <1>2. CallOK(q, issued, blacklist, out)
    BY <1>1 DEF ServerInv
  <1>3. PICK k \in Call : /\ k = Coded(q, "done", x) /\ Same(k, q)
                          /\ k.pc = "done" /\ k.code = x
                          /\ k.as = q.as /\ k.access = q.access /\ k.set = q.set
    BY Values, Moved DEF Fields
  <1>4. CallOK(k, issued, blacklist, out)
    BY <1>1, <1>2, <1>3 DEF CallOK, Same, Credential
  <1>5. Becomes(c, k)
    BY <1>1, <1>3 DEF Respond, Coded, Becomes
  <1> QED
    BY <1>1, <1>3, <1>4, <1>5

LEMMA RespondStep ==
    ASSUME ServerInv, NEW c \in Calls, NEW x \in Codes, Respond(c, x),
           call[c].op = "login" => x # 200,
           UNCHANGED <<account, blacklist, now, issued, out, owners>>
    PROVE  ServerInv'
  BY Answers, OnlyCall

LEMMA LoginStep ==
    ASSUME ServerInv, NEW c \in Calls, Login(c)
    PROVE  ServerInv' /\ issued \subseteq issued'
  <1>1. PICK q \in Call : q = call[c]
    BY DEF ServerInv, ServerTypeOK
  <1>2. CallOK(q, issued, blacklist, out) /\ q.op = "login" /\ q.pc = "start"
    BY <1>1 DEF ServerInv, Login, At
  <1>3. CASE Authentic(q.name, q.person)
    <2>1. PICK n \in Names : n = q.name
      BY <1>2 DEF CallOK
    <2>2. PICK a \in Accounts : a = q.person /\ account[a].name = n
      BY <1>3, <2>1 DEF Authentic, Called
    <2>3. PICK t \in Token : t = NewAccess(n) /\ t.sub = n
      BY NewTokens DEF ServerInv, ServerTypeOK
    <2>4. PICK s \in Token : s = NewRefresh(n) /\ s.sub = n
      BY NewTokens DEF ServerInv, ServerTypeOK
    <2>5. /\ issued' = issued \cup ({t, s} \X {a})
          /\ Becomes(c, Given2(q, "done", 200, t, s))
      <3>1. Authentic(call[c].name, call[c].person)
        BY <1>1, <1>3
      <3>2. issued' = issued \cup ({NewAccess(n), NewRefresh(n)} \X {a})
        BY <1>1, <2>1, <2>2, <3>1 DEF Login
      <3>3. call' = [call EXCEPT ![c].pc = "done", ![c].code = 200, ![c].access = t, ![c].set = s]
        <4>1. call' = [call EXCEPT ![c].pc = "done", ![c].code = 200,
                                   ![c].access = NewAccess(n), ![c].set = NewRefresh(n)]
          BY <1>1, <2>1, <3>1 DEF Login
        <4> QED
          BY <2>3, <2>4, <4>1
      <3>4. Becomes(c, Given2(q, "done", 200, t, s))
        <4>1. call' = [call EXCEPT ![c] = [call[c] EXCEPT !.pc = "done", !.code = 200,
                                                          !.access = t, !.set = s]]
          BY <3>3, ZenonT(40)
        <4> QED
          BY <1>1, <4>1 DEF Given2, Becomes
      <3> QED
        BY <2>3, <2>4, <3>2, <3>4, Zenon
    <2>6. PICK k \in Call : /\ k = Given2(q, "done", 200, t, s)
                            /\ Same(k, q) /\ k.pc = "done" /\ k.code = 200
                            /\ k.as = q.as /\ k.access = t /\ k.set = s
      BY Values, Moved DEF Fields
    <2>7. Remembers /\ UNCHANGED <<account, blacklist, now, out, owners>>
      BY <2>5 DEF Remembers, Login
    <2>8. CallOK(k, issued', blacklist', out')
      <3>1. CallOK(q, issued', blacklist', out')
        BY <1>2, <2>7, Grows DEF Remembers
      <3>2. KnownIn(t, issued') /\ KnownIn(s, issued') /\ t # None /\ ~q.stale
        BY <1>2, <2>5, NoneAssumption DEF KnownIn, CallOK
      <3> QED
        BY <1>2, <2>6, <3>1, <3>2 DEF CallOK, Same, Credential
    <2>9. IssuedToACalled'
      <3>1. a \in owners[n]
        BY <2>1, <2>2, NoneAssumption DEF ServerInv, OwnersRemembered, HasRow
      <3> QED
        BY <2>3, <2>4, <2>5, <2>7, <3>1 DEF ServerInv, IssuedToACalled
    <2>10. /\ issued' \subseteq Token \X Accounts /\ blacklist' \subseteq Token
           /\ out' \subseteq blacklist'
      BY <2>5, <2>7 DEF ServerInv, ServerTypeOK, EndedAreListed
    <2> QED
      BY <2>5, <2>6, <2>7, <2>8, <2>9, <2>10, CallStep DEF Remembers
  <1>4. CASE ~Authentic(q.name, q.person)
    <2>1. Respond(c, 401) /\ UNCHANGED <<account, blacklist, now, issued, out, owners>>
      BY <1>1, <1>4 DEF Login
    <2> QED
      BY <2>1, RespondStep DEF Codes
  <1> QED
    BY <1>3, <1>4

LEMMA RefreshStep ==
    ASSUME ServerInv, NEW c \in Calls, Refresh(c)
    PROVE  ServerInv' /\ issued \subseteq issued'
  <1>1. PICK q \in Call : q = call[c]
    BY DEF ServerInv, ServerTypeOK
  <1>2. CallOK(q, issued, blacklist, out) /\ q.op = "refresh" /\ q.pc = "start"
    BY <1>1 DEF ServerInv, Refresh, At
  <1>3. CASE Verifies(q.cookie, "refresh")
    <2>1. PICK r \in Token : r = q.cookie /\ r \notin blacklist
      BY <1>3 DEF Verifies, Call
    <2>2. PICK a \in Accounts : <<r, a>> \in issued
      BY <1>2, <2>1, NoneAssumption DEF CallOK, KnownIn
    <2>3. PICK t \in Token : t = NewAccess(r.sub) /\ t.sub = r.sub
      <3>1. r.sub \in Names
        BY DEF Token
      <3> QED
        BY <3>1, NewTokens DEF ServerInv, ServerTypeOK
    <2>4. /\ issued' = issued \cup {<<t, i[2]>> : i \in {j \in issued : j[1] = r}}
          /\ Becomes(c, Given(q, "done", 200, t))
      <3>1. Verifies(call[c].cookie, "refresh")
        BY <1>1, <1>3
      <3>2. /\ issued' = issued \cup {<<NewAccess(r.sub), i[2]>> : i \in {j \in issued : j[1] = r}}
            /\ call' = [call EXCEPT ![c].pc = "done", ![c].code = 200, ![c].access = NewAccess(r.sub)]
        BY <1>1, <2>1, <3>1 DEF Refresh
      <3>3. call' = [call EXCEPT ![c].pc = "done", ![c].code = 200, ![c].access = t]
        BY <2>3, <3>2
      <3>4. Becomes(c, Given(q, "done", 200, t))
        BY <1>1, <3>3 DEF Given, Becomes
      <3> QED
        BY <2>3, <3>2, <3>4
    <2>5. PICK k \in Call : /\ k = Given(q, "done", 200, t)
                            /\ Same(k, q) /\ k.pc = "done" /\ k.code = 200
                            /\ k.as = q.as /\ k.access = t /\ k.set = q.set
      BY Values, Moved DEF Fields
    <2>6. Remembers /\ UNCHANGED <<account, blacklist, now, out, owners>>
      BY <2>4 DEF Remembers, Refresh
    <2>7. CallOK(k, issued', blacklist', out')
      <3>1. CallOK(q, issued', blacklist', out')
        BY <1>2, <2>6, Grows DEF Remembers
      <3>2. <<t, a>> \in issued'
        BY <2>2, <2>4
      <3>3. ~q.stale
        BY <1>2, <2>1 DEF CallOK, Credential, ServerInv, EndedAreListed
      <3> QED
        BY <1>2, <2>5, <3>1, <3>2, <3>3 DEF CallOK, Same, Credential, KnownIn
    <2>8. IssuedToACalled' /\ issued' \subseteq Token \X Accounts
      <3>1. ASSUME NEW i \in issued' PROVE i \in Token \X Accounts /\ i[2] \in owners[i[1].sub]
        <4>1. CASE i \in issued
          BY <4>1 DEF ServerInv, ServerTypeOK, IssuedToACalled
        <4>2. CASE i \notin issued
          <5>1. PICK j \in issued : j[1] = r /\ i = <<t, j[2]>>
            BY <2>4, <4>2
          <5> QED
            BY <2>3, <5>1 DEF ServerInv, ServerTypeOK, IssuedToACalled
        <4> QED
          BY <4>1, <4>2
      <3> QED
        BY <2>6, <3>1 DEF IssuedToACalled
    <2>9. blacklist' \subseteq Token /\ out' \subseteq blacklist'
      BY <2>6 DEF ServerInv, ServerTypeOK, EndedAreListed
    <2> QED
      BY <2>4, <2>5, <2>6, <2>7, <2>8, <2>9, CallStep DEF Remembers
  <1>4. CASE ~Verifies(q.cookie, "refresh")
    <2>1. Respond(c, 401) /\ UNCHANGED <<account, blacklist, now, issued, out, owners>>
      BY <1>1, <1>4 DEF Refresh
    <2> QED
      BY <2>1, RespondStep DEF Codes
  <1> QED
    BY <1>3, <1>4

LEMMA VerifyAccessStep ==
    ASSUME ServerInv, NEW c \in Calls, VerifyAccess(c)
    PROVE  ServerInv'
  <1>1. PICK q \in Call : q = call[c]
    BY DEF ServerInv, ServerTypeOK
  <1>2. CallOK(q, issued, blacklist, out) /\ q.op \in {"me", "browse", "delete"}
    BY <1>1 DEF ServerInv, VerifyAccess, At
  <1>3. UNCHANGED <<account, blacklist, now, issued, out, owners>>
    BY DEF VerifyAccess
  <1>4. CASE Verifies(q.token, "access")
    <2>1. PICK k \in Call : /\ k = GoneOn(q, "user") /\ Same(k, q) /\ k.pc = "user"
                            /\ k.code = q.code /\ k.as = q.as /\ k.access = q.access /\ k.set = q.set
      BY Values, Moved DEF Fields
    <2>2. Verifies(call[c].token, "access")
      BY <1>1, <1>4
    <2>3. call' = [call EXCEPT ![c].pc = "user"]
      BY <2>2 DEF VerifyAccess, Move
    <2>4. Becomes(c, k)
      BY <1>1, <2>1, <2>3 DEF GoneOn, Becomes
    <2>5. CallOK(k, issued, blacklist, out)
      BY <1>2, <1>4, <2>1
         DEF CallOK, Same, Credential, Verifies, ServerInv, EndedAreListed
    <2> QED
      BY <1>3, <2>4, <2>5, OnlyCall
  <1>5. CASE ~Verifies(q.token, "access")
    <2>1. \E x \in {200, 401} : Respond(c, x)
      BY <1>1, <1>5 DEF VerifyAccess
    <2> QED
      BY <1>1, <1>2, <1>3, <2>1, Values, RespondStep
  <1> QED
    BY <1>4, <1>5

\* A request of an account goes on to p.
Admits(c, a, p, x) == call' = [call EXCEPT ![c].as = a, ![c].pc = p, ![c].code = x]

LEMMA FindUserStep ==
    ASSUME ServerInv, NEW c \in Calls, FindUser(c)
    PROVE  ServerInv'
  <1>1. PICK q \in Call : q = call[c]
    BY DEF ServerInv, ServerTypeOK
  <1>2. /\ CallOK(q, issued, blacklist, out) /\ q.pc = "user"
        /\ q.op \in {"me", "browse", "delete"}
    BY <1>1 DEF ServerInv, FindUser, At
  <1>3. UNCHANGED <<account, blacklist, now, issued, out, owners>>
    BY DEF FindUser
  <1>4. CASE \E x \in {200, 401} : Respond(c, x)
    BY <1>1, <1>2, <1>3, <1>4, Values, RespondStep
  <1>5. ASSUME NEW a \in Accounts, NEW p \in {"erase", "done"}, NEW x \in {0, 200}, Admits(c, a, p, x)
        PROVE  ServerInv'
    <2>1. PICK k \in Call : /\ k = Admitted(q, a, p, x) /\ Same(k, q) /\ k.pc = p
                            /\ k.code = x /\ k.as = a /\ k.access = q.access /\ k.set = q.set
      <3>1. p \in PCs /\ x \in Codes
        BY Values
      <3> QED
        BY <3>1, Values, Moved DEF Fields
    <2>2. Becomes(c, k)
      BY <1>1, <1>5, <2>1 DEF Admitted, Admits, Becomes
    <2>3. CallOK(k, issued, blacklist, out)
      <3>1. ~q.stale /\ q.token # None /\ a # None
        BY <1>2, NoneAssumption DEF CallOK
      <3> QED
        BY <1>2, <2>1, <3>1 DEF CallOK, Same, Credential
    <2> QED
      BY <1>3, <2>2, <2>3, OnlyCall
  <1>6. \/ \E x \in {200, 401} : Respond(c, x)
        \/ \E a \in Accounts, p \in {"erase", "done"}, x \in {0, 200} : Admits(c, a, p, x)
    BY ZenonT(40) DEF FindUser, Called, Admits
  <1> QED
    BY <1>4, <1>5, <1>6

\* Account a is deactivated, and the call goes on.
Deactivates(c, a) == account' = [account EXCEPT ![a].active = FALSE] /\ Move(c, "revoke")

LEMMA EraseAccountStep ==
    ASSUME ServerInv, NEW c \in Calls, EraseAccount(c)
    PROVE  ServerInv'
  <1>1. PICK q \in Call : q = call[c]
    BY DEF ServerInv, ServerTypeOK
  <1>2. CallOK(q, issued, blacklist, out) /\ q.op = "delete" /\ q.pc = "erase"
    BY <1>1 DEF ServerInv, EraseAccount, At
  <1> SUFFICES ASSUME Deactivates(c, call[c].as) PROVE ServerInv'
    BY <1>1, <1>2, RespondStep DEF EraseAccount, Codes, Deactivates
  <1>3. PICK a \in Accounts : a = q.as
    BY <1>2 DEF CallOK, Call
  <1>4. /\ account' = [account EXCEPT ![a].active = FALSE]
        /\ call' = [call EXCEPT ![c].pc = "revoke"]
        /\ UNCHANGED <<blacklist, now, issued, out, owners>>
    BY <1>1, <1>3 DEF EraseAccount, Deactivates, Move
  <1>5. PICK k \in Call : /\ k = GoneOn(q, "revoke") /\ Same(k, q) /\ k.pc = "revoke"
                          /\ k.code = q.code /\ k.as = q.as /\ k.access = q.access /\ k.set = q.set
    BY Values, Moved DEF Fields
  <1>6. Becomes(c, k)
    BY <1>1, <1>4, <1>5 DEF GoneOn, Becomes
  <1>7. CallOK(k, issued', blacklist', out')
    BY <1>2, <1>4, <1>5 DEF CallOK, Same, Credential
  <1>8. Remembers
    BY <1>4 DEF Remembers
  <1>9. call' \in [Calls -> Call] /\ \A d \in Calls : CallOK(call'[d], issued', blacklist', out')
    BY <1>6, <1>7, <1>8, OneCall DEF ServerInv, ServerTypeOK
  <1>10. /\ account' \in [Accounts -> [name : Names \cup {None}, active : BOOLEAN]]
         /\ \A b \in Accounts : account'[b].name = account[b].name
    BY <1>4 DEF ServerInv, ServerTypeOK
  <1>11. ServerTypeOK'
    BY <1>4, <1>9, <1>10 DEF ServerInv, ServerTypeOK
  <1>12. EndedAreListed' /\ IssuedToACalled' /\ OwnersRemembered'
    BY <1>4, <1>10 DEF ServerInv, EndedAreListed, IssuedToACalled, OwnersRemembered, HasRow
  <1> QED
    BY <1>9, <1>11, <1>12 DEF ServerInv

\* A token is listed, and the request goes on to p.
Proceeds(c, t, p, x) == /\ blacklist' = blacklist \cup {t}
                        /\ call' = [call EXCEPT ![c].pc = p, ![c].code = x]

LEMMA Listed ==
    ASSUME ServerInv, NEW c \in Calls, NEW t \in Token, NEW p \in {"done", "second"},
           NEW x \in {0, 200}, Proceeds(c, t, p, x), UNCHANGED <<account, now, issued, owners>>,
           out \subseteq out', out' \subseteq blacklist',
           call[c].op # "login", p = "second" => t = call[c].token /\ call[c].cookie # None
    PROVE  ServerInv'
  <1>1. PICK q \in Call : q = call[c]
    BY DEF ServerInv, ServerTypeOK
  <1>2. CallOK(q, issued, blacklist, out) /\ q.op # "login"
    BY <1>1 DEF ServerInv
  <1>3. PICK k \in Call : /\ k = Coded(q, p, x) /\ Same(k, q) /\ k.pc = p
                          /\ k.code = x /\ k.as = q.as /\ k.access = q.access /\ k.set = q.set
    <2>1. p \in PCs /\ x \in Codes
      BY Values
    <2> QED
      BY <2>1, Moved DEF Fields
  <1>4. Becomes(c, k)
    BY <1>1, <1>3 DEF Coded, Proceeds, Becomes
  <1>5. Remembers /\ t \in blacklist'
    BY DEF Remembers, Proceeds
  <1>6. CallOK(k, issued', blacklist', out')
    <2>1. CallOK(q, issued', blacklist', out')
      BY <1>2, <1>5, Grows DEF Remembers
    <2> QED
      BY <1>1, <1>2, <1>3, <1>5, <2>1 DEF CallOK, Same, Credential
  <1>7. /\ blacklist' \subseteq Token /\ issued' \subseteq Token \X Accounts
        /\ IssuedToACalled'
    BY DEF ServerInv, ServerTypeOK, IssuedToACalled, Proceeds
  <1> QED
    BY <1>4, <1>5, <1>6, <1>7, CallStep

\* The outcomes of a blacklisting: refused, or listed.
LEMMA Outcomes ==
    ASSUME NEW c, NEW t, NEW p, NEW x, Blacklist(c, t, p, x)
    PROVE  \/ \E y \in {401, 500} : Respond(c, y) /\ UNCHANGED blacklist
           \/ Proceeds(c, t, p, x)
  BY DEF Blacklist, Proceeds

LEMMA RevokeTokenStep ==
    ASSUME ServerInv, NEW c \in Calls, RevokeToken(c)
    PROVE  ServerInv'
  <1>1. call[c].op = "delete" /\ call[c].token \in Token
    BY DEF ServerInv, ServerTypeOK, RevokeToken, At, CallOK, Call
  <1>2. UNCHANGED <<account, now, issued, out, owners>> /\ out \subseteq blacklist
    BY DEF RevokeToken, ServerInv, EndedAreListed
  <1>3. CASE \E y \in {401, 500} : Respond(c, y) /\ UNCHANGED blacklist
    BY <1>1, <1>2, <1>3, Values, RespondStep
  <1>4. CASE Proceeds(c, call[c].token, "done", 200)
    <2>1. out' = out /\ out \subseteq blacklist'
      BY <1>2, <1>4 DEF Proceeds
    <2> QED
      BY <1>1, <1>2, <1>4, <2>1, Listed
  <1>5. Blacklist(c, call[c].token, "done", 200)
    BY DEF RevokeToken
  <1> QED
    BY <1>3, <1>4, <1>5, Outcomes

LEMMA LogoutAccessStep ==
    ASSUME ServerInv, NEW c \in Calls, LogoutAccess(c)
    PROVE  ServerInv'
  <1>1. UNCHANGED <<account, now, issued, out, owners>> /\ out \subseteq blacklist
        /\ call[c].op = "logout"
    BY DEF LogoutAccess, At, ServerInv, EndedAreListed
  <1>2. CASE \E y \in {401, 500} : Respond(c, y) /\ UNCHANGED blacklist
    BY <1>1, <1>2, Values, RespondStep
  <1>3. CASE /\ call[c].token # None /\ call[c].cookie # None
             /\ Proceeds(c, call[c].token, "second", 0)
    <2>1. call[c].token \in Token
      BY <1>3 DEF ServerInv, ServerTypeOK, Call
    <2>2. out' = out /\ out \subseteq blacklist'
      BY <1>1, <1>3 DEF Proceeds
    <2> QED
      BY <1>1, <1>3, <2>1, <2>2, Listed
  <1> QED
    BY <1>2, <1>3, Outcomes DEF LogoutAccess

LEMMA LogoutRefreshStep ==
    ASSUME ServerInv, NEW c \in Calls, LogoutRefresh(c)
    PROVE  ServerInv'
  <1>1. /\ UNCHANGED <<account, now, issued, owners>> /\ out \subseteq blacklist
        /\ call[c].op = "logout" /\ call[c].token \in blacklist /\ call[c].cookie \in Token
        /\ out' = IF call'[c].code = 200 THEN out \cup {call[c].token, call[c].cookie} ELSE out
    BY DEF LogoutRefresh, At, ServerInv, ServerTypeOK, CallOK, Call, EndedAreListed
  <1>2. CASE \E y \in {401, 500} : Respond(c, y) /\ UNCHANGED blacklist
    <2>1. PICK y \in {401, 500} : Respond(c, y) /\ UNCHANGED blacklist
      BY <1>2
    <2>2. call'[c].code = y
      BY <2>1 DEF Respond, ServerInv, ServerTypeOK, Call
    <2> QED
      BY <1>1, <2>1, <2>2, Values, RespondStep
  <1>3. CASE Proceeds(c, call[c].cookie, "done", 200)
    <2>1. call'[c].code = 200 /\ blacklist' = blacklist \cup {call[c].cookie}
      BY <1>3 DEF Proceeds, ServerInv, ServerTypeOK, Call
    <2>2. out \subseteq out' /\ out' \subseteq blacklist'
      BY <1>1, <2>1
    <2> QED
      BY <1>1, <1>3, <2>2, Listed
  <1>4. Blacklist(c, call[c].cookie, "done", 200)
    BY DEF LogoutRefresh
  <1>5. \/ \E y \in {401, 500} : Respond(c, y) /\ UNCHANGED blacklist
        \/ Proceeds(c, call[c].cookie, "done", 200)
    BY <1>4, Outcomes
  <1> QED
    BY <1>2, <1>3, <1>5

\* Every step of the server's own keeps its invariant and forgets no token.
LEMMA ServeStep ==
    ASSUME ServerInv, NEW c \in Calls, Serve(c) \/ Cut(c)
    PROVE  ServerInv' /\ issued \subseteq issued'
  <1>1. CASE Cut(c)
    BY <1>1, Values, RespondStep DEF Cut
  <1>2. CASE VerifyAccess(c)
    BY <1>2, VerifyAccessStep DEF VerifyAccess
  <1>3. CASE FindUser(c)
    BY <1>3, FindUserStep DEF FindUser
  <1>4. CASE EraseAccount(c)
    BY <1>4, EraseAccountStep DEF EraseAccount
  <1>5. CASE RevokeToken(c)
    BY <1>5, RevokeTokenStep DEF RevokeToken
  <1>6. CASE LogoutAccess(c)
    BY <1>6, LogoutAccessStep DEF LogoutAccess
  <1>7. CASE LogoutRefresh(c)
    BY <1>7, LogoutRefreshStep DEF LogoutRefresh
  <1> QED
    BY <1>1, <1>2, <1>3, <1>4, <1>5, <1>6, <1>7, LoginStep, RefreshStep DEF Serve

LEMMA TickStep ==
    ASSUME ServerInv, Tick
    PROVE  ServerInv'
  <1>1. now' \in 0..MaxTime
    BY TimesAssumption DEF Tick, ServerInv, ServerTypeOK
  <1> QED
    BY <1>1 DEF Tick, ServerInv, ServerTypeOK, EndedAreListed, IssuedToACalled, OwnersRemembered, HasRow

LEMMA RenameStep ==
    ASSUME ServerInv, NEW a \in Accounts, NEW n \in Names, Rename(a, n)
    PROVE  ServerInv'
  <1>1. /\ account' = [account EXCEPT ![a].name = n]
        /\ owners' = [owners EXCEPT ![n] = owners[n] \cup {a}]
        /\ UNCHANGED <<blacklist, call, now, issued, out>>
    BY DEF Rename
  <1>2. /\ account' \in [Accounts -> [name : Names \cup {None}, active : BOOLEAN]]
        /\ account'[a].name = n
        /\ \A b \in Accounts : b # a => account'[b].name = account[b].name
    BY <1>1 DEF ServerInv, ServerTypeOK
  <1>3. /\ owners' \in [Names -> SUBSET Accounts]
        /\ \A o \in Names : owners[o] \subseteq owners'[o]
        /\ a \in owners'[n]
    BY <1>1 DEF ServerInv, ServerTypeOK
  <1>4. ServerTypeOK'
    BY <1>1, <1>2, <1>3 DEF ServerInv, ServerTypeOK
  <1>5. OwnersRemembered'
    <2>1. ASSUME NEW b \in Accounts, account'[b].name # None
          PROVE  b \in owners'[account'[b].name]
      <3>1. CASE b = a
        BY <1>2, <1>3, <3>1
      <3>2. CASE b # a
        <4>1. account'[b].name = account[b].name /\ account[b].name \in Names
          BY <1>2, <2>1, <3>2 DEF ServerInv, ServerTypeOK
        <4>2. b \in owners[account[b].name]
          BY <2>1, <4>1 DEF ServerInv, OwnersRemembered, HasRow
        <4> QED
          BY <1>3, <4>1, <4>2
      <3> QED
        BY <3>1, <3>2
    <2> QED
      BY <2>1 DEF OwnersRemembered, HasRow
  <1>6. IssuedToACalled'
    <2>1. ASSUME NEW i \in issued PROVE i[2] \in owners'[i[1].sub]
      <3>1. i[1].sub \in Names /\ i[2] \in owners[i[1].sub]
        BY DEF ServerInv, ServerTypeOK, IssuedToACalled, Token
      <3> QED
        BY <1>3, <3>1
    <2> QED
      BY <1>1, <2>1 DEF IssuedToACalled
  <1> QED
    BY <1>1, <1>4, <1>5, <1>6 DEF ServerInv, EndedAreListed

-----------------------------------------------------------------------------
(* The app's steps.                                                        *)

LEMMA NoCallOK == NoCall \in Call /\ CallOK(NoCall, issued, blacklist, out)
  BY DEF NoCall, Call, CallOps, CallOK, KnownIn

\* A request remains one whatever is sent with it.
LEMMA Sent ==
    ASSUME NEW q \in Call
    PROVE  /\ \A v \in CallOps : [q EXCEPT !.op = v] \in Call
           /\ \A v \in Maybe(Token) : [q EXCEPT !.token = v] \in Call /\ [q EXCEPT !.cookie = v] \in Call
           /\ \A v \in Maybe(Names) : [q EXCEPT !.name = v] \in Call
           /\ [q EXCEPT !.person = Person] \in Call
           /\ \A v \in BOOLEAN : [q EXCEPT !.stale = v] \in Call
  BY ClientAssumption DEF Call, Maybe

\* A request arrives with tokens that were issued.
LEMMA AcceptStep ==
    ASSUME ServerInv, NEW c \in Calls, NEW op \in CallOps, NEW t \in Maybe(Token),
           NEW k \in Maybe(Token), NEW n \in Maybe(Names), Accept(c, op, t, k, n, Person),
           UNCHANGED <<account, blacklist, now, issued, out, owners>>,
           KnownIn(t, issued), KnownIn(k, issued),
           op = "login" => t = None /\ n \in Names
    PROVE  ServerInv'
  <1> DEFINE s == (IF op = "refresh" THEN k ELSE t) \in out
  <1>1. s \in BOOLEAN
    OBVIOUS
  <1>2. None \notin out
    BY NoneAssumption DEF ServerInv, ServerTypeOK
  <1>3. op = "login" => ~s
    BY <1>2
  <1>4. s => (IF op = "refresh" THEN k ELSE t) \in out
    OBVIOUS
  <1>5. call' = [call EXCEPT ![c] = [NoCall EXCEPT !.pc = "start", !.op = op, !.token = t, !.cookie = k,
                                         !.name = n, !.person = Person, !.stale = s]]
    BY DEF Accept
  <1> HIDE DEF s
  <1> DEFINE q1 == [NoCall EXCEPT !.pc = "start"]
             q2 == [q1 EXCEPT !.op = op]
             q3 == [q2 EXCEPT !.token = t]
             q4 == [q3 EXCEPT !.cookie = k]
             q5 == [q4 EXCEPT !.name = n]
             q6 == [q5 EXCEPT !.person = Person]
             q  == [q6 EXCEPT !.stale = s]
  <1>6. q1 = [NoCall EXCEPT !.pc = "start"] /\ q1 \in Call
    BY NoCallOK, Values, Update
  <1>7. q2 \in Call
    <2> HIDE DEF q1
    <2> QED BY <1>6, Sent
  <1>8. q3 \in Call
    <2> HIDE DEF q2
    <2> QED BY <1>7, Sent
  <1>9. q4 \in Call
    <2> HIDE DEF q3
    <2> QED BY <1>8, Sent
  <1>10. q5 \in Call
    <2> HIDE DEF q4
    <2> QED BY <1>9, Sent
  <1>11. q6 \in Call
    <2> HIDE DEF q5
    <2> QED BY <1>10, Sent
  <1>12. q \in Call
    <2> HIDE DEF q6
    <2> QED BY <1>1, <1>11, Sent
  <1>13. /\ q.pc = "start" /\ q.op = op /\ q.token = t /\ q.cookie = k /\ q.name = n /\ q.stale = s
         /\ q.as = None /\ q.code = 0 /\ q.access = None /\ q.set = None
    BY DEF NoCall
  <1>14. Becomes(c, q)
    BY <1>5 DEF Becomes
  <1> HIDE DEF q
  <1>15. CallOK(q, issued, blacklist, out)
    BY <1>3, <1>4, <1>13 DEF CallOK, Credential, KnownIn
  <1> QED
    BY <1>12, <1>14, <1>15, OnlyCall

\* An answer is taken, and the slot of its request is free again.
LEMMA TakeStep ==
    ASSUME IInv, NEW f \in Flows, Answered(f), Take(f)
    PROVE  ServerInv' /\ issued' = issued
  <1>1. PICK c \in Calls : c = flow[f].call
    BY DEF IInv, AppInv, FlowOK, Doings, Maybe, Answered
  <1>2. call' = [call EXCEPT ![c] = NoCall] /\ UNCHANGED <<account, blacklist, now, issued, out, owners>>
    BY <1>1 DEF Take
  <1>3. PICK k \in Call : k = NoCall /\ CallOK(k, issued, blacklist, out)
    BY NoCallOK
  <1>4. Becomes(c, k)
    BY <1>2, <1>3 DEF Becomes
  <1> QED
    BY <1>2, <1>3, <1>4, OnlyCall DEF IInv

LEMMA SendStep ==
    ASSUME IInv, NEW c \in Calls, NEW op \in {"me", "browse", "delete", "logout", "login"},
           NEW t \in Maybe(Token), NEW n \in Maybe(Names), Send(c, op, t, n), KnownIn(t, issued),
           op = "login" => n \in Names
    PROVE  ServerInv' /\ issued' = issued
  <1>1. PICK h \in Maybe(Token) : h = Header(op, t) /\ (op = "login" => h = None) /\ KnownIn(h, issued)
    BY DEF Header, Maybe, KnownIn
  <1>2. PICK k \in Maybe(Token) : k = (IF op = "logout" THEN jar ELSE None) /\ KnownIn(k, issued)
    BY DEF IInv, AppInv, JarOK, Maybe, KnownIn
  <1>3. /\ Accept(c, op, h, k, n, Person)
        /\ UNCHANGED <<account, blacklist, now, issued, out, owners>>
    BY <1>1, <1>2 DEF Send
  <1>4. op \in CallOps
    BY DEF CallOps
  <1> QED
    BY <1>1, <1>2, <1>3, <1>4, AcceptStep DEF IInv

\* The stages of a method.
LEMMA DoingOK ==
    ASSUME NEW pc \in Steps, NEW c \in Maybe(Calls)
    PROVE  Doing(pc, c) \in Doings /\ Doing(pc, c).token = None /\ Doing(pc, c).pc = pc /\ Doing(pc, c).call = c
  BY DEF Doing, Doings, Maybe

\* A method goes on to d.
LEMMA FlowStep ==
    ASSUME AppInv, NEW f \in Flows, NEW d \in Doings, KnownIn(d.token, issued),
           flow' = [flow EXCEPT ![f] = d], issued' = issued
    PROVE  FlowOK'
  BY DEF AppInv, FlowOK

LEMMA GoStep ==
    ASSUME AppInv, NEW f \in Flows, NEW pc \in Steps, NEW c \in Maybe(Calls),
           flow' = [flow EXCEPT ![f] = Doing(pc, c)], issued' = issued
    PROVE  FlowOK'
  BY DoingOK, FlowStep DEF KnownIn

\* The app is as it was, and tokens were issued.
LEMMA AppStays ==
    ASSUME AppInv, issued \subseteq issued', UNCHANGED client
    PROVE  AppInv'
  <1>1. ASSUME NEW t, KnownIn(t, issued) PROVE KnownIn(t, issued')
    BY <1>1 DEF KnownIn
  <1>2. /\ KnownIn(held, issued') /\ KnownIn(jar, issued') /\ KnownIn(stored.token, issued')
        /\ \A f \in Flows : KnownIn(flow[f].token, issued')
    BY <1>1 DEF AppInv, HeldOK, JarOK, StoredOK, FlowOK
  <1> QED
    BY <1>2 DEF AppInv, HeldOK, JarOK, StoredOK, FlowOK, ForceOK, client

\* What the app keeps stays in order as long as it is not changed.
LEMMA AppChanges ==
    ASSUME AppInv, issued' = issued
    PROVE  /\ state' = state => state' \in States
           /\ lost' = lost => lost' \subseteq Calls
           /\ held' = held => HeldOK'
           /\ jar' = jar => JarOK'
           /\ stored' = stored => StoredOK'
           /\ flow' = flow => FlowOK'
           /\ force' = force => ForceOK'
           /\ held' = None => HeldOK'
           /\ held' = stored.token => HeldOK'
           /\ held' = flow["login"].token => HeldOK'
           /\ \A t \in Maybe(Token) : stored' = [stored EXCEPT !.token = t] /\ KnownIn(t, issued) => StoredOK'
           /\ \A n \in Maybe(Names) : stored' = [stored EXCEPT !.name = n] => StoredOK'
  BY DEF AppInv, HeldOK, JarOK, StoredOK, FlowOK, ForceOK, Maybe, KnownIn, Flows, Doings

\* Nothing is no token, and was not issued.
LEMMA NothingOK == None \in Maybe(Token) /\ None \in Maybe(Names) /\ None \in Maybe(Calls) /\ KnownIn(None, issued)
  BY DEF Maybe, KnownIn

LEMMA AppTyped ==
    ASSUME AppInv
    PROVE  /\ state \in States /\ lost \subseteq Calls
           /\ force \in [Calls -> {"idle", "clear1", "clear2"}]
           /\ held \in Maybe(Token) /\ KnownIn(held, issued)
           /\ stored.token \in Maybe(Token) /\ KnownIn(stored.token, issued)
           /\ stored.name \in Maybe(Names)
           /\ flow["login"] \in Doings /\ KnownIn(flow["login"].token, issued)
           /\ "login" \in Flows /\ "bootstrap" \in Flows /\ "logout" \in Flows
           /\ "unauthenticated" \in States /\ "authenticated" \in States /\ "authenticating" \in States
           /\ "error" \in States /\ "unknown" \in States
           /\ "idle" \in Steps /\ "read" \in Steps /\ "api" \in Steps /\ "write1" \in Steps
           /\ "write2" \in Steps /\ "me" \in Steps /\ "clear1" \in Steps /\ "clear2" \in Steps
  BY DEF AppInv, HeldOK, StoredOK, FlowOK, ForceOK, Flows, States, Steps

LEMMA BootstrapStep ==
    ASSUME IInv, Bootstrap
    PROVE  IInv'
  <1> USE DEF IInv
  <1>1. UNCHANGED <<stored, jar, force, lost>>
    BY DEF Bootstrap
  <1>2. CASE state' = "unauthenticated" /\ Go("bootstrap", "idle") /\ UNCHANGED <<server, held>>
    <2>1. UNCHANGED <<account, blacklist, call, now, issued, out, owners>>
      BY <1>2 DEF server
    <2>2. ServerInv'
      BY <2>1 DEF ServerInv, ServerTypeOK, EndedAreListed, IssuedToACalled, OwnersRemembered, HasRow
    <2>3. FlowOK'
      BY <1>2, <2>1, AppTyped, NothingOK, GoStep DEF Go
    <2>4. AppInv'
      BY <1>1, <1>2, <2>1, <2>3, AppTyped, AppChanges DEF AppInv
    <2> QED
      BY <2>2, <2>4
  <1>3. ASSUME NEW c \in Calls, Send(c, "me", stored.token, None), Await("bootstrap", "me", c),
               held' = stored.token, state' = state
        PROVE  IInv'
    <2>1. ServerInv' /\ issued' = issued
      BY <1>3, AppTyped, NothingOK, SendStep
    <2>2. FlowOK'
      <3>1. c \in Maybe(Calls)
        BY DEF Maybe
      <3> QED
        BY <1>3, <2>1, <3>1, AppTyped, GoStep DEF Await
    <2>3. AppInv'
      BY <1>1, <1>3, <2>1, <2>2, AppTyped, AppChanges DEF AppInv
    <2> QED
      BY <2>1, <2>3
  <1> QED
    BY <1>2, <1>3 DEF Bootstrap

LEMMA BootstrapMeStep ==
    ASSUME IInv, BootstrapMe
    PROVE  IInv'
  <1>1. ServerInv' /\ issued' = issued
    BY AppTyped, TakeStep DEF BootstrapMe, IInv
  <1>2. /\ \E p \in {"idle", "clear1"} : Go("bootstrap", p)
        /\ held' = held \/ held' = None
        /\ state' \in States
        /\ UNCHANGED <<stored, jar, force, lost>>
    BY AppTyped DEF BootstrapMe, IInv
  <1>3. FlowOK'
    BY <1>1, <1>2, AppTyped, NothingOK, GoStep DEF Go, IInv
  <1>4. AppInv'
    BY <1>1, <1>2, <1>3, AppTyped, NothingOK, AppChanges DEF IInv, AppInv
  <1> QED
    BY <1>1, <1>4 DEF IInv

LEMMA LoginStartStep ==
    ASSUME IInv, NEW c \in Calls, NEW n \in Names, LoginStart(c, n)
    PROVE  IInv'
  <1>1. ServerInv' /\ issued' = issued
    <2>1. n \in Maybe(Names)
      BY DEF Maybe
    <2> QED
      BY <2>1, NothingOK, SendStep DEF LoginStart
  <1>2. FlowOK'
    <2>1. c \in Maybe(Calls)
      BY DEF Maybe
    <2> QED
      BY <1>1, <2>1, AppTyped, GoStep DEF LoginStart, Await, IInv
  <1>3. AppInv'
    <2>1. state' = "authenticating" /\ UNCHANGED <<held, stored, jar, force, lost>>
      BY DEF LoginStart
    <2> QED
      BY <1>1, <1>2, <2>1, AppTyped, AppChanges DEF IInv, AppInv
  <1> QED
    BY <1>1, <1>3 DEF IInv

LEMMA LoginAnswerStep ==
    ASSUME IInv, LoginAnswer
    PROVE  IInv'
  <1>1. ServerInv' /\ issued' = issued
    BY AppTyped, TakeStep DEF LoginAnswer, IInv
  <1>2. PICK c \in Calls : c = flow["login"].call
    BY AppTyped DEF LoginAnswer, Answered, IInv, Doings, Maybe
  <1>3. PICK q \in Call : q = Result("login") /\ CallOK(q, issued, blacklist, out)
    BY <1>2 DEF Result, IInv, ServerInv, ServerTypeOK
  <1>4. FlowOK'
    <2>1. CASE flow' = [flow EXCEPT !["login"] = [pc |-> "write1", call |-> None, token |-> q.access, name |-> q.name]]
      <3> DEFINE d == [pc |-> "write1", call |-> None, token |-> q.access, name |-> q.name]
      <3>1. d \in Doings /\ d.token = q.access
        BY DEF Doings, Maybe, Steps, Call
      <3>2. KnownIn(q.access, issued)
        BY <1>3 DEF CallOK
      <3> HIDE DEF d
      <3>3. flow' = [flow EXCEPT !["login"] = d]
        BY <2>1 DEF d
      <3> QED
        BY <1>1, <3>1, <3>2, <3>3, AppTyped, FlowStep DEF IInv
    <2>2. CASE Go("login", "idle")
      BY <1>1, <2>2, AppTyped, NothingOK, GoStep DEF Go, IInv
    <2> QED
      BY <1>3, <2>1, <2>2 DEF LoginAnswer
  <1>5. AppInv'
    <2>1. state' \in States /\ UNCHANGED <<held, stored, jar, force, lost>>
      BY AppTyped DEF LoginAnswer, IInv
    <2> QED
      BY <1>1, <1>4, <2>1, AppTyped, AppChanges DEF IInv, AppInv
  <1> QED
    BY <1>1, <1>5 DEF IInv

\* The server is as it was.
LEMMA ServerStays ==
    ASSUME ServerInv, UNCHANGED server
    PROVE  ServerInv' /\ issued' = issued
  <1>1. UNCHANGED <<account, blacklist, call, now, issued, out, owners>>
    BY DEF server
  <1> QED
    BY <1>1 DEF ServerInv, ServerTypeOK, EndedAreListed, IssuedToACalled, OwnersRemembered, HasRow

LEMMA LoginWriteTokenStep ==
    ASSUME IInv, LoginWriteToken
    PROVE  IInv'
  <1>1. /\ stored' = [stored EXCEPT !.token = flow["login"].token]
        /\ flow' = [flow EXCEPT !["login"].pc = "write2"]
        /\ UNCHANGED <<server, state, held, jar, force, lost>>
    BY DEF LoginWriteToken
  <1>2. ServerInv' /\ issued' = issued
    BY <1>1, ServerStays DEF IInv
  <1>3. FlowOK'
    <2> DEFINE d == [flow["login"] EXCEPT !.pc = "write2"]
    <2>1. d \in Doings /\ d.token = flow["login"].token
      BY AppTyped DEF IInv, Doings
    <2>2. flow' = [flow EXCEPT !["login"] = d]
      BY <1>1
    <2> HIDE DEF d
    <2> QED
      BY <1>2, <2>1, <2>2, AppTyped, FlowStep DEF IInv
  <1>4. flow["login"].token \in Maybe(Token)
    BY AppTyped DEF IInv, Doings
  <1>5. StoredOK'
    BY <1>1, <1>2, <1>4, AppTyped, AppChanges DEF IInv
  <1> QED
    BY <1>1, <1>2, <1>3, <1>5, AppChanges DEF IInv, AppInv

LEMMA LoginWriteNameStep ==
    ASSUME IInv, LoginWriteName
    PROVE  IInv'
  <1>1. PICK c \in Calls : Send(c, "me", held', None) /\ Await("login", "me", c)
    BY DEF LoginWriteName
  <1>2. /\ stored' = [stored EXCEPT !.name = flow["login"].name]
        /\ held' = flow["login"].token
        /\ UNCHANGED <<state, jar, force, lost>>
    BY DEF LoginWriteName
  <1>3. flow["login"].token \in Maybe(Token) /\ flow["login"].name \in Maybe(Names)
    BY AppTyped DEF IInv, Doings
  <1>4. PICK t \in Maybe(Token) : t = flow["login"].token /\ KnownIn(t, issued)
    BY <1>3, AppTyped DEF IInv
  <1>5. ServerInv' /\ issued' = issued
    <2>1. Send(c, "me", t, None)
      BY <1>1, <1>2, <1>4
    <2> QED
      BY <1>4, <2>1, NothingOK, SendStep
  <1>6. c \in Maybe(Calls)
    BY DEF Maybe
  <1>7. FlowOK'
    BY <1>1, <1>5, <1>6, AppTyped, GoStep DEF Await, IInv
  <1>8. HeldOK' /\ StoredOK'
    BY <1>2, <1>3, <1>5, AppChanges DEF IInv
  <1> QED
    BY <1>2, <1>5, <1>7, <1>8, AppChanges DEF IInv, AppInv

LEMMA LoginMeStep ==
    ASSUME IInv, LoginMe
    PROVE  IInv'
  <1>1. ServerInv' /\ issued' = issued
    BY AppTyped, TakeStep DEF LoginMe, IInv
  <1>2. FlowOK'
    BY <1>1, AppTyped, NothingOK, GoStep DEF LoginMe, Go, IInv
  <1>3. state' = "authenticated" /\ UNCHANGED <<held, stored, jar, force, lost>>
    BY DEF LoginMe
  <1> QED
    BY <1>1, <1>2, <1>3, AppTyped, AppChanges DEF IInv, AppInv

LEMMA LogoutStartStep ==
    ASSUME IInv, NEW c \in Calls, LogoutStart(c)
    PROVE  IInv'
  <1>1. ServerInv' /\ issued' = issued
    <2>1. held \in Maybe(Token) /\ KnownIn(held, issued)
      BY AppTyped DEF IInv
    <2> QED
      BY <2>1, NothingOK, SendStep DEF LogoutStart
  <1>2. c \in Maybe(Calls)
    BY DEF Maybe
  <1>3. FlowOK'
    BY <1>1, <1>2, AppTyped, GoStep DEF LogoutStart, Await, IInv
  <1>4. UNCHANGED <<state, held, stored, jar, force, lost>>
    BY DEF LogoutStart
  <1> QED
    BY <1>1, <1>3, <1>4, AppChanges DEF IInv, AppInv

LEMMA LogoutAnswerStep ==
    ASSUME IInv, LogoutAnswer
    PROVE  IInv'
  <1>1. ServerInv' /\ issued' = issued
    BY AppTyped, TakeStep DEF LogoutAnswer, IInv
  <1>2. FlowOK'
    BY <1>1, AppTyped, NothingOK, GoStep DEF LogoutAnswer, Go, IInv
  <1>3. held' = None /\ UNCHANGED <<state, stored, jar, force, lost>>
    BY DEF LogoutAnswer
  <1> QED
    BY <1>1, <1>2, <1>3, AppChanges DEF IInv, AppInv

LEMMA ClearTokenStep ==
    ASSUME IInv, NEW f \in Flows, ClearToken(f)
    PROVE  IInv'
  <1>1. /\ stored' = [stored EXCEPT !.token = None] /\ Go(f, "clear2")
        /\ UNCHANGED <<server, state, held, jar, force, lost>>
    BY DEF ClearToken
  <1>2. ServerInv' /\ issued' = issued
    BY <1>1, ServerStays DEF IInv
  <1>3. FlowOK'
    BY <1>1, <1>2, AppTyped, NothingOK, GoStep DEF Go, IInv
  <1>4. StoredOK'
    BY <1>1, <1>2, NothingOK, AppChanges DEF IInv
  <1> QED
    BY <1>1, <1>2, <1>3, <1>4, AppChanges DEF IInv, AppInv

LEMMA ClearNameStep ==
    ASSUME IInv, NEW f \in Flows, ClearName(f)
    PROVE  IInv'
  <1>1. /\ stored' = [stored EXCEPT !.name = None] /\ Go(f, "idle")
        /\ state' = "unauthenticated"
        /\ UNCHANGED <<server, held, jar, force, lost>>
    BY DEF ClearName, SignedOut
  <1>2. ServerInv' /\ issued' = issued
    BY <1>1, ServerStays DEF IInv
  <1>3. FlowOK'
    BY <1>1, <1>2, AppTyped, NothingOK, GoStep DEF Go, IInv
  <1>4. StoredOK'
    BY <1>1, <1>2, NothingOK, AppChanges DEF IInv
  <1> QED
    BY <1>1, <1>2, <1>3, <1>4, AppTyped, AppChanges DEF IInv, AppInv

LEMMA ForceLogoutStep ==
    ASSUME IInv, NEW c \in Calls, ForceLogout(c)
    PROVE  IInv'
  <1>1. UNCHANGED <<server, held, jar, flow, lost>>
    BY DEF ForceLogout
  <1>2. /\ stored' = [stored EXCEPT !.token = None] \/ stored' = [stored EXCEPT !.name = None]
        /\ \E x \in {"idle", "clear2"} : force' = [force EXCEPT ![c] = x]
        /\ state' = state \/ state' = "unauthenticated"
    BY DEF ForceLogout, Ended
  <1>3. ServerInv' /\ issued' = issued
    BY <1>1, ServerStays DEF IInv
  <1>4. ForceOK'
    BY <1>2 DEF ForceOK, IInv, AppInv
  <1>5. StoredOK'
    BY <1>2, <1>3, NothingOK, AppChanges DEF IInv
  <1> QED
    BY <1>1, <1>2, <1>3, <1>4, <1>5, AppTyped, AppChanges DEF IInv, AppInv

LEMMA DeliverStep ==
    ASSUME IInv, NEW c \in Calls, Deliver(c)
    PROVE  IInv'
  <1>1. PICK q \in Call : q = call[c] /\ CallOK(q, issued, blacklist, out) /\ q.pc = "done"
    BY DEF IInv, ServerInv, ServerTypeOK, Deliver
  <1>2. UNCHANGED <<account, blacklist, now, issued, out, owners, state, stored, flow>>
    BY DEF Deliver
  <1>3. ServerInv'
    <2>1. CASE Awaited(c)
      <3>1. PICK k \in Call : /\ k = GoneOn(q, "free") /\ Same(k, q) /\ k.pc = "free"
                              /\ k.code = q.code /\ k.as = q.as /\ k.access = q.access /\ k.set = q.set
        BY Values, Moved DEF Fields
      <3>2. call' = [call EXCEPT ![c] = [call[c] EXCEPT !.pc = "free"]]
        BY <2>1 DEF Deliver
      <3>3. Becomes(c, k)
        BY <1>1, <3>1, <3>2 DEF GoneOn, Becomes
      <3>4. CallOK(k, issued, blacklist, out)
        BY <1>1, <3>1 DEF CallOK, Same, Credential
      <3> QED
        BY <1>2, <3>3, <3>4, OnlyCall DEF IInv
    <2>2. CASE ~Awaited(c)
      <3>1. PICK k \in Call : k = NoCall /\ CallOK(k, issued, blacklist, out)
        BY NoCallOK
      <3>2. Becomes(c, k)
        BY <2>2, <3>1 DEF Deliver, Becomes
      <3> QED
        BY <1>2, <3>1, <3>2, OnlyCall DEF IInv
    <2> QED
      BY <2>1, <2>2
  <1>4. HeldOK' /\ ForceOK'
    <2>1. CASE held' = None /\ force' = [force EXCEPT ![c] = "clear1"]
      BY <1>2, <2>1, AppChanges DEF ForceOK, IInv, AppInv
    <2>2. CASE held' = held /\ force' = force
      BY <1>2, <2>2, AppChanges DEF IInv
    <2> QED
      BY <2>1, <2>2 DEF Deliver, Released
  <1>5. JarOK'
    <2>1. jar' \in {jar, None, q.set}
      BY <1>1 DEF Deliver
    <2>2. q.set \in Maybe(Token) /\ KnownIn(q.set, issued)
      BY <1>1, CallFields DEF CallOK
    <2> QED
      BY <1>2, <2>1, <2>2, NothingOK DEF JarOK, IInv, AppInv
  <1>6. lost' \subseteq Calls
    BY AppTyped DEF IInv, Deliver
  <1> QED
    BY <1>2, <1>3, <1>4, <1>5, <1>6, AppChanges DEF IInv, AppInv

LEMMA FetchStep ==
    ASSUME IInv, NEW c \in Calls, NEW op \in Ops, Fetch(c, op)
    PROVE  IInv'
  <1>1. ServerInv' /\ issued' = issued
    <2>1. held \in Maybe(Token) /\ KnownIn(held, issued)
      BY AppTyped DEF IInv
    <2>2. op \in {"me", "browse", "delete"}
      BY ClientAssumption
    <2> QED
      BY <2>1, <2>2, NothingOK, SendStep DEF Fetch
  <1>2. UNCHANGED <<state, held, stored, jar, flow, force, lost>>
    BY DEF Fetch
  <1> QED
    BY <1>1, <1>2, AppChanges DEF IInv, AppInv

LEMMA ReplayStep ==
    ASSUME IInv, NEW c \in Calls, Replay(c)
    PROVE  IInv'
  <1>1. /\ UNCHANGED <<account, blacklist, now, issued, out, owners>>
        /\ UNCHANGED <<state, held, stored, jar, flow, force>>
        /\ lost' = lost \cup {c}
    BY DEF Replay
  <1>2. PICK i, j \in issued : \/ Accept(c, "me", i[1], None, None, Person)
                               \/ Accept(c, "refresh", None, j[1], None, Person)
                               \/ Accept(c, "logout", i[1], j[1], None, Person)
    BY DEF Replay
  <1>3. /\ i[1] \in Maybe(Token) /\ j[1] \in Maybe(Token)
        /\ KnownIn(i[1], issued) /\ KnownIn(j[1], issued)
    <2>1. ASSUME NEW h \in issued PROVE h[1] \in Maybe(Token) /\ KnownIn(h[1], issued)
      <3>1. h \in Token \X Accounts
        BY DEF IInv, ServerInv, ServerTypeOK
      <3>2. h[1] \in Token /\ h[2] \in Accounts /\ h = <<h[1], h[2]>>
        BY <3>1
      <3> QED
        BY <3>2 DEF Maybe, KnownIn
    <2> QED
      BY <2>1
  <1>4. {"me", "refresh", "logout"} \subseteq CallOps
    BY DEF CallOps
  <1>5. ServerInv'
    BY <1>1, <1>2, <1>3, <1>4, NothingOK, AcceptStep DEF IInv
  <1>6. lost' \subseteq Calls
    BY <1>1, AppTyped DEF IInv
  <1> QED
    BY <1>1, <1>5, <1>6, AppChanges DEF IInv, AppInv

LEMMA RestartStep ==
    ASSUME IInv, Restart
    PROVE  IInv'
  <1>1. /\ state' = "unknown" /\ held' = None /\ flow' = Booting
        /\ force' = [c \in Calls |-> "idle"] /\ lost' \subseteq Calls
        /\ UNCHANGED <<server, stored, jar>>
    BY DEF Restart
  <1>2. ServerInv' /\ issued' = issued
    BY <1>1, ServerStays DEF IInv
  <1>3. FlowOK'
    BY <1>1, AppTyped, NothingOK, DoingOK DEF FlowOK, Booting, KnownIn, IInv
  <1>4. ForceOK'
    BY <1>1 DEF ForceOK
  <1> QED
    BY <1>1, <1>2, <1>3, <1>4, AppTyped, AppChanges DEF IInv, AppInv

LEMMA InitOK == Init => IInv
  <1> SUFFICES ASSUME Init PROVE IInv
    OBVIOUS
  <1>1. /\ call = [c \in Calls |-> NoCall] /\ now = 0 /\ blacklist = {} /\ out = {}
        /\ state = "unknown" /\ held = None /\ flow = Booting
        /\ force = [c \in Calls |-> "idle"] /\ lost = {}
        /\ account \in [Accounts -> [name : Names \cup {None}, active : BOOLEAN]]
        /\ owners = [n \in Names |-> {a \in Accounts : account[a].name = n}]
    BY DEF Init, InitServer
  <1>2. now \in 0..MaxTime
    BY <1>1, TimesAssumption
  <1>3. /\ issued \subseteq Token \X Accounts /\ IssuedToACalled
        /\ StoredOK /\ JarOK
    <2>1. CASE issued = {} /\ stored = Empty /\ jar = None
      BY <2>1, NothingOK DEF IssuedToACalled, StoredOK, JarOK, Empty
    <2>2. CASE HasRow(Person) /\ ~(issued = {} /\ stored = Empty /\ jar = None)
      <3>1. PICK n \in Names : n = account[Person].name
        BY <1>1, <2>2, ClientAssumption DEF HasRow
      <3>2. PICK t \in Token : t = NewAccess(n) /\ t.sub = n
        BY <1>2, NewTokens
      <3>3. PICK s \in Token : s = NewRefresh(n) /\ s.sub = n
        BY <1>2, NewTokens
      <3>4. /\ issued = {t, s} \X {Person} /\ stored = [token |-> t, name |-> n]
            /\ jar \in {s, None}
        BY <2>2, <3>1, <3>2, <3>3 DEF Init
      <3>5. Person \in owners[n] /\ Person \in Accounts
        BY <1>1, <3>1, ClientAssumption
      <3>6. issued \subseteq Token \X Accounts /\ IssuedToACalled
        BY <3>2, <3>3, <3>4, <3>5 DEF IssuedToACalled
      <3>7. <<t, Person>> \in issued /\ <<s, Person>> \in issued
        BY <3>4
      <3> QED
        BY <3>4, <3>5, <3>6, <3>7 DEF StoredOK, JarOK, KnownIn, Maybe
    <2> QED
      BY <2>1, <2>2 DEF Init
  <1>4. ServerTypeOK
    BY <1>1, <1>2, <1>3, NoCallOK DEF ServerTypeOK
  <1>5. EndedAreListed /\ OwnersRemembered
    BY <1>1 DEF EndedAreListed, OwnersRemembered, HasRow
  <1>6. \A c \in Calls : CallOK(call[c], issued, blacklist, out)
    BY <1>1, NoCallOK
  <1>7. HeldOK /\ FlowOK /\ ForceOK /\ state \in States /\ lost \subseteq Calls
    BY <1>1, NothingOK, DoingOK DEF HeldOK, FlowOK, ForceOK, Booting, KnownIn, States, Steps
  <1> QED
    BY <1>3, <1>4, <1>5, <1>6, <1>7 DEF IInv, ServerInv, AppInv

LEMMA NextOK == IInv /\ [Next]_vars => IInv'
  <1> SUFFICES ASSUME IInv, [Next]_vars PROVE IInv'
    OBVIOUS
  <1>1. CASE UNCHANGED vars
    <2>1. UNCHANGED server /\ UNCHANGED client
      BY <1>1 DEF vars
    <2> QED
      BY <2>1, ServerStays, AppStays DEF IInv
  <1>2. CASE Server /\ UNCHANGED client
    <2>1. CASE Tick
      <3>1. issued \subseteq issued'
        BY <2>1 DEF Tick
      <3> QED
        BY <1>2, <2>1, <3>1, TickStep, AppStays DEF IInv
    <2>2. CASE \E c \in Calls : Serve(c) \/ Cut(c)
      BY <1>2, <2>2, ServeStep, AppStays DEF IInv
    <2> QED
      BY <1>2, <2>1, <2>2 DEF Server
  <1>3. CASE \E c \in Calls : Deliver(c) \/ ForceLogout(c)
    BY <1>3, DeliverStep, ForceLogoutStep
  <1>4. CASE \E f \in Flows : Continue(f)
    BY <1>4, BootstrapStep, BootstrapMeStep, LoginAnswerStep, LoginWriteTokenStep, LoginWriteNameStep,
       LoginMeStep, LogoutAnswerStep, ClearTokenStep, ClearNameStep DEF Continue
  <1>5. CASE User
    BY <1>5, LoginStartStep, LogoutStartStep, ReplayStep, FetchStep DEF User
  <1>6. CASE Renaming
    <2>1. PICK a \in Accounts, n \in Names : Rename(a, n)
      BY <1>6 DEF Renaming
    <2>2. ServerInv' /\ issued' = issued
      BY <2>1, RenameStep DEF Rename, IInv
    <2>3. UNCHANGED <<state, held, stored, jar, flow, force, lost>>
      BY <1>6 DEF Renaming
    <2> QED
      BY <2>2, <2>3, AppChanges DEF IInv, AppInv
  <1>7. CASE Restart
    BY <1>7, RestartStep
  <1> QED
    BY <1>1, <1>2, <1>3, <1>4, <1>5, <1>6, <1>7 DEF Next

-----------------------------------------------------------------------------
(* Theorems.                                                               *)

\* The invariant holds in every state of the session.
LEMMA AlwaysIInv == Spec => []IInv
  <1>1. Init => IInv
    BY InitOK
  <1>2. IInv /\ [Next]_vars => IInv'
    BY NextOK
  <1> QED
    BY <1>1, <1>2, PTL DEF Spec

\* The variables of the app and of the server keep their types.
THEOREM TypeCorrect == Spec => []TypeOK
  BY AlwaysIInv, InvImplies, PTL

\* A call that sends a token after a logout with it was answered 200 is
\* admitted as nobody and gets no token, however many accounts, requests,
\* other clients and restarts there are.
THEOREM LoggedOutForGood == Spec => []LogoutIsFinal
  BY AlwaysIInv, InvImplies, PTL

\* A call is admitted as the account its token was issued to, unless another
\* account has been called what the token says.
THEOREM NobodyElseSpeaks == Spec => []TokenSpeaksForItsOwner
  BY AlwaysIInv, InvImplies, PTL

=============================================================================
