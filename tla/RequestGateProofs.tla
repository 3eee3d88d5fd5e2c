-------------------------- MODULE RequestGateProofs --------------------------
(***************************************************************************)
(* Theorems about RequestGate, for any sets of users and rules, any number *)
(* of requests and connections.                                            *)
(*                                                                         *)
(* No connection is lost because a step changes what one request holds and *)
(* the pool by the same amount (Balance).  The limit holds since a counter *)
(* outlives its window, as long as the key is counted with one period: the *)
(* requests let in are then no more than the counter, and one that is yet  *)
(* to set the expiry is the only one and still has its place (KeyOK).      *)
(* Nobody is refused below it because the counter gets ahead of the        *)
(* requests let in only once these have filled a limit (CauseOK).          *)
(***************************************************************************)
EXTENDS RequestGate, FiniteSetTheorems, TLAPS

\* A window has begun, or is over as one of a negative period.
InTime(p, w) == \/ p.period > 0 /\ w <= now
                \/ p.period < 0 /\ w + p.period <= now

\* What a request's fields hold at each stage.
ReqOK(q) == /\ q.pc \in {"token", "user"} => q.caller \in Users
            /\ q.pc = "rule" => q.as \in Users
            /\ q.pc \in Redis => q.rule \in Rules /\ InTime(q.rule, q.window)
            /\ q.pc = "expire" => q.n = 1 /\ q.rule \in used[KeyOf(q)]

OnePeriod(k) == \A p, q \in used[k] : p.period = q.period

\* m requests are let in, and no more than a rule counted with allows.
Allowed(k, m) == m = 0 \/ \E p \in used[k] : m <= p.limit

\* As long as a window of k may run, until end, its counter does not fall
\* behind the requests let in; the one that sets its expiry has a place.
InWindow(k, end) ==
    /\ keys[k].ttl # None => end <= keys[k].ttl
    /\ now < end => /\ served[k] <= keys[k].n
                    /\ \A r \in Expiring(k) : /\ served[k] + 1 <= keys[k].n
                                              /\ served[k] = 0 \/ Allowed(k, served[k] + 1)
                                              /\ Expiring(k) = {r}

KeyOK(k) ==
    /\ used[k] = {} => keys[k] = NoKey /\ served[k] = 0
    /\ keys[k].n = 0 => keys[k].ttl = None
    /\ keys[k].n > 0 /\ keys[k].ttl = None => k \in orphans \/ Expiring(k) # {}
    /\ OnePeriod(k) => /\ Allowed(k, served[k])
                       /\ \A p \in used[k] : p.period > 0 => InWindow(k, k[2] + p.period)

\* The inductive invariant.
IInv == /\ TypeOK /\ NoLeak
        /\ \A r \in Requests : ReqOK(req[r])
        /\ \A k \in Key : KeyOK(k)

\* An answer has a code, a request on its way has none.
Frank(q) == q.pc # "free" => q.code = 0

\* Let in, or about to be.
Placed(k) == served[k] + (IF Expiring(k) # {} THEN 1 ELSE 0)

\* While every window that k was counted with goes on, the counter is ahead of
\* the requests let in only if these have filled a limit.
CauseOK(k) ==
    (k \notin orphans /\ \A p \in used[k] : now < k[2] + p.period) =>
        keys[k].n <= Placed(k) \/ \E p \in used[k] : p.limit <= Placed(k)

\* The invariant for the answers 429.
CauseInv == /\ \A r \in Requests : Frank(req[r])
            /\ \A k \in Key : CauseOK(k)

LEMMA InvImplies == IInv => TypeOK /\ NoLeak /\ AdmittedPerWindow /\ EveryCounterExpires
  BY DEF IInv, KeyOK, Allowed, OnePeriod, Expiring, TypeOK, Counter, AdmittedPerWindow,
         EveryCounterExpires

-----------------------------------------------------------------------------
(* Helpers.                                                                *)

\* Two sets that differ at most in e differ in size by what e counts.
LEMMA OneMoreOrLess ==
    ASSUME NEW S, NEW T, NEW e, IsFiniteSet(S), IsFiniteSet(T), S \ {e} = T \ {e}
    PROVE  Cardinality(S) + (IF e \in T THEN 1 ELSE 0) = Cardinality(T) + (IF e \in S THEN 1 ELSE 0)
  <1>1. Cardinality(S) \in Nat /\ Cardinality(T) \in Nat
    BY FS_CardinalityType
  <1>2. CASE e \in S /\ e \notin T
    <2>1. T = S \ {e}
      BY <1>2
    <2> QED
      BY <1>1, <1>2, <2>1, FS_RemoveElement
  <1>3. CASE e \notin S /\ e \in T
    <2>1. S = T \ {e}
      BY <1>3
    <2> QED
      BY <1>1, <1>3, <2>1, FS_RemoveElement
  <1>4. CASE (e \in S) <=> (e \in T)
    <2>1. S = T
      BY <1>4
    <2> QED
      BY <1>1, <2>1
  <1> QED
    BY <1>2, <1>3, <1>4

\* Windows start at times; that of a rule with a period has begun or is over.
LEMMA WindowInTime ==
    ASSUME now \in 0..MaxTime, NEW p \in Rules, p.period # 0
    PROVE  Window(p) \in Starts /\ InTime(p, Window(p))
  <1>1. p.period \in Int /\ now \in Int
    BY RuleAssumption, PoolAssumption
  <1>2. Window(p) \in Starts
    BY DEF Window, Starts
  <1>3. CASE p.period > 0
    <2>1. now % p.period \in 0..(p.period - 1)
      BY <1>1, <1>3
    <2> QED
      BY <1>1, <1>2, <1>3, <2>1 DEF Window, WindowAt, Mod, InTime
  <1>4. CASE p.period < 0
    <2>1. (-now) % (-p.period) \in 0..(-p.period - 1)
      BY <1>1, <1>4
    <2> QED
      BY <1>1, <1>2, <1>4, <2>1 DEF Window, WindowAt, Mod, InTime
  <1> QED
    BY <1>1, <1>3, <1>4

LEMMA StartsAreTimes == Starts \subseteq Int
  <1>1. ASSUME NEW t \in 0..MaxTime, NEW p \in Rules, p.period # 0
        PROVE  WindowAt(t, p.period) \in Int
    <2>1. p.period \in Int /\ t \in Int
      BY RuleAssumption, PoolAssumption
    <2>2. CASE p.period > 0
      BY <2>1, <2>2 DEF WindowAt, Mod
    <2>3. CASE p.period < 0
      BY <1>1, <2>1, <2>3 DEF WindowAt, Mod
    <2> QED
      BY <1>1, <2>1, <2>2, <2>3
  <1> QED
    BY <1>1 DEF Starts

LEMMA RuleNumbers == \A p \in Rules : p.limit \in Int /\ p.period \in Int
  BY RuleAssumption

\* The numbers that belong to a key.
LEMMA KeyNumbers ==
    ASSUME used \in [Key -> SUBSET Rules], NEW k \in Key
    PROVE  k[2] \in Int /\ \A p \in used[k] : p.limit \in Int /\ p.period \in Int
  <1>1. k[2] \in Int
    BY StartsAreTimes DEF Key
  <1> QED
    BY <1>1, RuleNumbers

LEMMA NoRequestOK == NoRequest \in Request
  BY DEF NoRequest, Request, Callers, Ops, Starts

\* Nothing is lent to a request that is not there.
LEMMA AnswerOK ==
    ASSUME NEW q \in Request, NEW code \in {0, 200, 201, 429, 500, 503}
    PROVE  /\ Answer(q, code) \in Request
           /\ Answer(q, code).pc = "free"
           /\ Lent(Answer(q, code)) = 0
           /\ ReqOK(Answer(q, code))
  <1> DEFINE a == Answer(q, code)
             b == [NoRequest EXCEPT !.op = q.op]
  <1>1. q.op \in Ops
    BY DEF Request
  <1>2. NoRequest \in Request
    BY NoRequestOK
  <1>3. b \in Request
    BY <1>1, <1>2 DEF Request
  <1>4. a = [b EXCEPT !.code = code]
    BY DEF Answer
  <1>5. a \in Request
    <2> HIDE DEF a, b
    <2> QED
      BY <1>3, <1>4 DEF Request
  <1>6. a.pc = "free" /\ ~a.shared /\ ~a.own
    BY <1>2 DEF Answer, NoRequest, Request
  <1> QED
    BY <1>5, <1>6 DEF Lent, ReqOK, Redis

\* A request remains one when a field changes.
LEMMA Fields ==
    ASSUME NEW q \in Request
    PROVE  /\ \A x \in {"free"} \cup Own \cup Shared \cup Redis : [q EXCEPT !.pc = x] \in Request
           /\ \A x \in BOOLEAN : [q EXCEPT !.own = x] \in Request /\ [q EXCEPT !.shared = x] \in Request
           /\ \A x \in Callers : [q EXCEPT !.as = x] \in Request /\ [q EXCEPT !.caller = x] \in Request
           /\ \A x \in Ops : [q EXCEPT !.op = x] \in Request
           /\ \A x \in Rules : [q EXCEPT !.rule = x] \in Request
           /\ \A x \in Starts : [q EXCEPT !.window = x] \in Request
           /\ \A x \in Nat : [q EXCEPT !.n = x] \in Request
  BY DEF Request

\* What the pool has and what the requests hold change together.
LEMMA Balance ==
    ASSUME TypeOK, NoLeak, NEW r \in Requests, NEW q \in Request, Step(r, q)
    PROVE  NoLeak'
  <1> DEFINE S == {s \in Requests : req[s].shared}
             O == {s \in Requests : req[s].own}
  <1>1. req' = [req EXCEPT ![r] = q] /\ idle' = idle + Lent(req[r]) - Lent(q)
    BY DEF Step
  <1>2. req \in [Requests -> Request] /\ idle \in Nat
    BY DEF TypeOK
  <1>3. IsFiniteSet(S) /\ IsFiniteSet(S') /\ IsFiniteSet(O) /\ IsFiniteSet(O')
    BY RequestsAreFinite, FS_Subset
  <1>4. S \ {r} = S' \ {r} /\ O \ {r} = O' \ {r}
    BY <1>1, <1>2
  <1>5. /\ Cardinality(S) + (IF r \in S' THEN 1 ELSE 0) = Cardinality(S') + (IF r \in S THEN 1 ELSE 0)
        /\ Cardinality(O) + (IF r \in O' THEN 1 ELSE 0) = Cardinality(O') + (IF r \in O THEN 1 ELSE 0)
    BY <1>3, <1>4, OneMoreOrLess
  <1>6. /\ (r \in S) <=> req[r].shared
        /\ (r \in O) <=> req[r].own
        /\ (r \in S') <=> q.shared
        /\ (r \in O') <=> q.own
    BY <1>1, <1>2
  <1>7. /\ Cardinality(S) \in Nat /\ Cardinality(S') \in Nat
        /\ Cardinality(O) \in Nat /\ Cardinality(O') \in Nat
    BY <1>3, FS_CardinalityType
  <1> HIDE DEF S, O
  <1>8. idle + Cardinality(S) + Cardinality(O) = PoolSize
    BY DEF NoLeak, S, O
  <1>9. idle' + Cardinality(S') + Cardinality(O') = PoolSize
    BY <1>1, <1>2, <1>5, <1>6, <1>7, <1>8 DEF Lent
  <1> QED
    BY <1>9 DEF NoLeak, S, O

\* What is known of a key is kept if nothing but requests that were to set its
\* expiry is gone, which makes it an orphan.
LEMMA KeyKept ==
    ASSUME NEW k \in Key, KeyOK(k), now' = now,
           used'[k] = used[k], keys'[k] = keys[k], served'[k] = served[k],
           Expiring(k)' \subseteq Expiring(k), orphans \subseteq orphans',
           Expiring(k)' = Expiring(k) \/ k \in orphans'
    PROVE  KeyOK(k)'
  <1> DEFINE E == Expiring(k)
             F == Expiring(k)'
  <1>1. KeyOK(k)' <=>
          /\ used[k] = {} => keys[k] = NoKey /\ served[k] = 0
          /\ keys[k].n = 0 => keys[k].ttl = None
          /\ keys[k].n > 0 /\ keys[k].ttl = None => k \in orphans' \/ F # {}
          /\ OnePeriod(k) => /\ Allowed(k, served[k])
                             /\ \A p \in used[k] : p.period > 0 => InWindow(k, k[2] + p.period)'
    BY DEF KeyOK, OnePeriod, Allowed
  <1>2. ASSUME NEW p \in used[k], InWindow(k, k[2] + p.period) PROVE InWindow(k, k[2] + p.period)'
    <2>1. \A r \in F : E = {r} => F = {r}
      OBVIOUS
    <2> HIDE DEF E, F
    <2>2. Expiring(k) = E /\ Expiring(k)' = F
      BY DEF E, F
    <2> QED
      BY <1>2, <2>1, <2>2 DEF InWindow, Allowed
  <1> QED
    BY <1>1, <1>2 DEF KeyOK

\* A step of one request that is not about to set an expiry: the counters and
\* the clock stay.
Calm == /\ up' \in BOOLEAN /\ starts' \in 0..MaxStarts
        /\ rule' \in [Users -> Rules \cup {None}]
        /\ now' = now /\ Counters

LEMMA Quiet ==
    ASSUME IInv, NEW r \in Requests, NEW q \in Request, Step(r, q), Calm, ReqOK(q),
           req[r].pc # "expire", q.pc # "expire",
           Lent(q) <= Lent(req[r]) + (IF idle > 0 THEN 1 ELSE 0)
    PROVE  IInv'
  <1>1. /\ req' = [req EXCEPT ![r] = q] /\ idle' = idle + Lent(req[r]) - Lent(q)
        /\ req \in [Requests -> Request] /\ idle \in Nat
    BY DEF Step, IInv, TypeOK
  <1>2. idle' \in Nat
    BY <1>1 DEF Lent
  <1>3. TypeOK'
    BY <1>1, <1>2 DEF IInv, TypeOK, Calm, Counters
  <1>4. NoLeak'
    BY Balance DEF IInv
  <1>5. ASSUME NEW s \in Requests PROVE ReqOK(req[s])'
    BY <1>1 DEF IInv, ReqOK, InTime, Calm, Counters, KeyOf
  <1>6. ASSUME NEW k \in Key PROVE KeyOK(k)'
    <2>1. Expiring(k)' = Expiring(k)
      BY <1>1 DEF Expiring, KeyOf
    <2> QED
      BY <2>1, KeyKept DEF IInv, Calm, Counters
  <1> QED
    BY <1>3, <1>4, <1>5, <1>6 DEF IInv

\* A request that is not about to set an expiry is answered.
LEMMA Answered ==
    ASSUME IInv, NEW r \in Requests, NEW code \in {0, 200, 201, 429, 500, 503},
           Done(r, code), Calm, req[r].pc # "expire"
    PROVE  IInv'
  <1>1. req[r] \in Request /\ idle \in Nat
    BY DEF IInv, TypeOK
  <1>2. Step(r, Answer(req[r], code))
    BY DEF Done
  <1> QED
    BY <1>1, <1>2, AnswerOK, Quiet DEF Lent

-----------------------------------------------------------------------------
(* The stages.                                                             *)

\* A request that goes on with q: its fields are in order, no connection comes
\* from nowhere, and it is not about to set an expiry.
Fine(q, lent) == q \in Request /\ ReqOK(q) /\ q.pc # "expire" /\ Lent(q) <= lent

LEMMA CountedFine ==
    ASSUME now \in 0..MaxTime, NEW q \in Request, NEW p \in Rules
    PROVE  Fine(Counted(q, p), Lent(q))
  <1>1. p.period \in Int
    BY RuleAssumption
  <1>2. CASE p.period = 0
    BY <1>2, AnswerOK DEF Counted, Fine, Lent
  <1>3. CASE p.period # 0
    <2> DEFINE w == Window(p)
    <2>1. w \in Starts /\ InTime(p, w)
      BY <1>1, <1>3, WindowInTime
    <2> HIDE DEF w
    <2> DEFINE c == [q EXCEPT !.pc = "count", !.own = FALSE, !.rule = p, !.window = w]
             c1 == [q EXCEPT !.pc = "count"]
             c2 == [c1 EXCEPT !.own = FALSE]
             c3 == [c2 EXCEPT !.rule = p]
    <2>2. c \in Request
      <3>1. c1 \in Request
        BY Fields DEF Redis
      <3>2. c2 \in Request
        BY <3>1, Fields
      <3>3. c3 \in Request
        BY <3>2, Fields
      <3>4. [c3 EXCEPT !.window = w] \in Request
        BY <2>1, <3>3, Fields
      <3> QED
        BY <3>4
    <2>3. c.pc = "count" /\ c.rule = p /\ c.window = w /\ c.shared = q.shared /\ ~c.own
      BY DEF Request
    <2>4. ReqOK(c) /\ Lent(c) <= Lent(q)
      BY <1>1, <1>3, <2>1, <2>3 DEF ReqOK, Lent
    <2>5. Counted(q, p) = c
      BY <1>3 DEF Counted, w
    <2> HIDE DEF c
    <2> QED
      BY <2>2, <2>3, <2>4, <2>5 DEF Fine
  <1> QED
    BY <1>2, <1>3

LEMMA AsNobodyFine ==
    ASSUME now \in 0..MaxTime, NEW q \in Request
    PROVE  Fine(AsNobody(q), Lent(q))
  <1>1. CASE q.op = "task"
    <2> DEFINE h == [q EXCEPT !.as = Host]
    <2>1. h \in Request /\ Lent(h) = Lent(q)
      BY DEF Request, Callers, Lent
    <2>2. AsNobody(q) = Counted(h, DefaultRule)
      BY <1>1 DEF AsNobody
    <2> HIDE DEF h
    <2> QED
      BY <2>1, <2>2, CountedFine, RuleAssumption
  <1>2. CASE q.op # "task"
    <2> DEFINE w == [q EXCEPT !.pc = "work", !.own = FALSE]
             v == [q EXCEPT !.pc = "work"]
    <2>1. w \in Request /\ w.pc = "work" /\ w.shared = q.shared /\ ~w.own
      <3>1. v \in Request
        BY Fields DEF Own
      <3>2. [v EXCEPT !.own = FALSE] \in Request
        BY <3>1, Fields
      <3>3. w.pc = "work" /\ w.shared = q.shared /\ ~w.own
        BY DEF Request
      <3> QED
        BY <3>2, <3>3
    <2>2. AsNobody(q) = w
      BY <1>2 DEF AsNobody
    <2> HIDE DEF w
    <2> QED
      BY <2>1, <2>2 DEF Fine, ReqOK, Redis, Lent
  <1> QED
    BY <1>1, <1>2

LEMMA GoesOn ==
    ASSUME IInv, NEW r \in Requests, NEW q, Step(r, q), Calm, req[r].pc # "expire",
           Fine(q, Lent(req[r]))
    PROVE  IInv'
  <1>1. req[r] \in Request /\ idle \in Nat /\ Lent(req[r]) \in Nat /\ Lent(q) \in Nat
    BY DEF IInv, TypeOK, Lent
  <1> QED
    BY <1>1, Quiet DEF Fine

LEMMA StaysCalm == IInv /\ World /\ Counters => Calm
  BY DEF IInv, TypeOK, World, Calm

LEMMA ConnectStep == ASSUME IInv, NEW r \in Requests, Connect(r) PROVE IInv'
  <1> DEFINE q == [req[r] EXCEPT !.own = req[r].pc \in Own, !.shared = @ \/ req[r].pc \in Shared]
  <1>1. req[r] \in Request /\ ReqOK(req[r]) /\ idle \in Nat /\ idle > 0
    BY DEF IInv, TypeOK, Connect, CanLend
  <1>2. q \in Request
    <2> DEFINE own    == req[r].pc \in Own
               shared == req[r].shared \/ req[r].pc \in Shared
               p      == [req[r] EXCEPT !.own = own]
    <2>1. own \in BOOLEAN /\ shared \in BOOLEAN
      OBVIOUS
    <2>2. p.shared = req[r].shared
      BY <1>1 DEF Request
    <2> HIDE DEF own, shared
    <2>3. p \in Request
      BY <1>1, <2>1, Fields
    <2>4. [p EXCEPT !.shared = shared] \in Request
      <3> HIDE DEF p
      <3> QED
        BY <2>1, <2>3, Fields
    <2> QED
      BY <2>2, <2>4 DEF own, shared
  <1>3. q.pc = req[r].pc /\ q.pc \in Own \cup Shared /\ ReqOK(q)
    BY <1>1 DEF Request, ReqOK, KeyOf, Connect, NeedsConnection
  <1>4. Lent(q) <= Lent(req[r]) + 1
    BY <1>1 DEF Lent, Own, Shared, Request
  <1>5. Step(r, q) /\ Calm
    BY StaysCalm DEF Connect
  <1> HIDE DEF q
  <1> QED
    BY <1>1, <1>2, <1>3, <1>4, <1>5, Quiet DEF Own, Shared

LEMMA TimeOutStep == ASSUME IInv, NEW r \in Requests, TimeOut(r) PROVE IInv'
  <1>1. req[r] \in Request /\ now \in 0..MaxTime /\ Calm
    BY StaysCalm DEF IInv, TypeOK, TimeOut
  <1>2. req[r].pc # "expire"
    BY DEF TimeOut, NeedsConnection, Own, Shared
  <1>3. CASE Step(r, AsNobody(req[r]))
    BY <1>1, <1>2, <1>3, AsNobodyFine, GoesOn
  <1>4. CASE \E redis \in BOOLEAN : Report(r, FALSE, redis)
    BY <1>1, <1>2, <1>4, Answered DEF Report
  <1>5. CASE Failed(r, 500)
    BY <1>1, <1>2, <1>5, Answered DEF Failed
  <1> QED
    BY <1>3, <1>4, <1>5 DEF TimeOut

LEMMA ArriveStep == ASSUME IInv, NEW r \in Requests, Arrive(r) PROVE IInv'
  <1>1. /\ req[r] \in Request /\ req[r].pc = "free" /\ now \in 0..MaxTime
        /\ Lent(req[r]) \in Nat /\ Calm
    BY PoolAssumption DEF IInv, TypeOK, Arrive, Calm, Lent
  <1>2. PICK op \in Ops, c \in Callers :
           /\ c = Host => op \in {"public", "task", "ready"}
           /\ LET q == [NoRequest EXCEPT !.op = op, !.caller = c, !.pc = "token"] IN
              Step(r, CASE op = "ready" -> [q EXCEPT !.pc = "probe"]
                        [] op # "ready" /\ c = Host -> AsNobody(q)
                        [] OTHER -> q)
    BY DEF Arrive
  <1> DEFINE q == [NoRequest EXCEPT !.op = op, !.caller = c, !.pc = "token"]
  <1>3. q \in Request
    <2> DEFINE q1 == [NoRequest EXCEPT !.op = op]
               q2 == [q1 EXCEPT !.caller = c]
    <2>1. q1 \in Request
      BY NoRequestOK, Fields
    <2>2. q2 \in Request
      BY <2>1, Fields
    <2>3. [q2 EXCEPT !.pc = "token"] \in Request
      BY <2>2, Fields DEF Own
    <2> QED
      BY <2>3
  <1>4. q.pc = "token" /\ q.caller = c /\ ~q.shared /\ ~q.own
    BY DEF NoRequest
  <1> HIDE DEF q
  <1>5. Lent(q) = 0
    BY <1>4 DEF Lent
  <1>6. CASE op = "ready"
    <2> DEFINE p == [q EXCEPT !.pc = "probe"]
    <2>1. p \in Request
      BY <1>3, Fields DEF Shared
    <2>2. p.pc = "probe" /\ ~p.shared /\ ~p.own
      BY <1>3, <1>4 DEF Request
    <2>3. Step(r, p)
      BY <1>2, <1>6 DEF q
    <2> HIDE DEF p
    <2>4. Fine(p, Lent(req[r]))
      BY <1>1, <2>1, <2>2 DEF Fine, ReqOK, Redis, Lent
    <2> QED
      BY <1>1, <2>3, <2>4, GoesOn
  <1>7. CASE op # "ready" /\ c = Host
    <2>1. Fine(AsNobody(q), 0)
      BY <1>1, <1>3, <1>5, AsNobodyFine
    <2>2. Step(r, AsNobody(q))
      BY <1>2, <1>7 DEF q
    <2>3. Fine(AsNobody(q), Lent(req[r]))
      BY <1>1, <2>1 DEF Fine, Lent
    <2> QED
      BY <1>1, <2>2, <2>3, GoesOn
  <1>8. CASE op # "ready" /\ c # Host
    <2>1. Step(r, q)
      BY <1>2, <1>8 DEF q
    <2>2. Fine(q, Lent(req[r]))
      BY <1>1, <1>3, <1>4, <1>5, <1>8 DEF Fine, ReqOK, Redis, Callers
    <2> QED
      BY <1>1, <2>1, <2>2, GoesOn
  <1> QED
    BY <1>6, <1>7, <1>8

LEMMA CheckTokenStep == ASSUME IInv, NEW r \in Requests, CheckToken(r) PROVE IInv'
  <1> DEFINE q1 == [req[r] EXCEPT !.pc = "user"]
             q  == [q1 EXCEPT !.own = FALSE]
  <1>1. req[r] \in Request /\ req[r].pc = "token" /\ ReqOK(req[r])
    BY DEF IInv, TypeOK, CheckToken, Here
  <1>2. q1 \in Request
    BY <1>1, Fields DEF Shared
  <1>3. q \in Request
    BY <1>2, Fields
  <1>4. q.pc = "user" /\ q.caller = req[r].caller /\ q.shared = req[r].shared /\ ~q.own
    BY <1>1 DEF Request
  <1>5. Step(r, q) /\ Calm
    BY StaysCalm DEF CheckToken
  <1> HIDE DEF q
  <1>6. Fine(q, Lent(req[r]))
    BY <1>1, <1>3, <1>4 DEF Fine, ReqOK, Redis, Lent
  <1> QED
    BY <1>1, <1>5, <1>6, GoesOn

LEMMA FindUserStep == ASSUME IInv, NEW r \in Requests, FindUser(r) PROVE IInv'
  <1> DEFINE stage == CASE req[r].op = "task" -> "rule"
                        [] req[r].op = "patch" -> "write"
                        [] OTHER -> "work"
             q1 == [req[r] EXCEPT !.as = req[r].caller]
             q  == [q1 EXCEPT !.pc = stage]
  <1>1. req[r] \in Request /\ req[r].pc = "user" /\ ReqOK(req[r])
    BY DEF IInv, TypeOK, FindUser, Here
  <1>2. stage \in {"rule", "write", "work"}
    OBVIOUS
  <1>3. Step(r, q) /\ Calm
    BY StaysCalm DEF FindUser
  <1> HIDE DEF stage
  <1>4. q1 \in Request
    BY <1>1, Fields DEF Request
  <1>5. q \in Request
    BY <1>2, <1>4, Fields DEF Shared, Own
  <1>6. q.pc = stage /\ q.as = req[r].caller /\ q.shared = req[r].shared /\ q.own = req[r].own
    BY <1>1 DEF Request
  <1> HIDE DEF q
  <1>7. Fine(q, Lent(req[r]))
    BY <1>1, <1>2, <1>5, <1>6 DEF Fine, ReqOK, Redis, Lent
  <1> QED
    BY <1>1, <1>3, <1>7, GoesOn

LEMMA ReadRuleStep == ASSUME IInv, NEW r \in Requests, ReadRule(r) PROVE IInv'
  <1> DEFINE p == IF rule[req[r].as] = None THEN DefaultRule ELSE rule[req[r].as]
  <1>1. /\ req[r] \in Request /\ req[r].pc = "rule" /\ ReqOK(req[r]) /\ now \in 0..MaxTime
        /\ rule \in [Users -> Rules \cup {None}]
    BY DEF IInv, TypeOK, ReadRule, Here
  <1>2. p \in Rules
    BY <1>1, RuleAssumption DEF ReqOK
  <1>3. Step(r, Counted(req[r], p)) /\ Calm
    BY StaysCalm DEF ReadRule
  <1> HIDE DEF p
  <1> QED
    BY <1>1, <1>2, <1>3, CountedFine, GoesOn

\* The steps that end a request without a word to Redis, and its last word.
LEMMA LastStep ==
    ASSUME IInv, NEW r \in Requests, Work(r) \/ Probe(r) \/ WriteRule(r) \/ Send(r)
    PROVE  IInv'
  <1>1. Calm
    <2>1. CASE Work(r) \/ Probe(r) \/ Send(r)
      BY <2>1, StaysCalm DEF Work, Probe, Send
    <2>2. CASE WriteRule(r)
      BY <2>2 DEF WriteRule, IInv, TypeOK, Calm
    <2> QED
      BY <2>1, <2>2
  <1>2. req[r].pc # "expire"
    BY DEF Work, Probe, WriteRule, Send, Here
  <1>3. PICK code \in {0, 200, 201, 429, 500, 503} : Done(r, code)
    BY DEF Work, Probe, WriteRule, Send, Report
  <1> QED
    BY <1>1, <1>2, <1>3, Answered

-----------------------------------------------------------------------------
(* The rate limiter.                                                       *)

\* A step of request r that concerns the counter of its key and no other.
LEMMA Counting ==
    ASSUME IInv, NEW r \in Requests, NEW q \in Request, Step(r, q),
           NEW k \in Key, k = KeyOf(req[r]), req[r].pc \in Redis,
           Lent(q) <= Lent(req[r]), World, orphans' = orphans,
           keys' \in [Key -> Counter], served' \in [Key -> Nat], used' \in [Key -> SUBSET Rules],
           \A j \in Key : j # k => keys'[j] = keys[j] /\ served'[j] = served[j] /\ used'[j] = used[j],
           used[k] \subseteq used'[k],
           q.pc \in {"free", "expire", "send"},
           q.pc # "free" => q.rule = req[r].rule /\ KeyOf(q) = k,
           q.pc = "expire" => q.n = 1 /\ q.rule \in used'[k],
           KeyOK(k)'
    PROVE  IInv'
  <1>1. /\ req' = [req EXCEPT ![r] = q] /\ idle' = idle + Lent(req[r]) - Lent(q)
        /\ req \in [Requests -> Request] /\ idle \in Nat
    BY DEF Step, IInv, TypeOK
  <1>2. TypeOK'
    <2>1. idle' \in Nat
      BY <1>1 DEF Lent
    <2> QED
      BY <1>1, <2>1 DEF IInv, TypeOK, World
  <1>3. NoLeak'
    BY Balance DEF IInv
  <1>4. ASSUME NEW s \in Requests PROVE ReqOK(req[s])'
    <2>1. CASE s = r
      <3>1. ReqOK(req[r]) /\ req'[s] = q /\ now' = now
        BY <1>1, <2>1 DEF IInv, World
      <3>2. q.pc # "free" => q.window = req[r].window
        BY DEF KeyOf
      <3> QED
        BY <3>1, <3>2 DEF ReqOK, InTime, Redis
    <2>2. CASE s # r
      <3>1. ReqOK(req[s]) /\ req'[s] = req[s] /\ now' = now
        BY <1>1, <2>2 DEF IInv, World
      <3>2. req[s] \in Request
        BY <1>1
      <3>3. KeyOf(req[s]) \in Key
        BY <3>2 DEF KeyOf, Key, Request
      <3>4. used[KeyOf(req[s])] \subseteq used'[KeyOf(req[s])]
        BY <3>3
      <3> QED
        BY <3>1, <3>4 DEF ReqOK, InTime, KeyOf
    <2> QED
      BY <2>1, <2>2
  <1>5. ASSUME NEW j \in Key PROVE KeyOK(j)'
    <2>1. CASE j = k
      BY <2>1
    <2>2. CASE j # k
      <3>1. Expiring(j)' = Expiring(j)
        BY <1>1, <2>2 DEF Expiring, KeyOf
      <3> QED
        BY <2>2, <3>1, KeyKept DEF IInv, World
    <2> QED
      BY <2>1, <2>2
  <1> QED
    BY <1>2, <1>3, <1>4, <1>5 DEF IInv

\* What the limiter does once it knows the count.
LEMMA Decided ==
    ASSUME IInv, NEW r \in Requests, req[r].pc \in Redis, NEW m \in Nat, Decide(r, m),
           NEW k, k = KeyOf(req[r])
    PROVE  \E q \in Request :
              /\ Step(r, q) /\ Lent(q) <= Lent(req[r])
              /\ q.pc \in {"free", "send"}
              /\ q.pc # "free" => q.rule = req[r].rule /\ KeyOf(q) = k
              /\ served' \in [Key -> Nat]
              /\ \A j \in Key : j # k => served'[j] = served[j]
              /\ \/ served'[k] = served[k]
                 \/ /\ m <= req[r].rule.limit /\ now < k[2] + req[r].rule.period
                    /\ served'[k] = served[k] + 1
  <1>1. req[r] \in Request /\ served \in [Key -> Nat]
    BY DEF IInv, TypeOK
  <1>2. k \in Key /\ k[2] = req[r].window
    BY <1>1 DEF KeyOf, Key, Request
  <1>3. req[r].rule.limit \in Int
    BY RuleAssumption DEF IInv, ReqOK
  <1>4. CASE m > req[r].rule.limit
    <2>1. Step(r, Answer(req[r], 429)) /\ served' = served
      BY <1>4 DEF Decide, Done
    <2> QED
      BY <1>1, <2>1, AnswerOK DEF Lent
  <1>5. CASE m <= req[r].rule.limit
    <2> DEFINE q == [req[r] EXCEPT !.pc = "send"]
    <2>1. /\ Step(r, q)
          /\ served' = IF now < req[r].window + req[r].rule.period
                       THEN [served EXCEPT ![KeyOf(req[r])] = @ + 1] ELSE served
      BY <1>3, <1>5 DEF Decide
    <2>2. q \in Request
      BY <1>1, Fields DEF Redis
    <2>3. q.pc = "send" /\ q.rule = req[r].rule /\ KeyOf(q) = k /\ Lent(q) = Lent(req[r])
      BY <1>1 DEF Request, KeyOf, Lent
    <2>4. Lent(q) <= Lent(req[r])
      BY <1>1, <2>3 DEF Lent
    <2>5. /\ served' \in [Key -> Nat]
          /\ \A j \in Key : j # k => served'[j] = served[j]
          /\ \/ served'[k] = served[k]
             \/ now < k[2] + req[r].rule.period /\ served'[k] = served[k] + 1
      BY <1>1, <1>2, <2>1
    <2> HIDE DEF q
    <2> QED
      BY <1>5, <2>1, <2>2, <2>3, <2>4, <2>5
  <1> QED
    BY <1>3, <1>4, <1>5

\* What is known of the key of request r, once it is counted with its rule.
LEMMA KeyOfRequest ==
    ASSUME IInv, NEW r \in Requests, req[r].pc \in Redis
    PROVE  /\ req[r] \in Request /\ ReqOK(req[r])
           /\ KeyOf(req[r]) \in Key /\ KeyOK(KeyOf(req[r]))
           /\ KeyOf(req[r])[2] = req[r].window /\ req[r].window \in Int
           /\ InTime(req[r].rule, req[r].window)
           /\ req[r].rule \in Rules /\ req[r].rule.period \in Int /\ req[r].rule.limit \in Int
           /\ now \in Nat
  <1>1. req[r] \in Request /\ now \in 0..MaxTime /\ ReqOK(req[r])
    BY DEF IInv, TypeOK
  <1>2. KeyOf(req[r]) \in Key /\ KeyOf(req[r])[2] = req[r].window /\ req[r].window \in Int
    BY <1>1, StartsAreTimes DEF KeyOf, Key, Request
  <1>3. KeyOK(KeyOf(req[r]))
    BY <1>2 DEF IInv
  <1> QED
    BY <1>1, <1>2, <1>3, RuleAssumption, PoolAssumption DEF ReqOK

\* A key that has only been counted with the period of p, or not at all.
LEMMA Uniform ==
    ASSUME IInv, NEW k \in Key, NEW p \in Rules, \A u \in used[k] : u.period = p.period
    PROVE  Allowed(k, served[k]) /\ (p.period > 0 => InWindow(k, k[2] + p.period))
  <1>1. KeyOK(k)
    BY DEF IInv
  <1>2. CASE used[k] = {}
    <2>1. keys[k].ttl = None /\ keys[k].n = 0 /\ served[k] = 0
      BY <1>1, <1>2 DEF KeyOK, NoKey
    <2>2. Expiring(k) = {}
      BY <1>2 DEF Expiring, IInv, ReqOK
    <2> QED
      BY <2>1, <2>2 DEF Allowed, InWindow
  <1>3. CASE used[k] # {}
    BY <1>1, <1>3 DEF KeyOK, OnePeriod
  <1> QED
    BY <1>2, <1>3

LEMMA FirstKey ==
    ASSUME IInv, NEW r \in Requests, req[r].pc = "count",
           NEW k, k = KeyOf(req[r]), NEW p, p = req[r].rule,
           NEW q \in Request, Step(r, q), q.pc = "expire", KeyOf(q) = k,
           NEW n, n = 1, keys[k].n = 0, keys' = [keys EXCEPT ![k].n = n],
           used' = [used EXCEPT ![k] = @ \cup {p}],
           now' = now, served' = served, orphans' = orphans
    PROVE  KeyOK(k)'
  <1> DEFINE end == k[2] + p.period
  <1>1. /\ k \in Key /\ p \in Rules /\ KeyOK(k)
        /\ keys \in [Key -> Counter] /\ served \in [Key -> Nat] /\ used \in [Key -> SUBSET Rules]
        /\ req \in [Requests -> Request] /\ req' = [req EXCEPT ![r] = q]
    BY KeyOfRequest DEF Redis, IInv, TypeOK, Step
  <1>2. /\ keys'[k].n = 1 /\ keys'[k].ttl = None
        /\ used'[k] = used[k] \cup {p} /\ served'[k] = served[k] /\ served[k] \in Nat
    BY <1>1 DEF KeyOK, Counter
  <1>3. Expiring(k)' = Expiring(k) \cup {r}
    BY <1>1 DEF Expiring, KeyOf
  <1>4. ASSUME OnePeriod(k)' PROVE Allowed(k, served[k])' /\ (p.period > 0 => InWindow(k, end)')
    <2>1. \A u \in used[k] : u.period = p.period
      BY <1>2, <1>4 DEF OnePeriod
    <2>2. Allowed(k, served[k]) /\ (p.period > 0 => InWindow(k, end))
      BY <1>1, <2>1, Uniform
    <2>3. Allowed(k, served[k])'
      BY <1>2, <2>2 DEF Allowed
    <2>4. ASSUME p.period > 0 PROVE InWindow(k, end)'
      <3>1. now < end => served[k] = 0 /\ Expiring(k) = {}
        BY <1>1, <1>2, <2>2, <2>4 DEF InWindow
      <3> QED
        BY <1>2, <1>3, <3>1 DEF InWindow, Allowed
    <2> QED
      BY <2>3, <2>4
  <1>5. ASSUME OnePeriod(k)', NEW u \in used'[k] PROVE u.period = p.period
    BY <1>2, <1>5 DEF OnePeriod
  <1> QED
    BY <1>2, <1>3, <1>4, <1>5 DEF KeyOK

LEMMA LaterKey ==
    ASSUME IInv, NEW r \in Requests, req[r].pc = "count",
           NEW k, k = KeyOf(req[r]), NEW p, p = req[r].rule,
           NEW q \in Request, Step(r, q), q.pc # "expire",
           NEW n \in Nat, n = keys[k].n + 1, n > 1, keys' = [keys EXCEPT ![k].n = n],
           used' = [used EXCEPT ![k] = @ \cup {p}],
           now' = now, orphans' = orphans, served' \in [Key -> Nat],
           \/ served'[k] = served[k]
           \/ /\ n <= p.limit /\ now < k[2] + p.period
              /\ served'[k] = served[k] + 1
    PROVE  KeyOK(k)'
  <1> DEFINE end == k[2] + p.period
  <1>1. /\ k \in Key /\ p \in Rules /\ p.limit \in Int /\ KeyOK(k)
        /\ p.period \in Int /\ k[2] \in Int /\ now \in Nat /\ InTime(p, k[2])
        /\ keys \in [Key -> Counter] /\ served \in [Key -> Nat] /\ used \in [Key -> SUBSET Rules]
        /\ req \in [Requests -> Request] /\ req' = [req EXCEPT ![r] = q]
    BY KeyOfRequest DEF Redis, IInv, TypeOK, Step
  <1>2. /\ keys'[k].n = n /\ keys'[k].ttl = keys[k].ttl /\ keys[k].n \in Nat
        /\ used'[k] = used[k] \cup {p} /\ served[k] \in Nat
    BY <1>1 DEF Counter
  <1>3. Expiring(k)' = Expiring(k)
    BY <1>1 DEF Expiring, KeyOf
  <1>4. ASSUME OnePeriod(k)' PROVE Allowed(k, served[k])' /\ (p.period > 0 => InWindow(k, end)')
    <2>1. \A u \in used[k] : u.period = p.period
      BY <1>2, <1>4 DEF OnePeriod
    <2>2. Allowed(k, served[k]) /\ (p.period > 0 => InWindow(k, end))
      BY <1>1, <2>1, Uniform
    <2>3. CASE served'[k] = served[k]
      <3>1. Allowed(k, served[k])'
        BY <1>2, <2>2, <2>3 DEF Allowed
      <3>2. \A m : Allowed(k, m) => Allowed(k, m)'
        BY <1>2 DEF Allowed
      <3>3. p.period > 0 => InWindow(k, end)'
        BY <1>2, <1>3, <2>2, <2>3, <3>2 DEF InWindow
      <3> QED
        BY <3>1, <3>3
    <2>4. CASE n <= p.limit /\ now < end /\ served'[k] = served[k] + 1
      <3> p.period > 0
        BY <1>1, <2>4 DEF InTime
      <3>1. served[k] <= keys[k].n /\ \A s \in Expiring(k) : served[k] + 1 <= keys[k].n /\ Expiring(k) = {s}
        BY <2>2, <2>4 DEF InWindow
      <3>2. \A m \in Nat : m <= n => Allowed(k, m)'
        BY <1>1, <1>2, <2>4 DEF Allowed
      <3>3. Allowed(k, served[k])'
        BY <1>2, <2>4, <3>1, <3>2
      <3>4. keys[k].ttl # None => end <= keys[k].ttl
        BY <2>2 DEF InWindow
      <3>5. ASSUME NEW s \in Expiring(k)
            PROVE  served'[k] + 1 <= n /\ Allowed(k, served[k] + 1)' /\ Expiring(k) = {s}
        <4>1. served[k] + 2 <= n
          BY <1>2, <3>1
        <4> QED
          BY <1>2, <2>4, <3>1, <3>2, <4>1
      <3>6. InWindow(k, end)'
        BY <1>2, <1>3, <2>4, <3>1, <3>4, <3>5 DEF InWindow
      <3> QED
        BY <3>3, <3>6
    <2> QED
      BY <2>3, <2>4
  <1>5. ASSUME OnePeriod(k)', NEW u \in used'[k] PROVE u.period = p.period
    BY <1>2, <1>5 DEF OnePeriod
  <1> QED
    BY <1>1, <1>2, <1>3, <1>4, <1>5 DEF KeyOK

LEMMA IncrStep == ASSUME IInv, NEW r \in Requests, Incr(r) PROVE IInv'
  <1>1. PICK k : k = KeyOf(req[r])
    OBVIOUS
  <1>2. PICK p : p = req[r].rule
    OBVIOUS
  <1>3. PICK n : n = keys[k].n + 1
    OBVIOUS
  <1>4. /\ req[r].pc = "count" /\ req[r] \in Request /\ Lent(req[r]) \in Nat
        /\ k \in Key /\ p \in Rules /\ p.limit \in Int /\ p.period \in Int
        /\ keys \in [Key -> Counter] /\ served \in [Key -> Nat] /\ used \in [Key -> SUBSET Rules]
    BY <1>1, <1>2, KeyOfRequest DEF Incr, Redis, IInv, TypeOK, Lent
  <1>5. /\ keys' = [keys EXCEPT ![k].n = n]
        /\ used' = [used EXCEPT ![k] = @ \cup {p}]
        /\ orphans' = orphans /\ World /\ now' = now
    BY <1>1, <1>2, <1>3 DEF Incr, World
  <1>6. keys[k].n \in Nat /\ n \in Nat /\ n >= 1
    BY <1>3, <1>4 DEF Counter
  <1>7. keys' \in [Key -> Counter] /\ used' \in [Key -> SUBSET Rules]
    <2>1. [keys[k] EXCEPT !.n = n] \in Counter
      BY <1>4, <1>6 DEF Counter
    <2> QED
      BY <1>4, <1>5, <2>1
  <1>8. /\ \A j \in Key : j # k => keys'[j] = keys[j] /\ used'[j] = used[j]
        /\ used[k] \subseteq used'[k] /\ p \in used'[k]
    BY <1>4, <1>5
  <1>9. CASE n = 1
    <2> DEFINE q1 == [req[r] EXCEPT !.pc = "expire"]
               q  == [q1 EXCEPT !.n = 1]
    <2>1. Step(r, q) /\ served' = served
      BY <1>1, <1>3, <1>9 DEF Incr, IsFirst
    <2>2. q1 \in Request
      BY <1>4, Fields DEF Redis
    <2>3. q \in Request
      BY <2>2, Fields
    <2>4. /\ q.pc = "expire" /\ q.n = 1 /\ q.rule = req[r].rule /\ KeyOf(q) = k
          /\ Lent(q) = Lent(req[r])
      BY <1>1, <1>4 DEF Request, KeyOf, Lent
    <2> HIDE DEF q
    <2>5. keys[k].n = 0
      BY <1>3, <1>6, <1>9
    <2>6. KeyOK(k)'
      BY <1>1, <1>2, <1>4, <1>5, <1>9, <2>1, <2>3, <2>4, <2>5, FirstKey
    <2> QED
      BY <1>1, <1>2, <1>4, <1>5, <1>7, <1>8, <2>1, <2>3, <2>4, <2>6, Counting DEF Redis
  <1>10. CASE n # 1
    <2>1. Decide(r, n)
      BY <1>1, <1>3, <1>10 DEF Incr, IsFirst
    <2>2. PICK q \in Request :
              /\ Step(r, q) /\ Lent(q) <= Lent(req[r])
              /\ q.pc \in {"free", "send"}
              /\ q.pc # "free" => q.rule = req[r].rule /\ KeyOf(q) = k
              /\ served' \in [Key -> Nat]
              /\ \A j \in Key : j # k => served'[j] = served[j]
              /\ \/ served'[k] = served[k]
                 \/ /\ n <= req[r].rule.limit /\ now < k[2] + req[r].rule.period
                    /\ served'[k] = served[k] + 1
      BY <1>1, <1>4, <1>6, <2>1, Decided DEF Redis
    <2>3. n > 1 /\ q.pc # "expire"
      BY <1>6, <1>10, <2>2
    <2>4. KeyOK(k)'
      BY <1>1, <1>2, <1>3, <1>4, <1>5, <1>6, <2>2, <2>3, LaterKey
    <2> QED
      BY <1>1, <1>2, <1>4, <1>5, <1>7, <1>8, <2>2, <2>4, Counting DEF Redis
  <1> QED
    BY <1>9, <1>10

LEMMA ExpireKey ==
    ASSUME IInv, NEW r \in Requests, req[r].pc = "expire",
           NEW k, k = KeyOf(req[r]), NEW p, p = req[r].rule,
           NEW q \in Request, Step(r, q), q.pc # "expire",
           keys' = CASE keys[k].n = 0 -> keys
                     [] keys[k].n # 0 /\ p.period < 0 -> [keys EXCEPT ![k] = NoKey]
                     [] OTHER -> [keys EXCEPT ![k].ttl = now + p.period],
           used' = used, now' = now, orphans' = orphans, served' \in [Key -> Nat],
           \/ served'[k] = served[k]
           \/ /\ 1 <= p.limit /\ now < k[2] + p.period
              /\ served'[k] = served[k] + 1
    PROVE  KeyOK(k)'
  <1> DEFINE end == k[2] + p.period
  <1>1. /\ k \in Key /\ p \in used[k] /\ p.limit \in Int /\ p.period \in Int /\ KeyOK(k)
        /\ now \in Nat /\ k[2] \in Int /\ InTime(p, k[2])
        /\ keys \in [Key -> Counter] /\ served \in [Key -> Nat]
        /\ req \in [Requests -> Request] /\ req' = [req EXCEPT ![r] = q]
    BY KeyOfRequest DEF Redis, IInv, TypeOK, Step, ReqOK
  <1>2. /\ keys[k].n \in Nat /\ served[k] \in Nat
        /\ keys[k].n = 0 => keys'[k] = keys[k] /\ keys'[k].ttl = None
        /\ keys[k].n # 0 /\ p.period < 0 => keys'[k] = NoKey
        /\ keys[k].n # 0 /\ p.period > 0 => /\ keys'[k].n = keys[k].n
                                           /\ keys'[k].ttl = now + p.period /\ keys'[k].ttl # None
    <2>1. p.period > 0 => now + p.period # None
      BY <1>1, NoneIsNothing
    <2> QED
      BY <1>1, <2>1 DEF Counter, KeyOK
  <1>3. Expiring(k)' = Expiring(k) \ {r} /\ r \in Expiring(k)
    BY <1>1 DEF Expiring, KeyOf
  <1>4. p.period > 0 \/ (p.period < 0 /\ end <= now)
    BY <1>1 DEF InTime
  <1>5. ASSUME OnePeriod(k), p.period > 0 PROVE Allowed(k, served[k])' /\ InWindow(k, end)'
    <2>1. Allowed(k, served[k]) /\ InWindow(k, end)
      BY <1>1, <1>5 DEF KeyOK
    <2>2. keys'[k].ttl # None => end <= keys'[k].ttl
      BY <1>1, <1>2, <1>5 DEF InTime
    <2>3. now < end => /\ served[k] + 1 <= keys[k].n /\ Expiring(k) = {r}
                       /\ served[k] = 0 \/ Allowed(k, served[k] + 1)
      BY <1>3, <2>1 DEF InWindow
    <2>4. InWindow(k, end)'
      <3>1. now < end => served'[k] <= keys'[k].n /\ Expiring(k)' = {}
        BY <1>2, <1>3, <1>5, <2>3
      <3> QED
        BY <1>2, <2>2, <3>1 DEF InWindow
    <2>5. Allowed(k, served[k])'
      <3>1. CASE served'[k] = served[k]
        BY <2>1, <3>1 DEF Allowed
      <3>2. CASE 1 <= p.limit /\ now < end /\ served'[k] = served[k] + 1
        <4>1. CASE served[k] = 0
          BY <1>1, <3>2, <4>1 DEF Allowed
        <4>2. CASE served[k] # 0
          BY <1>2, <2>3, <3>2, <4>2 DEF Allowed
        <4> QED
          BY <4>1, <4>2
      <3> QED
        BY <3>1, <3>2
    <2> QED
      BY <2>4, <2>5
  <1>6. ASSUME OnePeriod(k), p.period < 0 PROVE Allowed(k, served[k])'
    <2>1. served'[k] = served[k]
      BY <1>1, <1>4, <1>6
    <2> QED
      BY <1>1, <1>6, <2>1 DEF KeyOK, Allowed
  <1>7. OnePeriod(k)' <=> OnePeriod(k)
    BY DEF OnePeriod
  <1>8. ASSUME OnePeriod(k), NEW u \in used[k] PROVE u.period = p.period
    BY <1>1, <1>8 DEF OnePeriod
  <1>9. OnePeriod(k) => /\ Allowed(k, served[k])'
                        /\ \A u \in used[k] : u.period > 0 => InWindow(k, k[2] + u.period)'
    BY <1>1, <1>4, <1>5, <1>6, <1>8
  <1>10. /\ used[k] # {}
         /\ keys'[k].n = 0 => keys'[k].ttl = None
         /\ keys'[k].ttl # None \/ keys'[k].n = 0
    BY <1>1, <1>2, <1>4 DEF NoKey
  <1> QED
    BY <1>7, <1>9, <1>10 DEF KeyOK

LEMMA ExpireStep == ASSUME IInv, NEW r \in Requests, Expire(r) PROVE IInv'
  <1>1. PICK k : k = KeyOf(req[r])
    OBVIOUS
  <1>2. PICK p : p = req[r].rule
    OBVIOUS
  <1>3. /\ req[r].pc = "expire" /\ req[r].n = 1 /\ req[r] \in Request
        /\ k \in Key /\ p \in Rules /\ p.period \in Int /\ now \in Nat
        /\ keys \in [Key -> Counter] /\ used \in [Key -> SUBSET Rules]
    BY <1>1, <1>2, KeyOfRequest DEF Expire, Redis, IInv, TypeOK, ReqOK
  <1>4. /\ keys' = CASE keys[k].n = 0 -> keys
                     [] keys[k].n # 0 /\ p.period < 0 -> [keys EXCEPT ![k] = NoKey]
                     [] OTHER -> [keys EXCEPT ![k].ttl = now + p.period]
        /\ used' = used /\ orphans' = orphans /\ World /\ now' = now
        /\ Decide(r, 1)
    BY <1>1, <1>2, <1>3 DEF Expire, ExpireAt, World
  <1>5. keys' \in [Key -> Counter] /\ \A j \in Key : j # k => keys'[j] = keys[j]
    <2>1. NoKey \in Counter
      BY DEF NoKey, Counter
    <2>2. ASSUME ~(p.period < 0) PROVE [keys[k] EXCEPT !.ttl = now + p.period] \in Counter
      BY <1>3, <2>2 DEF Counter
    <2> QED
      BY <1>3, <1>4, <2>1, <2>2
  <1>6. PICK q \in Request :
            /\ Step(r, q) /\ Lent(q) <= Lent(req[r])
            /\ q.pc \in {"free", "send"}
            /\ q.pc # "free" => q.rule = req[r].rule /\ KeyOf(q) = k
            /\ served' \in [Key -> Nat]
            /\ \A j \in Key : j # k => served'[j] = served[j]
            /\ \/ served'[k] = served[k]
               \/ /\ 1 <= req[r].rule.limit /\ now < k[2] + req[r].rule.period
                  /\ served'[k] = served[k] + 1
    BY <1>1, <1>3, <1>4, Decided DEF Redis
  <1>7. KeyOK(k)'
    BY <1>1, <1>2, <1>3, <1>4, <1>6, ExpireKey
  <1> QED
    BY <1>1, <1>3, <1>4, <1>5, <1>6, <1>7, Counting DEF Redis

LEMMA RedisFailsStep == ASSUME IInv, NEW r \in Requests, RedisFails(r) PROVE IInv'
  <1> DEFINE q == Answer(req[r], 500)
  <1>1. /\ req \in [Requests -> Request] /\ req[r] \in Request /\ ReqOK(req[r])
        /\ idle \in Nat /\ orphans \subseteq Key /\ World
        /\ UNCHANGED <<keys, served, used>>
    BY DEF IInv, TypeOK, RedisFails
  <1>2. /\ q \in Request /\ q.pc = "free" /\ Lent(q) = 0 /\ Step(r, q)
    BY <1>1, AnswerOK DEF RedisFails, Done
  <1>3. orphans' = orphans \cup Cutting({r})
    BY DEF RedisFails
  <1> HIDE DEF q
  <1>4. req' = [req EXCEPT ![r] = q] /\ idle' \in Nat
    BY <1>1, <1>2 DEF Step, Lent
  <1>5. orphans' \subseteq Key
    BY <1>1, <1>3 DEF Cutting, KeyOf, Key, Request
  <1>6. TypeOK'
    BY <1>1, <1>2, <1>4, <1>5 DEF IInv, TypeOK, World
  <1>7. NoLeak'
    BY <1>2, Balance DEF IInv
  <1>8. ASSUME NEW s \in Requests PROVE ReqOK(req[s])'
    BY <1>1, <1>2, <1>4 DEF IInv, ReqOK, InTime, Redis, World, KeyOf
  <1>9. ASSUME NEW k \in Key PROVE KeyOK(k)'
    <2>1. /\ Expiring(k)' = Expiring(k) \ {r}
          /\ r \in Expiring(k) => k \in orphans'
      BY <1>1, <1>2, <1>3, <1>4 DEF Expiring, KeyOf, Cutting
    <2> QED
      BY <1>1, <1>3, <2>1, KeyKept DEF IInv, World
  <1> QED
    BY <1>6, <1>7, <1>8, <1>9 DEF IInv

-----------------------------------------------------------------------------
(* The clock and the server.                                               *)

LEMMA TickStep == ASSUME IInv, Tick PROVE IInv'
  <1>1. /\ now \in Nat /\ now' = now + 1 /\ now' \in 0..MaxTime
        /\ keys' = [k \in Key |-> IF keys[k].ttl = now' THEN NoKey ELSE keys[k]]
        /\ UNCHANGED <<up, idle, req, rule, starts, served, used, orphans>>
        /\ keys \in [Key -> Counter]
    BY PoolAssumption DEF IInv, TypeOK, Tick
  <1>2. NoKey \in Counter
    BY DEF NoKey, Counter
  <1>3. TypeOK' /\ NoLeak'
    BY <1>1, <1>2 DEF IInv, TypeOK, NoLeak
  <1>4. ASSUME NEW s \in Requests PROVE ReqOK(req[s])'
    <2>1. ReqOK(req[s]) /\ req[s] \in Request
      BY DEF IInv, TypeOK
    <2>2. req[s].window \in Int
      BY <2>1, StartsAreTimes DEF Request
    <2>3. req[s].pc \in Redis => req[s].rule.period \in Int
      BY <2>1, RuleAssumption DEF ReqOK
    <2>4. req[s].pc \in Redis => InTime(req[s].rule, req[s].window)'
      BY <1>1, <2>1, <2>2, <2>3 DEF ReqOK, InTime
    <2> QED
      BY <1>1, <2>1, <2>4 DEF ReqOK, KeyOf
  <1>5. ASSUME NEW k \in Key PROVE KeyOK(k)'
    <2>1. /\ KeyOK(k) /\ Expiring(k)' = Expiring(k)
          /\ \A p \in used[k] : p.period \in Int
          /\ k[2] \in Int
      BY <1>1, KeyNumbers DEF IInv, TypeOK, Expiring, KeyOf
    <2>2. CASE keys[k].ttl = now'
      <3>1. keys'[k] = NoKey /\ keys[k].ttl # None /\ keys[k].ttl = now + 1
        BY <1>1, <2>2, NoneIsNothing
      <3>2. ASSUME NEW p \in used[k], InWindow(k, k[2] + p.period) PROVE InWindow(k, k[2] + p.period)'
        <4>1. ~(now' < k[2] + p.period)
          BY <1>1, <2>1, <3>1, <3>2 DEF InWindow
        <4> QED
          BY <3>1, <4>1 DEF InWindow, NoKey
      <3> QED
        BY <1>1, <2>1, <3>1, <3>2 DEF KeyOK, OnePeriod, Allowed, NoKey
    <2>3. CASE keys[k].ttl # now'
      <3>1. keys'[k] = keys[k]
        BY <1>1, <2>3
      <3>2. ASSUME NEW p \in used[k], InWindow(k, k[2] + p.period) PROVE InWindow(k, k[2] + p.period)'
        <4>1. now' < k[2] + p.period => now < k[2] + p.period
          BY <1>1, <2>1
        <4> QED
          BY <1>1, <2>1, <3>1, <3>2, <4>1 DEF InWindow, Allowed
      <3> QED
        BY <1>1, <2>1, <3>1, <3>2 DEF KeyOK, OnePeriod, Allowed
    <2> QED
      BY <2>2, <2>3
  <1> QED
    BY <1>3, <1>4, <1>5 DEF IInv

\* With no request there is nothing but the pool.
Idle == req = [r \in Requests |-> NoRequest] /\ idle = PoolSize
Clear == /\ req \in [Requests -> Request] /\ idle \in Nat /\ NoLeak
         /\ \A r \in Requests : ReqOK(req[r])
         /\ \A k \in Key : Expiring(k) = {}

LEMMA IdleIsClear == Idle => Clear
  <1> SUFFICES ASSUME Idle PROVE Clear
    OBVIOUS
  <1>1. \A r \in Requests : req[r].pc = "free" /\ ~req[r].shared /\ ~req[r].own
    BY DEF Idle, NoRequest
  <1>2. {r \in Requests : req[r].shared} = {} /\ {r \in Requests : req[r].own} = {}
    BY <1>1
  <1>3. NoLeak
    BY <1>2, FS_EmptySet, PoolAssumption DEF Idle, NoLeak
  <1> QED
    BY <1>1, <1>3, NoRequestOK, PoolAssumption DEF Idle, Clear, ReqOK, Redis, Expiring

LEMMA KillStep == ASSUME IInv, Kill PROVE IInv'
  <1>1. /\ req' = [r \in Requests |-> NoRequest] /\ idle' = PoolSize /\ up' = FALSE
        /\ orphans' = orphans \cup Cutting(Requests)
        /\ UNCHANGED <<rule, keys, now, starts, served, used>>
    BY DEF Kill
  <1>2. Clear'
    <2>1. Idle'
      BY <1>1 DEF Idle
    <2> QED
      BY <2>1, IdleIsClear, PTL
  <1>3. req \in [Requests -> Request]
    BY DEF IInv, TypeOK
  <1>4. orphans' \subseteq Key
    BY <1>1, <1>3 DEF IInv, TypeOK, Cutting, KeyOf, Key, Request
  <1>5. TypeOK'
    BY <1>1, <1>2, <1>4 DEF IInv, TypeOK, Clear
  <1>6. ASSUME NEW k \in Key PROVE KeyOK(k)'
    <2>1. Expiring(k)' = {}
      BY <1>2 DEF Clear
    <2>2. Expiring(k)' = Expiring(k) \/ k \in orphans'
      BY <1>1, <2>1 DEF Expiring, Cutting
    <2> QED
      BY <1>1, <2>1, <2>2, KeyKept DEF IInv
  <1> QED
    BY <1>2, <1>5, <1>6 DEF IInv, Clear

LEMMA Unchanged == ASSUME IInv, up' \in BOOLEAN,
                          UNCHANGED <<idle, req, rule, keys, now, starts, served, used, orphans>>
                   PROVE  IInv'
  BY DEF IInv, TypeOK, NoLeak, ReqOK, InTime, KeyOK, OnePeriod, Allowed, InWindow, Expiring, KeyOf

LEMMA InitInv == Init => IInv
  <1> SUFFICES ASSUME Init PROVE IInv
    OBVIOUS
  <1>1. Clear
    BY IdleIsClear DEF Init, Idle
  <1>2. TypeOK
    BY <1>1, PoolAssumption DEF Init, TypeOK, NoKey, Counter, Clear
  <1>3. ASSUME NEW k \in Key PROVE KeyOK(k)
    BY DEF Init, KeyOK, NoKey, Allowed
  <1> QED
    BY <1>1, <1>2, <1>3 DEF IInv, Clear

LEMMA NextInv == IInv /\ [Next]_vars => IInv'
  <1> SUFFICES ASSUME IInv, [Next]_vars PROVE IInv'
    OBVIOUS
  <1>1. ASSUME NEW r \in Requests, Arrive(r) PROVE IInv'
    BY <1>1, ArriveStep
  <1>2. ASSUME NEW r \in Requests, Go(r) PROVE IInv'
    BY <1>2, ConnectStep, TimeOutStep, CheckTokenStep, FindUserStep, ReadRuleStep, LastStep,
       IncrStep, ExpireStep DEF Go
  <1>3. ASSUME NEW r \in Requests, RedisFails(r) PROVE IInv'
    BY <1>3, RedisFailsStep
  <1>4. CASE Tick
    BY <1>4, TickStep
  <1>5. CASE Kill
    BY <1>5, KillStep
  <1>6. CASE Boot
    BY <1>6, Unchanged DEF Boot
  <1>7. CASE UNCHANGED vars
    BY <1>7, Unchanged DEF vars, IInv, TypeOK
  <1> QED
    BY <1>1, <1>2, <1>3, <1>4, <1>5, <1>6, <1>7 DEF Next

-----------------------------------------------------------------------------
(* The answers 429.                                                        *)

\* Goes on with q without being refused and without going to EXPIRE.
Harmless(q) == q.pc # "expire" /\ Frank(q) /\ q.code # 429

\* A step of r that leaves the counters alone and does not refuse it.
Passes(r) == /\ req[r].pc # "expire" /\ Counters /\ now' = now
             /\ \E q : Step(r, q) /\ Harmless(q)

LEMMA AnswerHarmless ==
    ASSUME NEW q \in Request, NEW code \in {0, 200, 201, 500, 503}
    PROVE  Harmless(Answer(q, code)) /\ Answer(q, code).code = code
  <1>1. Answer(q, code).pc = "free" /\ Answer(q, code).code = code
    BY DEF Answer, NoRequest
  <1> QED
    BY <1>1 DEF Harmless, Frank

LEMMA CountedHarmless ==
    ASSUME NEW q \in Request, q.code = 0, NEW p
    PROVE  Harmless(Counted(q, p))
  <1>1. CASE p.period = 0
    BY <1>1, AnswerHarmless DEF Counted
  <1>2. CASE p.period # 0
    <2>1. Counted(q, p).pc = "count" /\ Counted(q, p).code = 0
      BY <1>2 DEF Counted, Request
    <2> QED
      BY <2>1 DEF Harmless, Frank
  <1> QED
    BY <1>1, <1>2

LEMMA AsNobodyHarmless ==
    ASSUME NEW q \in Request, q.code = 0
    PROVE  Harmless(AsNobody(q))
  <1>1. CASE q.op = "task"
    <2> DEFINE h == [q EXCEPT !.as = Host]
    <2>1. h \in Request /\ h.code = 0
      BY DEF Request, Callers
    <2>2. AsNobody(q) = Counted(h, DefaultRule)
      BY <1>1 DEF AsNobody
    <2> HIDE DEF h
    <2> QED
      BY <2>1, <2>2, CountedHarmless
  <1>2. CASE q.op # "task"
    <2>1. AsNobody(q).pc = "work" /\ AsNobody(q).code = 0
      BY <1>2 DEF AsNobody, Request
    <2> QED
      BY <2>1 DEF Harmless, Frank
  <1> QED
    BY <1>1, <1>2

\* Only the limiter refuses with a 429.
LEMMA OthersPass ==
    ASSUME IInv, NEW r \in Requests, Frank(req[r]),
           \/ Arrive(r) \/ Connect(r) \/ TimeOut(r) \/ CheckToken(r) \/ FindUser(r) \/ ReadRule(r)
           \/ Work(r) \/ Probe(r) \/ WriteRule(r) \/ Send(r)
    PROVE  Passes(r)
  <1>1. req[r] \in Request
    BY DEF IInv, TypeOK
  <1>2. req[r].pc # "expire" /\ Counters /\ now' = now
    BY DEF Arrive, Connect, NeedsConnection, TimeOut, CheckToken, FindUser, ReadRule, Work, Probe,
           WriteRule, Send, Here, World, Own, Shared
  <1> SUFFICES \E q : Step(r, q) /\ Harmless(q)
    BY <1>2 DEF Passes
  <1>3. CASE Arrive(r)
    <2>1. PICK op \in Ops, c \in Callers :
              LET q == [NoRequest EXCEPT !.op = op, !.caller = c, !.pc = "token"] IN
              Step(r, CASE op = "ready" -> [q EXCEPT !.pc = "probe"]
                        [] op # "ready" /\ c = Host -> AsNobody(q)
                        [] OTHER -> q)
      BY <1>3 DEF Arrive
    <2> DEFINE q == [NoRequest EXCEPT !.op = op, !.caller = c, !.pc = "token"]
               p == [q EXCEPT !.pc = "probe"]
    <2>2. q \in Request /\ q.pc = "token" /\ q.code = 0
      <3> DEFINE q1 == [NoRequest EXCEPT !.op = op]
                 q2 == [q1 EXCEPT !.caller = c]
      <3>1. q2 \in Request
        BY NoRequestOK, Fields
      <3>2. [q2 EXCEPT !.pc = "token"] \in Request
        BY <3>1, Fields DEF Own
      <3>3. q.pc = "token" /\ q.code = 0
        BY DEF NoRequest
      <3> QED
        BY <3>2, <3>3
    <2>3. p.pc = "probe" /\ p.code = 0
      BY DEF NoRequest
    <2>4. CASE op = "ready"
      <3>1. Step(r, p)
        BY <2>1, <2>4
      <3> HIDE DEF p
      <3> QED
        BY <2>3, <3>1 DEF Harmless, Frank
    <2>5. CASE op # "ready" /\ c = Host
      <3>1. Step(r, AsNobody(q))
        BY <2>1, <2>5
      <3> HIDE DEF q
      <3> QED
        BY <2>2, <3>1, AsNobodyHarmless
    <2>6. CASE op # "ready" /\ c # Host
      <3>1. Step(r, q)
        BY <2>1, <2>6
      <3> HIDE DEF q
      <3> QED
        BY <2>2, <3>1 DEF Harmless, Frank
    <2> QED
      BY <2>4, <2>5, <2>6
  <1>4. CASE Connect(r)
    <2> DEFINE q == [req[r] EXCEPT !.own = req[r].pc \in Own, !.shared = @ \/ req[r].pc \in Shared]
    <2>1. Step(r, q) /\ req[r].pc \in Own \cup Shared
      BY <1>4 DEF Connect, NeedsConnection
    <2>2. q.pc = req[r].pc /\ q.code = req[r].code
      BY <1>1 DEF Request
    <2> HIDE DEF q
    <2>3. Harmless(q)
      BY <2>1, <2>2 DEF Harmless, Frank, Own, Shared
    <2> QED
      BY <2>1, <2>3
  <1>5. CASE TimeOut(r)
    <2>1. req[r].code = 0
      BY <1>5 DEF TimeOut, NeedsConnection, Own, Shared, Frank
    <2>2. \/ Step(r, AsNobody(req[r]))
          \/ Step(r, Answer(req[r], 500)) \/ Step(r, Answer(req[r], 503))
      BY <1>5 DEF TimeOut, Report, Failed, Done
    <2> QED
      BY <1>1, <2>1, <2>2, AsNobodyHarmless, AnswerHarmless
  <1>6. CASE CheckToken(r)
    <2> DEFINE q == [req[r] EXCEPT !.pc = "user", !.own = FALSE]
    <2>1. Step(r, q) /\ req[r].code = 0
      BY <1>6 DEF CheckToken, Here, Frank
    <2>2. q.pc = "user" /\ q.code = req[r].code
      BY <1>1 DEF Request
    <2> HIDE DEF q
    <2> QED
      BY <2>1, <2>2 DEF Harmless, Frank
  <1>7. CASE FindUser(r)
    <2> DEFINE stage == CASE req[r].op = "task" -> "rule"
                          [] req[r].op = "patch" -> "write"
                          [] OTHER -> "work"
               q == [req[r] EXCEPT !.as = req[r].caller, !.pc = stage]
    <2>1. Step(r, q) /\ req[r].code = 0
      BY <1>7 DEF FindUser, Here, Frank
    <2>2. stage # "expire"
      OBVIOUS
    <2> HIDE DEF stage
    <2>3. q.pc = stage /\ q.code = req[r].code
      BY <1>1 DEF Request
    <2> HIDE DEF q
    <2> QED
      BY <2>1, <2>2, <2>3 DEF Harmless, Frank
  <1>8. CASE ReadRule(r)
    <2>1. PICK p : Step(r, Counted(req[r], p))
      BY <1>8 DEF ReadRule
    <2>2. req[r].code = 0
      BY <1>8 DEF ReadRule, Here, Frank
    <2> QED
      BY <1>1, <2>1, <2>2, CountedHarmless
  <1>9. CASE Work(r) \/ Probe(r) \/ WriteRule(r) \/ Send(r)
    <2>1. PICK code \in {0, 200, 201, 500, 503} : Step(r, Answer(req[r], code))
      BY <1>9 DEF Work, Probe, WriteRule, Send, Report, Done
    <2> QED
      BY <1>1, <2>1, AnswerHarmless
  <1> QED
    BY <1>3, <1>4, <1>5, <1>6, <1>7, <1>8, <1>9

\* A limit that the requests let in have filled stays so.
LEMMA CauseKept ==
    ASSUME NEW k \in Key, CauseOK(k), now' = now, now \in Nat,
           used'[k] = used[k], keys'[k] = keys[k], served'[k] = served[k],
           orphans \subseteq orphans', Expiring(k)' = Expiring(k) \/ k \in orphans'
    PROVE  CauseOK(k)'
  BY DEF CauseOK, Placed

\* The limiter decides with count m: it lets the request in, within its window
\* counted as such, or refuses it because m is over the limit.
LEMMA LetInOrRefused ==
    ASSUME IInv, NEW r \in Requests, Frank(req[r]), req[r].pc \in Redis, NEW m \in Nat,
           Decide(r, m), NEW k, k = KeyOf(req[r]), NEW p, p = req[r].rule
    PROVE  \E q : /\ Step(r, q) /\ q.pc # "expire" /\ Frank(q)
                  /\ \A j \in Key : j # k => served'[j] = served[j]
                  /\ \/ m > p.limit /\ served'[k] = served[k]
                     \/ /\ q.code # 429
                        /\ now < k[2] + p.period => served'[k] = served[k] + 1
                        /\ served'[k] = served[k] \/ served'[k] = served[k] + 1
  <1>1. /\ req[r] \in Request /\ served \in [Key -> Nat] /\ k \in Key
        /\ k[2] = req[r].window /\ p.limit \in Int /\ req[r].code = 0
    BY KeyOfRequest DEF IInv, TypeOK, Redis, Frank
  <1>2. CASE m > p.limit
    <2>1. Step(r, Answer(req[r], 429)) /\ served' = served
      BY <1>2 DEF Decide, Done
    <2>2. Answer(req[r], 429).pc = "free"
      BY <1>1, AnswerOK
    <2> QED
      BY <1>2, <2>1, <2>2 DEF Frank
  <1>3. CASE ~(m > p.limit)
    <2> DEFINE q == [req[r] EXCEPT !.pc = "send"]
    <2>1. /\ Step(r, q)
          /\ served' = IF now < req[r].window + p.period
                       THEN [served EXCEPT ![k] = @ + 1] ELSE served
      BY <1>3 DEF Decide
    <2>2. q.pc = "send" /\ q.code = 0
      BY <1>1 DEF Request
    <2> HIDE DEF q
    <2>3. /\ \A j \in Key : j # k => served'[j] = served[j]
          /\ now < k[2] + p.period => served'[k] = served[k] + 1
          /\ served'[k] = served[k] \/ served'[k] = served[k] + 1
      BY <1>1, <2>1
    <2> QED
      BY <2>1, <2>2, <2>3 DEF Frank
  <1> QED
    BY <1>2, <1>3

\* What a step of the limiter may do: the fields of r and of its key change,
\* and if r is refused, a limit is filled or one of the exemptions applies.
Fair(r, k) ==
    \E q : /\ Step(r, q) /\ Frank(q)
           /\ now' = now
           /\ \A j \in Key : j # k => CauseOK(j)'
           /\ CauseOK(k)'
           /\ q.code = 429 =>
                 \/ k \in orphans
                 \/ \E p \in used'[k] : now >= k[2] + p.period
                 \/ \E p \in used'[k] :
                       p.limit <= served[k] + (IF Expiring(k) \ {r} # {} THEN 1 ELSE 0)

\* A step of r moves no other request's key.
LEMMA OtherKeys ==
    ASSUME IInv, NEW r \in Requests, NEW q, Step(r, q),
           NEW k, k = KeyOf(req[r]) , q.pc = "expire" => KeyOf(q) = k,
           NEW j \in Key, j # k
    PROVE  Expiring(j)' = Expiring(j)
  <1>1. req \in [Requests -> Request] /\ req' = [req EXCEPT ![r] = q]
    BY DEF IInv, TypeOK, Step
  <1> QED
    BY <1>1 DEF Expiring

LEMMA IncrFair ==
    ASSUME IInv, CauseInv, NEW r \in Requests, Incr(r), NEW k, k = KeyOf(req[r])
    PROVE  Fair(r, k)
  <1>1. PICK p : p = req[r].rule
    OBVIOUS
  <1>2. PICK n : n = keys[k].n + 1
    OBVIOUS
  <1>3. /\ req[r].pc = "count" /\ req[r] \in Request /\ req[r].code = 0
        /\ k \in Key /\ p \in Rules /\ p.limit \in Int /\ p.period \in Int /\ now \in Nat
        /\ k[2] \in Int
        /\ keys \in [Key -> Counter] /\ served \in [Key -> Nat] /\ used \in [Key -> SUBSET Rules]
        /\ req \in [Requests -> Request] /\ Frank(req[r])
    BY <1>1, KeyOfRequest DEF Incr, Redis, IInv, TypeOK, CauseInv, Frank
  <1>4. /\ keys' = [keys EXCEPT ![k].n = n]
        /\ used' = [used EXCEPT ![k] = @ \cup {p}]
        /\ orphans' = orphans /\ now' = now
    BY <1>1, <1>2 DEF Incr, World
  <1>5. keys[k].n \in Nat /\ served[k] \in Nat /\ keys'[k].n = n /\ used'[k] = used[k] \cup {p}
    BY <1>3, <1>4 DEF Counter
  <1>6. \A j \in Key : j # k => keys'[j] = keys[j] /\ used'[j] = used[j]
    BY <1>3, <1>4
  <1>7. ASSUME NEW j \in Key, j # k, served'[j] = served[j], Expiring(j)' = Expiring(j)
        PROVE  CauseOK(j)'
    BY <1>3, <1>4, <1>6, <1>7, CauseKept DEF CauseInv
  <1>8. CASE n = 1
    <2> DEFINE q == [req[r] EXCEPT !.pc = "expire", !.n = 1]
    <2>1. Step(r, q) /\ served' = served
      BY <1>2, <1>8 DEF Incr, IsFirst
    <2>2. q.pc = "expire" /\ q.code = 0 /\ KeyOf(q) = k
      BY <1>3 DEF Request, KeyOf
    <2> HIDE DEF q
    <2>3. ASSUME NEW j \in Key, j # k PROVE CauseOK(j)'
      BY <1>7, <2>1, <2>2, <2>3, OtherKeys
    <2>4. Expiring(k)' # {}
      <3>1. req'[r] = q
        BY <1>3, <2>1 DEF Step
      <3> QED
        BY <2>2, <3>1 DEF Expiring
    <2>5. CauseOK(k)'
      <3>1. Placed(k)' = served[k] + 1
        BY <2>1, <2>4 DEF Placed
      <3> QED
        BY <1>5, <1>8, <3>1 DEF CauseOK
    <2> QED
      BY <1>4, <2>1, <2>2, <2>3, <2>5 DEF Fair, Frank
  <1>9. CASE n # 1
    <2>1. Decide(r, n)
      BY <1>2, <1>9 DEF Incr, IsFirst
    <2>2. PICK q : /\ Step(r, q) /\ q.pc # "expire" /\ Frank(q)
                   /\ \A j \in Key : j # k => served'[j] = served[j]
                   /\ \/ n > p.limit /\ served'[k] = served[k]
                      \/ /\ q.code # 429
                         /\ now < k[2] + p.period => served'[k] = served[k] + 1
                         /\ served'[k] = served[k] \/ served'[k] = served[k] + 1
      BY <1>1, <1>2, <1>3, <1>5, <2>1, LetInOrRefused DEF Redis
    <2>3. \A j \in Key : j # k => CauseOK(j)'
      BY <1>7, <2>2, OtherKeys
    <2>4. Expiring(k)' = Expiring(k) /\ Expiring(k) \ {r} = Expiring(k)
      <3>1. req' = [req EXCEPT ![r] = q]
        BY <2>2 DEF Step
      <3> QED
        BY <1>3, <2>2, <3>1 DEF Expiring
    <2> DEFINE E == IF Expiring(k) # {} THEN 1 ELSE 0
    <2>5. Placed(k) = served[k] + E /\ Placed(k)' = served'[k] + E /\ E \in Nat
      BY <2>4 DEF Placed
    <2> HIDE DEF E
    <2>6. CauseOK(k)
      BY <1>3 DEF CauseInv
    <2>7. ASSUME k \notin orphans, \A u \in used'[k] : now < k[2] + u.period
          PROVE  \/ keys[k].n <= served[k] + E
                 \/ \E u \in used'[k] : u.limit <= served[k] + E
      BY <1>5, <2>5, <2>6, <2>7 DEF CauseOK
    <2>8. ASSUME k \notin orphans, \A u \in used'[k] : now < k[2] + u.period, n > p.limit
          PROVE  \E u \in used'[k] : u.limit <= served[k] + E
      BY <1>2, <1>3, <1>5, <2>5, <2>7, <2>8
    <2>9. CauseOK(k)'
      <3> SUFFICES ASSUME k \notin orphans, \A u \in used'[k] : now < k[2] + u.period
                   PROVE  n <= served'[k] + E \/ \E u \in used'[k] : u.limit <= served'[k] + E
        BY <1>4, <1>5, <2>5 DEF CauseOK
      <3>1. CASE n > p.limit /\ served'[k] = served[k]
        BY <2>8, <3>1
      <3>2. CASE now < k[2] + p.period /\ served'[k] = served[k] + 1
        <4>1. CASE keys[k].n <= served[k] + E
          BY <1>2, <1>5, <2>5, <3>2, <4>1
        <4>2. CASE \E u \in used'[k] : u.limit <= served[k] + E
          <5>1. PICK u \in used'[k] : u.limit <= served[k] + E
            BY <4>2
          <5>2. u.limit \in Int
            BY <1>3, <1>5, RuleNumbers
          <5>3. u.limit <= served'[k] + E
            BY <1>5, <2>5, <3>2, <5>1, <5>2
          <5> QED
            BY <5>3
        <4> QED
          BY <2>7, <4>1, <4>2
      <3>3. now < k[2] + p.period
        BY <1>5
      <3> QED
        BY <2>2, <3>1, <3>2, <3>3
    <2>10. q.code = 429 => \/ k \in orphans
                           \/ \E u \in used'[k] : now >= k[2] + u.period
                           \/ \E u \in used'[k] : u.limit <= served[k] + E
      <3>1. ASSUME NEW u \in used'[k] PROVE now < k[2] + u.period \/ now >= k[2] + u.period
        <4>1. u.period \in Int
          BY <1>3, <1>5, RuleNumbers
        <4> QED
          BY <1>3, <4>1
      <3> QED
        BY <2>2, <2>8, <3>1
    <2> QED
      BY <1>4, <2>2, <2>3, <2>4, <2>9, <2>10 DEF Fair, E
  <1> QED
    BY <1>8, <1>9

LEMMA ExpireFair ==
    ASSUME IInv, CauseInv, NEW r \in Requests, Expire(r), NEW k, k = KeyOf(req[r])
    PROVE  Fair(r, k)
  <1>1. PICK p : p = req[r].rule
    OBVIOUS
  <1>2. /\ req[r].pc = "expire" /\ req[r].n = 1 /\ req[r] \in Request
        /\ k \in Key /\ p \in Rules /\ p.limit \in Int /\ p.period \in Int /\ now \in Nat
        /\ p \in used[k]
        /\ keys \in [Key -> Counter] /\ served \in [Key -> Nat] /\ used \in [Key -> SUBSET Rules]
        /\ req \in [Requests -> Request] /\ Frank(req[r])
    BY <1>1, KeyOfRequest DEF Expire, Redis, IInv, TypeOK, CauseInv, ReqOK
  <1>3. /\ keys' = CASE keys[k].n = 0 -> keys
                     [] keys[k].n # 0 /\ p.period < 0 -> [keys EXCEPT ![k] = NoKey]
                     [] OTHER -> [keys EXCEPT ![k].ttl = now + p.period]
        /\ used' = used /\ orphans' = orphans /\ now' = now
        /\ Decide(r, 1)
    BY <1>1, <1>2 DEF Expire, ExpireAt, World
  <1>4. /\ keys[k].n \in Nat /\ served[k] \in Nat
        /\ keys'[k].n = 0 \/ keys'[k].n = keys[k].n
    BY <1>2, <1>3 DEF Counter, NoKey
  <1>5. PICK q : /\ Step(r, q) /\ q.pc # "expire" /\ Frank(q)
                 /\ \A j \in Key : j # k => served'[j] = served[j]
                 /\ \/ 1 > p.limit /\ served'[k] = served[k]
                    \/ /\ q.code # 429
                       /\ now < k[2] + p.period => served'[k] = served[k] + 1
                       /\ served'[k] = served[k] \/ served'[k] = served[k] + 1
    BY <1>1, <1>2, <1>3, LetInOrRefused DEF Redis
  <1>6. ASSUME NEW j \in Key, j # k PROVE CauseOK(j)'
    <2>1. keys'[j] = keys[j]
      BY <1>2, <1>3, <1>6
    <2>2. Expiring(j)' = Expiring(j)
      BY <1>5, <1>6, OtherKeys
    <2> QED
      BY <1>2, <1>3, <1>5, <1>6, <2>1, <2>2, CauseKept DEF CauseInv
  <1>7. Placed(k) = served[k] + 1
    BY <1>2 DEF Placed, Expiring
  <1>8. Placed(k)' = served'[k] \/ Placed(k)' = served'[k] + 1
    <2>1. served'[k] + 0 = served'[k]
      BY <1>4, <1>5
    <2> QED
      BY <2>1 DEF Placed
  <1>9. CauseOK(k)'
    <2> SUFFICES ASSUME k \notin orphans, \A u \in used[k] : now < k[2] + u.period
                 PROVE  keys[k].n <= Placed(k)' \/ \E u \in used[k] : u.limit <= Placed(k)'
      <3>1. Placed(k)' \in Nat
        BY <1>4, <1>5, <1>8
      <3> QED
        BY <1>3, <1>4, <3>1 DEF CauseOK
    <2>1. CASE 1 > p.limit /\ served'[k] = served[k]
      <3>1. p.limit <= Placed(k)'
        BY <1>2, <1>4, <1>8, <2>1
      <3> QED
        BY <1>2, <3>1
    <2>2. CASE served'[k] = served[k] + 1
      <3>1. CauseOK(k)
        BY <1>2 DEF CauseInv
      <3>2. keys[k].n <= served[k] + 1 \/ \E u \in used[k] : u.limit <= served[k] + 1
        BY <1>7, <3>1 DEF CauseOK
      <3>3. ASSUME NEW m \in Int, m <= served[k] + 1 PROVE m <= Placed(k)'
        BY <1>4, <1>8, <2>2, <3>3
      <3>4. \A u \in used[k] : u.limit \in Int
        BY <1>2, RuleNumbers
      <3> QED
        BY <1>4, <3>2, <3>3, <3>4
    <2> QED
      BY <1>2, <1>5, <2>1, <2>2
  <1>10. q.code = 429 => p.limit <= served[k] + (IF Expiring(k) \ {r} # {} THEN 1 ELSE 0)
    BY <1>2, <1>4, <1>5
  <1> QED
    BY <1>2, <1>3, <1>5, <1>6, <1>9, <1>10 DEF Fair

\* The step of one request keeps the invariant and refuses nobody without cause.
LEMMA StepFair ==
    ASSUME IInv, CauseInv, NEW r \in Requests, NEW k, k = KeyOf(req[r]), Fair(r, k)
    PROVE  /\ CauseInv'
           /\ \A s \in Requests : Refused(s) => s = r
  <1>1. PICK q : /\ Step(r, q) /\ Frank(q)
                 /\ \A j \in Key : CauseOK(j)'
    BY DEF Fair
  <1>2. req' = [req EXCEPT ![r] = q] /\ req \in [Requests -> Request]
    BY <1>1 DEF Step, IInv, TypeOK
  <1>3. \A s \in Requests : Frank(req[s])'
    BY <1>1, <1>2 DEF Frank, CauseInv
  <1>4. \A s \in Requests : Refused(s) => s = r
    BY <1>2 DEF Refused, Frank, CauseInv
  <1> QED
    BY <1>1, <1>3, <1>4 DEF CauseInv

Cause(r) ==
    Refused(r) =>
        LET k == KeyOf(req[r]) IN
        \/ k \in orphans
        \/ \E p \in used'[k] : now >= k[2] + p.period
        \/ \E p \in used'[k] :
              p.limit <= served[k] + (IF Expiring(k) \ {r} # {} THEN 1 ELSE 0)

LEMMA FairCause ==
    ASSUME IInv, CauseInv, NEW r \in Requests, NEW k, k = KeyOf(req[r]), Fair(r, k)
    PROVE  CauseInv' /\ \A s \in Requests : Cause(s)
  <1>1. CauseInv' /\ \A s \in Requests : Refused(s) => s = r
    BY StepFair
  <1>2. Cause(r)
    <2>1. req \in [Requests -> Request]
      BY DEF IInv, TypeOK
    <2> QED
      BY <2>1 DEF Fair, Cause, Refused, Step
  <1> QED
    BY <1>1, <1>2 DEF Cause

LEMMA PassFair ==
    ASSUME IInv, CauseInv, NEW r \in Requests, Passes(r)
    PROVE  CauseInv' /\ \A s \in Requests : Cause(s)
  <1>1. PICK q : Step(r, q) /\ Harmless(q)
    BY DEF Passes
  <1>2. /\ req' = [req EXCEPT ![r] = q] /\ req \in [Requests -> Request]
        /\ req[r].pc # "expire" /\ now' = now /\ now \in Nat
        /\ UNCHANGED <<keys, served, used, orphans>>
    BY <1>1, PoolAssumption DEF Step, IInv, TypeOK, Passes, Counters
  <1>3. \A s \in Requests : Frank(req[s])'
    BY <1>1, <1>2 DEF Frank, CauseInv, Harmless
  <1>4. ASSUME NEW k \in Key PROVE CauseOK(k)'
    <2>1. Expiring(k)' = Expiring(k)
      BY <1>1, <1>2 DEF Expiring, Harmless
    <2> QED
      BY <1>2, <2>1, CauseKept DEF CauseInv
  <1>5. \A s \in Requests : ~Refused(s)
    BY <1>1, <1>2 DEF Refused, Harmless, Frank, CauseInv
  <1> QED
    BY <1>3, <1>4, <1>5 DEF CauseInv, Cause

LEMMA Cut == ASSUME NEW q \in Request
             PROVE  /\ Answer(q, 500) \in Request
                    /\ Answer(q, 500).pc = "free" /\ Answer(q, 500).code = 500
  <1>1. Answer(q, 500) \in Request /\ Answer(q, 500).pc = "free"
    BY AnswerOK
  <1>2. Answer(q, 500).code = 500
    BY AnswerHarmless
  <1> QED
    BY <1>1, <1>2

\* A key loses a request on its way to EXPIRE only as an orphan.
LEMMA CutCause ==
    ASSUME IInv, CauseInv, NEW R \in SUBSET Requests, now' = now,
           UNCHANGED <<keys, served, used>>, orphans' = orphans \cup Cutting(R),
           req' \in [Requests -> Request],
           \A s \in R : req'[s].pc = "free" /\ req'[s].code # 429,
           \A s \in Requests \ R : req'[s] = req[s]
    PROVE  CauseInv' /\ \A s \in Requests : Cause(s)
  <1>1. \A s \in Requests : Frank(req[s])'
    BY DEF Frank, CauseInv
  <1>2. ASSUME NEW k \in Key PROVE CauseOK(k)'
    <2>1. Expiring(k)' = Expiring(k) \/ k \in orphans'
      <3>1. CASE \E s \in R : s \in Expiring(k)
        BY <3>1 DEF Expiring, Cutting
      <3>2. CASE \A s \in R : s \notin Expiring(k)
        BY <3>2 DEF Expiring
      <3> QED
        BY <3>1, <3>2
    <2> QED
      BY <2>1, PoolAssumption, CauseKept DEF CauseInv, IInv, TypeOK
  <1>3. \A s \in Requests : ~Refused(s)
    BY DEF Refused, Frank, CauseInv
  <1> QED
    BY <1>1, <1>2, <1>3 DEF CauseInv, Cause

LEMMA TickCause == ASSUME IInv, CauseInv, Tick PROVE CauseInv' /\ \A s \in Requests : Cause(s)
  <1>1. /\ now \in Nat /\ now' = now + 1
        /\ keys' = [k \in Key |-> IF keys[k].ttl = now' THEN NoKey ELSE keys[k]]
        /\ UNCHANGED <<req, served, used, orphans>>
        /\ keys \in [Key -> Counter] /\ served \in [Key -> Nat] /\ used \in [Key -> SUBSET Rules]
    BY PoolAssumption DEF IInv, TypeOK, Tick
  <1>2. ASSUME NEW k \in Key PROVE CauseOK(k)'
    <2>1. /\ CauseOK(k) /\ Placed(k)' = Placed(k) /\ Placed(k) \in Nat
          /\ keys[k].n \in Nat /\ k[2] \in Int /\ \A p \in used[k] : p.period \in Int
      BY <1>1, KeyNumbers DEF CauseInv, Placed, Expiring, Counter, KeyOf
    <2>2. keys'[k].n = 0 \/ keys'[k].n = keys[k].n
      BY <1>1 DEF NoKey
    <2>3. ASSUME NEW p \in used[k], now' < k[2] + p.period PROVE now < k[2] + p.period
      BY <1>1, <2>1, <2>3
    <2> QED
      BY <1>1, <2>1, <2>2, <2>3 DEF CauseOK
  <1>3. \A s \in Requests : Frank(req[s])' /\ ~Refused(s)
    BY <1>1 DEF Refused, Frank, CauseInv
  <1> QED
    BY <1>2, <1>3 DEF CauseInv, Cause

LEMMA NextCause ==
    IInv /\ CauseInv /\ [Next]_vars => CauseInv' /\ \A s \in Requests : Cause(s)
  <1> SUFFICES ASSUME IInv, CauseInv, [Next]_vars
               PROVE  CauseInv' /\ \A s \in Requests : Cause(s)
    OBVIOUS
  <1>1. ASSUME NEW r \in Requests, Arrive(r) \/ Go(r)
        PROVE  CauseInv' /\ \A s \in Requests : Cause(s)
    <2>1. CASE Incr(r) \/ Expire(r)
      <3>1. PICK k : k = KeyOf(req[r])
        OBVIOUS
      <3>2. Fair(r, k)
        BY <2>1, <3>1, IncrFair, ExpireFair
      <3> QED
        BY <3>1, <3>2, FairCause
    <2>2. CASE ~(Incr(r) \/ Expire(r))
      <3>1. Frank(req[r])
        BY DEF CauseInv
      <3>2. Passes(r)
        BY <1>1, <2>2, <3>1, OthersPass DEF Go
      <3> QED
        BY <3>2, PassFair
    <2> QED
      BY <2>1, <2>2
  <1>2. ASSUME NEW r \in Requests, RedisFails(r)
        PROVE  CauseInv' /\ \A s \in Requests : Cause(s)
    <2>1. /\ req' = [req EXCEPT ![r] = Answer(req[r], 500)] /\ req \in [Requests -> Request]
          /\ orphans' = orphans \cup Cutting({r}) /\ now' = now
          /\ UNCHANGED <<keys, served, used>>
      BY <1>2 DEF RedisFails, Done, Step, IInv, TypeOK, World
    <2>2. /\ Answer(req[r], 500) \in Request
          /\ Answer(req[r], 500).pc = "free" /\ Answer(req[r], 500).code = 500
      <3>1. req[r] \in Request
        BY <2>1
      <3> QED
        BY <3>1, Cut
    <2>3. /\ req' \in [Requests -> Request]
          /\ \A s \in {r} : req'[s].pc = "free" /\ req'[s].code # 429
          /\ \A s \in Requests \ {r} : req'[s] = req[s]
      BY <2>1, <2>2
    <2> QED
      BY <2>1, <2>3, CutCause
  <1>3. CASE Tick
    BY <1>3, TickCause
  <1>4. CASE Kill
    <2>1. /\ req' = [r \in Requests |-> NoRequest] /\ now' = now
          /\ orphans' = orphans \cup Cutting(Requests)
          /\ UNCHANGED <<keys, served, used>>
      BY <1>4 DEF Kill
    <2>2. /\ req' \in [Requests -> Request]
          /\ \A s \in Requests : req'[s].pc = "free" /\ req'[s].code # 429
      BY <2>1, NoRequestOK DEF NoRequest
    <2> QED
      BY <2>1, <2>2, CutCause
  <1>5. CASE Boot \/ UNCHANGED vars
    <2>1. UNCHANGED <<req, keys, now, served, used, orphans>>
      BY <1>5 DEF Boot, vars
    <2>2. \A s \in Requests : ~Refused(s)
      BY <2>1 DEF Refused, CauseInv, Frank
    <2>3. CauseInv'
      BY <2>1 DEF CauseInv, CauseOK, Placed, Expiring, Frank
    <2> QED
      BY <2>2, <2>3 DEF Cause
  <1> QED
    BY <1>1, <1>2, <1>3, <1>4, <1>5 DEF Next

LEMMA InitCause == Init => CauseInv
  <1> SUFFICES ASSUME Init PROVE CauseInv
    OBVIOUS
  <1>1. \A r \in Requests : Frank(req[r])
    BY DEF Init, NoRequest, Frank
  <1>2. ASSUME NEW k \in Key PROVE CauseOK(k)
    BY DEF Init, NoKey, CauseOK, Placed
  <1> QED
    BY <1>1, <1>2 DEF CauseInv

-----------------------------------------------------------------------------
(* Theorems.                                                               *)

LEMMA AlwaysIInv == Spec => []IInv
  BY InitInv, NextInv, PTL DEF Spec

\* Every variable keeps its type; a request has the caller, rule and window
\* that its stage works with.
THEOREM TypeCorrect == Spec => []TypeOK
  BY AlwaysIInv, InvImplies, PTL

\* The pool and the requests hold PoolSize connections together, however
\* requests of any kind end, time out or are killed.
THEOREM NoConnectionIsLost == Spec => []NoLeak
  BY AlwaysIInv, InvImplies, PTL

\* No more than the limit are let in under one key, an account's or a host's, in
\* a window of one positive period, though the count, the expiry and the answer
\* of a request are steps of their own, the server is killed between them, and
\* rules change while requests are counted.  Limits and periods are any
\* integers; what a caller gets who is counted under two keys is not bounded.
THEOREM LimitHolds == Spec => []AdmittedPerWindow
  BY AlwaysIInv, InvImplies, PTL

\* A counter that does not expire is about to, or its request was cut off
\* between INCR and EXPIRE.
THEOREM CountersExpire == Spec => []EveryCounterExpires
  BY AlwaysIInv, InvImplies, PTL

\* Nobody is answered 429 before the limit has been reached, whoever counts in
\* between and whatever becomes of the key, but for the exemptions the property
\* names.
THEOREM RefusedForCause == Spec => RefusedAtTheLimit
  <1>1. Spec => [](IInv /\ CauseInv)
    BY InitInv, NextInv, InitCause, NextCause, PTL DEF Spec
  <1>2. IInv /\ CauseInv /\ [Next]_vars =>
            [\A r \in Requests : Refused(r) =>
                LET k == KeyOf(req[r]) IN
                \/ k \in orphans
                \/ \E p \in used'[k] : now >= k[2] + p.period
                \/ \E p \in used'[k] :
                      p.limit <= served[k] + (IF Expiring(k) \ {r} # {} THEN 1 ELSE 0)]_vars
    BY NextCause DEF Cause
  <1> QED
    BY <1>1, <1>2, PTL DEF Spec, RefusedAtTheLimit

=============================================================================
