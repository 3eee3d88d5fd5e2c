----------------------------- MODULE RequestGate ----------------------------
(***************************************************************************)
(* What every request passes before and besides its use case: the pool of  *)
(* database connections, the dependencies that find the caller, and the    *)
(* rate limiter (src/api/src/app/shared_dependencies.py,                   *)
(* adapters/db/session.py, adapters/rate_limit, features/tasks,            *)
(* features/health, bootstrap/factory.py).                                 *)
(*                                                                         *)
(* The pool lends PoolSize connections and lets a request wait 30 s for    *)
(* one.  The session of a request's dependencies takes a connection at its *)
(* first statement and keeps it until the request ends or commits, while   *)
(* the blacklist and the adapters of the use case open sessions of their   *)
(* own, so that most requests wait for a second connection with one in     *)
(* their hands.  A request goes through the stages                         *)
(*                                                                         *)
(*   private  token -> user -> work              (get_current_user)        *)
(*   public   token -> user -> work              (get_optional_user)       *)
(*   task     token -> user -> rule -> count -> (expire) -> send           *)
(*   patch    token -> user -> write             (PATCH of a rate limit)   *)
(*   ready    probe                              (GET /ready)              *)
(*                                                                         *)
(* of which token and work use a session of their own, user, rule, write   *)
(* and probe that of the dependencies, the others Redis.  The optional     *)
(* user of "public" and "task" is nobody if anything fails on the way: with *)
(* the pool exhausted a signed-in caller is served, and limited, as the    *)
(* anonymous one.                                                          *)
(*                                                                         *)
(* Abstractions: tokens are valid (AuthTokens has the others); one         *)
(* limited path, of POST /tasks/task, the only one the code limits; a rule *)
(* is what the two SELECTs for a user's tier and its rate limit find.      *)
(***************************************************************************)
EXTENDS Integers, FiniteSets

CONSTANTS Users, Host,     \* signed-in callers; the address of the anonymous ones
          Requests,        \* requests in progress
          PoolSize,        \* pool_size + max_overflow
          Rules,           \* rate limits: records of a limit and a period
          DefaultRule,     \* DEFAULT_RATE_LIMIT_LIMIT and _PERIOD
          MaxTime, MaxStarts, \* bounds: the clock, the requests started
          None

ASSUME PoolAssumption == PoolSize \in Nat \ {0} /\ MaxTime \in Nat /\ MaxStarts \in Nat
ASSUME RequestsAreFinite == IsFiniteSet(Requests)
\* The schema of a rate limit admits any integers.
ASSUME RuleAssumption == Rules \subseteq [limit : Int, period : Int] /\ DefaultRule \in Rules
ASSUME NoneIsNothing == None \notin Nat \cup Rules

VARIABLES up,      \* the server is up
          idle,    \* connections in the pool
          req,     \* the requests
          rule,    \* what the tables hold for each user's tier, None for nothing
          keys,    \* Redis: counter and time of expiry of each key
          now, starts,
          served,  \* history: how many were let in within the window, by key
          used,    \* history: the rules each key has been counted with
          orphans  \* history: keys whose request was cut off before EXPIRE

vars == <<up, idle, req, rule, keys, now, starts, served, used, orphans>>

Callers == Users \cup {Host}
Ops     == {"private", "public", "task", "patch", "ready"}
Own     == {"token", "work"}
Shared  == {"user", "rule", "write", "probe"}
Redis   == {"count", "expire", "send"}

\* Python's remainder, which has the sign of the divisor, and with it the start
\* of a window: with a negative period that is the time of the call or later.
Mod(a, b) == IF b > 0 THEN a % b ELSE -((-a) % (-b))
WindowAt(t, period) == t - Mod(t, period)
Starts == {0} \cup {WindowAt(t, p.period) : t \in 0..MaxTime, p \in {q \in Rules : q.period # 0}}
Key    == Callers \X Starts

Counter == [n : Nat, ttl : Nat \cup {None}]
Request == [pc : {"free"} \cup Own \cup Shared \cup Redis, op : Ops,
            caller : Callers, as : Callers,       \* who sends it, whom it is taken for
            shared : BOOLEAN, own : BOOLEAN,      \* the connections it holds
            rule : Rules \cup {None}, window : Starts, n : Nat,
            code : {0, 200, 201, 429, 500, 503}]

NoRequest == [pc |-> "free", op |-> "ready", caller |-> Host, as |-> Host, shared |-> FALSE,
              own |-> FALSE, rule |-> None, window |-> 0, n |-> 0, code |-> 0]
NoKey     == [n |-> 0, ttl |-> None]

\* A first start: the tables have been created, the pools opened.
Init ==
    /\ up = TRUE /\ idle = PoolSize
    /\ req = [r \in Requests |-> NoRequest]
    /\ rule = [u \in Users |-> None]
    /\ keys = [k \in Key |-> NoKey]
    /\ now = 0 /\ starts = 0
    /\ served = [k \in Key |-> 0]
    /\ used = [k \in Key |-> {}] /\ orphans = {}

-----------------------------------------------------------------------------
(* The pool.                                                               *)

Lent(q) == (IF q.shared THEN 1 ELSE 0) + (IF q.own THEN 1 ELSE 0)
NeedsConnection(q) == (q.pc \in Own /\ ~q.own) \/ (q.pc \in Shared /\ ~q.shared)
Here(r, stage) == req[r].pc = stage /\ ~NeedsConnection(req[r])

\* Step to q, giving back the connections that q no longer holds.
Step(r, q) == /\ req' = [req EXCEPT ![r] = q]
              /\ idle' = idle + Lent(req[r]) - Lent(q)

\* The response; the sessions are closed.
Answer(q, code) == [NoRequest EXCEPT !.op = q.op, !.code = code]
Done(r, code)   == Step(r, Answer(req[r], code))
\* (Defect: a failing request closes only the session that failed.)
Failed_OwnOnly(r, code) == req' = [req EXCEPT ![r] = Answer(@, code)] /\ idle' = idle
Failed(r, code) == Done(r, code)

Counters == UNCHANGED <<keys, served, used, orphans>>
World    == UNCHANGED <<up, rule, now, starts>>

\* (Defect: no limit to the overflow.)
CanLend_Always == TRUE
CanLend == idle > 0
Connect(r) ==
    /\ NeedsConnection(req[r]) /\ CanLend
    /\ Step(r, [req[r] EXCEPT !.own = req[r].pc \in Own, !.shared = @ \/ req[r].pc \in Shared])
    /\ World /\ Counters

\* The window the request is counted in, of the clock before the call of Redis;
\* a period of 0, of a rule or of the configuration, is a division by zero.
Window(p) == WindowAt(now, p.period)
Counted(q, p) ==
    IF p.period = 0 THEN Answer(q, 500)
    ELSE [q EXCEPT !.pc = "count", !.own = FALSE, !.rule = p, !.window = Window(p)]

\* get_optional_user turns any error into nobody.
AsNobody(q) == IF q.op = "task" THEN Counted([q EXCEPT !.as = Host], DefaultRule)
               ELSE [q EXCEPT !.pc = "work", !.own = FALSE]

\* A health check that raises, for want of a connection or otherwise, failed.
Report(r, database, redis) == Done(r, IF database /\ redis THEN 200 ELSE 503)

\* 30 seconds in vain.  (Defect: no limit to the wait.)
TimeOut_Never(r) == FALSE /\ UNCHANGED vars
TimeOut(r) ==
    LET q == req[r] IN
    /\ NeedsConnection(q) /\ ~CanLend
    /\ CASE q.op \in {"public", "task"} /\ q.pc \in {"token", "user"} -> Step(r, AsNobody(q))
         [] q.op = "ready" -> \E redis \in BOOLEAN : Report(r, FALSE, redis)
         [] OTHER -> Failed(r, 500)
    /\ World /\ Counters

-----------------------------------------------------------------------------
(* The stages.                                                             *)

\* A public request or a task need not carry a token.
Arrive(r) ==
    /\ up /\ req[r].pc = "free" /\ starts < MaxStarts
    /\ \E op \in Ops, c \in Callers :
          /\ c = Host => op \in {"public", "task", "ready"}
          /\ LET q == [NoRequest EXCEPT !.op = op, !.caller = c, !.pc = "token"] IN
             Step(r, CASE op = "ready" -> [q EXCEPT !.pc = "probe"]
                       [] op # "ready" /\ c = Host -> AsNobody(q)
                       [] OTHER -> q)
    /\ starts' = starts + 1
    /\ UNCHANGED <<up, rule, now>> /\ Counters

CheckToken(r) ==
    /\ Here(r, "token")
    /\ Step(r, [req[r] EXCEPT !.pc = "user", !.own = FALSE])
    /\ World /\ Counters

FindUser(r) ==
    /\ Here(r, "user")
    /\ Step(r, [req[r] EXCEPT !.as = req[r].caller,
                              !.pc = CASE req[r].op = "task" -> "rule"
                                       [] req[r].op = "patch" -> "write"
                                       [] OTHER -> "work"])
    /\ World /\ Counters

Work(r)  == Here(r, "work") /\ Done(r, 200) /\ World /\ Counters
Probe(r) == /\ Here(r, "probe") /\ World /\ Counters
            /\ \E database, redis \in BOOLEAN : Report(r, database, redis)

\* rate_limiter_dependency.
ReadRule(r) ==
    LET found == rule[req[r].as]
        p == IF found = None THEN DefaultRule ELSE found
    IN
    /\ Here(r, "rule")
    /\ Step(r, Counted(req[r], p))
    /\ World /\ Counters

WriteRule(r) ==
    /\ Here(r, "write") /\ Done(r, 200)
    /\ \E u \in Users, p \in Rules : rule' = [rule EXCEPT ![u] = p]
    /\ UNCHANGED <<up, now, starts>> /\ Counters

KeyOf(q) == <<q.as, q.window>>

\* Let the request in, or answer 429.  (Defect: the last of the limit is refused.)
Decide_AtLimit(r, n) ==
    LET q == req[r] IN
    IF n >= q.rule.limit
    THEN Done(r, 429) /\ UNCHANGED served
    ELSE /\ Step(r, [q EXCEPT !.pc = "send"])
         /\ served' = IF now < q.window + q.rule.period
                      THEN [served EXCEPT ![KeyOf(q)] = @ + 1] ELSE served
Decide(r, n) ==
    LET q == req[r] IN
    IF n > q.rule.limit
    THEN Done(r, 429) /\ UNCHANGED served
    ELSE /\ Step(r, [q EXCEPT !.pc = "send"])
         /\ served' = IF now < q.window + q.rule.period
                      THEN [served EXCEPT ![KeyOf(q)] = @ + 1] ELSE served

\* INCR; the first of a key goes on to EXPIRE before it is let in.
\* (Defect: off by one.)
IsFirst_Zero(n) == n = 0
IsFirst(n) == n = 1
Incr(r) ==
    LET q == req[r]
        k == KeyOf(q)
        n == keys[k].n + 1
    IN
    /\ q.pc = "count"
    /\ keys' = [keys EXCEPT ![k].n = n]
    /\ used' = [used EXCEPT ![k] = @ \cup {q.rule}]
    /\ IF IsFirst(n) THEN Step(r, [q EXCEPT !.pc = "expire", !.n = 1]) /\ UNCHANGED served
       ELSE Decide(r, n)
    /\ World /\ UNCHANGED orphans

\* EXPIRE runs from now, not from the start of the window, and with a negative
\* period drops the key at once.  (Defect: a second short.)
ExpireAt_Short(q) == now + q.rule.period - 1
ExpireAt(q) == now + q.rule.period
Expire(r) ==
    LET q == req[r] IN
    /\ q.pc = "expire"
    /\ keys' = CASE keys[KeyOf(q)].n = 0 -> keys
                 [] keys[KeyOf(q)].n # 0 /\ q.rule.period < 0 -> [keys EXCEPT ![KeyOf(q)] = NoKey]
                 [] OTHER -> [keys EXCEPT ![KeyOf(q)].ttl = ExpireAt(q)]
    /\ Decide(r, q.n)
    /\ World /\ UNCHANGED <<used, orphans>>

\* create_task: the job goes into the queue.
Send(r) == req[r].pc = "send" /\ Done(r, 201) /\ World /\ Counters

\* A call of Redis raises, or the job is refused.
Cutting(R) == {KeyOf(req[r]) : r \in {s \in R : req[s].pc = "expire"}}
RedisFails(r) ==
    /\ req[r].pc \in Redis
    /\ Done(r, 500)
    /\ orphans' = orphans \cup Cutting({r})
    /\ World /\ UNCHANGED <<keys, served, used>>

-----------------------------------------------------------------------------
\* Redis drops the keys whose time has come.
Tick ==
    /\ now < MaxTime /\ now' = now + 1
    /\ keys' = [k \in Key |-> IF keys[k].ttl = now' THEN NoKey ELSE keys[k]]
    /\ UNCHANGED <<up, idle, req, rule, starts, served, used, orphans>>

\* The server is killed; PostgreSQL and Redis stay.
Kill ==
    /\ up /\ up' = FALSE
    /\ req' = [r \in Requests |-> NoRequest] /\ idle' = PoolSize
    /\ orphans' = orphans \cup Cutting(Requests)
    /\ UNCHANGED <<rule, keys, now, starts, served, used>>

\* lifespan: pools, queue, tables, then requests are taken.
Boot == ~up /\ up' = TRUE /\ UNCHANGED <<idle, req, rule, keys, now, starts, served, used, orphans>>

Go(r) == \/ Connect(r) \/ TimeOut(r) \/ CheckToken(r) \/ FindUser(r) \/ Work(r) \/ Probe(r)
         \/ ReadRule(r) \/ WriteRule(r) \/ Incr(r) \/ Expire(r) \/ Send(r)

Next == (\E r \in Requests : Arrive(r) \/ Go(r) \/ RedisFails(r)) \/ Tick \/ Kill \/ Boot

\* The event loop resumes a request whose statement has been answered, and one
\* that waits for a connection when it gets one or its 30 s are over.
Fairness == \A r \in Requests : WF_vars(Go(r))
Spec == Init /\ [][Next]_vars /\ Fairness

-----------------------------------------------------------------------------
(* Properties                                                              *)

\* Type invariant.
TypeOK ==
    /\ up \in BOOLEAN /\ idle \in Nat
    /\ req \in [Requests -> Request]
    /\ rule \in [Users -> Rules \cup {None}]
    /\ keys \in [Key -> Counter]
    /\ now \in 0..MaxTime /\ starts \in 0..MaxStarts
    /\ served \in [Key -> Nat] /\ used \in [Key -> SUBSET Rules] /\ orphans \subseteq Key

\* No connection is lost or given back twice, however a request ends: the
\* pool and the requests always hold PoolSize of them together, though a
\* request that times out on its second connection must return the first, and
\* one that goes on as nobody keeps what it has.
NoLeak == idle + Cardinality({r \in Requests : req[r].shared})
               + Cardinality({r \in Requests : req[r].own}) = PoolSize

\* Within a window no more than the limit are let in under one key, the largest
\* limit if it is changed, however requests, restarts and changes overlap: as
\* long as the key is counted with one period (another period can give the key
\* of a window that is still going on a name that has already been counted and
\* expired), and not counting requests let in after their window, whose INCR
\* can start an expired key again.  A key is an account or the address of a
\* host: a signed-in caller whom get_optional_user takes for nobody is counted
\* under the host's, beside the account's own.  A window of a negative period
\* is over before it begins; the limiter lets everybody in then.
AdmittedPerWindow ==
    \A k \in Key : (\A p, q \in used[k] : p.period = q.period) =>
        (served[k] = 0 \/ \E p \in used[k] : served[k] <= p.limit)

\* Nobody is refused below the limit, the smallest if it is changed: at an
\* answer 429 that many requests have been let in, or will be once the first
\* one's EXPIRE is answered, although refused requests are counted too and a
\* counter lives on after its window.  Excepted are keys whose first request
\* was cut off, which lost a place, and windows that are over by one of the
\* periods they were counted with, as those of a negative period always are.
Refused(r) == req[r].pc # "free" /\ req'[r].code = 429
Expiring(k) == {r \in Requests : req[r].pc = "expire" /\ KeyOf(req[r]) = k}
RefusedAtTheLimit ==
    [][\A r \in Requests : Refused(r) =>
          LET k == KeyOf(req[r]) IN
          \/ k \in orphans
          \/ \E p \in used'[k] : now >= k[2] + p.period
          \/ \E p \in used'[k] :
                p.limit <= served[k] + (IF Expiring(k) \ {r} # {} THEN 1 ELSE 0)]_vars

\* A counter goes away: one without time to live belongs to a request that is
\* about to set it, or was cut off in between.
EveryCounterExpires ==
    \A k \in Key : (keys[k].n > 0 /\ keys[k].ttl = None) =>
        \/ k \in orphans
        \/ \E r \in Requests : req[r].pc = "expire" /\ KeyOf(req[r]) = k

\* Every request is answered, even when each holds a connection and waits for
\* another: nothing but the limit to the wait gets them out of that.
EveryRequestEnds == \A r \in Requests : req[r].pc # "free" ~> req[r].pc = "free"
=============================================================================
