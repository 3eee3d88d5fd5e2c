--------------------------- MODULE PostCacheProofs ---------------------------
(***************************************************************************)
(* Theorems about PostCache, for any posts, requests and times to live.    *)
(*                                                                         *)
(* For any requests, interleaved in any way and cut off anywhere: every    *)
(* entry expires, and public lists are approved.  That a read is fresh,    *)
(* unless an update under another user's path has missed the entry, holds  *)
(* for one request at a time and for endpoints that invalidate what they   *)
(* change, and is false without either: two runs refute it.                *)
(***************************************************************************)
EXTENDS PostCache, TLAPS

ReadPhases  == {"lookup", "query", "set", "expire", "reply"}
WritePhases == {"commit", "delete", "extra", "scan", "unlink"}

\* What a request's fields hold in its phases.
ReqOK(q) == /\ q.pc \in ReadPhases => q.op \in ReadOps /\ (q.op = "get" => q.post \in Posts)
                                        /\ (q.op # "list_all" => q.user \in Users)
            /\ q.pc \in WritePhases => q.op \in WriteOps /\ q.post \in Posts /\ q.user \in Users

\* A write that is to commit is the only one of its post, and within the bound.
CommitOK(r) == req[r].pc = "commit" => /\ db[req[r].post].version < MaxVersion
                                       /\ Writing(req[r].post) = {r}

\* An entry without time to live whose request was not cut off.
Unexpiring(k) == cache[k] # None /\ cache[k].ttl = NoTTL /\ ~cache[k].cut

PublicKeys     == {ListKey(u, "public") : u \in Users} \cup {<<"all_posts", "public">>}
AllApproved(v) == \A i \in v : i.status = "approved"
PublicList(q)  == q.pc \in {"set", "expire", "reply"} /\ q.op # "get" /\ ~SeesAll(q)

\* The inductive invariant.
IInv == /\ TypeOK
        /\ \A r \in Requests : ReqOK(req[r]) /\ CommitOK(r)
        /\ EveryEntryExpires
        /\ \A k \in PublicKeys : cache[k] # None => AllApproved(cache[k].value)
        /\ \A r \in Requests : PublicList(req[r]) => AllApproved(req[r].value)

LEMMA InvImplies == IInv => TypeOK /\ EveryEntryExpires /\ PublicListsAreApproved
  BY DEF IInv, PublicListsAreApproved, PublicList, AllApproved

-----------------------------------------------------------------------------
(* Keys and queries.                                                       *)

LEMMA SomeKeys ==
    /\ PublicKeys \subseteq Keys
    /\ \A u \in Users : ListKeys(u) \subseteq Keys
  <1>1. \A u \in Users : \A view \in {"author", "public"} : ListKey(u, view) \in Keys
    BY DEF Keys
  <1>2. <<"all_posts", "public">> \in Keys
    BY DEF Keys, AllKeys
  <1>3. ASSUME NEW k \in PublicKeys PROVE k \in Keys
    BY <1>1, <1>2 DEF PublicKeys
  <1>4. ASSUME NEW u \in Users, NEW k \in ListKeys(u) PROVE k \in Keys
    BY <1>1 DEF ListKeys, ListKey
  <1> QED
    BY <1>3, <1>4

\* A read has a key of its kind: a public list, and nothing else, has a
\* public one.
LEMMA KeyOfRead ==
    ASSUME NEW q \in Request, q.op \in ReadOps, q.op = "get" => q.post \in Posts,
           q.op # "list_all" => q.user \in Users
    PROVE  /\ Key(q) \in Keys
           /\ Key(q) \in PublicKeys <=> q.op # "get" /\ ~SeesAll(q)
  <1>1. CASE q.op = "get"
    <2>1. Key(q) = PostKey(q.user, q.post) /\ q.user \in Users /\ q.post \in Posts
      BY <1>1 DEF Key
    <2>2. Key(q) \in Keys
      BY <2>1 DEF Keys
    <2>3. Key(q)[1] = "post_cache"
      BY <2>1 DEF PostKey
    <2>4. \A k \in PublicKeys : k[1] # "post_cache"
      BY DEF PublicKeys, ListKey
    <2> QED
      BY <1>1, <2>2, <2>3, <2>4
  <1>2. CASE q.op = "list"
    BY <1>2 DEF Key, Keys, ListKeys, ListKey, PublicKeys, SeesAll
  <1>3. CASE q.op = "list_all"
    <2>1. Key(q) \in AllKeys
      BY <1>3 DEF Key, AllKeys
    <2>2. Key(q) = <<"all_posts", "public">> <=> ~SeesAll(q)
      BY <1>3 DEF Key, SeesAll
    <2>3. ASSUME Key(q) \in PublicKeys PROVE Key(q) = <<"all_posts", "public">>
      <3>1. Key(q)[1] = "all_posts"
        BY <1>3 DEF Key
      <3>2. \A u : ListKey(u, "public")[1] = "posts"
        BY DEF ListKey
      <3> QED
        BY <2>3, <3>1, <3>2 DEF PublicKeys
    <2> QED
      BY <1>3, <2>1, <2>2, <2>3 DEF Keys, PublicKeys
  <1> QED
    BY <1>1, <1>2, <1>3 DEF ReadOps

LEMMA QueryOK ==
    ASSUME NEW q, NEW d \in [Posts -> Row]
    PROVE  /\ Query(q, d) \in SUBSET Item
           /\ ~SeesAll(q) => AllApproved(Query(q, d))
  BY DEF Query, Item, Row, AllApproved

LEMMA TTLOK == ASSUME NEW k PROVE TTL(k) \in 1..PostTTL /\ TTL(k) # NoTTL
  BY TTLAssumption DEF TTL, NoTTL

\* A request remains one when a field changes.
LEMMA Fields ==
    ASSUME NEW q \in Request
    PROVE  /\ \A x \in Phases : [q EXCEPT !.pc = x] \in Request
           /\ \A x \in SUBSET Item : [q EXCEPT !.value = x] \in Request
           /\ \A x \in SUBSET Keys : [q EXCEPT !.found = x] \in Request
           /\ \A x \in BOOLEAN : [q EXCEPT !.missed = x] \in Request
  BY DEF Request

LEMMA IdleOK == Idle \in Request /\ Idle.pc = "idle" /\ ReqOK(Idle) /\ ~PublicList(Idle)
  BY DEF Idle, Request, Phases, ReadOps, Callers, ReqOK, ReadPhases, WritePhases, PublicList

Writes(q) == q.pc # "idle" /\ q.op \in WriteOps

\* Request r goes on as q.
Goes(r, q) ==
    /\ req' = [req EXCEPT ![r] = q] /\ q \in Request /\ ReqOK(q)
    /\ db' = db /\ held' \in [Requests -> SUBSET [Posts -> Row]]
    /\ q.pc = "commit" => db[q.post].version < MaxVersion /\ Writing(q.post) = {}
    /\ Writes(q) => \/ Writing(q.post) = {}
                    \/ Writes(req[r]) /\ req[r].post = q.post
    /\ PublicList(q) => AllApproved(q.value)

\* What it leaves in the cache.
Leaves(r, q) ==
    /\ cache' \in [Keys -> Entry \cup {None}]
    /\ \A k \in Keys : Unexpiring(k)' =>
          \/ q.pc = "expire" /\ Key(q) = k
          \/ Unexpiring(k) /\ ~(req[r].pc = "expire" /\ Key(req[r]) = k)
    /\ \A k \in PublicKeys : cache'[k] # None => AllApproved(cache'[k].value)

LEMMA OneStep ==
    ASSUME IInv, NEW r \in Requests, NEW q, Goes(r, q), Leaves(r, q)
    PROVE  IInv'
  <1>1. /\ req \in [Requests -> Request] /\ req' \in [Requests -> Request]
        /\ req'[r] = q /\ \A s \in Requests : s # r => req'[s] = req[s]
        /\ db' = db
    BY DEF IInv, TypeOK, Goes
  <1>2. TypeOK'
    BY <1>1 DEF IInv, TypeOK, Goes, Leaves
  <1>3. ASSUME NEW s \in Requests PROVE ReqOK(req[s])'
    <2>1. ReqOK(req[s]) /\ ReqOK(q)
      BY DEF IInv, Goes
    <2> QED
      BY <1>1, <2>1 DEF ReqOK
  <1>4. ASSUME NEW s \in Requests PROVE CommitOK(s)'
    <2>1. CASE s = r
      <3>1. q.pc = "commit" => Writing(q.post)' = {r}
        BY <1>1 DEF Writing, Goes, Writes, ReqOK, WritePhases
      <3> QED
        BY <1>1, <2>1, <3>1 DEF CommitOK, Goes
    <2>2. CASE s # r
      <3> SUFFICES ASSUME req[s].pc = "commit"
                   PROVE  Writing(req[s].post)' = {s} /\ db[req[s].post].version < MaxVersion
        BY <1>1, <2>2 DEF CommitOK
      <3>1. Writing(req[s].post) = {s} /\ db[req[s].post].version < MaxVersion
        BY DEF IInv, CommitOK
      <3>2. ~(Writes(q) /\ q.post = req[s].post)
        BY <2>2, <3>1 DEF Goes, Writing, Writes
      <3>3. Writing(req[s].post)' = Writing(req[s].post)
        BY <1>1, <2>2, <3>1, <3>2 DEF Writing, Writes
      <3> QED
        BY <3>1, <3>3
    <2> QED
      BY <2>1, <2>2
  <1>5. EveryEntryExpires'
    <2> SUFFICES ASSUME NEW k \in Keys, Unexpiring(k)'
                 PROVE  \E s \in Requests : req'[s].pc = "expire" /\ Key(req'[s]) = k
      BY DEF EveryEntryExpires, Unexpiring, Key
    <2>1. CASE q.pc = "expire" /\ Key(q) = k
      BY <1>1, <2>1
    <2>2. CASE Unexpiring(k) /\ ~(req[r].pc = "expire" /\ Key(req[r]) = k)
      <3>1. PICK s \in Requests : req[s].pc = "expire" /\ Key(req[s]) = k
        BY <2>2 DEF IInv, EveryEntryExpires, Unexpiring
      <3> QED
        BY <1>1, <2>2, <3>1
    <2> QED
      BY <2>1, <2>2 DEF Leaves
  <1>6. ASSUME NEW s \in Requests PROVE (PublicList(req[s]) => AllApproved(req[s].value))'
    BY <1>1 DEF IInv, Goes, PublicList, AllApproved, SeesAll
  <1> QED
    BY <1>2, <1>3, <1>4, <1>5, <1>6 DEF IInv, Leaves, AllApproved

\* A step that leaves the cache alone, of a request that is not to set a time
\* to live.
LEMMA CacheStays ==
    ASSUME IInv, NEW r \in Requests, NEW q, cache' = cache, req[r].pc # "expire"
    PROVE  Leaves(r, q)
  BY SomeKeys DEF IInv, TypeOK, Leaves, Unexpiring, AllApproved

\* The request of a step: of its phase it has the fields.
LEMMA Running ==
    ASSUME IInv, NEW r \in Requests
    PROVE  /\ req[r] \in Request /\ ReqOK(req[r]) /\ db \in [Posts -> Row]
           /\ held \in [Requests -> SUBSET [Posts -> Row]] /\ cache \in [Keys -> Entry \cup {None}]
           /\ PublicList(req[r]) => AllApproved(req[r].value)
           /\ \A k \in PublicKeys : cache[k] # None => AllApproved(cache[k].value)
  BY DEF IInv, TypeOK

\* A request that ends.
LEMMA Ends ==
    ASSUME IInv, NEW r \in Requests, Finish(r), db' = db
    PROVE  Goes(r, Idle)
  <1>1. held' \in [Requests -> SUBSET [Posts -> Row]]
    BY Running DEF Finish
  <1> QED
    BY <1>1, IdleOK DEF Finish, Goes, Writes

\* A request that goes on, not to commit.
LEMMA Continues ==
    ASSUME IInv, NEW r \in Requests, NEW q \in Request, req' = [req EXCEPT ![r] = q],
           db' = db, held' = held, ReqOK(q), q.pc # "commit", req[r].pc # "idle",
           q.op = req[r].op, q.post = req[r].post, q.user = req[r].user, PublicList(q) => AllApproved(q.value)
    PROVE  Goes(r, q)
  BY Running DEF Goes, Writes

-----------------------------------------------------------------------------
(* Requests.                                                               *)

LEMMA BeginReadStep == ASSUME IInv, NEW r \in Requests, BeginRead(r) PROVE IInv'
  <1>1. PICK op \in Ops \cap ReadOps, c \in Callers, u \in Users \cup {None}, p \in Posts \cup {None} :
           /\ req[r].pc = "idle" /\ (op = "get") = (p # None) /\ (op = "list_all") = (u = None)
           /\ req' = [req EXCEPT ![r] = [Idle EXCEPT !.pc = "lookup", !.op = op, !.caller = c,
                                                      !.user = u, !.post = p]]
           /\ held' = [held EXCEPT ![r] = {db}]
           /\ UNCHANGED <<db, cache>>
    BY DEF BeginRead
  <1> DEFINE q == [Idle EXCEPT !.pc = "lookup", !.op = op, !.caller = c, !.user = u, !.post = p]
  <1>2. /\ q.pc = "lookup" /\ q.op = op /\ q.user = u /\ q.post = p /\ q \in Request
    BY DEF Idle, Request, Phases, ReadOps
  <1> HIDE DEF q
  <1>3. ReqOK(q) /\ ~PublicList(q) /\ ~Writes(q)
    BY <1>1, <1>2, NoneAssumption
       DEF ReqOK, PublicList, Writes, ReadPhases, WritePhases, ReadOps, WriteOps
  <1>4. held' \in [Requests -> SUBSET [Posts -> Row]]
    BY <1>1, Running
  <1>5. Goes(r, q)
    BY <1>1, <1>2, <1>3, <1>4 DEF Goes, q
  <1> QED
    BY <1>1, <1>5, CacheStays, OneStep

LEMMA BeginWriteStep == ASSUME IInv, NEW r \in Requests, BeginWrite(r) PROVE IInv'
  <1>1. PICK op \in Ops \cap WriteOps, u \in Users, p \in Posts :
           /\ req[r].pc = "idle"
           /\ db[p].version < MaxVersion /\ Writing(p) = {}
           /\ req' = [req EXCEPT ![r] = [Idle EXCEPT !.pc = "commit", !.op = op, !.user = u, !.post = p]]
           /\ UNCHANGED <<db, cache, held>>
    BY DEF BeginWrite
  <1> DEFINE q == [Idle EXCEPT !.pc = "commit", !.op = op, !.user = u, !.post = p]
  <1>2. /\ q.pc = "commit" /\ q.op = op /\ q.user = u /\ q.post = p /\ q \in Request
    BY DEF Idle, Request, Phases, Callers
  <1> HIDE DEF q
  <1>3. ReqOK(q) /\ ~PublicList(q)
    BY <1>1, <1>2 DEF ReqOK, PublicList, ReadPhases, WritePhases
  <1>4. Goes(r, q)
    BY <1>1, <1>2, <1>3, Running DEF Goes, q
  <1> QED
    BY <1>1, <1>4, CacheStays, OneStep

LEMMA LookupStep == ASSUME IInv, NEW r \in Requests, Lookup(r) PROVE IInv'
  <1> DEFINE e == cache[Key(req[r])]
             q == IF e = None THEN [req[r] EXCEPT !.pc = "query"]
                  ELSE [req[r] EXCEPT !.pc = "reply", !.value = e.value, !.missed = e.missed]
  <1>1. /\ req[r] \in Request /\ req[r].pc = "lookup"
        /\ req[r].op \in ReadOps /\ (req[r].op = "get" => req[r].post \in Posts)
        /\ (req[r].op # "list_all" => req[r].user \in Users)
        /\ UNCHANGED <<db, cache, held>> /\ req' = [req EXCEPT ![r] = q]
    BY Running DEF Lookup, ReqOK, ReadPhases
  <1>2. Key(req[r]) \in Keys /\ e \in Entry \cup {None}
    BY <1>1, KeyOfRead, Running
  <1>3. CASE e = None
    <2>1. q \in Request /\ q.pc = "query" /\ q.op = req[r].op /\ q.post = req[r].post /\ q.user = req[r].user
      BY <1>1, <1>3 DEF Request, Phases
    <2> HIDE DEF q
    <2>2. Goes(r, q)
      BY <1>1, <2>1, Continues DEF ReqOK, PublicList, ReadPhases, WritePhases
    <2> QED
      BY <1>1, <2>2, CacheStays, OneStep
  <1>4. CASE e # None
    <2> DEFINE p == [req[r] EXCEPT !.pc = "reply"]
               v == [p EXCEPT !.value = e.value]
    <2>1. e.value \in SUBSET Item /\ e.missed \in BOOLEAN
      BY <1>2, <1>4 DEF Entry
    <2>2. p \in Request
      BY <1>1, Fields DEF Phases
    <2>5. v \in Request
      BY <2>1, <2>2, Fields
    <2>6. q = [v EXCEPT !.missed = e.missed]
      BY <1>4
    <2>3. q \in Request
      BY <2>1, <2>5, <2>6, Fields
    <2>4. /\ q.pc = "reply" /\ q.op = req[r].op /\ q.post = req[r].post /\ q.user = req[r].user
          /\ q.user = req[r].user /\ q.caller = req[r].caller /\ q.value = e.value
      BY <1>1, <1>4 DEF Request
    <2>7. PublicList(q) => AllApproved(q.value)
      BY <1>1, <1>4, <2>4, KeyOfRead, Running DEF PublicList, SeesAll
    <2> HIDE DEF q
    <2>8. Goes(r, q)
      BY <1>1, <2>3, <2>4, <2>7, Continues DEF ReqOK, ReadPhases, WritePhases
    <2> QED
      BY <1>1, <2>8, CacheStays, OneStep
  <1> QED
    BY <1>3, <1>4

LEMMA RunQueryStep == ASSUME IInv, NEW r \in Requests, RunQuery(r) PROVE IInv'
  <1> DEFINE found == Query(req[r], db)
             phase == IF req[r].op = "get" /\ found = {} THEN "reply" ELSE "set"
             p     == [req[r] EXCEPT !.value = found]
             q     == [p EXCEPT !.pc = phase]
  <1>1. /\ req[r] \in Request /\ req[r].pc = "query"
        /\ req[r].op \in ReadOps /\ (req[r].op = "get" => req[r].post \in Posts)
        /\ (req[r].op # "list_all" => req[r].user \in Users)
        /\ req \in [Requests -> Request] /\ db \in [Posts -> Row]
        /\ UNCHANGED <<db, cache, held>>
        /\ req' = [req EXCEPT ![r].value = found, ![r].pc = phase]
    BY Running DEF RunQuery, ReqOK, ReadPhases, IInv, TypeOK
  <1>2. phase \in {"reply", "set"} /\ found \in SUBSET Item
    BY <1>1, QueryOK
  <1>3. ~SeesAll(req[r]) => AllApproved(found)
    BY <1>1, QueryOK
  <1> HIDE DEF found, phase
  <1>4. p \in Request
    BY <1>1, <1>2, Fields
  <1>5. q \in Request
    BY <1>2, <1>4, Fields DEF Phases
  <1>6. /\ q.pc = phase /\ q.op = req[r].op /\ q.post = req[r].post /\ q.user = req[r].user
        /\ q.caller = req[r].caller /\ q.value = found
    BY <1>1 DEF Request
  <1>7. req' = [req EXCEPT ![r] = q]
    BY <1>1
  <1> HIDE DEF q
  <1>8. Goes(r, q)
    BY <1>1, <1>2, <1>3, <1>5, <1>6, <1>7, Continues
       DEF ReqOK, ReadPhases, WritePhases, PublicList, SeesAll
  <1> QED
    BY <1>1, <1>8, CacheStays, OneStep

\* A request of which only the phase changes.
LEMMA PhaseGoes ==
    ASSUME IInv, NEW r \in Requests, NEW phase \in Phases \ {"idle", "commit"}, Goto(r, phase),
           db' = db, held' = held, req[r].pc # "idle",
           phase \in ReadPhases <=> req[r].pc \in ReadPhases,
           PublicList([req[r] EXCEPT !.pc = phase]) => AllApproved(req[r].value)
    PROVE  /\ Goes(r, [req[r] EXCEPT !.pc = phase])
           /\ Key([req[r] EXCEPT !.pc = phase]) = Key(req[r])
           /\ [req[r] EXCEPT !.pc = phase].pc = phase
  <1> DEFINE q == [req[r] EXCEPT !.pc = phase]
  <1>1. req[r] \in Request /\ ReqOK(req[r])
    BY Running
  <1>2. q \in Request
    BY <1>1, Fields
  <1>3. /\ q.pc = phase /\ q.op = req[r].op /\ q.post = req[r].post /\ q.user = req[r].user
        /\ q.caller = req[r].caller /\ q.value = req[r].value
    BY <1>1 DEF Request
  <1>4. req' = [req EXCEPT ![r] = q]
    BY DEF Goto, IInv, TypeOK
  <1>5. Key(q) = Key(req[r])
    BY <1>3 DEF Key
  <1> HIDE DEF q
  <1>6. ReqOK(q)
    BY <1>1, <1>3 DEF ReqOK, ReadPhases, WritePhases, Phases, Request
  <1>7. Goes(r, q)
    BY <1>2, <1>3, <1>4, <1>6, Continues DEF q
  <1> QED
    BY <1>3, <1>5, <1>7 DEF q

LEMMA SetStep == ASSUME IInv, NEW r \in Requests, Set(r) PROVE IInv'
  <1>1. PICK k : k = Key(req[r])
    OBVIOUS
  <1>2. PICK e : e = Stored(req[r].value)
    OBVIOUS
  <1>3. /\ req[r] \in Request /\ req[r].pc = "set" /\ db' = db /\ held' = held
        /\ req[r].op \in ReadOps /\ (req[r].op = "get" => req[r].post \in Posts)
        /\ (req[r].op # "list_all" => req[r].user \in Users)
        /\ cache' = [cache EXCEPT ![k] = e] /\ Goto(r, "expire")
        /\ cache \in [Keys -> Entry \cup {None}]
    BY <1>1, <1>2, Running DEF Set, ReqOK, ReadPhases
  <1>4. k \in Keys /\ (k \in PublicKeys => PublicList(req[r]))
    BY <1>1, <1>3, KeyOfRead DEF PublicList
  <1>5. e \in Entry /\ e.value = req[r].value
    BY <1>2, <1>3, TTLAssumption DEF Stored, Entry, Request, NoTTL
  <1> DEFINE q == [req[r] EXCEPT !.pc = "expire"]
  <1>6. Goes(r, q) /\ q.pc = "expire" /\ Key(q) = k
    <2>1. PublicList(q) => AllApproved(req[r].value)
      BY <1>3, Running DEF PublicList, SeesAll, Request
    <2> QED
      BY <1>1, <1>3, <2>1, PhaseGoes DEF Phases, ReadPhases
  <1> HIDE DEF q
  <1>7. Leaves(r, q)
    <2>1. cache' \in [Keys -> Entry \cup {None}] /\ cache'[k] = e
          /\ \A j \in Keys : j # k => cache'[j] = cache[j]
      BY <1>3, <1>4, <1>5
    <2>2. ASSUME NEW j \in Keys, Unexpiring(j)'
          PROVE  (q.pc = "expire" /\ Key(q) = j) \/ (Unexpiring(j) /\ ~(req[r].pc = "expire" /\ Key(req[r]) = j))
      BY <1>3, <1>6, <2>1, <2>2 DEF Unexpiring
    <2>3. ASSUME NEW j \in PublicKeys, cache'[j] # None PROVE AllApproved(cache'[j].value)
      <3>1. j \in Keys
        BY SomeKeys
      <3> QED
        BY <1>4, <1>5, <2>1, <2>3, <3>1, Running
    <2> QED
      BY <2>1, <2>2, <2>3 DEF Leaves
  <1> QED
    BY <1>6, <1>7, OneStep

LEMMA ExpireStep == ASSUME IInv, NEW r \in Requests, Expire(r) PROVE IInv'
  <1>1. PICK k : k = Key(req[r])
    OBVIOUS
  <1>2. PICK t : t = TTL(k)
    OBVIOUS
  <1>3. /\ req[r] \in Request /\ req[r].pc = "expire" /\ db' = db /\ held' = held
        /\ req[r].op \in ReadOps /\ (req[r].op = "get" => req[r].post \in Posts)
        /\ (req[r].op # "list_all" => req[r].user \in Users)
        /\ cache' = IF cache[k] = None THEN cache ELSE [cache EXCEPT ![k].ttl = t, ![k].cut = FALSE]
        /\ Goto(r, "reply") /\ cache \in [Keys -> Entry \cup {None}]
    BY <1>1, <1>2, Running DEF Expire, ReqOK, ReadPhases
  <1>4. k \in Keys /\ (k \in PublicKeys <=> req[r].op # "get" /\ ~SeesAll(req[r]))
    BY <1>1, <1>3, KeyOfRead
  <1>5. t \in 0..PostTTL /\ t # NoTTL
    BY <1>2, TTLOK
  <1>6. /\ cache' \in [Keys -> Entry \cup {None}]
        /\ \A j \in Keys : j # k => cache'[j] = cache[j]
        /\ cache'[k] # None => cache[k] # None /\ cache'[k].value = cache[k].value /\ cache'[k].ttl = t
    <2>1. CASE cache[k] = None
      BY <1>3, <2>1
    <2>2. CASE cache[k] # None
      <3> DEFINE a == [cache[k] EXCEPT !.ttl = t]
                 b == [a EXCEPT !.cut = FALSE]
      <3>1. cache[k] \in Entry
        BY <1>3, <1>4, <2>2
      <3>2. a \in Entry
        BY <1>5, <3>1 DEF Entry
      <3>3. b \in Entry
        BY <3>2 DEF Entry
      <3>4. b.value = cache[k].value /\ b.ttl = t
        BY <3>1 DEF Entry
      <3>5. cache' = [cache EXCEPT ![k] = b]
        BY <1>3, <1>4, <2>2
      <3> HIDE DEF b
      <3> QED
        BY <1>3, <1>4, <2>2, <3>3, <3>4, <3>5
    <2> QED
      BY <2>1, <2>2
  <1> DEFINE q == [req[r] EXCEPT !.pc = "reply"]
  <1>7. Leaves(r, q)
    <2>1. ASSUME NEW j \in Keys, Unexpiring(j)'
          PROVE  Unexpiring(j) /\ ~(req[r].pc = "expire" /\ Key(req[r]) = j)
      BY <1>1, <1>4, <1>5, <1>6, <2>1 DEF Unexpiring
    <2>2. ASSUME NEW j \in PublicKeys, cache'[j] # None PROVE AllApproved(cache'[j].value)
      <3>1. j \in Keys
        BY SomeKeys
      <3> QED
        BY <1>4, <1>6, <2>2, <3>1, Running
    <2> QED
      BY <1>6, <2>1, <2>2 DEF Leaves
  <1>8. Goes(r, q)
    <2>1. PublicList(q) => AllApproved(req[r].value)
      BY <1>3, Running DEF PublicList, SeesAll, Request
    <2> QED
      BY <1>3, <2>1, PhaseGoes DEF Phases, ReadPhases
  <1> QED
    BY <1>7, <1>8, OneStep

LEMMA ReplyStep == ASSUME IInv, NEW r \in Requests, Reply(r) PROVE IInv'
  <1>1. Goes(r, Idle)
    BY Ends DEF Reply
  <1> QED
    BY <1>1, CacheStays, OneStep DEF Reply

\* A step that only removes entries.
LEMMA Removes ==
    ASSUME IInv, NEW r \in Requests, NEW q, req[r].pc # "expire",
           cache' \in [Keys -> Entry \cup {None}],
           \A k \in Keys : cache'[k] \in {cache[k], None}
    PROVE  Leaves(r, q)
  <1>1. ASSUME NEW k \in Keys, Unexpiring(k)' PROVE Unexpiring(k)
    BY <1>1 DEF Unexpiring
  <1>2. ASSUME NEW k \in PublicKeys, cache'[k] # None PROVE AllApproved(cache'[k].value)
    <2>1. k \in Keys
      BY SomeKeys
    <2> QED
      BY <1>2, <2>1, Running
  <1> QED
    BY <1>1, <1>2 DEF Leaves

\* One key removed.
LEMMA RemovesOne ==
    ASSUME IInv, NEW r \in Requests, NEW q, req[r].pc # "expire", NEW k,
           cache' = [cache EXCEPT ![k] = None]
    PROVE  Leaves(r, q)
  <1>1. cache \in [Keys -> Entry \cup {None}]
    BY Running
  <1> QED
    BY <1>1, Removes

LEMMA DeleteStep == ASSUME IInv, NEW r \in Requests, Delete(r) PROVE IInv'
  <1> DEFINE phase == IF req[r].op = "update" THEN "scan" ELSE "extra"
             q     == [req[r] EXCEPT !.pc = phase]
  <1>1. /\ req[r] \in Request /\ req[r].pc = "delete" /\ Goto(r, phase) /\ UNCHANGED <<db, held>>
        /\ cache' = [cache EXCEPT ![PostKey(req[r].user, req[r].post)] = None]
    BY Running DEF Delete
  <1>2. phase \in {"scan", "extra"}
    OBVIOUS
  <1> HIDE DEF phase
  <1>3. ~PublicList(q)
    BY <1>1, <1>2 DEF PublicList, Request
  <1>4. Goes(r, q)
    BY <1>1, <1>2, <1>3, PhaseGoes DEF Phases, ReadPhases
  <1> QED
    BY <1>1, <1>4, RemovesOne, OneStep

LEMMA DeleteExtraStep == ASSUME IInv, NEW r \in Requests, DeleteExtra(r) PROVE IInv'
  <1>1. Goes(r, Idle)
    BY Ends DEF DeleteExtra
  <1> QED
    BY <1>1, RemovesOne, OneStep DEF DeleteExtra

LEMMA ScanStep == ASSUME IInv, NEW r \in Requests, Scan(r) PROVE IInv'
  <1> DEFINE found == {k \in ScanMatch(req[r].user) : cache[k] # None}
             p == [req[r] EXCEPT !.pc = "unlink"]
             q == [p EXCEPT !.found = found]
  <1>1. /\ req[r] \in Request /\ ReqOK(req[r]) /\ req[r].pc = "scan" /\ UNCHANGED <<db, cache, held>>
        /\ req' = [req EXCEPT ![r].pc = "unlink", ![r].found = found]
        /\ req \in [Requests -> Request]
    BY Running DEF Scan, IInv, TypeOK
  <1>2. found \in SUBSET Keys
    BY <1>1, SomeKeys DEF ScanMatch, ReqOK, WritePhases
  <1> HIDE DEF found
  <1>3. p \in Request
    BY <1>1, Fields DEF Phases
  <1>4. q \in Request
    BY <1>2, <1>3, Fields
  <1>5. q.pc = "unlink" /\ q.op = req[r].op /\ q.post = req[r].post /\ q.user = req[r].user
    BY <1>1 DEF Request
  <1>6. req' = [req EXCEPT ![r] = q]
    BY <1>1
  <1> HIDE DEF q
  <1>7. Goes(r, q)
    BY <1>1, <1>4, <1>5, <1>6, Continues DEF ReqOK, ReadPhases, WritePhases, PublicList
  <1> QED
    BY <1>1, <1>7, CacheStays, OneStep

LEMMA UnlinkStep == ASSUME IInv, NEW r \in Requests, Unlink(r) PROVE IInv'
  <1>1. cache \in [Keys -> Entry \cup {None}]
    BY Running
  <1>2. cache' = [k \in Keys |-> IF k \in req[r].found THEN None ELSE cache[k]]
    BY DEF Unlink
  <1>3. Goes(r, Idle)
    BY Ends DEF Unlink
  <1>4. Leaves(r, Idle)
    BY <1>1, <1>2, Removes DEF Unlink
  <1> QED
    BY <1>3, <1>4, OneStep

LEMMA FailStep == ASSUME IInv, NEW r \in Requests, Fail(r) PROVE IInv'
  <1>1. PICK k : k = Key(req[r])
    OBVIOUS
  <1>2. /\ cache' = IF req[r].pc = "expire" /\ cache[k] # None THEN [cache EXCEPT ![k].cut = TRUE] ELSE cache
        /\ ReqOK(req[r]) /\ req[r] \in Request /\ cache \in [Keys -> Entry \cup {None}]
    BY <1>1, Running DEF Fail
  <1>3. Goes(r, Idle)
    BY Ends DEF Fail
  <1>4. CASE req[r].pc # "expire"
    BY <1>2, <1>3, <1>4, CacheStays, OneStep
  <1>5. CASE req[r].pc = "expire"
    <2>1. k \in Keys
      BY <1>1, <1>2, <1>5, KeyOfRead DEF ReqOK, ReadPhases
    <2>2. /\ cache' \in [Keys -> Entry \cup {None}]
          /\ \A j \in Keys : j # k => cache'[j] = cache[j]
          /\ cache'[k] # None => cache[k] # None /\ cache'[k].value = cache[k].value /\ cache'[k].cut
      <3>1. CASE cache[k] = None
        BY <1>2, <3>1
      <3>2. CASE cache[k] # None
        <4> DEFINE e == [cache[k] EXCEPT !.cut = TRUE]
        <4>1. e \in Entry /\ e.value = cache[k].value /\ e.cut
          BY <1>2, <2>1, <3>2 DEF Entry
        <4>2. cache' = [cache EXCEPT ![k] = e]
          BY <1>2, <1>5, <3>2
        <4> HIDE DEF e
        <4> QED
          BY <1>2, <2>1, <3>2, <4>1, <4>2
      <3> QED
        BY <3>1, <3>2
    <2>3. ASSUME NEW j \in Keys, Unexpiring(j)' PROVE Unexpiring(j) /\ Key(req[r]) # j
      BY <1>1, <2>2, <2>3 DEF Unexpiring
    <2>4. ASSUME NEW j \in PublicKeys, cache'[j] # None PROVE AllApproved(cache'[j].value)
      <3>1. j \in Keys
        BY SomeKeys
      <3> QED
        BY <2>2, <2>4, <3>1, Running
    <2>5. Leaves(r, Idle)
      BY <2>2, <2>3, <2>4 DEF Leaves
    <2> QED
      BY <1>3, <2>5, OneStep
  <1> QED
    BY <1>4, <1>5

LEMMA WrittenOK ==
    ASSUME NEW q, NEW w, w = db[q.post], w \in Row, w.version < MaxVersion, NEW x \in Written(q)
    PROVE  x \in Row
  <1>1. w.row \in {"unborn", "live", "erased", "purged"} /\ w.status \in Statuses
        /\ w.version + 1 \in 0..MaxVersion
    BY BoundAssumption DEF Row
  <1> DEFINE to(row, status) == [row |-> row, status |-> status, version |-> w.version + 1]
  <1>2. \A row \in {"unborn", "live", "erased", "purged"}, status \in Statuses : to(row, status) \in Row
    BY <1>1 DEF Row
  <1>3. \/ x = w
        \/ \E row \in {"unborn", "live", "erased", "purged"}, status \in Statuses : x = to(row, status)
    BY <1>1 DEF Written, Statuses
  <1> HIDE DEF to
  <1> QED
    BY <1>2, <1>3

\* A commit marks entries and leaves them otherwise as they are.
LEMMA Marks ==
    ASSUME IInv, NEW r \in Requests, Commit(r)
    PROVE  /\ cache' \in [Keys -> Entry \cup {None}]
           /\ \A k \in Keys :
                 /\ cache'[k] = None <=> cache[k] = None
                 /\ cache[k] # None => /\ cache'[k].value = cache[k].value
                                       /\ cache'[k].ttl = cache[k].ttl
                                       /\ cache'[k].cut = cache[k].cut
                                       /\ cache'[k] = cache[k] \/ cache'[k].missed
                                       /\ cache[k].missed => cache'[k].missed
  <1>1. cache \in [Keys -> Entry \cup {None}]
    BY Running
  <1>2. ASSUME NEW e \in Entry
        PROVE  LET m == [e EXCEPT !.missed = TRUE] IN
               m \in Entry /\ m.value = e.value /\ m.ttl = e.ttl /\ m.cut = e.cut /\ m.missed
    BY DEF Entry
  <1>3. PICK K : cache' = [k \in Keys |-> IF k \in K /\ cache[k] # None
                                         THEN [cache[k] EXCEPT !.missed = TRUE] ELSE cache[k]]
    <2>1. PICK b \in BOOLEAN : cache' = [k \in Keys |-> IF b /\ k \in PassedOver(req[r]) /\ cache[k] # None
                                         THEN [cache[k] EXCEPT !.missed = TRUE] ELSE cache[k]]
      BY DEF Commit
    <2>2. PICK K : \A k \in Keys : k \in K <=> b /\ k \in PassedOver(req[r])
      <3> DEFINE K == {k \in Keys : b /\ k \in PassedOver(req[r])}
      <3>1. \A k \in Keys : k \in K <=> b /\ k \in PassedOver(req[r])
        OBVIOUS
      <3> QED
        BY <3>1
    <2> QED
      BY <2>1, <2>2
  <1>4. ASSUME NEW k \in Keys
        PROVE  /\ cache'[k] \in Entry \cup {None}
               /\ cache'[k] = None <=> cache[k] = None
               /\ cache[k] # None => /\ cache'[k].value = cache[k].value
                                     /\ cache'[k].ttl = cache[k].ttl
                                     /\ cache'[k].cut = cache[k].cut
                                     /\ cache'[k] = cache[k] \/ cache'[k].missed
                                     /\ cache[k].missed => cache'[k].missed
    <2>1. CASE k \in K /\ cache[k] # None
      <3>1. cache[k] \in Entry /\ cache'[k] = [cache[k] EXCEPT !.missed = TRUE]
        BY <1>1, <1>3, <2>1
      <3> QED
        BY <1>2, <2>1, <3>1, NoneAssumption
    <2>2. CASE ~(k \in K /\ cache[k] # None)
      <3>1. cache'[k] = cache[k]
        BY <1>3, <2>2
      <3> QED
        BY <1>1, <3>1
    <2> QED
      BY <2>1, <2>2
  <1>5. cache' \in [Keys -> Entry \cup {None}]
    BY <1>3, <1>4
  <1> QED
    BY <1>4, <1>5

LEMMA CommitStep == ASSUME IInv, NEW r \in Requests, Commit(r) PROVE IInv'
  <1>1. PICK p : p = req[r].post
    OBVIOUS
  <1>2. /\ req[r] \in Request /\ ReqOK(req[r]) /\ CommitOK(r) /\ req[r].pc = "commit"
        /\ req \in [Requests -> Request] /\ db \in [Posts -> Row]
        /\ held \in [Requests -> SUBSET [Posts -> Row]] /\ cache' \in [Keys -> Entry \cup {None}]
    BY Running, Marks DEF Commit, IInv, TypeOK
  <1>3. /\ p \in Posts /\ db[p] \in Row /\ db[p].version < MaxVersion /\ Writing(p) = {r}
        /\ req[r].op \in WriteOps /\ req[r].user \in Users
    BY <1>1, <1>2 DEF ReqOK, CommitOK, WritePhases
  <1>4. PICK w \in Written(req[r]) :
           /\ db' = [db EXCEPT ![p] = w]
           /\ \/ req' = [req EXCEPT ![r] = [req[r] EXCEPT !.pc = "delete"]]
              \/ req' = [req EXCEPT ![r] = Idle]
           /\ held' = [s \in Requests |-> IF Reading(s) THEN held[s] \cup {db'} ELSE held[s]]
    BY <1>1, <1>2 DEF Commit
  <1>5. w \in Row /\ db' \in [Posts -> Row] /\ \A x \in Posts : x # p => db'[x] = db[x]
    BY <1>1, <1>2, <1>3, <1>4, WrittenOK
  <1>6. PICK q \in Request : /\ req' = [req EXCEPT ![r] = q]
                             /\ q.pc \in {"idle", "delete"} /\ ReqOK(q) /\ ~PublicList(q)
                             /\ q.pc = "delete" => q.op = req[r].op /\ q.post = p /\ q.user = req[r].user
    <2>1. CASE req' = [req EXCEPT ![r] = [req[r] EXCEPT !.pc = "delete"]]
      <3> DEFINE d == [req[r] EXCEPT !.pc = "delete"]
      <3>1. d \in Request
        BY <1>2, Fields DEF Phases
      <3>2. d.pc = "delete" /\ d.op = req[r].op /\ d.post = p /\ d.user = req[r].user
        BY <1>1, <1>2 DEF Request
      <3>3. req' = [req EXCEPT ![r] = d]
        BY <2>1
      <3> HIDE DEF d
      <3> QED
        BY <1>2, <3>1, <3>2, <3>3, <1>3 DEF ReqOK, ReadPhases, WritePhases, PublicList
    <2>2. CASE req' = [req EXCEPT ![r] = Idle]
      BY <2>2, IdleOK
    <2> QED
      BY <1>4, <2>1, <2>2
  <1>7. /\ req' \in [Requests -> Request] /\ req'[r] = q
        /\ \A s \in Requests : s # r => req'[s] = req[s]
    BY <1>2, <1>6
  <1>8. held' \in [Requests -> SUBSET [Posts -> Row]]
    BY <1>2, <1>4, <1>5
  <1>9. TypeOK'
    BY <1>2, <1>5, <1>7, <1>8 DEF IInv, TypeOK
  <1>10. ASSUME NEW s \in Requests PROVE ReqOK(req[s])' /\ CommitOK(s)'
    <2>1. CASE s = r
      BY <1>6, <1>7, <2>1 DEF ReqOK, CommitOK
    <2>2. CASE s # r
      <3>1. ReqOK(req[s]) /\ CommitOK(s)
        BY DEF IInv
      <3>2. ReqOK(req[s])'
        BY <1>7, <2>2, <3>1 DEF ReqOK
      <3> SUFFICES ASSUME req[s].pc = "commit"
                   PROVE  Writing(req[s].post)' = {s} /\ db'[req[s].post].version < MaxVersion
        BY <1>7, <2>2, <3>2 DEF CommitOK
      <3>3. /\ Writing(req[s].post) = {s} /\ db[req[s].post].version < MaxVersion
            /\ req[s].post \in Posts
        BY <3>1 DEF CommitOK, ReqOK, WritePhases
      <3>4. req[s].post # p
        BY <1>3, <2>2, <3>3
      <3>5. Writing(req[s].post)' = Writing(req[s].post)
        BY <1>1, <1>6, <1>7, <2>2, <3>4 DEF Writing
      <3> QED
        BY <1>5, <3>3, <3>4, <3>5
    <2> QED
      BY <2>1, <2>2
  <1>11. EveryEntryExpires'
    <2> SUFFICES ASSUME NEW k \in Keys, Unexpiring(k)'
                 PROVE  \E s \in Requests : req'[s].pc = "expire" /\ Key(req'[s]) = k
      BY DEF EveryEntryExpires, Unexpiring, Key
    <2>2. Unexpiring(k)
      BY Marks DEF Unexpiring
    <2>1. PICK s \in Requests : req[s].pc = "expire" /\ Key(req[s]) = k
      BY <2>2 DEF IInv, EveryEntryExpires, Unexpiring
    <2> QED
      BY <1>2, <1>7, <2>1
  <1>12. ASSUME NEW k \in PublicKeys, cache'[k] # None PROVE AllApproved(cache'[k].value)
    <2>1. k \in Keys
      BY SomeKeys
    <2> QED
      BY <1>12, <2>1, Marks, Running
  <1>13. ASSUME NEW s \in Requests PROVE (PublicList(req[s]) => AllApproved(req[s].value))'
    BY <1>6, <1>7 DEF IInv, PublicList, AllApproved, SeesAll
  <1> QED
    BY <1>9, <1>10, <1>11, <1>12, <1>13 DEF IInv, AllApproved

LEMMA TickStep == ASSUME IInv, Tick PROVE IInv'
  <1>1. cache \in [Keys -> Entry \cup {None}] /\ UNCHANGED <<db, req, held>>
    BY DEF IInv, TypeOK, Tick
  <1>2. ASSUME NEW k \in Keys
        PROVE  /\ cache'[k] \in Entry \cup {None}
               /\ cache'[k] # None => cache[k] # None /\ cache'[k].value = cache[k].value
               /\ Unexpiring(k)' => Unexpiring(k)
    <2>1. cache'[k] = IF cache[k] = None \/ cache[k].ttl = NoTTL THEN cache[k]
                      ELSE IF cache[k].ttl = 1 THEN None
                      ELSE [cache[k] EXCEPT !.ttl = @ - 1]
      BY DEF Tick
    <2>2. CASE cache[k] = None \/ cache[k].ttl = NoTTL
      BY <1>1, <2>1, <2>2 DEF Unexpiring
    <2>3. CASE ~(cache[k] = None \/ cache[k].ttl = NoTTL) /\ cache[k].ttl = 1
      BY <2>1, <2>3 DEF Unexpiring
    <2>4. CASE ~(cache[k] = None \/ cache[k].ttl = NoTTL) /\ cache[k].ttl # 1
      <3> DEFINE e == [cache[k] EXCEPT !.ttl = @ - 1]
      <3>1. cache[k] \in Entry /\ cache[k].ttl \in 2..PostTTL
        BY <1>1, <2>4, TTLAssumption DEF Entry, NoTTL
      <3>2. cache[k].ttl - 1 \in 1..PostTTL
        BY <3>1, TTLAssumption
      <3>3. e \in Entry /\ e.value = cache[k].value /\ e.ttl # NoTTL
        BY <3>1, <3>2, TTLAssumption DEF Entry, NoTTL
      <3>4. cache'[k] = e
        BY <2>1, <2>4
      <3> HIDE DEF e
      <3> QED
        BY <2>4, <3>3, <3>4 DEF Unexpiring
    <2> QED
      BY <2>2, <2>3, <2>4
  <1>3. cache' \in [Keys -> Entry \cup {None}]
    BY <1>2 DEF Tick
  <1>4. TypeOK'
    BY <1>1, <1>3 DEF IInv, TypeOK
  <1>5. EveryEntryExpires'
    BY <1>1, <1>2 DEF IInv, EveryEntryExpires, Unexpiring, Key
  <1>6. ASSUME NEW k \in PublicKeys, cache'[k] # None PROVE AllApproved(cache'[k].value)
    <2>1. k \in Keys
      BY SomeKeys
    <2> QED
      BY <1>2, <1>6, <2>1 DEF IInv
  <1>7. ASSUME NEW s \in Requests PROVE ReqOK(req[s])' /\ CommitOK(s)'
    BY <1>1 DEF IInv, ReqOK, CommitOK, Writing
  <1>8. ASSUME NEW s \in Requests PROVE (PublicList(req[s]) => AllApproved(req[s].value))'
    BY <1>1 DEF IInv, PublicList, SeesAll, AllApproved
  <1> QED
    BY <1>4, <1>5, <1>6, <1>7, <1>8 DEF IInv, AllApproved

LEMMA Unchanged == IInv /\ UNCHANGED vars => IInv'
  BY DEF vars, IInv, TypeOK, ReqOK, CommitOK, Writing, EveryEntryExpires, Key, AllApproved,
         PublicList, SeesAll

LEMMA InitInv == Init => IInv
  <1> SUFFICES ASSUME Init PROVE IInv
    OBVIOUS
  <1>1. TypeOK
    BY IdleOK DEF Init, TypeOK
  <1>2. \A k \in PublicKeys : cache[k] = None
    BY SomeKeys DEF Init
  <1> QED
    BY <1>1, <1>2, IdleOK DEF Init, IInv, EveryEntryExpires, CommitOK

LEMMA NextInv == IInv /\ [Next]_vars => IInv'
  <1> SUFFICES ASSUME IInv, [Next]_vars PROVE IInv'
    OBVIOUS
  <1>1. ASSUME NEW r \in Requests, BeginRead(r) \/ BeginWrite(r) PROVE IInv'
    BY <1>1, BeginReadStep, BeginWriteStep
  <1>2. ASSUME NEW r \in Requests, Serve(r) PROVE IInv'
    BY <1>2, LookupStep, RunQueryStep, SetStep, ExpireStep, ReplyStep, CommitStep,
       DeleteStep, DeleteExtraStep, ScanStep, UnlinkStep DEF Serve
  <1>3. ASSUME NEW r \in Requests, Fail(r) PROVE IInv'
    BY <1>3, FailStep
  <1>4. CASE Tick
    BY <1>4, TickStep
  <1>5. CASE UNCHANGED vars
    BY <1>5, Unchanged
  <1> QED
    BY <1>1, <1>2, <1>3, <1>4, <1>5 DEF Next

-----------------------------------------------------------------------------
(* Theorems about any requests.                                            *)

LEMMA AlwaysIInv == Spec => []IInv
  BY InitInv, NextInv, PTL DEF Spec

\* Every variable keeps its type; a request has the fields its phase works
\* with, and no post is written beyond the bound.
THEOREM TypeCorrect == Spec => []TypeOK
  BY AlwaysIInv, InvImplies, PTL

\* No entry is left without a time to live, however the fills, deletions and
\* expiries of any number of requests interleave, unless one was cut off
\* between SET and EXPIRE.
THEOREM EntriesExpire == Spec => []EveryEntryExpires
  BY AlwaysIInv, InvImplies, PTL

\* The public is shown lists of approved posts only, from the cache or not,
\* fresh or stale.
THEOREM PublicSeesApproved == Spec => []PublicListsAreApproved
  BY AlwaysIInv, InvImplies, PTL

-----------------------------------------------------------------------------
(* One request at a time, Redis answering.                                 *)

Alone == ~CanFail /\ \A r, s \in Requests : r = s

\* The keys in question and the writes they survive: of a post all but a
\* decision or a revision, of the lists those that only update.
DetailKeys   == {PostKey(u, p) : u \in Users, p \in Posts}
EveryListKey == {ListKey(u, view) : u \in Users, view \in {"author", "public"}}
Covered(K)   == \/ K = DetailKeys /\ Ops \cap {"moderate", "revise"} = {}
                \/ K = EveryListKey /\ Ops \subseteq ReadOps \cup {"update"}

\* What a key is to hold: a post as its author sees it, a list of the view.
AnswerFor(k, d) ==
    IF k[1] = "post_cache"
    THEN Query([Idle EXCEPT !.op = "get", !.caller = "author", !.user = k[2], !.post = k[3]], d)
    ELSE Query([Idle EXCEPT !.op = "list", !.caller = k[3], !.user = k[2]], d)

\* A write has been committed and is still to remove the key.
Pending(k) == \E r \in Requests :
    \/ req[r].pc = "delete" /\ k = PostKey(req[r].user, req[r].post)
    \/ req[r].pc \in {"delete", "scan"} /\ k \in ListKeys(req[r].user)
    \/ req[r].pc = "unlink" /\ k \in req[r].found

\* An entry is right, or about to go, or was missed.
EntryOK(k) == cache[k] # None =>
    \/ Pending(k)
    \/ cache[k].missed
    \/ cache[k].value = AnswerFor(k, db) /\ (k[1] = "post_cache" => cache[k].value # {})

\* What a read has found.
ReadOK(q, K) == (q.op \in ReadOps /\ Key(q) \in K) =>
    /\ q.pc \in {"set", "expire"} => q.value = AnswerFor(Key(q), db) /\ (q.op = "get" => q.value # {})
    /\ q.pc = "reply" => q.missed \/ q.value = AnswerFor(Key(q), db) \/ q.value = Query(q, db)

FInv(K) == /\ \A k \in K : EntryOK(k)
           /\ \A r \in Requests : /\ ReadOK(req[r], K)
                                  /\ Reading(r) => db \in held[r]
                                  /\ req[r].pc # "idle" => req[r].op \in Ops

LEMMA CoveredKeys == ASSUME NEW K, Covered(K) PROVE \A k \in K : k \in Keys
  <1>1. \A k \in DetailKeys : k \in Keys
    BY DEF DetailKeys, Keys
  <1>2. \A k \in EveryListKey : k \in Keys
    BY DEF EveryListKey, Keys
  <1> QED
    BY <1>1, <1>2 DEF Covered

\* A query is decided by the endpoint, by whether the caller sees all, and by
\* the post asked for.
LEMMA SameQuery ==
    ASSUME NEW q, NEW p, NEW d, q.op = p.op, SeesAll(q) <=> SeesAll(p), q.op = "get" => q.post = p.post,
           q.op # "list_all" => q.user = p.user
    PROVE  Query(q, d) = Query(p, d)
  BY DEF Query

\* A read finds what its key is to hold, or a post that is not shown to it.
LEMMA AnswerOfKey ==
    ASSUME NEW q \in Request, q.op \in {"get", "list"}, q.op = "get" => q.post \in Posts,
           NEW d \in [Posts -> Row]
    PROVE  \/ Query(q, d) = AnswerFor(Key(q), d)
           \/ q.op = "get" /\ Query(q, d) = {}
  <1>1. CASE q.op = "get"
    <2> DEFINE a == [Idle EXCEPT !.op = "get", !.caller = "author", !.user = q.user, !.post = q.post]
    <2>1. a.op = "get" /\ a.user = q.user /\ a.post = q.post /\ a.caller = "author"
      BY DEF Idle
    <2>2. AnswerFor(Key(q), d) = Query(a, d)
      BY <1>1 DEF AnswerFor, Key, PostKey
    <2> HIDE DEF a
    <2>3. CASE q.caller # "public"
      BY <1>1, <2>1, <2>2, <2>3, SameQuery DEF SeesAll
    <2>4. CASE q.caller = "public" /\ d[q.post].status = "approved"
      BY <1>1, <2>1, <2>2, <2>4 DEF Query, SeesAll
    <2>5. CASE q.caller = "public" /\ d[q.post].status # "approved"
      BY <1>1, <2>5 DEF Query, SeesAll
    <2> QED
      BY <2>3, <2>4, <2>5
  <1>2. CASE q.op = "list"
    <2> DEFINE v == IF q.caller = "author" THEN "author" ELSE "public"
               a == [Idle EXCEPT !.op = "list", !.caller = v, !.user = q.user]
    <2>1. a.op = "list" /\ a.caller = v /\ a.user = q.user
      BY DEF Idle
    <2>2. AnswerFor(Key(q), d) = Query(a, d)
      BY <1>2 DEF AnswerFor, Key, ListKey
    <2> HIDE DEF a
    <2> QED
      BY <1>2, <2>1, <2>2, SameQuery DEF SeesAll
  <1> QED
    BY <1>1, <1>2

\* What the key of a post is to hold depends on that post, and is something
\* only if the post is live and the user of the key its author.
LEMMA AnswerOfPost ==
    ASSUME NEW u, NEW p \in Posts, NEW c, NEW d
    PROVE  /\ c[p] = d[p] => AnswerFor(PostKey(u, p), c) = AnswerFor(PostKey(u, p), d)
           /\ d[p].row # "live" \/ AuthorOf[p] # u => AnswerFor(PostKey(u, p), d) = {}
  <1> DEFINE a == [Idle EXCEPT !.op = "get", !.caller = "author", !.user = u, !.post = p]
  <1>1. a.op = "get" /\ a.user = u /\ a.post = p
    BY DEF Idle
  <1>2. \A x : AnswerFor(PostKey(u, p), x) = Query(a, x)
    BY DEF AnswerFor, PostKey
  <1> HIDE DEF a
  <1>3. d[p].row # "live" \/ AuthorOf[p] # u => Query(a, d) = {}
    BY <1>1 DEF Query
  <1>4. ASSUME c[p] = d[p] PROVE Query(a, c) = Query(a, d)
    BY <1>1, <1>4 DEF Query
  <1> QED
    BY <1>2, <1>3, <1>4

\* A list of user u depends on the posts of that user.
LEMMA AnswerOfList ==
    ASSUME NEW u, NEW k \in ListKeys(u), NEW c, NEW d,
           \A x \in Posts : AuthorOf[x] = u => c[x] = d[x]
    PROVE  AnswerFor(k, c) = AnswerFor(k, d)
  <1> DEFINE a == [Idle EXCEPT !.op = "list", !.caller = k[3], !.user = k[2]]
  <1>1. k[1] = "posts" /\ k[2] = u
    BY DEF ListKeys, ListKey
  <1>2. a.op = "list" /\ a.user = u
    BY <1>1 DEF Idle
  <1>3. \A x : AnswerFor(k, x) = Query(a, x)
    BY <1>1 DEF AnswerFor
  <1> HIDE DEF a
  <1>4. {p \in Posts : c[p].row = "live" /\ (SeesAll(a) \/ c[p].status = "approved") /\ AuthorOf[p] = u}
        = {p \in Posts : d[p].row = "live" /\ (SeesAll(a) \/ d[p].status = "approved") /\ AuthorOf[p] = u}
    OBVIOUS
  <1>5. Query(a, c) = Query(a, d)
    BY <1>2 DEF Query
  <1> QED
    BY <1>3, <1>5

LEMMA Whole ==
    ASSUME Alone, NEW K, FInv(K), NEW r \in Requests, NEW q, req \in [Requests -> Request],
           req' = [req EXCEPT ![r] = q],
           \A k \in K : EntryOK(k)', ReadOK(req[r], K)', Reading(r)' => db' \in held'[r],
           q.pc # "idle" => q.op \in Ops
    PROVE  FInv(K)'
  BY DEF Alone, FInv

\* No write is pending: the entries are right, and stay so if none is added.
LEMMA Settled ==
    ASSUME Alone, NEW K, FInv(K), NEW r \in Requests, req[r].pc \notin {"delete", "scan", "unlink"},
           db' = db,
           \A k \in K : \/ cache'[k] = None
                        \/ /\ cache[k] # None
                           /\ cache'[k].value = cache[k].value /\ cache'[k].missed = cache[k].missed
    PROVE  /\ \A k \in K : EntryOK(k)'
           /\ \A k \in K : cache[k] # None =>
                 \/ cache[k].missed
                 \/ cache[k].value = AnswerFor(k, db) /\ (k[1] = "post_cache" => cache[k].value # {})
  <1>1. \A k : ~Pending(k)
    BY DEF Pending, Alone
  <1> QED
    BY <1>1 DEF FInv, EntryOK

LEMMA KindOfKey ==
    ASSUME NEW K, Covered(K), NEW q, q.op \in ReadOps, Key(q) \in K
    PROVE  q.op \in {"get", "list"}
  BY DEF Covered, DetailKeys, EveryListKey, ListKeys, ListKey, Key, PostKey, ReadOps

\* The read of request r goes on: what it knows of the database still holds.
LEMMA ReadGoesOn ==
    ASSUME Alone, IInv, NEW K, Covered(K), FInv(K), NEW r \in Requests, NEW q,
           req' = [req EXCEPT ![r] = q], db' = db, held' = held,
           req[r].pc \in ReadPhases,
           q.op = req[r].op, q.post = req[r].post, q.user = req[r].user, q.caller = req[r].caller,
           \A k \in K : \/ cache'[k] = None
                        \/ /\ cache[k] # None
                           /\ cache'[k].value = cache[k].value /\ cache'[k].missed = cache[k].missed
                        \/ EntryOK(k)',
           ReadOK(q, K)
    PROVE  FInv(K)'
  <1>1. /\ req \in [Requests -> Request] /\ req[r].op \in ReadOps /\ req[r].op \in Ops /\ db \in held[r]
        /\ req[r].pc \notin {"idle", "delete", "scan", "unlink"}
    BY Running DEF IInv, TypeOK, FInv, ReqOK, ReadPhases, Reading
  <1>2. \A k \in K : EntryOK(k)'
    <2>1. \A k : ~Pending(k)
      BY <1>1 DEF Pending, Alone
    <2> QED
      BY <2>1 DEF FInv, EntryOK
  <1>3. req'[r] = q /\ Key(q) = Key(req[r])
    BY <1>1 DEF Key
  <1>4. ReadOK(req[r], K)'
    BY <1>3 DEF ReadOK
  <1> QED
    BY <1>1, <1>2, <1>3, <1>4, Whole

LEMMA FreshBegin ==
    ASSUME Alone, IInv, NEW K, Covered(K), FInv(K), NEW r \in Requests,
           BeginRead(r) \/ BeginWrite(r)
    PROVE  FInv(K)'
  <1>1. /\ req[r].pc = "idle" /\ UNCHANGED <<db, cache>>
        /\ req \in [Requests -> Request] /\ held \in [Requests -> SUBSET [Posts -> Row]]
    BY Running DEF BeginRead, BeginWrite, IInv, TypeOK
  <1>2. PICK q : /\ req' = [req EXCEPT ![r] = q] /\ q.pc \in {"lookup", "commit"} /\ q.op \in Ops
                 /\ q.pc = "commit" => q.op \in WriteOps
                 /\ q.pc = "lookup" => held' = [held EXCEPT ![r] = {db}]
    <2>1. CASE BeginRead(r)
      <3>1. PICK op \in Ops \cap ReadOps, c \in Callers, u \in Users \cup {None}, p \in Posts \cup {None} :
               /\ req' = [req EXCEPT ![r] = [Idle EXCEPT !.pc = "lookup", !.op = op, !.caller = c,
                                                          !.user = u, !.post = p]]
               /\ held' = [held EXCEPT ![r] = {db}]
        BY <2>1 DEF BeginRead
      <3> DEFINE q == [Idle EXCEPT !.pc = "lookup", !.op = op, !.caller = c, !.user = u, !.post = p]
      <3>2. q.pc = "lookup" /\ q.op = op
        BY DEF Idle
      <3> QED
        BY <3>1, <3>2
    <2>2. CASE BeginWrite(r)
      <3>1. PICK op \in Ops \cap WriteOps, u \in Users, p \in Posts :
               req' = [req EXCEPT ![r] = [Idle EXCEPT !.pc = "commit", !.op = op, !.user = u, !.post = p]]
        BY <2>2 DEF BeginWrite
      <3> DEFINE q == [Idle EXCEPT !.pc = "commit", !.op = op, !.user = u, !.post = p]
      <3>2. q.pc = "commit" /\ q.op = op
        BY DEF Idle
      <3> QED
        BY <3>1, <3>2
    <2> QED
      BY <2>1, <2>2
  <1>3. \A k \in K : EntryOK(k)'
    <2>1. \A k : ~Pending(k)
      BY <1>1 DEF Pending, Alone
    <2> QED
      BY <1>1, <2>1 DEF FInv, EntryOK, AnswerFor
  <1>4. req'[r] = q
    BY <1>1, <1>2
  <1>5. ReadOK(req[r], K)'
    BY <1>2, <1>4 DEF ReadOK
  <1>6. Reading(r)' => db' \in held'[r]
    BY <1>1, <1>2, <1>4 DEF Reading, ReadOps, WriteOps
  <1> QED
    BY <1>1, <1>2, <1>3, <1>5, <1>6, Whole

LEMMA FreshLookup ==
    ASSUME Alone, IInv, NEW K, Covered(K), FInv(K), NEW r \in Requests, Lookup(r)
    PROVE  FInv(K)'
  <1>1. PICK k : k = Key(req[r])
    OBVIOUS
  <1> DEFINE q == IF cache[k] = None THEN [req[r] EXCEPT !.pc = "query"]
                  ELSE [req[r] EXCEPT !.pc = "reply", !.value = cache[k].value, !.missed = cache[k].missed]
  <1>2. /\ req[r] \in Request /\ req[r].pc = "lookup" /\ UNCHANGED <<db, cache, held>>
        /\ req' = [req EXCEPT ![r] = q]
    BY <1>1, Running DEF Lookup
  <1>3. /\ q.op = req[r].op /\ q.post = req[r].post /\ q.user = req[r].user /\ q.caller = req[r].caller
        /\ q.pc = IF cache[k] = None THEN "query" ELSE "reply"
        /\ cache[k] # None => q.value = cache[k].value /\ q.missed = cache[k].missed
    BY <1>2 DEF Request
  <1> HIDE DEF q
  <1>4. \A j \in K : /\ cache'[j] = cache[j]
                     /\ cache[j] # None => cache[j].missed \/ cache[j].value = AnswerFor(j, db)
    BY <1>2, Settled
  <1>5. Key(q) = k
    BY <1>1, <1>3 DEF Key
  <1>6. ReadOK(q, K)
    BY <1>3, <1>4, <1>5 DEF ReadOK
  <1> QED
    BY <1>2, <1>3, <1>4, <1>6, ReadGoesOn DEF ReadPhases

LEMMA FreshQuery ==
    ASSUME Alone, IInv, NEW K, Covered(K), FInv(K), NEW r \in Requests, RunQuery(r)
    PROVE  FInv(K)'
  <1>1. PICK found : found = Query(req[r], db)
    OBVIOUS
  <1> DEFINE phase == IF req[r].op = "get" /\ found = {} THEN "reply" ELSE "set"
             p     == [req[r] EXCEPT !.value = found]
             q     == [p EXCEPT !.pc = phase]
  <1>2. /\ req[r] \in Request /\ ReqOK(req[r]) /\ req[r].pc = "query" /\ UNCHANGED <<db, cache, held>>
        /\ db \in [Posts -> Row] /\ req \in [Requests -> Request]
        /\ req' = [req EXCEPT ![r].value = found, ![r].pc = phase]
    BY <1>1, Running DEF RunQuery, IInv, TypeOK
  <1>3. req' = [req EXCEPT ![r] = q]
    BY <1>2
  <1>4. /\ q.op = req[r].op /\ q.post = req[r].post /\ q.user = req[r].user /\ q.caller = req[r].caller
        /\ q.pc = phase /\ q.value = found
    BY <1>2 DEF Request
  <1>5. phase = "set" => (req[r].op = "get" => found # {})
    OBVIOUS
  <1>6. phase \in {"reply", "set"}
    OBVIOUS
  <1> HIDE DEF q, phase
  <1>7. Key(q) = Key(req[r]) /\ Query(q, db) = found
    BY <1>1, <1>4, SameQuery DEF Key, SeesAll
  <1>8. ReadOK(q, K)
    <2> SUFFICES ASSUME q.op \in ReadOps, Key(q) \in K
                 PROVE  /\ q.pc = "set" => q.value = AnswerFor(Key(q), db) /\ (q.op = "get" => q.value # {})
                        /\ q.pc = "reply" => q.value = Query(q, db)
      BY <1>4, <1>6 DEF ReadOK
    <2>1. req[r].op \in {"get", "list"}
      BY <1>4, KindOfKey
    <2>2. Query(req[r], db) = AnswerFor(Key(req[r]), db) \/ (req[r].op = "get" /\ Query(req[r], db) = {})
      BY <1>2, <2>1, AnswerOfKey DEF ReqOK, ReadPhases
    <2> QED
      BY <1>1, <1>4, <1>5, <1>7, <2>2
  <1>9. \A j \in K : cache'[j] = cache[j]
    BY <1>2
  <1> QED
    BY <1>2, <1>3, <1>4, <1>8, <1>9, ReadGoesOn DEF ReadPhases

LEMMA FreshSet ==
    ASSUME Alone, IInv, NEW K, Covered(K), FInv(K), NEW r \in Requests, Set(r)
    PROVE  FInv(K)'
  <1>1. PICK k : k = Key(req[r])
    OBVIOUS
  <1> DEFINE q == [req[r] EXCEPT !.pc = "expire"]
  <1>2. /\ req[r] \in Request /\ ReqOK(req[r]) /\ req[r].pc = "set" /\ db' = db /\ held' = held
        /\ req' = [req EXCEPT ![r] = q] /\ cache' = [cache EXCEPT ![k] = Stored(req[r].value)]
        /\ cache \in [Keys -> Entry \cup {None}]
    BY <1>1, Running DEF Set, Goto, IInv, TypeOK
  <1>3. /\ q.op = req[r].op /\ q.post = req[r].post /\ q.user = req[r].user /\ q.caller = req[r].caller
        /\ q.pc = "expire" /\ q.value = req[r].value
    BY <1>2 DEF Request
  <1> HIDE DEF q
  <1>4. Key(q) = k /\ k \in Keys /\ req[r].op \in ReadOps
    BY <1>1, <1>2, <1>3, KeyOfRead DEF Key, ReqOK, ReadPhases
  <1>5. ReadOK(req[r], K)
    BY DEF FInv
  <1>6. ReadOK(q, K)
    BY <1>1, <1>2, <1>3, <1>4, <1>5 DEF ReadOK
  <1>7. ASSUME NEW j \in K
        PROVE  \/ cache'[j] = None
               \/ cache'[j] = cache[j]
               \/ EntryOK(j)'
    <2>1. j \in Keys
      BY CoveredKeys
    <2>2. CASE j # k
      BY <1>2, <2>1, <2>2
    <2>3. CASE j = k
      <3>1. cache'[j].value = req[r].value
        BY <1>2, <2>1, <2>3 DEF Stored
      <3>2. req[r].value = AnswerFor(j, db) /\ (req[r].op = "get" => req[r].value # {})
        BY <1>1, <1>2, <1>4, <1>5, <2>3 DEF ReadOK
      <3>3. j[1] = "post_cache" => req[r].op = "get"
        BY <1>1, <2>3 DEF Key, ListKey
      <3> QED
        BY <1>2, <3>1, <3>2, <3>3 DEF EntryOK
    <2> QED
      BY <2>2, <2>3
  <1> QED
    BY <1>2, <1>3, <1>6, <1>7, ReadGoesOn DEF ReadPhases

LEMMA FreshExpire ==
    ASSUME Alone, IInv, NEW K, Covered(K), FInv(K), NEW r \in Requests, Expire(r)
    PROVE  FInv(K)'
  <1>1. PICK k : k = Key(req[r])
    OBVIOUS
  <1> DEFINE q == [req[r] EXCEPT !.pc = "reply"]
  <1>2. /\ req[r] \in Request /\ ReqOK(req[r]) /\ req[r].pc = "expire" /\ db' = db /\ held' = held
        /\ req' = [req EXCEPT ![r] = q] /\ cache \in [Keys -> Entry \cup {None}]
        /\ cache' = IF cache[k] = None THEN cache
                    ELSE [cache EXCEPT ![k].ttl = TTL(k), ![k].cut = FALSE]
    BY <1>1, Running DEF Expire, Goto, IInv, TypeOK
  <1>3. /\ q.op = req[r].op /\ q.post = req[r].post /\ q.user = req[r].user /\ q.caller = req[r].caller
        /\ q.pc = "reply" /\ q.value = req[r].value
    BY <1>2 DEF Request
  <1> HIDE DEF q
  <1>4. Key(q) = k
    BY <1>1, <1>3 DEF Key
  <1>5. ReadOK(q, K)
    BY <1>1, <1>2, <1>3, <1>4 DEF ReadOK, FInv
  <1>6. ASSUME NEW j \in K
        PROVE  \/ cache'[j] = None
               \/ /\ cache[j] # None
                  /\ cache'[j].value = cache[j].value /\ cache'[j].missed = cache[j].missed
    <2>1. j \in Keys
      BY CoveredKeys
    <2>2. CASE cache[k] = None \/ j # k
      BY <1>2, <2>1, <2>2
    <2>3. CASE cache[k] # None /\ j = k
      <3> DEFINE a == [cache[k] EXCEPT !.ttl = TTL(k)]
                 b == [a EXCEPT !.cut = FALSE]
      <3>1. cache[k] \in Entry
        BY <1>2, <2>1, <2>3
      <3>2. b.value = cache[k].value /\ b.missed = cache[k].missed
        BY <3>1 DEF Entry
      <3>3. cache'[j] = b
        BY <1>2, <2>1, <2>3
      <3> QED
        BY <2>3, <3>2, <3>3
    <2> QED
      BY <2>2, <2>3
  <1> QED
    BY <1>2, <1>3, <1>5, <1>6, ReadGoesOn DEF ReadPhases

\* The request ends and leaves the entries right.
LEMMA FreshEnd ==
    ASSUME Alone, IInv, NEW K, FInv(K), NEW r \in Requests, Finish(r), \A k \in K : EntryOK(k)'
    PROVE  FInv(K)'
  <1>1. req \in [Requests -> Request] /\ req' = [req EXCEPT ![r] = Idle]
    BY DEF IInv, TypeOK, Finish
  <1>2. req'[r] = Idle /\ Idle.pc = "idle"
    BY <1>1, IdleOK
  <1>3. ReadOK(req[r], K)' /\ ~Reading(r)'
    BY <1>2 DEF ReadOK, Reading
  <1> QED
    BY <1>1, <1>2, <1>3, Whole

LEMMA FreshReply ==
    ASSUME Alone, IInv, NEW K, Covered(K), FInv(K), NEW r \in Requests, Reply(r) \/ DeleteExtra(r)
    PROVE  FInv(K)'
  <1>1. PICK b : b = BareKey(req[r].user)
    OBVIOUS
  <1>2. /\ req[r].pc \notin {"delete", "scan", "unlink"} /\ db' = db /\ Finish(r)
        /\ cache' = cache \/ cache' = [cache EXCEPT ![b] = None]
        /\ cache \in [Keys -> Entry \cup {None}]
    BY <1>1, Running DEF Reply, DeleteExtra
  <1>3. ASSUME NEW k \in K PROVE k \in Keys /\ k # b
    <2>1. k \in Keys
      BY CoveredKeys
    <2>2. CASE K = DetailKeys
      <3>1. PICK u, p : k = PostKey(u, p)
        BY <2>2 DEF DetailKeys
      <3> QED
        BY <1>1, <2>1, <3>1 DEF PostKey, BareKey
    <2>3. CASE K = EveryListKey
      <3>1. PICK u \in Users, view \in {"author", "public"} : k = ListKey(u, view)
        BY <2>3 DEF EveryListKey
      <3>2. b[3] = ""
        BY <1>1 DEF BareKey
      <3>3. k[3] = "author" \/ k[3] = "public"
        BY <3>1 DEF ListKey
      <3> QED
        BY <2>1, <3>2, <3>3
    <2> QED
      BY <2>2, <2>3 DEF Covered
  <1>4. \A k \in K : cache'[k] = cache[k]
    BY <1>2, <1>3
  <1>5. \A k \in K : EntryOK(k)'
    BY <1>2, <1>4, Settled
  <1> QED
    BY <1>2, <1>5, FreshEnd

\* What a commit leaves of a right entry that it is not about to remove.
LEMMA FreshCommitEntry ==
    ASSUME IInv, NEW K, Covered(K), NEW r \in Requests, Commit(r), req[r].op \in Ops,
           NEW p \in Posts, p = req[r].post, NEW u \in Users, u = req[r].user,
           NEW w \in Written(req[r]), db' = [db EXCEPT ![p] = w], w # db[p],
           NEW k \in K, cache[k] # None,
           cache[k].missed \/ (cache[k].value = AnswerFor(k, db) /\ (k[1] = "post_cache" => cache[k].value # {})),
           req[r].op \in {"update", "erase", "erase_db"} => k \notin ListKeys(u) \cup {PostKey(u, p)}
    PROVE  EntryOK(k)'
  <1> DEFINE a == AuthorOf[p]
  <1>1. /\ db \in [Posts -> Row] /\ req[r].op \in WriteOps /\ k \in Keys
        /\ cache \in [Keys -> Entry \cup {None}]
    BY Running, CoveredKeys DEF Commit, ReqOK, WritePhases
  <1>2. /\ cache'[k] # None /\ cache'[k].value = cache[k].value
        /\ cache[k].missed => cache'[k].missed
    BY <1>1, Marks
  <1>3. CASE cache[k].missed
    BY <1>2, <1>3 DEF EntryOK
  <1>4. CASE AnswerFor(k, db') = AnswerFor(k, db) /\ ~cache[k].missed
    BY <1>2, <1>4 DEF EntryOK
  <1>5. CASE K = DetailKeys /\ ~cache[k].missed
    <2>1. PICK v \in Users, x \in Posts : k = PostKey(v, x)
      BY <1>5 DEF DetailKeys
    <2>2. cache[k].value # {} /\ cache[k].value = AnswerFor(k, db)
      BY <1>5, <2>1 DEF PostKey
    <2>3. AuthorOf[x] = v /\ db[x].row = "live"
      BY <2>1, <2>2, AnswerOfPost
    <2>4. CASE x # p
      <3>1. db'[x] = db[x]
        BY <1>1, <2>4
      <3> QED
        BY <1>4, <1>5, <2>1, <3>1, AnswerOfPost
    <2>5. CASE x = p /\ u = a
      <3>1. req[r].op \notin {"update", "erase", "erase_db"}
        BY <2>1, <2>3, <2>5
      <3>2. req[r].op = "create"
        <4>1. CASE Ops \cap {"moderate", "revise"} = {}
          BY <1>1, <3>1, <4>1 DEF WriteOps
        <4>2. CASE Ops \subseteq ReadOps \cup {"update"}
          BY <1>1, <3>1, <4>2 DEF WriteOps, ReadOps
        <4> QED
          BY <4>1, <4>2 DEF Covered
      <3> QED
        BY <2>3, <2>5, <3>2 DEF Written
    <2>6. CASE x = p /\ u # a
      <3>1. req[r].op \notin {"moderate", "revise"}
        <4>1. CASE Ops \cap {"moderate", "revise"} = {}
          BY <4>1
        <4>2. CASE Ops \subseteq ReadOps \cup {"update"}
          BY <4>2 DEF ReadOps
        <4> QED
          BY <4>1, <4>2 DEF Covered
      <3>2. req[r].op \notin {"create", "erase", "erase_db"}
        BY <2>3, <2>6 DEF Written
      <3>3. req[r].op = "update"
        BY <1>1, <3>1, <3>2 DEF WriteOps
      <3>4. k \in PassedOver(req[r])
        BY <2>1, <2>3, <2>6, <3>3 DEF PassedOver
      <3>5. cache'[k] = [cache[k] EXCEPT !.missed = TRUE] /\ cache[k] \in Entry
        BY <1>1, <3>4 DEF Commit
      <3>6. cache'[k].missed
        BY <3>5 DEF Entry
      <3> QED
        BY <3>6 DEF EntryOK
    <2> QED
      BY <2>4, <2>5, <2>6
  <1>6. CASE K = EveryListKey /\ Ops \subseteq ReadOps \cup {"update"} /\ ~cache[k].missed
    <2>1. PICK v \in Users : k \in ListKeys(v)
      BY <1>6 DEF EveryListKey, ListKeys, ListKey
    <2>2. req[r].op = "update"
      BY <1>1, <1>6 DEF ReadOps, WriteOps
    <2>3. CASE v # a
      <3>1. PICK c, d : c = db' /\ d = db
        OBVIOUS
      <3>2. \A x \in Posts : AuthorOf[x] = v => c[x] = d[x]
        BY <1>1, <2>3, <3>1
      <3>3. AnswerFor(k, c) = AnswerFor(k, d)
        BY <2>1, <3>2, AnswerOfList
      <3> QED
        BY <1>4, <1>6, <3>1, <3>3
    <2>4. CASE v = a
      <3>1. u # a
        BY <2>1, <2>2, <2>4
      <3>2. k \in PassedOver(req[r])
        BY <2>1, <2>2, <2>4, <3>1 DEF PassedOver
      <3>3. cache'[k] = [cache[k] EXCEPT !.missed = TRUE] /\ cache[k] \in Entry
        BY <1>1, <3>2 DEF Commit
      <3>4. cache'[k].missed
        BY <3>3 DEF Entry
      <3> QED
        BY <3>4 DEF EntryOK
    <2> QED
      BY <2>3, <2>4
  <1> QED
    BY <1>3, <1>5, <1>6 DEF Covered

LEMMA FreshCommit ==
    ASSUME Alone, IInv, NEW K, Covered(K), FInv(K), NEW r \in Requests, Commit(r)
    PROVE  FInv(K)'
  <1>1. PICK p : p = req[r].post
    OBVIOUS
  <1>2. PICK u : u = req[r].user
    OBVIOUS
  <1>3. /\ req[r] \in Request /\ req[r].pc = "commit" /\ req[r].op \in WriteOps
        /\ p \in Posts /\ u \in Users /\ req[r].op \in Ops
        /\ req \in [Requests -> Request] /\ db \in [Posts -> Row]
        /\ cache \in [Keys -> Entry \cup {None}]
    BY <1>1, <1>2, Running DEF Commit, IInv, TypeOK, FInv, ReqOK, WritePhases
  <1>4. PICK w \in Written(req[r]) :
           /\ db' = [db EXCEPT ![p] = w]
           /\ req' = [req EXCEPT ![r] =
                        IF w # db[p] /\ req[r].op \in {"update", "erase", "erase_db"}
                        THEN [req[r] EXCEPT !.pc = "delete"] ELSE Idle]
           /\ w = db[p] => \A k \in Keys : cache'[k] = cache[k]
    BY <1>1 DEF Commit
  <1>5. PICK q : /\ req' = [req EXCEPT ![r] = q] /\ q.pc \in {"idle", "delete"}
                 /\ q.pc = "delete" => q.user = u /\ q.post = p /\ q.op = req[r].op
                 /\ (w # db[p] /\ req[r].op \in {"update", "erase", "erase_db"}) => q.pc = "delete"
    <2>1. CASE w # db[p] /\ req[r].op \in {"update", "erase", "erase_db"}
      <3> DEFINE q == [req[r] EXCEPT !.pc = "delete"]
      <3>1. q.pc = "delete" /\ q.user = u /\ q.post = p /\ q.op = req[r].op
        BY <1>1, <1>2, <1>3 DEF Request
      <3>2. req' = [req EXCEPT ![r] = q]
        BY <1>4, <2>1
      <3> QED
        BY <3>1, <3>2
    <2>2. CASE ~(w # db[p] /\ req[r].op \in {"update", "erase", "erase_db"})
      BY <1>4, <2>2, IdleOK
    <2> QED
      BY <2>1, <2>2
  <1>6. req'[r] = q
    BY <1>3, <1>5
  <1>7. ReadOK(req[r], K)' /\ ~Reading(r)'
    BY <1>3, <1>5, <1>6 DEF ReadOK, Reading, ReadOps, WriteOps
  <1>8. \A k \in K : cache[k] # None =>
           \/ cache[k].missed
           \/ cache[k].value = AnswerFor(k, db) /\ (k[1] = "post_cache" => cache[k].value # {})
    <2>1. \A k : ~Pending(k)
      BY <1>3 DEF Pending, Alone
    <2> QED
      BY <2>1 DEF FInv, EntryOK
  <1>9. ASSUME NEW k \in K PROVE EntryOK(k)'
    <2>1. k \in Keys
      BY CoveredKeys
    <2>2. CASE w = db[p]
      <3>1. db' = db /\ cache'[k] = cache[k]
        BY <1>3, <1>4, <2>1, <2>2
      <3> QED
        BY <1>8, <3>1 DEF EntryOK
    <2>3. CASE w # db[p] /\ req[r].op \in {"update", "erase", "erase_db"} /\ k \in ListKeys(u) \cup {PostKey(u, p)}
      <3>1. Pending(k)'
        BY <1>5, <1>6, <2>3 DEF Pending
      <3> QED
        BY <3>1 DEF EntryOK
    <2>4. CASE cache[k] = None
      BY <2>1, <2>4, Marks DEF EntryOK
    <2> QED
      BY <1>1, <1>2, <1>3, <1>4, <1>8, <2>2, <2>3, <2>4, FreshCommitEntry
  <1> QED
    BY <1>3, <1>5, <1>7, <1>9, Whole

LEMMA FreshDelete ==
    ASSUME Alone, IInv, NEW K, Covered(K), FInv(K), NEW r \in Requests, Delete(r)
    PROVE  FInv(K)'
  <1>1. PICK p, u : p = req[r].post /\ u = req[r].user
    OBVIOUS
  <1> DEFINE phase == IF req[r].op = "update" THEN "scan" ELSE "extra"
             q     == [req[r] EXCEPT !.pc = phase]
  <1>2. /\ u \in Users
        /\ req[r] \in Request /\ req[r].pc = "delete" /\ req[r].op \in WriteOps /\ p \in Posts
        /\ req[r].op \in Ops /\ req \in [Requests -> Request] /\ db' = db
        /\ req' = [req EXCEPT ![r] = q] /\ cache' = [cache EXCEPT ![PostKey(u, p)] = None]
        /\ cache \in [Keys -> Entry \cup {None}]
    BY <1>1, Running DEF Delete, Goto, IInv, TypeOK, FInv, ReqOK, WritePhases
  <1>3. q.pc = phase /\ q.op = req[r].op /\ q.user = u /\ phase \in {"scan", "extra"}
        /\ (phase = "extra" => req[r].op # "update")
    BY <1>1, <1>2 DEF Request
  <1> HIDE DEF q, phase
  <1>4. req'[r] = q
    BY <1>2
  <1>5. ReadOK(req[r], K)' /\ ~Reading(r)'
    BY <1>2, <1>3, <1>4 DEF ReadOK, Reading, ReadOps, WriteOps
  <1>6. ASSUME NEW k \in K PROVE EntryOK(k)'
    <2>1. EntryOK(k) /\ k \in Keys
      BY CoveredKeys DEF FInv
    <2>2. CASE k = PostKey(u, p)
      BY <1>2, <2>1, <2>2 DEF EntryOK
    <2>3. CASE k # PostKey(u, p) /\ k \in ListKeys(u) /\ req[r].op = "update"
      <3>1. phase = "scan"
        BY <1>3, <2>3
      <3>2. Pending(k)'
        BY <1>3, <1>4, <2>3, <3>1 DEF Pending
      <3> QED
        BY <3>2 DEF EntryOK
    <2>4. CASE k # PostKey(u, p) /\ k \notin ListKeys(u)
      <3>1. ~Pending(k)
        BY <1>1, <1>2, <2>4 DEF Pending, Alone
      <3>2. cache'[k] = cache[k]
        BY <1>2, <2>1, <2>4
      <3> QED
        BY <1>2, <2>1, <3>1, <3>2 DEF EntryOK
    <2>5. CASE K = DetailKeys
      <3>1. k \notin ListKeys(u)
        BY <2>5 DEF DetailKeys, PostKey, ListKeys, ListKey
      <3> QED
        BY <2>2, <2>4, <3>1
    <2>6. CASE Ops \subseteq ReadOps \cup {"update"}
      <3>1. req[r].op = "update"
        BY <1>2, <2>6 DEF WriteOps, ReadOps
      <3> QED
        BY <2>2, <2>3, <2>4, <3>1
    <2> QED
      BY <2>5, <2>6 DEF Covered
  <1> QED
    BY <1>2, <1>3, <1>5, <1>6, Whole

LEMMA FreshScan ==
    ASSUME Alone, IInv, NEW K, Covered(K), FInv(K), NEW r \in Requests, Scan(r)
    PROVE  FInv(K)'
  <1>9. PICK u : u = req[r].user
    OBVIOUS
  <1> DEFINE found == {k \in ScanMatch(u) : cache[k] # None}
             q == [req[r] EXCEPT !.pc = "unlink", !.found = found]
  <1>1. /\ req[r] \in Request /\ req[r].pc = "scan" /\ req[r].op \in WriteOps /\ req[r].op \in Ops
        /\ req \in [Requests -> Request] /\ UNCHANGED <<db, cache>>
        /\ req' = [req EXCEPT ![r].pc = "unlink", ![r].found = found]
    BY <1>9, Running DEF Scan, IInv, TypeOK, FInv, ReqOK, WritePhases
  <1>2. q.pc = "unlink" /\ q.op = req[r].op /\ q.found = found
    BY <1>1 DEF Request
  <1>3. req' = [req EXCEPT ![r] = q]
    BY <1>1
  <1>4. \A k \in ListKeys(u) : cache[k] # None => k \in found
    BY DEF ScanMatch
  <1> HIDE DEF q, found
  <1>5. req'[r] = q
    BY <1>1, <1>3
  <1>6. ReadOK(req[r], K)' /\ ~Reading(r)'
    BY <1>1, <1>2, <1>5 DEF ReadOK, Reading, ReadOps, WriteOps
  <1>7. ASSUME NEW k \in K PROVE EntryOK(k)'
    <2>1. EntryOK(k)
      BY DEF FInv
    <2>2. CASE k \in ListKeys(u)
      <3>1. cache[k] # None => Pending(k)'
        BY <1>2, <1>4, <1>5, <2>2 DEF Pending
      <3> QED
        BY <1>1, <3>1 DEF EntryOK
    <2>3. CASE k \notin ListKeys(u)
      <3>1. ~Pending(k)
        BY <1>1, <1>9, <2>3 DEF Pending, Alone
      <3> QED
        BY <1>1, <2>1, <3>1 DEF EntryOK
    <2> QED
      BY <2>2, <2>3
  <1> QED
    BY <1>1, <1>2, <1>3, <1>6, <1>7, Whole

LEMMA FreshUnlink ==
    ASSUME Alone, IInv, NEW K, Covered(K), FInv(K), NEW r \in Requests, Unlink(r)
    PROVE  FInv(K)'
  <1>1. /\ req[r].pc = "unlink" /\ db' = db /\ Finish(r)
        /\ cache' = [k \in Keys |-> IF k \in req[r].found THEN None ELSE cache[k]]
    BY DEF Unlink
  <1>2. ASSUME NEW k \in K PROVE EntryOK(k)'
    <2>1. EntryOK(k) /\ k \in Keys
      BY CoveredKeys DEF FInv
    <2>2. CASE k \in req[r].found
      BY <1>1, <2>1, <2>2 DEF EntryOK
    <2>3. CASE k \notin req[r].found
      <3>1. ~Pending(k)
        BY <1>1, <2>3 DEF Pending, Alone
      <3>2. cache'[k] = cache[k]
        BY <1>1, <2>1, <2>3
      <3> QED
        BY <1>1, <2>1, <3>1, <3>2 DEF EntryOK
    <2> QED
      BY <2>2, <2>3
  <1> QED
    BY <1>1, <1>2, FreshEnd

LEMMA FreshTick == ASSUME IInv, NEW K, Covered(K), FInv(K), Tick PROVE FInv(K)'
  <1>1. UNCHANGED <<db, req, held>> /\ cache \in [Keys -> Entry \cup {None}]
    BY DEF Tick, IInv, TypeOK
  <1>2. ASSUME NEW k \in K PROVE EntryOK(k)'
    <2>1. EntryOK(k) /\ k \in Keys
      BY CoveredKeys DEF FInv
    <2>2. cache'[k] = IF cache[k] = None \/ cache[k].ttl = NoTTL THEN cache[k]
                      ELSE IF cache[k].ttl = 1 THEN None
                      ELSE [cache[k] EXCEPT !.ttl = @ - 1]
      BY <2>1 DEF Tick
    <2>3. cache'[k] # None => /\ cache[k] # None
                              /\ cache'[k].value = cache[k].value /\ cache'[k].missed = cache[k].missed
      BY <1>1, <2>1, <2>2 DEF Entry
    <2>4. Pending(k)' = Pending(k)
      BY <1>1 DEF Pending
    <2> QED
      BY <1>1, <2>1, <2>3, <2>4 DEF EntryOK
  <1> QED
    BY <1>1, <1>2 DEF FInv, ReadOK, Reading

LEMMA FreshInit == ASSUME NEW K, Covered(K), Init PROVE FInv(K)
  <1>1. \A k \in K : k \in Keys
    BY CoveredKeys
  <1>2. \A r \in Requests : req[r] = Idle
    BY DEF Init
  <1> QED
    BY <1>1, <1>2, IdleOK DEF Init, FInv, EntryOK, ReadOK, Reading

LEMMA FreshNext ==
    ASSUME Alone, NEW K, Covered(K), IInv, FInv(K), [Next]_vars
    PROVE  FInv(K)'
  <1>1. ASSUME NEW r \in Requests, BeginRead(r) \/ BeginWrite(r) PROVE FInv(K)'
    BY <1>1, FreshBegin
  <1>2. ASSUME NEW r \in Requests, Serve(r) PROVE FInv(K)'
    BY <1>2, FreshLookup, FreshQuery, FreshSet, FreshExpire, FreshReply, FreshCommit,
       FreshDelete, FreshScan, FreshUnlink DEF Serve
  <1>3. ASSUME NEW r \in Requests, Fail(r) PROVE FInv(K)'
    BY <1>3 DEF Fail, Alone
  <1>4. CASE Tick
    BY <1>4, FreshTick
  <1>5. CASE UNCHANGED vars
    BY <1>5 DEF vars, FInv, EntryOK, ReadOK, Reading, Pending
  <1> QED
    BY <1>1, <1>2, <1>3, <1>4, <1>5 DEF Next

LEMMA FreshAnswers ==
    ASSUME IInv, NEW K, FInv(K), NEW r \in Requests, req[r].pc = "reply", Key(req[r]) \in K,
           ~req[r].missed
    PROVE  /\ db \in held[r]
           /\ req[r].value = AnswerFor(Key(req[r]), db) \/ req[r].value = Query(req[r], db)
  BY Running DEF FInv, ReadOK, Reading, ReqOK, ReadPhases

-----------------------------------------------------------------------------
(* Theorems about one request at a time.                                   *)

\* One request at a time and Redis answering, the read of a post is fresh
\* whatever creates, updates and erases posts, unless what it is served was
\* stored before an update under another user's path, and not since.  Every
\* other such write removes the key.  Decisions and revisions are excluded,
\* they remove nothing.
THEOREM DetailFreshWhenAlone ==
    ASSUME Alone, Ops \cap {"moderate", "revise"} = {}
    PROVE  Spec => []DetailFreshUnlessMissed
  <1>1. Covered(DetailKeys)
    BY DEF Covered
  <1>2. Init => FInv(DetailKeys)
    BY <1>1, FreshInit
  <1>3. IInv /\ FInv(DetailKeys) /\ [Next]_vars => FInv(DetailKeys)'
    BY <1>1, FreshNext
  <1>4. IInv /\ FInv(DetailKeys) => DetailFreshUnlessMissed
    <2> SUFFICES ASSUME IInv, FInv(DetailKeys), NEW r \in Requests,
                        req[r].pc = "reply", req[r].op = "get", ~req[r].missed
                 PROVE  \E d \in held[r], c \in {"author", req[r].caller} :
                            req[r].value = Query([req[r] EXCEPT !.caller = c], d)
      BY DEF DetailFreshUnlessMissed, Answers, FreshDetailAnswer
    <2>1. req[r] \in Request /\ req[r].post \in Posts /\ req[r].user \in Users
      BY Running DEF ReqOK, ReadPhases
    <2>2. Key(req[r]) = PostKey(req[r].user, req[r].post) /\ Key(req[r]) \in DetailKeys
      BY <2>1 DEF Key, DetailKeys
    <2>3. db \in held[r] /\ (req[r].value = AnswerFor(Key(req[r]), db) \/ req[r].value = Query(req[r], db))
      BY <2>2, FreshAnswers
    <2>4. AnswerFor(Key(req[r]), db) = Query([req[r] EXCEPT !.caller = "author"], db)
      <3> DEFINE a == [Idle EXCEPT !.op = "get", !.caller = "author", !.user = req[r].user,
                                   !.post = req[r].post]
                 b == [req[r] EXCEPT !.caller = "author"]
      <3>1. a.op = "get" /\ a.caller = "author" /\ a.user = req[r].user /\ a.post = req[r].post
        BY DEF Idle
      <3>2. b.op = "get" /\ b.caller = "author" /\ b.user = req[r].user /\ b.post = req[r].post
        BY <2>1 DEF Request
      <3>3. AnswerFor(Key(req[r]), db) = Query(a, db)
        BY <2>2 DEF AnswerFor, PostKey
      <3> HIDE DEF a, b
      <3>4. Query(a, db) = Query(b, db)
        BY <3>1, <3>2, SameQuery DEF SeesAll
      <3> QED
        BY <3>3, <3>4 DEF b
    <2>5. Query(req[r], db) = Query([req[r] EXCEPT !.caller = req[r].caller], db)
      BY <2>1 DEF Request
    <2> QED
      BY <2>3, <2>4, <2>5
  <1> QED
    BY <1>2, <1>3, <1>4, AlwaysIInv, PTL DEF Spec

\* One request at a time and Redis answering, an update under the author's
\* path leaves no list of the author's posts stale, the pattern finds every
\* view that is stored; an update under another's does, until the list is
\* stored again.  (An erase always does, it deletes a key nothing is stored
\* under.)
THEOREM ListFreshWhenAlone ==
    ASSUME Alone, Ops \subseteq ReadOps \cup {"update"}
    PROVE  Spec => []ListFreshUnlessMissed
  <1>1. Covered(EveryListKey)
    BY DEF Covered
  <1>2. Init => FInv(EveryListKey)
    BY <1>1, FreshInit
  <1>3. IInv /\ FInv(EveryListKey) /\ [Next]_vars => FInv(EveryListKey)'
    BY <1>1, FreshNext
  <1>4. IInv /\ FInv(EveryListKey) => ListFreshUnlessMissed
    <2> SUFFICES ASSUME IInv, FInv(EveryListKey), NEW r \in Requests,
                        req[r].pc = "reply", req[r].op = "list", ~req[r].missed
                 PROVE  \E d \in held[r] : req[r].value = Query(req[r], d)
      BY DEF ListFreshUnlessMissed, Answers, FreshListAnswer
    <2>1. req[r] \in Request /\ db \in [Posts -> Row] /\ req[r].user \in Users
      BY Running DEF ReqOK, ReadPhases
    <2>2. Key(req[r]) \in EveryListKey
      BY <2>1 DEF Key, EveryListKey, ListKeys, ListKey
    <2>3. db \in held[r] /\ (req[r].value = AnswerFor(Key(req[r]), db) \/ req[r].value = Query(req[r], db))
      BY <2>2, FreshAnswers
    <2>4. Query(req[r], db) = AnswerFor(Key(req[r]), db)
      BY <2>1, AnswerOfKey
    <2> QED
      BY <2>3, <2>4
  <1> QED
    BY <1>2, <1>3, <1>4, AlwaysIInv, PTL DEF Spec

=============================================================================
