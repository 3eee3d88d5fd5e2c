----------------------------- MODULE PostCache ------------------------------
(***************************************************************************)
(* The Redis cache in front of the post endpoints: the cache decorator     *)
(* (src/api/src/app/adapters/cache/redis_cache.py) and the keys the post   *)
(* routers give it.                                                        *)
(*                                                                         *)
(* A GET looks its key up, and on a miss queries the database, SETs the    *)
(* key and then gives it a time to live, four awaits between which other   *)
(* requests run:                                                           *)
(*                                                                         *)
(*   idle -> lookup -> query -> set -> expire -> reply                     *)
(*               `------- hit -------------------^                         *)
(*                                                                         *)
(* A write commits first and invalidates afterwards, key by key; which     *)
(* keys depends on the endpoint, and create, moderate and revise           *)
(* invalidate none:                                                        *)
(*                                                                         *)
(*   idle -> commit -> delete -> scan -> unlink      update                *)
(*   idle -> commit -> delete -> extra               erase, erase_db       *)
(*   idle -> commit                                  create, moderate, ... *)
(*                                                                         *)
(* The keys name the user of the path.  A read shows posts of that user    *)
(* only, and an erase is refused for another's post; an update finds the   *)
(* post by its id alone, so that a user who updates another's post under   *)
(* her own path removes her own keys and passes over the author's.         *)
(*                                                                         *)
(* Abstractions: no account is deactivated; the lists have one page; a     *)
(* write is one step (Moderation opens it up); a post's content is the     *)
(* number of writes it has seen; times to live are counted in ticks.       *)
(***************************************************************************)
EXTENDS Naturals

CONSTANTS Users,
          Posts,
          AuthorOf,    \* created_by_user_id, which nothing changes
          Requests,    \* requests the server works on at once
          Ops,         \* the endpoints this instance calls
          PostTTL,     \* expiration of get_post, 3600 s
          ListTTL,     \* expiration of the lists, 60 s
          CanFail,     \* Redis may fail, or the server stop, in a request
          MaxVersion,  \* bound: writes a post sees
          None

ASSUME AuthorAssumption == AuthorOf \in [Posts -> Users]
ASSUME TTLAssumption == PostTTL \in Nat \ {0} /\ ListTTL \in 1..PostTTL
ASSUME FailAssumption == CanFail \in BOOLEAN
ASSUME BoundAssumption == MaxVersion \in Nat

VARIABLES db,     \* table "post"
          cache,  \* Redis
          req,    \* the server's requests
          held    \* history: the rows the database has held since a read began

vars == <<db, cache, req, held>>

ReadOps  == {"get", "list", "list_all"}
WriteOps == {"create", "moderate", "revise", "update", "erase", "erase_db"}
Statuses == {"pending_review", "changes_requested", "approved"}
Callers  == {"author", "privileged", "public"}  \* "author": the user of the path
Phases   == {"idle", "lookup", "query", "set", "expire", "reply",
             "commit", "delete", "extra", "scan", "unlink"}

Row  == [row : {"unborn", "live", "erased", "purged"}, status : Statuses, version : 0..MaxVersion]
Item == [post : Posts, status : Statuses, version : 0..MaxVersion]

\* The keys of user u: one per post, one per view of the list; erase deletes
\* the bare "posts" key, under which no endpoint stores anything.
PostKey(u, p)    == <<"post_cache", u, p>>
BareKey(u)       == <<"posts", u, "">>
ListKey(u, view) == <<"posts", u, view>>
ListKeys(u)      == {ListKey(u, view) : view \in {"author", "public"}}
AllKeys          == {<<"all_posts", "privileged">>, <<"all_posts", "public">>}
Keys             == {PostKey(u, p) : u \in Users, p \in Posts} \cup {BareKey(u) : u \in Users}
                      \cup {ListKey(u, view) : u \in Users, view \in {"author", "public"}} \cup AllKeys
ScanMatch(u)  == ListKeys(u)    \* "{user_id}_posts:*", a colon with something after it

TTL(k) == IF k[1] = "post_cache" THEN PostTTL ELSE ListTTL

\* An entry SET but not EXPIREd yet has no time to live.  History: cut, a
\* request that SET the key has ended before its EXPIRE; missed, an update
\* under another user's path has changed what the entry shows.
NoTTL == 0
Entry == [value : SUBSET Item, ttl : 0..PostTTL, cut : BOOLEAN, missed : BOOLEAN]
Stored(value) == [value |-> value, ttl |-> NoTTL, cut |-> FALSE, missed |-> FALSE]
ASSUME NoneAssumption == None \notin Users \cup Posts \cup Entry

\* user: the one of the path.  History: missed, of the entry that was hit.
Request == [pc     : Phases,
            op     : ReadOps \cup WriteOps,
            caller : Callers,
            user   : Users \cup {None},
            post   : Posts \cup {None},
            value  : SUBSET Item,
            found  : SUBSET Keys,
            missed : BOOLEAN]

Idle == [pc |-> "idle", op |-> "get", caller |-> "public", user |-> None, post |-> None,
         value |-> {}, found |-> {}, missed |-> FALSE]

\* Defect: one key for the two views of a list.
Key_NoView(q) ==
    CASE q.op = "get"  -> PostKey(q.user, q.post)
      [] q.op = "list" -> ListKey(q.user, "public")
      [] OTHER         -> <<"all_posts", "public">>

\* The key of a read: the caller is part of it for the lists only.
Key(q) ==
    CASE q.op = "get"  -> PostKey(q.user, q.post)
      [] q.op = "list" -> ListKey(q.user, IF q.caller = "author" THEN "author" ELSE "public")
      [] OTHER         -> <<"all_posts", IF q.caller = "privileged" THEN "privileged" ELSE "public">>

\* What the use cases show a caller of the rows d.
SeesAll(q) ==
    CASE q.op = "get"  -> q.caller # "public"
      [] q.op = "list" -> q.caller = "author"
      [] OTHER         -> q.caller = "privileged"

Query(q, d) ==
    LET shown == {p \in Posts : /\ d[p].row = "live"
                                /\ SeesAll(q) \/ d[p].status = "approved"
                                /\ q.op = "get" => p = q.post
                                /\ q.op # "list_all" => AuthorOf[p] = q.user}
    IN {[post |-> p, status |-> d[p].status, version |-> d[p].version] : p \in shown}

Reading(r) == req[r].pc # "idle" /\ req[r].op \in ReadOps

-----------------------------------------------------------------------------
\* The server starts on an empty cache and any database.
Init ==
    /\ db \in [Posts -> {w \in Row : w.row \in {"unborn", "live"} /\ w.version = 0
                                      /\ (w.row = "unborn" => w.status = "pending_review")}]
    /\ cache = [k \in Keys |-> None]
    /\ req = [r \in Requests |-> Idle]
    /\ held = [r \in Requests |-> {}]

Goto(r, phase) == req' = [req EXCEPT ![r].pc = phase]
Finish(r)      == req' = [req EXCEPT ![r] = Idle] /\ held' = [held EXCEPT ![r] = {}]

BeginRead(r) ==
    \E op \in Ops \cap ReadOps, c \in Callers, u \in Users \cup {None}, p \in Posts \cup {None} :
        LET q == [Idle EXCEPT !.pc = "lookup", !.op = op, !.caller = c, !.user = u, !.post = p] IN
        /\ req[r].pc = "idle"
        /\ (op = "get") = (p # None) /\ (op = "list_all") = (u = None)
        /\ req' = [req EXCEPT ![r] = q]
        /\ held' = [held EXCEPT ![r] = {db}]
        /\ UNCHANGED <<db, cache>>

Writing(p) == {r \in Requests : req[r].pc # "idle" /\ req[r].op \in WriteOps /\ req[r].post = p}

\* Only an update or an erase can name a post and, in its path, a user who is
\* not its author.  Bound: one write per post is under way at a time.
BeginWrite(r) ==
    \E op \in Ops \cap WriteOps, u \in Users, p \in Posts :
        LET q == [Idle EXCEPT !.pc = "commit", !.op = op, !.user = u, !.post = p] IN
        /\ req[r].pc = "idle"
        /\ u = AuthorOf[p] \/ op \in {"update", "erase", "erase_db"}
        /\ db[p].version < MaxVersion /\ Writing(p) = {}
        /\ req' = [req EXCEPT ![r] = q]
        /\ UNCHANGED <<db, cache, held>>

-----------------------------------------------------------------------------
(* GET.                                                                    *)

Lookup(r) ==
    LET e == cache[Key(req[r])] IN
    /\ req[r].pc = "lookup"
    /\ req' = [req EXCEPT ![r] = IF e = None THEN [@ EXCEPT !.pc = "query"]
                                 ELSE [@ EXCEPT !.pc = "reply", !.value = e.value, !.missed = e.missed]]
    /\ UNCHANGED <<db, cache, held>>

\* The endpoint runs.  A post that is not there, or not to be shown, is a
\* 404: the exception leaves the decorator and nothing is cached.
RunQuery(r) ==
    LET found == Query(req[r], db) IN
    /\ req[r].pc = "query"
    /\ req' = [req EXCEPT ![r].value = found,
                          ![r].pc = IF req[r].op = "get" /\ found = {} THEN "reply" ELSE "set"]
    /\ UNCHANGED <<db, cache, held>>

\* Defect: EXPIRE sent for a new key only, though SET has cleared the old one.
Set_KeepsTTL(r) ==
    LET k == Key(req[r]) IN
    /\ req[r].pc = "set"
    /\ cache' = [cache EXCEPT ![k] = Stored(req[r].value)]
    /\ Goto(r, IF cache[k] = None THEN "expire" ELSE "reply")
    /\ UNCHANGED <<db, held>>

\* SET, which also clears the time to live of an entry that was there ...
Set(r) ==
    /\ req[r].pc = "set"
    /\ cache' = [cache EXCEPT ![Key(req[r])] = Stored(req[r].value)]
    /\ Goto(r, "expire")
    /\ UNCHANGED <<db, held>>

\* Defects: EXPIRE sent for the prefix without the id, its unit mistaken.
Expire_Prefix(r) ==
    /\ req[r].pc = "expire"
    /\ Goto(r, "reply")
    /\ UNCHANGED <<db, cache, held>>

Expire_Milliseconds(r) ==
    LET k == Key(req[r]) IN
    /\ req[r].pc = "expire"
    /\ cache' = IF cache[k] = None THEN cache ELSE [cache EXCEPT ![k].ttl = TTL(k) * 1000]
    /\ Goto(r, "reply")
    /\ UNCHANGED <<db, held>>

\* ... and EXPIRE, which does nothing for a key deleted in between.
Expire(r) ==
    LET k == Key(req[r]) IN
    /\ req[r].pc = "expire"
    /\ cache' = IF cache[k] = None THEN cache ELSE [cache EXCEPT ![k].ttl = TTL(k), ![k].cut = FALSE]
    /\ Goto(r, "reply")
    /\ UNCHANGED <<db, held>>

Reply(r) ==
    /\ req[r].pc = "reply"
    /\ Finish(r)
    /\ UNCHANGED <<db, cache>>

-----------------------------------------------------------------------------
(* Writes.                                                                 *)

\* The row a write leaves, or the same row if the use case refuses it: the
\* erases want a post of the path's user, an update any.
Written(q) ==
    LET w   == db[q.post]
        own == q.user = AuthorOf[q.post]
        to(row, status) == [row |-> row, status |-> status, version |-> w.version + 1]
    IN CASE q.op = "create" /\ w.row = "unborn" -> {to("live", "pending_review")}
         [] q.op = "moderate" /\ w.row \in {"live", "erased"} /\ w.status # "approved" ->
               {to(w.row, "approved"), to(w.row, "changes_requested")}
         [] q.op = "revise" /\ w.row \in {"live", "erased"} /\ w.status = "changes_requested" ->
               {to(w.row, "pending_review")}
         [] q.op = "update" /\ w.row = "live" -> {to("live", w.status)}
         [] q.op = "erase" /\ w.row = "live" /\ own -> {to("erased", w.status)}
         [] q.op = "erase_db" /\ w.row = "live" /\ own -> {to("purged", w.status)}
         [] OTHER -> {w}

\* The keys of the author that an update under another's path makes stale.
PassedOver(q) == LET a == AuthorOf[q.post] IN
    IF q.op = "update" /\ q.user # a THEN {PostKey(a, q.post)} \cup ListKeys(a) ELSE {}

Commit(r) ==
    LET q == req[r] IN
    /\ q.pc = "commit"
    /\ \E w \in Written(q) :
          LET d    == [db EXCEPT ![q.post] = w]
              done == w # db[q.post]
              invalidates == done /\ q.op \in {"update", "erase", "erase_db"}
          IN
          /\ db' = d
          /\ req' = [req EXCEPT ![r] = IF invalidates THEN [@ EXCEPT !.pc = "delete"] ELSE Idle]
          /\ held' = [s \in Requests |-> IF Reading(s) THEN held[s] \cup {d}
                                         ELSE held[s]]
          /\ cache' = [k \in Keys |->
                          IF done /\ k \in PassedOver(q) /\ cache[k] # None
                          THEN [cache[k] EXCEPT !.missed = TRUE] ELSE cache[k]]

\* Defect: the key of the post left in the cache.
Delete_Skipped(r) ==
    /\ req[r].pc = "delete"
    /\ Goto(r, IF req[r].op = "update" THEN "scan" ELSE "extra")
    /\ UNCHANGED <<db, cache, held>>

\* DEL of the key of the post, with the user of the path.
Delete(r) ==
    /\ req[r].pc = "delete"
    /\ cache' = [cache EXCEPT ![PostKey(req[r].user, req[r].post)] = None]
    /\ Goto(r, IF req[r].op = "update" THEN "scan" ELSE "extra")
    /\ UNCHANGED <<db, held>>

\* to_invalidate_extra: DEL of one more key, taken literally.
DeleteExtra(r) ==
    /\ req[r].pc = "extra"
    /\ cache' = [cache EXCEPT ![BareKey(req[r].user)] = None]
    /\ Finish(r)
    /\ UNCHANGED db

\* Defect: the keys of one view matched only.
Scan_AuthorView(r) ==
    /\ req[r].pc = "scan"
    /\ req' = [req EXCEPT ![r].pc = "unlink",
                          ![r].found = {k \in ScanMatch(req[r].user) : cache[k] # None /\ k[3] = "author"}]
    /\ UNCHANGED <<db, cache, held>>

\* _delete_keys_by_pattern: SCAN for the keys that match ...
Scan(r) ==
    /\ req[r].pc = "scan"
    /\ req' = [req EXCEPT ![r].pc = "unlink",
                          ![r].found = {k \in ScanMatch(req[r].user) : cache[k] # None}]
    /\ UNCHANGED <<db, cache, held>>

\* ... and DEL of what was found.
Unlink(r) ==
    /\ req[r].pc = "unlink"
    /\ cache' = [k \in Keys |-> IF k \in req[r].found THEN None ELSE cache[k]]
    /\ Finish(r)
    /\ UNCHANGED db

-----------------------------------------------------------------------------
\* Time passes in Redis.
Tick ==
    /\ cache' = [k \in Keys |->
                   IF cache[k] = None \/ cache[k].ttl = NoTTL THEN cache[k]
                   ELSE IF cache[k].ttl = 1 THEN None
                   ELSE [cache[k] EXCEPT !.ttl = @ - 1]]
    /\ UNCHANGED <<db, req, held>>

\* A call to Redis raises, or the server stops: the request ends where it is.
Fail(r) ==
    /\ CanFail
    /\ req[r].pc # "idle"
    /\ LET k == Key(req[r]) IN
       cache' = IF req[r].pc = "expire" /\ cache[k] # None THEN [cache EXCEPT ![k].cut = TRUE]
                ELSE cache
    /\ Finish(r)
    /\ UNCHANGED db

Serve(r) == Lookup(r) \/ RunQuery(r) \/ Set(r) \/ Expire(r) \/ Reply(r)
              \/ Commit(r) \/ Delete(r) \/ DeleteExtra(r) \/ Scan(r) \/ Unlink(r)

Next == \/ \E r \in Requests : BeginRead(r) \/ BeginWrite(r) \/ Serve(r) \/ Fail(r)
        \/ Tick

Spec == Init /\ [][Next]_vars

\* Redis's clock runs and the event loop resumes every request.
FairSpec == Spec /\ WF_vars(Tick) /\ \A r \in Requests : WF_vars(Serve(r))

-----------------------------------------------------------------------------
(* Properties                                                              *)

\* Type invariant.
TypeOK ==
    /\ db \in [Posts -> Row]
    /\ cache \in [Keys -> Entry \cup {None}]
    /\ req \in [Requests -> Request]
    /\ held \in [Requests -> SUBSET [Posts -> Row]]

\* Freshness within the time to live rests on every entry having one: an
\* entry without is one that a request has SET and is about to EXPIRE, though
\* others SET and delete the same key in between; unless a request was cut
\* off between the two calls, which strands the entry.
EveryEntryExpires ==
    \A k \in Keys : (cache[k] # None /\ cache[k].ttl = NoTTL) =>
        cache[k].cut \/ \E r \in Requests : req[r].pc = "expire" /\ Key(req[r]) = k

\* A public list, wherever it comes from, was approved as a whole: no other
\* caller's list, and no status read for another view, gets under its key.
PublicListsAreApproved ==
    \A r \in Requests :
        (req[r].pc = "reply" /\ req[r].op # "get" /\ ~SeesAll(req[r])) =>
            \A i \in req[r].value : i.status = "approved"

\* What a list answers with the database held at some moment since the read
\* began: what was written and answered before is in it.
FreshListAnswer(q, past) == \E d \in past : q.value = Query(q, d)

\* So for the read of one post, but for whom it is shown to: the key is the
\* same for everyone, and what was stored for one is served to the next.
FreshDetailAnswer(q, past) ==
    \E d \in past, c \in {"author", q.caller} : q.value = Query([q EXCEPT !.caller = c], d)

Answers(r, op) == req[r].pc = "reply" /\ req[r].op = op

\* What the specifications of the endpoints say: a read is served nothing that
\* an update or a deletion answered before has replaced.
FreshList   == \A r \in Requests : Answers(r, "list") => FreshListAnswer(req[r], held[r])
FreshDetail == \A r \in Requests : Answers(r, "get") => FreshDetailAnswer(req[r], held[r])

\* Updates reach every cached answer they change, whichever view or caller it
\* was stored for; but one under another user's path misses the author's.  What
\* it missed is all that is ever served stale, until it is stored again.
ListFreshUnlessMissed ==
    \A r \in Requests :
        (Answers(r, "list") /\ ~req[r].missed) => FreshListAnswer(req[r], held[r])

DetailFreshUnlessMissed ==
    \A r \in Requests :
        (Answers(r, "get") /\ ~req[r].missed) => FreshDetailAnswer(req[r], held[r])

\* An entry the database no longer agrees with goes away or is replaced, if
\* it is not stranded: no sequence of fills, hits and writes keeps it alive.
Stale(k) ==
    /\ cache[k] # None
    /\ \A q \in {[Idle EXCEPT !.op = op, !.caller = c, !.user = u, !.post = p] :
                   op \in ReadOps, c \in Callers, u \in Users, p \in Posts} :
          Key(q) = k => cache[k].value # Query(q, db)
Stranded(k) == cache[k] # None /\ cache[k].ttl = NoTTL /\ cache[k].cut
StaleEntriesGoAway == \A k \in Keys : Stale(k) ~> (Stranded(k) \/ ~Stale(k))
=============================================================================
