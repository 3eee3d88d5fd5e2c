# Formal models of the moderated blog

TLA+ models of the API under `src/api/src/app` (FastAPI, PostgreSQL, Redis) and
of the session and the lists of the Flutter client under `src/flutter/lib`.
Each module is translated from the code and says in its header what it
abstracts. TLC checks small instances; TLAPS proves the theorems of the
`…Proofs` modules for every value of the constants. `PROJECT.json` maps
definitions to lines, lists the runs, the defect each property detects
(`mutants`), the hazards of the code and the findings.

## 1. Inventory

| Component | State | Operations | Interacts with | What is hard | Correct when |
|---|---|---|---|---|---|
| Post moderation (`features/posts/{create,moderate,revise,update,erase,erase_db}_post`, `get_moderation_log`) | tables `post`, `post_moderation_log` | seven endpoints | accounts (roles, ownership, foreign keys), cache | each request is a chain of transactions; checks run on rows read in an earlier one; hard deletes | status and log agree; entries attributed to the right side; revisions were asked for; nothing orphaned; every request ends |
| Response cache (`adapters/cache/redis_cache.py`, `get_post`, `list_posts`, `list_all_posts`) | Redis keys with times to live | GET: get, set, expire; writes: delete, scan | every post endpoint | fill and invalidation interleave; two-call expiry; keys written in different modules | reads after a write are fresh; entries expire; answers fit the caller |
| Accounts (`features/users`) | table `user` | register, update, role, deletion, tier, reads | moderation, tokens, tiers | checked in one session, written in another; unique columns and foreign keys decide | unique names; references stay valid; roles have a grantor |
| Tiers and rate limits (`features/tiers`, `features/rate_limits`) | tables `tier`, `rate_limit` | CRUD | accounts, limiter | as above | no dangling tier |
| Tokens (`core/security.py`, `features/auth`, `adapters/db/token_blacklist`) | blacklist table, JWTs held by clients | login, refresh, logout, authentication | accounts (by username) | logout in two transactions; renames; equal tokens | a logged-out token stays dead; a token speaks for its owner |
| Session pool (`adapters/db/session.py`) | connections | check out, return, time out | every request | a request holds one connection and asks for a second | nothing leaks; everybody is answered |
| Rate limiter (`adapters/rate_limit`, `shared_dependencies.py`) | Redis counters | incr, expire | rate limits, pool | two-call expiry; windows; rules that change | counters vanish; limits hold per window |
| Health, tasks, start and stop (`features/{health,tasks}`, `bootstrap/factory.py`) | — | `/ready`, `/tasks/task`, lifespan | pool, limiter | killed with requests open | part of the two above |
| Client session (`core/auth`, `core/network`) | auth state, token in memory, token in storage | bootstrap, login, logout, forced logout | tokens | callbacks between awaits; the app is killed | the three agree; a refusal signs out |
| Moderation queue, lists and event bus (`list_*`, `*_cubit`, `PostEventBus`) | pages loaded | load, refresh, loadMore, events | moderation, accounts | several statements per page, shifting pages, late answers | a list is a snapshot; nothing resurrected |
| Client forms, screens, routing, theme, translations | form state | submit | lists through the bus | little | — |
| Configuration, logging, middleware, DI, migrations, deployment | — | — | — | — | — |

## 2. Modules

| Module | Models | Uses | Abstract specification | Checked by | Proved in |
|---|---|---|---|---|---|
| `Moderation` | post moderation | — | `PostWorkflow` | `MC_Moderation` | `ModerationProofs` |
| `Overlap` | which of its requests overlapped a commit | `Moderation` | `PostWorkflow!LifecycleNext`, history variable `raced` | `MC_Overlap` | `OverlapProofs` |
| `PostCache` | response cache | — | history variable `held` | `MC_PostCache` | `PostCacheProofs` |
| `Accounts` | accounts, tiers, rate limits | — | `Registry`, history variable `raced` | `MC_Accounts` | `AccountsProofs` |
| `AuthTokens` | tokens and authentication | — | history variables `issued`, `out`, `owners` | through `ClientAuth` | `ClientAuthProofs` |
| `ClientAuth` | client session composed with the server's tokens | `AuthTokens` | history variable `tangled` | `MC_ClientAuth` | `ClientAuthProofs`, `ClientSessionProofs` |
| `RequestGate` | pool, dependencies, limiter, health, tasks, lifespan | — | history variables `served`, `used`, `orphans` | `MC_RequestGate` | `RequestGateProofs` |
| `PagedLists` | list queries composed with the list cubits and the event bus | — | history variables `past`, `gone`, `vs` and `left` | `MC_PagedLists` | `PagedListsProofs` |

`MC_` modules give constants their values for TLC and, where they say so,
narrow the initial state; they change no action.

What interacts is composed where the interaction is the hazard: token and
client, list query and list cubit, pool and limiter, each in one state space.
Across those pairs a module keeps of its neighbour what it needs: `Moderation`
the roles, deactivation and deletion of accounts, `AuthTokens` their renames and
deactivation, `RequestGate` rate limits that change under it, `PagedLists` the
status changes of posts.

Requests to the API are alike in `Moderation`, `PostCache`, `Accounts`,
`AuthTokens` and `RequestGate`: a function from a small set of slots to a record
with a program counter, the values read so far and, where a property needs it,
the status code. Each database session or Redis call is one action, because
between any two of them the event loop may run another request. PostgreSQL (READ
COMMITTED, row locks, unique columns, foreign keys) and Redis are modelled from
how the code uses them.

Left for later: an abstract session that `ClientAuth` implements when logins and
clearings do not overlap; the response cache of accounts.

## 3. Moderation

`moderate_post` and `revise_post` update the row and insert the log row in one
transaction; they take two actions, `UpdateStatus` (which waits for the row lock
and holds it) and `CommitDecision` or `CommitRevision`, so that a crash, another
writer or the deletion of the caller's account can come in between.

| Action | Code |
|---|---|
| `Begin…` | the router and its dependencies `get_current_user`, `get_current_moderator_or_superuser`, `get_current_superuser` |
| `LookupUser` | `UserLookupAdapter.get_active_user_by_id`, then `check_post_owner` |
| `ReadForModeration`, `ReadForRevision`, `ReadForUpdate`, `ReadForErase`, `ReadForLog` | the read of the post and the checks of the use case |
| `InsertPost`, `WriteContent`, `SoftDelete` | the transactions of create, update, erase |
| `UpdateStatus`, `CommitDecision`, `CommitRevision` | `apply_decision`, `apply_revision` |
| `LoadForPurge`, `PurgePost` | `hard_delete`: load with the log rows, then delete and commit |
| `ShowLog` | the second statement of `get_moderation_log` |
| `SetRole`, `SoftDeleteUser`, `PurgeUser` | the committing statements of the user endpoints |
| `Crash` | the process stops, PostgreSQL rolls back |

`post`, `log`, `account` and `moderators` are the committed contents of the
tables. `approvedText` is a history variable that only
`PublishedTextWasApproved` reads.

`PostWorkflow` is the abstract specification: post states, authors and the
audit trail, one step per operation. Its `TrailSpec` is what overlapping
requests keep, its `LifecycleSpec` the state machine of the use cases' guards,
in which `approved` is final and a revision answers the current status.
`Moderation!Workflow` maps the tables to it. `Overlap` adds a history
variable, the requests during which another one committed, and states that any
step in which no such request takes part is a step of `LifecycleSpec`
(`LifecycleWhenAlone`): only overlap gets past the guards.

Three accounts, two in `purge`: an author, a moderator and a superuser (who
may also write posts and moderate). One post is enough because every action touches one; its
log is cut off at `MaxLog` rows, at which no further decision is started.

| Run | Instance | Shows |
|---|---|---|
| `review` | 2 requests; create, moderate, revise, erase, get_log; 4 log rows | `TypeOK`, `LogExplainsStatus`, `LogAttribution`, `RevisionWasAsked`; `TrailRefinement`, `LifecycleWhenAlone`. Two requests suffice for one to commit any number of times between another's check and its write; four rows for a decision, its revision and a second round |
| `purge` | 2 requests, fair; all seven endpoints; the moderator and the superuser only; the moderator's account changes role, is deactivated and deleted; 2 log rows | `NoOrphans`, `LogGrowsOrGoes`, `RequestsAnswered`. Both accounts write posts and review the other's, so the deleted account is met as author and as reviewer |
| `terminal` | 2 requests | `ApprovedIsTerminal` does **not** hold: two decisions on one pending post, the later overwrites the approval |
| `published` | 1 request | `PublishedTextWasApproved` does **not** hold: `update` changes an approved text in place |

The last two are claims of `api/specs/features/moderation/0012_moderation/prd.md`;
the findings quote them. The same document calls the log append-only (line 385),
which the code does not take to include the hard delete of a post: the log goes
with it, and `LogGrowsOrGoes` says so.

Deadlock is checked in all of them: `Quiet` lets a server without open requests
wait, one with an open request must be able to move.

**Fairness** (`FairSpec`). The event loop resumes every request whose reply has
come: weak fairness of `Read` and `Commit`. PostgreSQL grants a row lock in the
order it was asked for, so a waiting request is not passed over for ever: strong
fairness of the actions that need the lock (`TakeLock`). Nothing is assumed of
arrivals, of accounts or of crashes.

## 4. PostCache

`PostCache` models the `cache` decorator with the keys of the three cached post
endpoints: `PostKey` (no caller in it), `ListKeys` and `AllKeys` (one per view).
All but the last name the user of the path, who need not be the caller; `author`
as a caller is that user.
A read is `BeginRead`, `Lookup`, `RunQuery`, `Set`, `Expire`, `Reply`; a write
`BeginWrite`, `Commit`, then the invalidation of its endpoint: `Delete`, and
`Scan` with `Unlink` (update) or `DeleteExtra` (erase, erase_db); create,
moderate and revise have none. `Fail` ends a request at any await. `held` is a
history variable: the rows the database has held since a read began; an answer
is fresh if it was right at one of those moments.

An update finds its post by the id alone (`update_post/data/adapter.py:19-26`),
compares its caller with the user of the path only (`use_case.py:14-22`) and
deletes that user's keys (`presentation/router.py:18`). One under another user's
path therefore changes a post and leaves its author's entries as they are, with
one request at a time and nothing failing. `Commit` records it in the entries it
makes stale this way (`PassedOver`, the history field `missed`), and a hit copies
the mark into the request. The erases look for the post of the path's user.

Lists have one page. The times to live, 3600 s and 60 s, are ticks (2 and 1 in
`stale`: what matters is that one can outlive the other; 1 and 1 in `fresh`).
`MaxVersion` bounds the writes a post sees; one makes an entry stale, a second
makes a refilled one stale again.

| Run | Instance | Shows |
|---|---|---|
| `stale` | 2 requests, fair; get, update, erase; any call may fail; 2 writes | `TypeOK`, `EveryEntryExpires`, `StaleEntriesGoAway` |
| `fresh` | 1 request, 2 authors with a post each; get, list, list_all, update | `DetailFreshUnlessMissed`, `ListFreshUnlessMissed`, `PublicListsAreApproved` |
| `race` | 2 requests; get, update | `FreshDetail` does **not** hold: a read fills the cache after the invalidation of an update it did not see |
| `erase` | 1 request; list, erase | `FreshList` does **not** hold: the deleted key is none the list uses |

`FreshDetail` and `FreshList` are what the specifications of the endpoints say
of reads after an update or a deletion, and hold of no instance with two users.
`fresh` states what invalidation achieves at best, with one request at a time and
Redis answering: an answer is fresh unless it comes from an entry marked
`missed`, and an entry loses the mark only by being stored anew. `race` shows what
is lost when requests overlap. The two users of `fresh`, each with the post, are
interchangeable (`SYMMETRY`); the other three runs have one user. `stale` allows
both overlaps and failures: what remains true is that an entry has a time to
live, unless the request that stored it was cut off between SET and EXPIRE
(`cut`, a history field of the entry), and that stale entries go away.

Three consequences of the keys are visible in the module and have no run.
`moderate` and `revise` invalidate nothing, so a read after a decision can show
the status before it. The key of a post does not depend on the caller, though
what the use case shows does (`SeesAll`); a fresh answer is therefore the one
its caller or its author would get. `list_all` is never invalidated, which
`specs/features/posts/0010_list_all_posts/requirements.md:96` puts out of scope.

**Fairness.** Redis's clock runs (`Tick`) and every request goes on (`Serve`).

## 5. Accounts

`Accounts` has the nineteen endpoints of users, tiers and rate limits on their
three tables. Each goes through some of the phases
`read -> email -> username -> tier -> limit -> write -> reload`; every phase is
a statement of its own, and "write" decides by the tables as they are then:

* The unique columns (`Clash`, `Named`) cover deactivated accounts too.
* Foreign keys refuse a tier that has gone, the hard deletion of an account that
  granted somebody's role, the deletion of a tier in use.
* An UPDATE or DELETE that finds no row succeeds; through FastCRUD, which
  rate limits and `PATCH` of a user's tier use, it may as well fail, and both
  outcomes are allowed.
* Codes are those of the code, 500 where nothing translates the failure: the
  UPDATE of an account runs before the `try` meant for it.

`Init` is the deployed state: the rows inserted by `create_first_superuser` and
`create_first_tier`. The third script, `make_all_users_superusers`, may run at
any time. `raced`, a history variable, has the requests during which another
one committed.

`Registry` is the abstract specification: each operation atomic, with its
condition, no requests. `RegistryRefinement` shows that each commit of
`Accounts` is one of its operations and everything else invisible.

| Run | Instance | Shows |
|---|---|---|
| `accounts` | 2 ids of each table, 2 names, 2 e-mails and one longer than its column; 2 requests at once, 3 in all; symmetry of the request slots | `TypeOK`, `UniqueNames`, `TiersExist`, `ModeratorsAreGranted`, `OnlyRacesSurprise`, `RegistryRefinement` |

Two names and two ids are enough for every clash, two requests at once for a
commit between another's look-up and write, and a third request for what those
leave behind (a role, a tier in use) to meet a deletion. `OnlyRacesSurprise` is
the converse of these hazards: a request no other commit overlapped is answered
500, or 409 at its write, only for a reason the use cases leave to the tables. As
500s (`UntranslatedRefusal`): an e-mail longer than the column's 50 characters,
which `EmailStr` does not cap; a rate limit without a name, or renamed to a name
in use; the deletion of a tier in use. As 409s (`TranslatedRefusal`): a tier's
name in use, the hard deletion of a grantor. These are refused with one request
at a time, in the model as in the code. Ids and limits beyond the 32 bits of
their columns, and NUL in a text, are errors of the statement too and left out.

Only safety is stated: no request waits for another here. Deadlock is checked;
`Quiet` is the instance with its requests used up.

## 6. AuthTokens and ClientAuth

In `AuthTokens` a JWT is its payload: kind, subject and expiry. It has no id, so
tokens made for one name within a second are equal, and its subject is a
username, which can change hands. Calls take one step per transaction:
`VerifyAccess` asks the blacklist, `FindUser` looks the name up, `LogoutAccess`
and `LogoutRefresh` blacklist one token each, `EraseAccount` and `RevokeToken`
are the deletion of the caller's own account (404 if it has been deactivated
since the call was admitted). `Cut` ends a call anywhere.

`ClientAuth` adds the app: `state` is `AuthState`, `held` `TokenHolder.current`,
`stored` the two keys in secure storage, `jar` the browser's cookie. `flow` says
where bootstrap, login and logout are, `force` where the `forceLogout` started
by the answer to each call is. One action runs a coroutine up to its next await;
`Deliver` is the interceptor, which sees an answer before the code that awaits
it and starts `forceLogout` on a 401. `Restart` kills the app: memory goes,
storage stays, and the calls it had sent go on at the server (`lost`). `Replay`
is another client with tokens issued before, `Renaming` a rename or a
registration.

| Run | Instance | Shows |
|---|---|---|
| `session` | 2 accounts, 2 names; 2 calls; an access token lives within one tick, a refresh token one more; 1 tick, 2 calls by users or renames, 1 kill; started with the session of an earlier login | `TypeOK`, `LogoutIsFinal`, `TokenSpeaksForItsOwner`, `SessionAgrees`, `RefusalSignsOut`, `AppStarts` |

Time advances in steps of any length, so one tick covers "the same second" and
"expired since". Two calls are a logout and one that races it, or bootstrap's
and a user's; the app's own calls (`me` after a login, bootstrap's) are not
counted in `MaxSends`. After those the instance may have nothing left to do,
which is why this run does not check deadlock; `RefusalSignsOut` and `AppStarts`
say what may not be left waiting.

What the properties do not claim is in their formulas. A logout that was not
answered 200 promises nothing: it may have blacklisted one token of the two. A
token that carries a name with a second owner may be taken for that owner's.
`SessionAgrees` excepts a login that overlapped the clearing of another session
(`tangled`): `forceLogout` then removes the keys the login has just written, and
nothing in the client prevents it.

**Fairness.** The server ends each call or the client's time limit does
(`Serve \/ Cut`), answers are delivered, and the client's event loop runs
`forceLogout` and the three coroutines. Users, time and kills may do nothing.

## 7. RequestGate

What a request passes besides its use case. `idle` is the pool, `req` the
requests with the connections they hold: `shared`, of the dependencies' session,
kept to the end, and `own`, of a session that is closed after its stage.
`Connect` takes a connection, `TimeOut` is the pool's limit of 30 s: an error,
except in `get_optional_user`, which goes on as nobody (`AsNobody`). `ReadRule`,
`Incr`, `Expire`, `Decide` are the limiter, with the window computed before
`INCR` is sent and `EXPIRE` counted from when it runs. `WriteRule` changes a
rule under it, `RedisFails` raises, `Kill` and `Boot` are the server. Redis
keeps its keys through a kill.

| Run | Instance | Shows |
|---|---|---|
| `gate` | 1 user and the anonymous host; 2 requests at once, 3 in all; 2 connections; 6 rules, among them a limit of -1, a period of 0 and one of -2; 3 ticks | `TypeOK`, `NoLeak`, `AdmittedPerWindow`, `EveryCounterExpires`, `RefusedAtTheLimit`, `EveryRequestEnds` |

Two requests on two connections are the smallest pool in which each holds one
and waits for the other's. The default limit is 1, so the second request of a
window is the one to refuse; period 2 within 3 ticks gives two windows and a
late request between them. `EveryRequestEnds` needs the time limit: without it
the two wait for ever, which is the defect its mutant puts in.

`RefusedAtTheLimit` is the converse of `AdmittedPerWindow`: at an answer 429 a
limit is filled, counting one request that has done the first `INCR` and waits
for its `EXPIRE` to be answered. Each exemption is needed: TLC finds a refusal
below the limit after the first request was cut off between the two calls (the
place is lost and the counter stays), in a window that is over (EXPIRE runs from
later than its start), and while the first one is at EXPIRE.

`AdmittedPerWindow` is weaker than "no more than the limit": it excepts requests
counted after their window has ended and windows counted with two periods, in
which a key that has expired can be counted again. Nor does it say anything of
two adjacent windows, which a fixed window does not limit together. And it counts
by key, not by caller: a signed-in caller whom `get_optional_user` takes for
nobody, because the pool gave out, is counted under the host's key and has that
quota beside the account's own.

Limits and periods are any integers, as the schema of a rate limit has them
(`rate_limits/schemas.py:16-18`). A limit of 0 or less refuses everybody. A period
of 0 divides by zero. A negative one puts the window, by Python's remainder
(`Mod`), in the future with its end in the past, and EXPIRE drops the key at once,
so that requests one after the other all count to one and none is refused by a
limit of 1 or more; such a window is over before it begins, and both properties
say nothing of it.

**Fairness.** Weak fairness of a request's own steps (`Go`): the event loop
resumes it when its statement is answered, and when it waits for a connection it
gets one or its 30 s pass.

## 8. PagedLists

`past` is the table after each commit, so that a list can be compared with
what the table held at the moments it was read. `Count`, `Rows` and, for the
moderation queue, `Logs` are the statements of one page; `Other` is a commit of
anybody between them. `Load`, `Refresh`, `LoadMore` start the cubits' methods
and `Show`, `ShowFailure` finish them: `loadMore` appends to the state it read
before its await (`base`). `Ask`, `Decide`, `Change`, `Told` are this client's own
decision or deletion: the request, the check in one session, the write by the id
alone in another, and the event that takes the post off the list. Others check
and write apart as well: `Other` may write what any row of `past` allowed
(`MayErase`, `MayDecide`, `MayRevise`), so that a late decision or revision
overwrites an approval, as in the run `terminal`, and the post is in the queue
again. Who may decide, erase or revise is left to `Moderation`.

Five lists share the module and differ in what they show, in which order
(`Visible`, `Orders`: a user's posts and the users have no ORDER BY), in whether
`refresh` blanks the list.

| Run | Instance | Shows |
|---|---|---|
| `lists` | each of the five lists; 3 rows, pages of one row; 2 calls at once, 3 in all; 2 commits for the queue, 1 for the others | `TypeOK`, `ListIsASnapshot`, `GoneStaysGone`, `LoadingEnds` |

Pages of one row make every row a page boundary; three calls are a first page, a
further one and a change or refresh that overlaps it. `ListIsASnapshot` speaks
of lists read between two commits (`list.vs = {v}`): pages read on
both sides of one may skip or repeat a row, which the offsets do not prevent.
The list may lack only rows that an event has really removed from it (`left`);
the queue has also been checked with four calls, and the proof covers any
number.

`GoneStaysGone` is about the queue. A post that this client has decided upon comes
back when the server lists it again, because another decision overwrote this one
or asked for changes; it must not come back otherwise. `gone` has the commit by
which the post was taken off, and the property asks that the queue held it after
that one or a later (`Returned`). A page that was on its way then is excepted: its
answer brings the list back as it was when it was asked for. The same happens to
the author's list when a post is deleted, where it may come out of the response
cache besides, so nothing is claimed of that one.

The rows are all in the table at the start or the newest is created meanwhile;
for the queue, which has two commits and the most states, the latter only.

**Fairness.** A call is served or fails (the client has a time limit), and the
event loop receives answers.

## 9. Proofs

TLC checks each inductive invariant on its component's instance too, which is how
they were found; those checks are not among the runs. The assumptions are those
the modules declare: bounds are naturals, `None` is not one of the values it
stands beside.

### ModerationProofs

For any sets of users, posts, texts and requests and any bound, from
`RolesAssumption`, `NoneAssumption` and `BoundAssumption` only:

* `Invariance`: `Spec => []IInv`, and from it `TypeCorrect`,
  `LogAlwaysExplainsStatus`, `LogAlwaysAttributed`, `RevisionAlwaysAsked`,
  `NeverOrphans`;
* `ImplementsTrail`: `Spec => TrailRefinement`;
* `LogHistory`: `Spec => LogGrowsOrGoes`.

The properties are not inductive: a request writes on the strength of a row it
read transactions ago. `RequestOK(r)` says what is still true of that row. The
author of a post never changes; a request for changes, once in the log, stays
there until the post goes; the status that was read may be outdated. The row
lock, which the model takes from PostgreSQL (`Locked`), enters the invariant as
`OneWriter` and carries "the post is there" from `UpdateStatus` to the
commit. `IInv` joins these with the type invariant and the safety properties.

The proof has one lemma per action. `RequestStep` covers every action that
changes no table, and `AnswerStep` and `GotoStep` what becomes of a request;
the lemmas on actions that write a table have a step per conjunct they can
disturb. `ImplementsTrail` shows that each commit is an abstract step and every
other action leaves the mapped state alone.

### OverlapProofs

From the same assumptions, `AloneObeysLifecycle`: `OverlapSpec =>
LifecycleWhenAlone`. `LogExplainsStatus` and its kind say what the log once held;
here the status itself is at stake, which the adapters write by the id alone, in
a later transaction than the one the use case read it in. The invariant `Guarded`, on top of
`IInv`, says that as long as a request is not in `raced` the status it was let
through for is the status still. `OwnGuarded` is the argument: a step touches one
request, and what it commits puts every other request in progress into `raced`.

### AccountsProofs

For any ids, names, e-mails, request slots and number of requests, from
`SetupAssumption`, `NoneIsNothing` and `StartsAssumption` only:

* `Inductive`: `Spec => []IInv`, and from it `AccountsTypes`, `NamesStayUnique`,
  `TiersStay`, `RolesAreGranted`;
* `ImplementsRegistry`: `Spec => RegistryRefinement`.

`IInv` has two halves. `TablesOK`: the types, that a present row has its name
(without which NULLs would clash), and the three safety properties. `RequestsOK`:
what the fields of a request in each phase hold (`ReqOK`), and that the caller
of a grant was a superuser when it began and is one for as long as its row
exists (`GrantOK`), which is what makes the grantor on record a superuser's.
What a request has looked up otherwise is NOT in the invariant: it may be
untrue by the time of the write, and the proof goes through because the write's
own conditions, the constraints of the tables, carry the properties alone.

`UserChange`, `TierChange` and `LimitChange` reduce a write to its one row,
`Kept` carries `RequestsOK` over a change of tables, `LookStep` and `ArriveStep`
cover every action that writes nothing; then there is one lemma per write. In
`ImplementsRegistry` each write is one disjunct of `Registry!Next`, and every
other action stutters.

From the same assumptions, `NoSurpriseAlone`: `Spec => OnlyRacesSurprise`. Here
what a request has looked up IS the invariant (`Alone`): for a request outside
`raced` the free names, the rows and the tier it has found are so still
(`StillHolds`, per kind of endpoint). With it each write of a lone request is
shown to take the branch that no constraint refuses, or one of the refusals the
property lists, and each later phase to find its row. A step is judged by `Sound`: it keeps the promise of its own request, and
if it changes a table the others lose theirs.

### RequestGateProofs

For any users, rules of any integers, number of connections and FINITE set of
request slots, from `PoolAssumption`, `RequestsAreFinite`, `RuleAssumption` and
`NoneIsNothing`: `TypeCorrect`, `NoConnectionIsLost`, `LimitHolds`,
`CountersExpire`, `RefusedForCause` (`Spec => RefusedAtTheLimit`). Slots are
finite as the requests of a server are; the number of connections lent is a
cardinality.

* `NoLeak` is inductive with the types: a step changes what one request holds and
  the pool by the same amount (`Balance`), and a restart empties both.
* `AdmittedPerWindow` is not. `KeyOK` adds that a counter lives at least as long as
  its window, that until then it is not behind the requests let in, and that a
  request that has counted to one and not yet set the expiry is alone and still
  has its place (`InWindow`), all of it for keys counted with one period.
* `EveryCounterExpires` is a part of `KeyOK`.
* `RefusedAtTheLimit` is an action property and needs an invariant of its own
  (`CauseOK`), the other direction of `KeyOK` and without its restriction to one
  period: as long as all windows of a key go on and no request was cut off, its
  counter is ahead of the requests let in, and of a first one on its way
  (`Placed`), only if these have filled one of the limits. `Fair` says of one step
  of the limiter both that it keeps this and that it refuses nobody without cause;
  `OthersPass` that no other step answers 429.

### PostCacheProofs

For any users, posts, requests and times to live, from `AuthorAssumption`,
`TTLAssumption`, `BoundAssumption` and `NoneAssumption`:

* `TypeCorrect`, `EntriesExpire`, `PublicSeesApproved` of any interleaving with
  failures anywhere. The invariant adds what the value a request carries to `Set`
  is (for a public list: approved posts), and that of a post one write at a time
  is about to commit (`CommitOK`), which bounds its version.
* `DetailFreshWhenAlone` and `ListFreshWhenAlone`, with hypotheses that the runs
  `race` and `erase` show to be needed: one request slot and Redis answering
  (`Alone`), and endpoints that invalidate what they make stale: for the read of a
  post all but `moderate` and `revise`, for the lists of the author updates only.
  The invariant `FInv` says that an entry is the answer the database would give
  now, or a write that has committed is still to remove its key (`Pending`), or
  an update under another user's path has missed it. `FreshCommitEntry` is the
  heart of it: a commit that leaves a right entry wrong either removes its key
  next or has marked it.

### ClientAuthProofs and ClientSessionProofs

For any accounts, names, calls, lifetimes and number of restarts, from
`TimesAssumption`, `NoneAssumption` and `ClientAssumption`, and starting from any
registered accounts with or without an earlier login (`Init`; the run narrows it
to one account that has logged in):

* `TypeCorrect`, `LoggedOutForGood`, `NobodyElseSpeaks`. `CallOK` follows one
  call: which of its tokens are known, that a logout in its second transaction has
  blacklisted the first token, and that a call with a credential whose logout
  succeeded never gets as far as a user. Together with `EndedAreListed` (what such
  logouts ended is blacklisted) that is what makes a logout final; with
  `IssuedToACalled` (the account a token was issued to has had the token's name)
  it identifies the caller.
* `ScreensMemoryStorageAgree`: `Spec => []SessionAgrees`. The property speaks of
  the moments when no method of the cubit runs. `Session` says what memory,
  storage and state have in common at every stage of each method, so that it does
  not matter which one ends last; `Links` which method waits for which call. Once
  a login has overlapped a clearing (`tangled`) nothing is claimed, as in the
  property.

### PagedListsProofs

For any ids, provided they are finitely many, any lists, page size, number of
requests, calls and commits, from `PageAssumption`: `TypeCorrect`,
`SnapshotHolds` (`Spec => []ListIsASnapshot`) and `GoneForGood`
(`Spec => []GoneStaysGone`).

A list of the server is a table with some positions kept, ordered and cut into
pages; `Kept` gives the row at position i of K the place `Rank(K, i)`, the number
of positions of K up to it. A numbering that rises through K is that rank
(`RisingIsRank`), so leaving rows out in two steps or one, and joining one page to
another, are shown by comparing positions: no induction over a sequence is needed.

None of the properties is inductive: a list joins pages that were on their way for
some time to a list shown before that. `IInv` says of every list, the one shown
and those that further pages will be joined to, that it is a snapshot (`ListOK`);
of every call what it has read (`PageOK`, `ReadOK`) or changed (`ChangeOK`)
relative to the commit it was read after, which no later one touches
(`PastGrows`); and of a post seen off with no page on its way, that the server has
not listed since (`Away`), that it is on no list or page (`AllGone`). That one says
nothing of the post's status, which anybody's late write may change. Rows are
never dropped from the table (`PastOK`), so a write by id finds its row. Proving it found what three calls had
hidden: `left` first recorded every id an event named, also of posts the list did
not show, so that a later page could have shown one it was said to lack.

### Only model-checked

Liveness (`RequestsAnswered`, `StaleEntriesGoAway`, `RefusalSignsOut`,
`AppStarts`, `EveryRequestEnds`, `LoadingEnds`): fairness and ENABLED are beyond
the proof system. Every other property of a passing run is a
theorem. The four properties that do not hold are refuted by TLC.

## 10. Not modelled

* Requests that are refused before their use case (401, 403, 422 of
  dependencies and schemas), except in `AuthTokens`, where they are the subject;
  the wording and layout of answers.
* The `refresh` after the commit of a decision (`Moderation` keeps no answers);
  the same shape is checked in `Accounts` as `reload`.
* The cached read of an account, Redis eviction, HTTP caches in front of the
  API that `ClientCacheMiddleware` invites to keep answers.
* The admin panel and other writers of the database; they follow none of the
  use cases.
* The worker that takes jobs from the queue and the status of a job: both are
  the queue library's, and the job only sleeps.
* In the client: `PermissionCubit`, which only follows the auth state; forms,
  each one call and one state; events that patch an item in place; a cubit that
  is closed while it waits, which belongs to the widget tree; screens,
  translations, theme, routing.
* Configuration, logging, other middleware, dependency wiring, migrations and
  deployment files, which hold no state machine of their own.
