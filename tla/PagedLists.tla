----------------------------- MODULE PagedLists -----------------------------
(***************************************************************************)
(* Paged lists, from the tables to the screen: the queries of              *)
(* src/api/src/app/features/{posts/list_pending_posts, posts/list_posts,   *)
(* posts/list_all_posts, users/list_users, tiers/list_tiers} and the       *)
(* cubits of the Flutter client that add page to page                      *)
(* (src/flutter/lib/features), with the event bus that tells them what     *)
(* this client has done to a post.                                         *)
(*                                                                         *)
(* The server answers a page with two or three statements at READ          *)
(* COMMITTED, the total, the rows, and for the moderation queue their log, *)
(* and other requests commit in between.  A page is an offset into what    *)
(* the table holds by then.  The client's load, refresh and loadMore are   *)
(* coroutines; loadMore adds its answer to the list as it was when it was  *)
(* called, and answers arrive in any order.                                *)
(*                                                                         *)
(* A call goes through count -> rows (-> logs) -> answer, or through       *)
(* change -> write -> changed, or ends in "failed" on the way.  A decision *)
(* or a deletion is checked in one session and written by id in another.   *)
(*                                                                         *)
(* Abstractions: one cubit, of one of the five lists; an answer out of the *)
(* Redis cache is one given earlier (PostCache); the authors of the posts  *)
(* are active; a row that is deleted for good stays, as a deleted one; who *)
(* may decide, erase or revise is left to Moderation.                      *)
(***************************************************************************)
EXTENDS Naturals, Sequences, FiniteSets, Functions

CONSTANTS Ids,                   \* of the posts, accounts or tiers listed
          Calls,                 \* requests of this client in progress
          Kinds,                 \* the lists: a subset of OfPosts \cup OfOthers
          PageSize,
          MaxCommits,            \* bound, for each of the lists
          MaxCalls,              \* bound
          None

ASSUME PageAssumption ==
    /\ IsFiniteSet(Ids)
    /\ PageSize \in Nat \ {0}
    /\ MaxCommits \in [Kinds -> Nat] /\ MaxCalls \in Nat

VARIABLES kind,   \* which list this is
          past,   \* the table after each commit; the last one is the table
          list,   \* state of the cubit
          call,   \* the calls
          made,   \* calls made so far
          gone    \* history: the commit each post was off the queue by, 0 if none (Told)

vars == <<kind, past, list, call, made, gone>>

OfPosts  == {"pending", "public", "author"}
OfOthers == {"users", "tiers"}
Statuses == {"pending_review", "changes_requested", "approved", "none"}
Row  == [id : Ids, status : Statuses, deleted : BOOLEAN]
Item == [id : Ids, status : Statuses, said : Statuses]  \* said: by the log
List == [st : {"initial", "loading", "loaded", "error"}, items : Seq(Item), page : Nat,
         more : {"idle", "loading", "error"}, hasMore : BOOLEAN,
         vs : SUBSET Nat, left : SUBSET Ids]  \* history: commits it was read after, posts removed
Call == [pc : {"free", "count", "rows", "logs", "answer",
               "change", "write", "changed", "failed"},
         page : Nat, base : List, total : Nat, rows : Seq(Item), vs : SUBSET Nat,
         id : Ids \cup {None}, to : Statuses \cup {"deleted"}]

Blank(st) == [st |-> st, items |-> <<>>, page |-> 0, more |-> "idle", hasMore |-> FALSE,
              vs |-> {}, left |-> {}]
NoCall    == [pc |-> "free", page |-> 0, base |-> Blank("initial"), total |-> 0, rows |-> <<>>,
              vs |-> {}, id |-> None, to |-> "deleted"]

\* The entries of s at the positions K, in their order.
Kept(s, K) == [n \in 1..Cardinality(K) |->
                  s[CHOOSE i \in K : Cardinality({j \in K : j <= i}) = n]]
Lesser(m, n) == IF m <= n THEN m ELSE n

table   == past[Len(past)]
RowOf(p) == CHOOSE r \in Range(table) : r.id = p

\* The table may hold any rows; some will be created later.
New   == IF kind \in OfPosts THEN "pending_review" ELSE "none"
First == IF kind = "public" THEN "approved" ELSE New
Init ==
    /\ kind \in Kinds
    /\ \E n \in 0..Cardinality(Ids) : \E s \in Injection(1..n, Ids) :
          past = <<[i \in 1..n |-> [id |-> s[i], status |-> First, deleted |-> FALSE]]>>
    /\ list = Blank("initial") /\ call = [c \in Calls |-> NoCall]
    /\ made = 0 /\ gone = [p \in Ids |-> 0]

-----------------------------------------------------------------------------
(* The server.                                                             *)

Undecided == {"pending_review", "changes_requested"}

\* The rows of each list, newest first.
Live(t)    == {i \in DOMAIN t : ~t[i].deleted}
Pending(t) == Kept(t, {i \in Live(t) : t[i].status \in Undecided})
Public(t)  == Kept(t, {i \in Live(t) : t[i].status = "approved"})
Author(t)  == Kept(t, Live(t))
Users(t)   == Kept(t, Live(t))
Tiers(t)   == LET s == Kept(t, Live(t)) IN [i \in 1..Len(s) |-> s[Len(s) + 1 - i]]  \* oldest first

\* A user's posts as that user sees them, or everybody's as the public does.
View(t)    == IF kind = "author" THEN Author(t) ELSE Public(t)
\* Accounts and tiers, the same for every caller.
Listed(t)  == IF kind = "users" THEN Users(t) ELSE Tiers(t)
Visible(t) == CASE kind = "pending"     -> Pending(t)
                [] kind \in OfOthers    -> Listed(t)
                [] OTHER                -> View(t)

\* A user's posts, and the users, are listed without ORDER BY.
Ordered     == kind \notin {"author", "users"}
Orders(t)   == LET v == Visible(t) IN
               IF Ordered THEN {v} ELSE Surjection(DOMAIN v, Range(v))

\* (Defect: pages counted from 0.)
Offset_Page(page) == page * PageSize
Offset(page) == (page - 1) * PageSize
Page(s, page) == SubSeq(s, Offset(page) + 1, Lesser(Offset(page) + PageSize, Len(s)))

At(c, pc) == call[c].pc = pc
Read(c, q) == /\ call' = [call EXCEPT ![c] = [q EXCEPT !.vs = @ \cup {Len(past)}]]
              /\ UNCHANGED <<kind, past, list, made, gone>>

\* Nothing of the answer is kept.
Failed(q)  == [NoCall EXCEPT !.pc = "failed", !.base = q.base, !.page = q.page, !.id = q.id]

Count(c) ==
    /\ At(c, "count")
    /\ Read(c, [call[c] EXCEPT !.total = Len(Visible(table)), !.pc = "rows"])

AsItems(s) == [i \in DOMAIN s |-> [id |-> s[i].id, status |-> s[i].status, said |-> s[i].status]]

Rows(c) ==
    /\ At(c, "rows")
    /\ \E s \in Orders(table) :
          LET page == Page(s, call[c].page) IN
          Read(c, [call[c] EXCEPT
              !.rows = AsItems(page),
              !.pc = IF kind = "pending" /\ page # <<>> THEN "logs" ELSE "answer"])

\* What the newest log entry of each row says its status is (Moderation).
Logs(c) ==
    /\ At(c, "logs")
    /\ LET rows == call[c].rows IN
       Read(c, [call[c] EXCEPT
           !.rows = [i \in DOMAIN rows |-> [rows[i] EXCEPT !.said = RowOf(rows[i].id).status]],
           !.pc = "answer"])

\* A request of this client or of another commits.
Commits(t) == Len(past) <= MaxCommits[kind] /\ past' = Append(past, t)

\* (Defect: a decision of that name is stored as "rejected".)
Put_Rejected(p, status, deleted) ==
    [i \in DOMAIN table |->
        IF table[i].id # p THEN table[i]
        ELSE [id |-> p, deleted |-> deleted,
              status |-> IF status = "changes_requested" THEN "rejected" ELSE status]]
Put(p, status, deleted) ==
    [i \in DOMAIN table |-> IF table[i].id = p THEN [id |-> p, status |-> status, deleted |-> deleted]
                            ELSE table[i]]

\* What the use cases ask of the row they read before they write: a post that
\* is deleted must not be, one that is decided on must await a decision, one
\* that is revised have been sent back.  (Neither of the last two looks whether
\* the post is deleted.)
MayErase(r) == ~r.deleted
MayDecide(r) == r.status \in Undecided
MayRevise(r) == r.status = "changes_requested"

\* The writes name the post by its id alone and overwrite what it is by then.
Erase(p)     == Commits(Put(p, RowOf(p).status, TRUE))
Store(p, st) == Commits(Put(p, st, RowOf(p).deleted))

\* Another client's request commits: it creates a row, or writes to one that it
\* read and checked at any time before.
Other ==
    /\ \E p \in Ids :
          \/ /\ \A r \in Range(table) : r.id # p
             /\ Commits(<<[id |-> p, status |-> New, deleted |-> FALSE]>> \o table)
          \/ \E v \in DOMAIN past : \E r \in Range(past[v]) :
                /\ r.id = p
                /\ \/ MayErase(r) /\ Erase(p)
                   \/ MayRevise(r) /\ Store(p, "pending_review")
                   \/ MayDecide(r) /\ \E s \in {"approved", "changes_requested"} : Store(p, s)
    /\ UNCHANGED <<kind, list, call, made, gone>>

\* The decision, or the deletion, this client asked for: the check ...
Decide(c) ==
    LET q == call[c] IN
    /\ At(c, "change")
    /\ \E r \in Range(table) :
          /\ r.id = q.id
          /\ IF (IF q.to = "deleted" THEN MayErase(r) ELSE MayDecide(r))
             THEN call' = [call EXCEPT ![c].pc = "write"]
             ELSE call' = [call EXCEPT ![c] = Failed(@)]
    /\ UNCHANGED <<kind, past, list, made, gone>>

\* ... and the write.
Change(c) ==
    LET q == call[c] IN
    /\ At(c, "write")
    /\ IF q.to = "deleted" THEN Erase(q.id) ELSE Store(q.id, q.to)
    /\ call' = [call EXCEPT ![c].pc = "changed"]
    /\ UNCHANGED <<kind, list, made, gone>>

\* No answer, or one that is an error.
Fail(c) ==
    /\ call[c].pc \in {"count", "rows", "logs", "answer", "change", "write", "changed"}
    /\ call' = [call EXCEPT ![c] = Failed(@)]
    /\ UNCHANGED <<kind, past, list, made, gone>>

-----------------------------------------------------------------------------
(* The client.                                                             *)

Send(c, q) == /\ At(c, "free") /\ c = CHOOSE d \in Calls : At(d, "free")  \* any one will do
              /\ made < MaxCalls /\ made' = made + 1
              /\ call' = [call EXCEPT ![c] = q]
Free(c)    == call' = [call EXCEPT ![c] = NoCall]

FirstPage == [NoCall EXCEPT !.pc = "count", !.page = 1, !.base = Blank("loading")]

\* load, and the refresh of posts, which the event of a revised one starts too.
Load(c) ==
    /\ Send(c, FirstPage)
    /\ list' = Blank("loading")
    /\ UNCHANGED <<kind, past, gone>>

\* The refresh of accounts and of tiers: the old list is shown meanwhile.
Refresh(c) ==
    /\ kind \in OfOthers /\ Send(c, FirstPage)
    /\ UNCHANGED <<kind, past, list, gone>>

LoadMore(c) ==
    /\ list.st = "loaded" /\ list.hasMore /\ list.more # "loading"
    /\ Send(c, [NoCall EXCEPT !.pc = "count", !.page = list.page + 1, !.base = list])
    /\ list' = [list EXCEPT !.more = "loading"]
    /\ UNCHANGED <<kind, past, gone>>

HasMore(page, total) == page * PageSize < total

Show(c) ==
    LET q == call[c] IN
    /\ At(c, "answer") /\ Free(c)
    /\ list' = [st |-> "loaded", items |-> q.base.items \o q.rows, page |-> q.page, more |-> "idle",
                hasMore |-> HasMore(q.page, q.total), vs |-> q.base.vs \cup q.vs, left |-> q.base.left]
    /\ UNCHANGED <<kind, past, made, gone>>

\* (Defect: nothing emitted when a first page fails.)
WithError_Not(base) == IF base.st = "loaded" THEN [base EXCEPT !.more = "error"] ELSE list
WithError(base) == IF base.st = "loaded" THEN [base EXCEPT !.more = "error"] ELSE Blank("error")
ShowFailure(c) ==
    /\ At(c, "failed") /\ Free(c)
    /\ list' = IF call[c].id = None THEN WithError(call[c].base) ELSE list
    /\ UNCHANGED <<kind, past, made, gone>>

\* A moderator decides on a post of the queue, an author deletes one of the list.
Ask(c) ==
    /\ kind \in OfPosts /\ list.st = "loaded"
    /\ \E i \in DOMAIN list.items, to \in {"approved", "changes_requested", "deleted"} :
          /\ (kind = "pending") <=> (to # "deleted")
          /\ Send(c, [NoCall EXCEPT !.pc = "change", !.id = list.items[i].id, !.to = to])
    /\ UNCHANGED <<kind, past, list, gone>>

\* (Defect: the event is not listened to.)
Without_None(items, p) == items
Without(items, p) == Kept(items, {i \in DOMAIN items : items[i].id # p})

\* The answer, and the event that takes the post off the list.
Told(c) ==
    LET q == call[c] IN
    /\ At(c, "changed") /\ Free(c)
    /\ list' = IF list.st = "loaded"
               THEN [list EXCEPT !.items = Without(@, q.id),
                                 !.left = @ \cup ({q.id} \cap {i.id : i \in Range(list.items)})]
               ELSE list
    /\ gone' = [gone EXCEPT ![q.id] =
                   IF kind = "pending" /\ \A d \in Calls : call[d].page = 0 THEN Len(past) ELSE 0]
    /\ UNCHANGED <<kind, past, made>>

Serve(c)   == Count(c) \/ Rows(c) \/ Logs(c) \/ Decide(c) \/ Change(c)
Receive(c) == Show(c) \/ ShowFailure(c) \/ Told(c)

\* The instance has used its calls and commits up.
Quiet == made = MaxCalls /\ (\A c \in Calls : At(c, "free")) /\ UNCHANGED vars

Next == \/ \E c \in Calls : Serve(c) \/ Receive(c) \/ Fail(c) \/ Load(c) \/ Refresh(c)
                             \/ LoadMore(c) \/ Ask(c)
        \/ Other \/ Quiet

\* Requests are answered or time out, and the event loop goes on.
Spec == /\ Init /\ [][Next]_vars
        /\ \A c \in Calls : WF_vars(Serve(c) \/ Fail(c)) /\ WF_vars(Receive(c))

-----------------------------------------------------------------------------
(* Properties                                                              *)

\* Type invariant.
TypeOK ==
    /\ kind \in Kinds
    /\ past \in Seq(Seq(Row)) /\ past # <<>>
    /\ list \in List
    /\ call \in [Calls -> Call]
    /\ made \in 0..MaxCalls
    /\ gone \in [Ids -> 0..Len(past)]

\* A list shows what the table held: when no commit fell between the
\* statements it was put together from, it is the first pages of the table,
\* without gaps or posts shown twice, less the posts this client has seen off;
\* every status is the one the log next to it explains; and it offers more
\* exactly when there is more.  However refreshes, further pages, events and
\* late answers overlap.  (Of the lists without ORDER BY only the last holds.)
Asked(v, page) == LET full == Visible(past[v]) IN
                  AsItems(SubSeq(full, 1, Lesser(page * PageSize, Len(full))))
ListIsASnapshot ==
    list.st = "loaded" => \A v \in list.vs : list.vs = {v} =>
        LET asked == Asked(v, list.page) IN
        /\ Ordered => list.items = Kept(asked, {i \in DOMAIN asked : asked[i].id \notin list.left})
        /\ list.hasMore <=> list.page * PageSize < Len(Visible(past[v]))

\* A post the moderator has seen off the queue comes back to it only if the
\* queue on the server holds it, then or later (others' decisions may overwrite
\* this one), and never through an old answer or an old list, unless a page was
\* on its way when it was taken off: its answer brings back the list as it was.
\* (The author's list, which loses a post by its deletion, is served from the
\* cache, which may do the same: nothing is said of it.)
Returned(p) == \E v \in DOMAIN past : v >= gone[p] /\ \E r \in Range(Visible(past[v])) : r.id = p
GoneStaysGone ==
    \A p \in Ids : (gone[p] # 0 /\ \E i \in DOMAIN list.items : list.items[i].id = p) => Returned(p)

\* The spinners stop: a list that loads, and one that loads more, ends with
\* its items or an error, whichever answer comes first.
Loading == list.st = "loading" \/ list.more = "loading"
LoadingEnds == Loading ~> ~Loading
=============================================================================
