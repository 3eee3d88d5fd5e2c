---------------------------- MODULE PostWorkflow ----------------------------
(***************************************************************************)
(* What the moderation of posts promises, with every operation one step.   *)
(*                                                                         *)
(* TrailSpec is what concurrent requests still keep: a decision and its    *)
(* log row are one event, nobody reviews a post of their own, an author's  *)
(* revision answers a request for changes made at some time before, and a  *)
(* post leaves together with its log.                                      *)
(*                                                                         *)
(* LifecycleNext is the state machine of the use cases' guards, where      *)
(* "approved" is final and a revision answers the current request.  It is  *)
(* what a request does as long as none overlaps it.                        *)
(***************************************************************************)
EXTENDS Naturals, Sequences

CONSTANTS Users, Posts, None

VARIABLES state,  \* unborn, one of the statuses, or purged
          author, \* who created the post
          trail   \* the moderation log

vars == <<state, author, trail>>

Reviewable == {"pending_review", "changes_requested", "approved"}

WasAsked(p) == \E i \in DOMAIN trail[p] : trail[p][i].action = "changes_requested"

Init ==
    /\ state = [p \in Posts |-> "unborn"]
    /\ author = [p \in Posts |-> None]
    /\ trail = [p \in Posts |-> <<>>]

Create(p, u) ==
    /\ state[p] = "unborn"
    /\ state' = [state EXCEPT ![p] = "pending_review"]
    /\ author' = [author EXCEPT ![p] = u]
    /\ UNCHANGED trail

Moderate(p, u, a) ==
    /\ state[p] \in Reviewable
    /\ u # author[p]
    /\ state' = [state EXCEPT ![p] = a]
    /\ trail' = [trail EXCEPT ![p] = Append(@, [event |-> "moderator_review", action |-> a, user |-> u])]
    /\ UNCHANGED author

Revise(p) ==
    /\ state[p] \in Reviewable
    /\ WasAsked(p)
    /\ state' = [state EXCEPT ![p] = "pending_review"]
    /\ trail' = [trail EXCEPT ![p] = Append(@, [event |-> "author_revision", action |-> None, user |-> author[p]])]
    /\ UNCHANGED author

Purge(p) ==
    /\ state[p] \in Reviewable
    /\ state' = [state EXCEPT ![p] = "purged"]
    /\ trail' = [trail EXCEPT ![p] = <<>>]
    /\ UNCHANGED author

Next ==
    \E p \in Posts :
        \/ \E u \in Users : Create(p, u)
        \/ \E u \in Users, a \in {"approved", "changes_requested"} : Moderate(p, u, a)
        \/ Revise(p)
        \/ Purge(p)

LifecycleNext ==
    \E p \in Posts :
        \/ \E u \in Users : Create(p, u)
        \/ /\ state[p] # "approved"
           /\ \E u \in Users, a \in {"approved", "changes_requested"} : Moderate(p, u, a)
        \/ /\ state[p] = "changes_requested"
           /\ Revise(p)
        \/ Purge(p)

TrailSpec == Init /\ [][Next]_vars
=============================================================================
