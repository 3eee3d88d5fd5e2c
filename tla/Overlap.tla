------------------------------ MODULE Overlap -------------------------------
(***************************************************************************)
(* Moderation with a history variable that tells requests that ran alone   *)
(* from requests another commit overlapped.                                *)
(***************************************************************************)
EXTENDS Moderation

VARIABLE raced  \* requests in progress during which another one committed

Watch == raced' = {r \in Requests : /\ req'[r].pc # "idle"
                                    /\ \/ r \in raced
                                       \/ Database' # Database /\ req'[r] = req[r] /\ req[r].pc # "idle"}

OverlapSpec == Init /\ raced = {} /\ [][Next /\ Watch]_<<vars, raced>>

\* A request that no other commit overlapped obeys the state machine of the
\* use cases: it never decides on an approved post, and revises only a post
\* whose changes are requested now.  Only overlapping requests can get past
\* those guards.
LifecycleWhenAlone ==
    [][(\A r \in raced : req'[r] = req[r]) =>
          Workflow!LifecycleNext \/ UNCHANGED <<Workflow!vars>>]_<<vars, raced>>
=============================================================================
