------------------------------ MODULE Registry ------------------------------
(***************************************************************************)
(* What the API promises of accounts, tiers and rate limits, each request  *)
(* being one indivisible operation: the abstract specification of Accounts.*)
(* A row is unborn, present or gone, and never comes back.                 *)
(***************************************************************************)
CONSTANTS UserIds, TierIds, LimitIds, Names, Emails, None,
          Root, FirstTier, RootName, RootEmail

VARIABLES user, tier, limit

There(t, i) == i # None /\ t[i].row = "present"

Blank == [row |-> "unborn", username |-> None, email |-> None, deleted |-> FALSE,
          superuser |-> FALSE, moderator |-> FALSE, grantor |-> None, tier |-> None]

Account(n, e) == [Blank EXCEPT !.row = "present", !.username = n, !.email = e]

Init ==
    /\ user  = [[i \in UserIds |-> Blank] EXCEPT
                   ![Root] = [Account(RootName, RootEmail) EXCEPT !.superuser = TRUE]]
    /\ tier  = [[t \in TierIds |-> [row |-> "unborn", name |-> None]] EXCEPT
                   ![FirstTier] = [row |-> "present", name |-> RootName]]
    /\ limit = [l \in LimitIds |-> [row |-> "unborn", name |-> None, tier |-> None]]

\* n and e belong to no account other than i; n to no row of t other than i.
FreeUser(i, n, e) == \A j \in UserIds \ {i} :
    There(user, j) => user[j].username # n /\ user[j].email # e
FreeName(t, i, n) == \A j \in DOMAIN t \ {i} : There(t, j) => t[j].name # n

Register(i, n, e) ==
    /\ user[i].row = "unborn" /\ FreeUser(i, n, e)
    /\ user' = [user EXCEPT ![i] = Account(n, e)]

Rename(i, n, e) ==
    /\ There(user, i) /\ FreeUser(i, n, e)
    /\ user' = [user EXCEPT ![i].username = n, ![i].email = e]

Deactivate(i) == There(user, i) /\ user' = [user EXCEPT ![i].deleted = TRUE]

Remove(i) ==
    /\ There(user, i)
    /\ \A j \in UserIds \ {i} : There(user, j) => user[j].grantor # i
    /\ user' = [user EXCEPT ![i] = [Blank EXCEPT !.row = "gone"]]

Grant(i, g) ==
    /\ There(user, i) /\ There(user, g) /\ user[g].superuser
    /\ user' = [user EXCEPT ![i].moderator = TRUE, ![i].grantor = g]

Withdraw(i) ==
    /\ There(user, i)
    /\ user' = [user EXCEPT ![i].moderator = FALSE, ![i].grantor = None]

Place(i, t) ==
    /\ There(user, i) /\ There(tier, t)
    /\ user' = [user EXCEPT ![i].tier = t]

PromoteAll == user' = [i \in UserIds |->
    IF There(user, i) THEN [user[i] EXCEPT !.superuser = TRUE] ELSE user[i]]

UserStep == \E i \in UserIds :
    \/ \E n \in Names, e \in Emails : Register(i, n, e) \/ Rename(i, n, e)
    \/ Deactivate(i) \/ Remove(i) \/ Withdraw(i)
    \/ \E g \in UserIds : Grant(i, g)
    \/ \E t \in TierIds : Place(i, t)

TierStep == \E t \in TierIds :
    \/ \E n \in Names :
          /\ tier[t].row # "gone" /\ FreeName(tier, t, n)
          /\ tier' = [tier EXCEPT ![t] = [row |-> "present", name |-> n]]
    \/ /\ There(tier, t)
       /\ \A i \in UserIds : There(user, i) => user[i].tier # t
       /\ \A l \in LimitIds : There(limit, l) => limit[l].tier # t
       /\ tier' = [tier EXCEPT ![t] = [row |-> "gone", name |-> None]]

LimitStep == \E l \in LimitIds :
    \/ \E n \in Names, t \in TierIds :
          /\ limit[l].row = "unborn" /\ There(tier, t) /\ FreeName(limit, l, n)
          /\ limit' = [limit EXCEPT ![l] = [row |-> "present", name |-> n, tier |-> t]]
    \/ \E n \in Names :
          /\ There(limit, l) /\ FreeName(limit, l, n)
          /\ limit' = [limit EXCEPT ![l].name = n]
    \/ There(limit, l) /\ limit' = [limit EXCEPT ![l] = [row |-> "gone", name |-> None, tier |-> None]]

Next == \/ (UserStep \/ PromoteAll) /\ UNCHANGED <<tier, limit>>
        \/ TierStep /\ UNCHANGED <<user, limit>>
        \/ LimitStep /\ UNCHANGED <<user, tier>>

Spec == Init /\ [][Next]_<<user, tier, limit>>
=============================================================================
