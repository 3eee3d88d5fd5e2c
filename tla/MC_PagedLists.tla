---------------------------- MODULE MC_PagedLists ---------------------------
(***************************************************************************)
(* PagedLists for TLC: three rows, all of them in the table at the start   *)
(* (not for the queue) or the newest still to come, pages of one row; two  *)
(* commits meanwhile for the queue, one for the others.                    *)
(***************************************************************************)
EXTENDS PagedLists

CONSTANTS p1, p2, p3

MC_MaxCommits == [k \in Kinds |-> IF k = "pending" THEN 2 ELSE 1]

MC_Init ==
    /\ Init
    /\ \E s \in IF kind = "pending" THEN {<<p2, p1>>} ELSE {<<p2, p1>>, <<p3, p2, p1>>} :
          Len(table) = Len(s) /\ \A i \in DOMAIN s : table[i].id = s[i]

MC_Spec == /\ MC_Init /\ [][Next]_vars
           /\ \A c \in Calls : WF_vars(Serve(c) \/ Fail(c)) /\ WF_vars(Receive(c))
=============================================================================
