---------------------------- MODULE MC_ClientAuth ----------------------------
(***************************************************************************)
(* ClientAuth for TLC: the person of account a, whose browser keeps        *)
(* cookies, and a second account that registers, perhaps with the name a   *)
(* has given up.                                                           *)
(***************************************************************************)
EXTENDS ClientAuth

CONSTANTS a, b, m

\* The app is opened with the session of an earlier login; without one, it is
\* opened again after that session has ended.
MC_Init ==
    /\ Init /\ stored # Empty
    /\ account = [x \in Accounts |-> [name |-> IF x = a THEN m ELSE None, active |-> TRUE]]

MC_Spec == MC_Init /\ [][Next]_vars /\ Fairness
=============================================================================
