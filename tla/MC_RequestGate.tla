---------------------------- MODULE MC_RequestGate ---------------------------
(***************************************************************************)
(* RequestGate for TLC: one user, two connections, two requests at once.   *)
(***************************************************************************)
EXTENDS RequestGate

MC_Default == [limit |-> 1, period |-> 2]
MC_Rules   == {MC_Default, [limit |-> 1, period |-> 3], [limit |-> 2, period |-> 2],
               [limit |-> -1, period |-> 2], [limit |-> -1, period |-> 0],
               [limit |-> 1, period |-> -2]}
=============================================================================
