----------------------------- MODULE MC_Accounts -----------------------------
(***************************************************************************)
(* Accounts for TLC: the root account and a user that registers, the first *)
(* tier and one more, two rate limits, an e-mail longer than its column, two   *)
(* overlapping requests.                                                   *)
(***************************************************************************)
EXTENDS Accounts, TLC

CONSTANTS r1, r2

Symmetry == Permutations({r1, r2})
=============================================================================
