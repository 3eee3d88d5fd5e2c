---------------------------- MODULE MC_PostCache ----------------------------
(* Instances of PostCache for TLC. *)
EXTENDS PostCache

CONSTANTS u1, u2, p1, p2, r1, r2

MC_OneUser == {u1}
MC_TwoUsers == {u1, u2}
MC_OneAuthor == [p \in Posts |-> u1]
MC_TwoAuthors == [p \in Posts |-> IF p = p1 THEN u1 ELSE u2]
\* The two authors, each with the post, exchanged.
MC_Symmetry == {[x \in {u1, u2, p1, p2} |->
                   CASE x = u1 -> u2 [] x = u2 -> u1 [] x = p1 -> p2 [] OTHER -> p1]}
MC_OnePost == {p1}
MC_TwoPosts == {p1, p2}
MC_OneRequest == {r1}
MC_TwoRequests == {r1, r2}
MC_DetailOps == {"get", "update", "erase"}
MC_ReadOps == ReadOps \cup {"update"}
MC_EraseOps == {"list", "erase"}
MC_UpdateOps == {"get", "update"}
=============================================================================
