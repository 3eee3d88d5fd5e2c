--------------------------- MODULE MC_Moderation ----------------------------
(* Instances of Moderation for TLC: an author, a moderator and a superuser. *)
EXTENDS Moderation, TLC

CONSTANTS author, moderator, admin, p1, r1, r2, t1, t2

MC_Users == {author, moderator, admin}
\* Both write posts and review the other's.
MC_TwoUsers == {moderator, admin}
MC_NoUsers == {}
MC_Superusers == {admin}
MC_Moderators == {moderator}
MC_OneMutable == {moderator}
MC_OnePost == {p1}
MC_OneText == {t1}
MC_TwoTexts == {t1, t2}
MC_OneRequest == {r1}
MC_TwoRequests == {r1, r2}
MC_ReviewOps == {"create", "moderate", "revise", "erase", "get_log"}
MC_AllOps == AllOps

\* Requests, and in a safety run posts, are interchangeable.
MC_Symmetry == Permutations(Requests) \cup Permutations(Posts)
=============================================================================
