SPECIFICATION Spec
CONSTANTS
  u1 = u1
  u2 = u2
  p1 = p1
  p2 = p2
  r1 = r1
  r2 = r2
  None = None
  Users <- MC_TwoUsers
  AuthorOf <- MC_TwoAuthors
  Posts <- MC_TwoPosts
  Requests <- MC_OneRequest
  Ops <- MC_ReadOps
  PostTTL = 1
  ListTTL = 1
  CanFail = FALSE
  MaxVersion = 1
INVARIANTS
  DetailFreshUnlessMissed
  ListFreshUnlessMissed
  PublicListsAreApproved
SYMMETRY MC_Symmetry
