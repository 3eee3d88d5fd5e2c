SPECIFICATION Spec
CONSTANTS
  author = author
  moderator = moderator
  admin = admin
  p1 = p1
  r1 = r1
  r2 = r2
  t1 = t1
  t2 = t2
  None = None
  Users <- MC_Users
  Superusers <- MC_Superusers
  FirstModerators <- MC_Moderators
  Mutable <- MC_NoUsers
  Posts <- MC_OnePost
  Texts <- MC_TwoTexts
  Requests <- MC_OneRequest
  Ops <- MC_AllOps
  MaxLog = 3

INVARIANTS
  PublishedTextWasApproved
