SPECIFICATION FairSpec
CONSTANTS
  author = author
  moderator = moderator
  admin = admin
  p1 = p1
  r1 = r1
  r2 = r2
  t1 = t1
  t2 = t2
  None = None
  Users <- MC_TwoUsers
  Superusers <- MC_Superusers
  FirstModerators <- MC_Moderators
  Mutable <- MC_OneMutable
  Posts <- MC_OnePost
  Texts <- MC_OneText
  Requests <- MC_TwoRequests
  Ops <- MC_AllOps
  MaxLog = 2
INVARIANTS
  NoOrphans
PROPERTIES
  LogGrowsOrGoes
  RequestsAnswered
