SPECIFICATION FairSpec
CONSTANTS
  u1 = u1
  u2 = u2
  p1 = p1
  p2 = p2
  r1 = r1
  r2 = r2
  None = None
  Users <- MC_OneUser
  AuthorOf <- MC_OneAuthor
  Posts <- MC_OnePost
  Requests <- MC_TwoRequests
  Ops <- MC_DetailOps
  PostTTL = 2
  ListTTL = 1
  CanFail = TRUE
  MaxVersion = 2
INVARIANTS
  TypeOK
  EveryEntryExpires
PROPERTIES
  StaleEntriesGoAway
