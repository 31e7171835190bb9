CONSTANTS
  u1 = u1
  u2 = u2
  s1 = s1
  s2 = s2
  c1 = c1
  c2 = c2
  Nobody = Nobody
  Users = {u1, u2}
  Sockets = {s1, s2}
  ConnectBound = 2
  Calls = {c1}
  Recipient <- MCRecipient
  Kinds = {"sendLike", "dismissLike", "rejectLike"}
  RmqLimit = 2
  CrashBound = 1
SPECIFICATION FairSpec
CHECK_DEADLOCK FALSE
INVARIANTS
  TypeOK
  PushReachesOwner
  OkMeansNoticeSettled
PROPERTIES
  CallImplemented
  EveryClientIsTold
  AbsenceShows
