CONSTANTS
  u1 = u1
  u2 = u2
  u3 = u3
  a1 = a1
  a2 = a2
  a3 = a3
  r1 = r1
  r2 = r2
  None = None
  Users = {u1, u2}
  Ads = {a1, a2}
  Owner <- MCOwner
  WithStats = {u1, u2}
  StatsId <- MCStatsId
  MaxLikes = 2
  BatchSize = 1
  Requests = {r1, r2}
  Ops = {"send", "match"}
  LikeBound = 2
  ChatBound = 2
SPECIFICATION Spec
CHECK_DEADLOCK FALSE
INVARIANT OneChatPerLike
