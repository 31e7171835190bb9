CONSTANTS
  u1 = u1
  u2 = u2
  u3 = u3
  p1 = p1
  p2 = p2
  i1 = i1
  i2 = i2
  i3 = i3
  r1 = r1
  r2 = r2
  r3 = r3
  F = F
  M = M
  Nothing = Nothing
  Requests = {r1, r2, r3}
  Scenarios <- MCScenarios
  CrashBound = 1
  Users = {u1, u2, u3}
  MediaIds = {p1, p2, i1, i2, i3}
  OldMedia = {p1, i1, i2, i3}
  Owner <- MCOwner
  ChatMedia = {i2, i3}
  Messages = {i1, i2}
  Members <- MCMembers
  Genders = {F, M}
  MinHeight = 1
  MaxHeight = 2
  Profile <- MCProfile
  OldAds <- MCOldAds
  PageSize = 1
SPECIFICATION Spec
CHECK_DEADLOCK FALSE
PROPERTY ArchivedForGood
