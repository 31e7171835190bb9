CONSTANTS
  u1 = u1
  u2 = u2
  u3 = u3
  s1 = s1
  s2 = s2
  e1 = e1
  e2 = e2
  Nobody = Nobody
  Users = {u1, u3}
  Members = {u1}
  Sockets = {s1, s2}
  Events = {e1, e2}
  Kinds = {"join", "send", "image"}
  Faults = {"timeout", "error", "crash"}
  MessageBound = 2
SPECIFICATION FairSpec
INVARIANTS
  TypeOK
  OnlyMembersTakePart
  RoomIsConnected
  SeenIsStored
PROPERTY EveryEventEnds
