CONSTANTS
  u1 = u1
  u2 = u2
  u3 = u3
  s1 = s1
  s2 = s2
  e1 = e1
  e2 = e2
  Nobody = Nobody
  Users = {u1, u2}
  Members = {u1, u2}
  Sockets = {s1, s2}
  Events = {e1, e2}
  Kinds = {"join", "send"}
  Faults = {}
  MessageBound = 2
SPECIFICATION Spec
CHECK_DEADLOCK FALSE
INVARIANT JoinedSeesEveryMessage
