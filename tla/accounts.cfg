CONSTANTS
  u1 = u1
  u2 = u2
  r1 = r1
  r2 = r2
  r3 = r3
  q1 = q1
  q2 = q2
  q3 = q3
  q4 = q4
  a1 = a1
  a2 = a2
  bad = bad
  Nothing = Nothing
  Requests = {r1, r2, r3}
  Scenarios <- MCScenarios
  CrashBound = 1
  Users = {u1, u2}
  OldUsers = {u1}
  Active = {q1, q2}
  Inactive = {q3}
  Answers = {a1, a2}
  Misfits = {bad}
  Falsy = {a2}
SPECIFICATION Spec
CHECK_DEADLOCK FALSE
INVARIANTS
  TypeOK
  RegisteredIsFound
  HalfUserHasCause
  DeletedIsGone
  SessionsSuperseded
  AnswersKept
  CompletedIsTrue
