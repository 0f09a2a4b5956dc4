SPECIFICATION AccountsSpec
CONSTANTS
  UserIds = {u1, u2}
  Subjects = {x1, x2}
  TargetLanguages = {en, ja, fr}
  DefaultTarget = en
  AccountRequests = {q1, q2}
  MaxAccountRequests = 3
  SeededUsers = {u1}
INVARIANT SomePairActive
CHECK_DEADLOCK FALSE
