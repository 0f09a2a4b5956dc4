SPECIFICATION Spec
CONSTANTS
  Cards = {a, b}
  NearLeech = {a}
  ArchivedElsewhere = {b}
  MaxAnswers = 2
  MaxFailures = 1
  MaxLists = 2
  MaxReloads = 0
INVARIANT OneRowPerAnswer
CHECK_DEADLOCK FALSE
