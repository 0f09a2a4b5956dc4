SPECIFICATION Spec
CONSTANTS
  Cards = {a, b}
  NearLeech = {a}
  ArchivedElsewhere = {b}
  MaxAnswers = 2
  MaxFailures = 1
  MaxLists = 2
  MaxReloads = 0
PROPERTIES ProgressNeverDecreases
CHECK_DEADLOCK FALSE
