SPECIFICATION Spec
CONSTANTS
  Cards = {a, b, c}
  NearLeech = {a}
  ArchivedElsewhere = {b}
  MaxAnswers = 4
  MaxFailures = 1
  MaxLists = 1
  MaxReloads = 0
PROPERTIES RatesTheRevealedCard
CHECK_DEADLOCK FALSE
