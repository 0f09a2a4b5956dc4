SPECIFICATION FairSpec
CONSTANTS
  Cards = {a}
  NearLeech = {}
  ArchivedElsewhere = {a}
  MaxAnswers = 1
  MaxFailures = 0
  MaxLists = 2
  MaxReloads = 0
PROPERTIES SyncingEnds
CHECK_DEADLOCK FALSE
