SPECIFICATION FairSpec
CONSTANTS
  Cards = {a, b}
  NearLeech = {a}
  ArchivedElsewhere = {b}
  MaxAnswers = 3
  MaxFailures = 1
  MaxLists = 1
  MaxReloads = 1
PROPERTIES AnswersSettle FinishedSessionEnds
\* The learner may stop.
CHECK_DEADLOCK FALSE
