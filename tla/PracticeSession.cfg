SPECIFICATION Spec
CONSTANTS
  Cards = {a, b}
  NearLeech = {a}
  ArchivedElsewhere = {b}
  MaxAnswers = 3
  MaxFailures = 1
  MaxLists = 2
  MaxReloads = 0
INVARIANTS TypeOK EveryAnswerAccountedFor FirstHeardInOrder NoCardForgotten AnswersHaveASender
PROPERTIES SummaryMeansSettled FailedCardWaits
\* The learner may stop.
CHECK_DEADLOCK FALSE
