SPECIFICATION WordListSpec
CONSTANTS
  Words = {1, 2, 3, 4}
  DeckWords <- MCDeckWords
  PageSize = 1
  Restarts = 4
  Pages = 3
INVARIANT RemainingPagesFetched
CHECK_DEADLOCK FALSE
