SPECIFICATION FairSpec
CONSTANTS
  c1 = c1
  c2 = c2
  c3 = c3
  Cards = {c1, c2}
  WordOf <- MCWordOf
  Batches = {b1, b2}
  Adds = {a1}
  Archives = {x1}
  BatchInputs <- MCInputsShort
  Seeded <- MCSeeded
  NoReq = NoReq
  LearningSteps = 2
  RelearningSteps = 1
  LeechThreshold = 2
  LeechAction = "suspend"
PROPERTIES
  EveryRequestEnds
CHECK_DEADLOCK FALSE
