SPECIFICATION FairSpec
CONSTANTS
  t1 = t1
  h1 = h1
  h2 = h2
  Tasks = {t1}
  Outcomes = {"SUCCESS"}
  Items <- MCTwoItems
  Handlers = {h1}
  NoHandler = NoHandler
  NoCallback = NoCallback
  MaxAttempts = 2
  MaxRows = 2
  MaxTroubles = 1


PROPERTY QueueDrains
CHECK_DEADLOCK FALSE
