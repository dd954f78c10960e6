SPECIFICATION Spec
CONSTANTS
  t1 = t1
  h1 = h1
  h2 = h2
  Tasks = {t1}
  Outcomes = {"SUCCESS"}
  Items <- MCOneItem
  Handlers = {h1, h2}
  NoHandler = NoHandler
  NoCallback = NoCallback
  MaxAttempts = 2
  MaxRows = 3
  MaxTroubles = 1
SYMMETRY HandlerSymmetry
INVARIANTS TypeOK AppliedOnce Ordered GoneIsExplained
PROPERTY ImplementsChannel
CHECK_DEADLOCK FALSE
