CONSTANTS
  k1 = k1
  k2 = k2
  h1 = h1
  h2 = h2
  Kbs = {k1}
  Threads = {h1, h2}
  Algos = 1
  MaxTasks = 2
  MaxTroubles = 0
SPECIFICATION Spec
CHECK_DEADLOCK FALSE
PROPERTY StaleIgnored
