SPECIFICATION Spec
CONSTANTS
  t1 = t1
  t2 = t2
  t3 = t3
  w1 = w1
  w2 = w2
  w3 = w3
  Tasks = {t1, t2}
  Workers = {w1, w2}
  NoTask = NoTask
  NoWorker = NoWorker
  Score <- MCScore
  BadPayload <- MCBad
  CallbackStatuses <- MCAllStatuses
  RowLocks = TRUE
  MaxCrashes = 1
  MaxLapses = 1
  MaxFaults = 1
  MaxStops = 1
SYMMETRY WorkerSymmetry
INVARIANTS TypeOK  NothingLost OneOutcome 
 
CHECK_DEADLOCK FALSE
