SPECIFICATION FairSpec
CONSTANTS
  t1 = t1
  t2 = t2
  t3 = t3
  w1 = w1
  w2 = w2
  w3 = w3
  Tasks = {t1, t2}
  Workers = {w1, w2}
  NoTask = NoTask
  NoWorker = NoWorker
  Score <- MCScore
  BadPayload <- MCBad
  CallbackStatuses <- MCAllStatuses
  RowLocks = FALSE
  MaxCrashes = 1
  MaxLapses = 1
  MaxFaults = 0
  MaxStops = 0


PROPERTY Drains
CHECK_DEADLOCK FALSE
