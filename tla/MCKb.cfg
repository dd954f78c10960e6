SPECIFICATION FairSpec
CONSTANTS
  d1 = d1 d2 = d2 a1 = a1 a2 = a2 t1 = t1 t2 = t2
  Docs = {d1, d2} Algos = {a1, a2} First <- TwoTasks Threads = {t1, t2}
  Overlap = FALSE MaxRequests = 3 MaxTasks = 3 MaxFaults = 1
INVARIANTS TypeOK CountTrue AtRest Bound
PROPERTY DeletionEnds
CHECK_DEADLOCK FALSE
