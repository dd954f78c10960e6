CONSTANTS
  w1 = w1
  w2 = w2
  Workers = {w1, w2}
  Groups = 2
  MaxTasks = 2
  MaxTroubles = 1
SPECIFICATION FairSpec
CHECK_DEADLOCK FALSE
INVARIANTS TypeOK NoRowLeftWorking  
PROPERTY EveryTaskEnds
