CONSTANTS
  w1 = w1
  w2 = w2
  Workers = {w1}
  Groups = 1
  MaxTasks = 3
  MaxTroubles = 0
SPECIFICATION Spec
CHECK_DEADLOCK FALSE
INVARIANT DeletedHasNoRows
