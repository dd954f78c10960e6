CONSTANTS
  k1 = k1
  k2 = k2
  h1 = h1
  h2 = h2
  Kbs = {k1, k2}
  Threads = {h1}
  Algos = 2
  MaxTasks = 3
  MaxTroubles = 1
SYMMETRY KbSymmetry
SPECIFICATION Spec
CHECK_DEADLOCK FALSE
INVARIANTS TypeOK NothingStuck RecordsAgree RowAgrees DeletedStaysGone
PROPERTY StaleIgnored
