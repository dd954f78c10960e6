SPECIFICATION FairSpec
CONSTANTS
  g1 = g1 g2 = g2 g3 = g3 h1 = h1 h2 = h2 c1 = c1
  Streams = {g1, g2, g3} Helpers = {h1, h2} HelperOf <- Makers Closers = {c1}
  Overlap = FALSE PoolSize = 1 MaxItems <- Items
INVARIANTS TypeOK Delivered Joined CalledOnce
PROPERTY StreamEnds
CHECK_DEADLOCK FALSE
