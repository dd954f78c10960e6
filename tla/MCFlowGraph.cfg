SPECIFICATION Spec
CONSTANTS
  a = a b = b c = c s = s e = e w1 = w1 w2 = w2
  Items = {a, b, c} Start = s End = e Workers = {w1, w2} Edges <- SomeEdges
  MaxAdded = 1 MaxRuns = 2 MaxFaults = 1
INVARIANTS TypeOK OutcomeRight NeverStuck
PROPERTY FiresInOrder
CHECK_DEADLOCK FALSE
