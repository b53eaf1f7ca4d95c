SPECIFICATION Spec
CONSTANTS
  Block = {1, 2, 3, 4, 5, 6}
  Category = {1, 2}
  Batches <- MCBatches
INVARIANT WorkFollowsYield
PROPERTY ImplementsRescueOrder
CHECK_DEADLOCK FALSE
