SPECIFICATION BaseSpec
CONSTANTS
  Block = {1, 2, 3, 4, 5, 6}
  Category = {1, 2, 3}
  Batches <- MCBatches
PROPERTY ImplementsBaseOrder
CHECK_DEADLOCK FALSE
