SPECIFICATION Spec
CONSTANTS
  Block = {1, 2, 3}
  Category = {1}
  Batches <- MCBatches
INVARIANTS
  DecisionsReplay
  CategoryLimits
  ScoreOrderJustified
  EvictionPrefixSafe
PROPERTY ImplementsContract
CHECK_DEADLOCK FALSE
