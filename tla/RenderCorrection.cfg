SPECIFICATION FairCompileSpec
CONSTANTS
  Block = {1, 2, 3, 4}
  Category = {1, 2}
  Batches <- MCBatches
  Limits <- MCLimits
INVARIANTS
  SettledSound
  ExhaustionIsProof
  SearchIsAccounted
  SettlesFirstFit
  FirstBaseIsAllocators
  DecisionsExplainSettlement
PROPERTY CompilationEnds
CHECK_DEADLOCK FALSE
