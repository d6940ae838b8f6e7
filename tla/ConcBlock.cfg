\* Three blocks: statements that meet at a variable, a field, an added name.
SPECIFICATION FairSpec
CONSTANTS
  Names = {"x", "y", "s", "p"}
  Fields = {"s"}
  BaseInit = {"s", "p"}
  HostNames = {"y"}
  MaxHost = 2
  Blocks <- MCBlocks
INVARIANTS OneAtATime EveryFailureReported EffectsOfSuccesses
PROPERTIES BlockReturns RegisteredNotShadowed
\* the block ends
CHECK_DEADLOCK FALSE
