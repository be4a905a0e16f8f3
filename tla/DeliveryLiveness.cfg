SPECIFICATION FairSpec
CONSTANTS
  Workers = {w1}
  Consumers = {c1}
  Aggregates = {g1, g2}
  Events = {1, 2}
  None = None
  BatchSize = 2
  Lanes = 2
  MaxAttempts = 2
  AttemptBound = 3
INVARIANT AppliedInSequence
PROPERTY EveryEventSettles
