SPECIFICATION Spec
CONSTANTS
  Workers = {w1, w2}
  Consumers = {c1}
  Aggregates = {g1}
  Events = {1, 2}
  None = None
  BatchSize = 2
  Lanes = 2
  MaxAttempts = 2
  AttemptBound = 2
SYMMETRY Symmetry
INVARIANT AppliedInSequence
