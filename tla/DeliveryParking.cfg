SPECIFICATION Spec
CONSTANTS
  Workers = {w1, w2}
  Consumers = {c1}
  Aggregates = {g1}
  Events = {1}
  None = None
  BatchSize = 1
  Lanes = 1
  MaxAttempts = 2
  AttemptBound = 3
SYMMETRY Symmetry
INVARIANT ParkedAfterAllFailures
