SPECIFICATION Spec
CONSTANTS
  Workers = {w1, w2}
  Consumers = {c1}
  Aggregates = {g1, g2}
  Events = {1, 2}
  None = None
  BatchSize = 2
  Lanes = 2
  MaxAttempts = 2
  AttemptBound = 3
SYMMETRY Symmetry
INVARIANT TypeOK
INVARIANT EffectsOnce
INVARIANT AggregateSerial
INVARIANT RunningOwnsItsClaim
INVARIANT ParkedInTime
PROPERTY ClaimIsExclusive
PROPERTY DeadHoldsItsAggregate
PROPERTY KeepsOrderedConsumer
