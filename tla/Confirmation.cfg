SPECIFICATION Spec
CONSTANTS
  Callers = {c1, c2}
  Keys = {k1}
  Payloads = {p1, p2}
  AttemptIds = {a1, a2, a3}
  ChallengeIds = {h1, h2}
  None = None
  RequiresConfirmation = TRUE
  Timeout = 1
  LeaseMargin = 0
  Retention = 2
  ConfirmationTTL = 2
  MaxTime = 2
SYMMETRY Symmetry
INVARIANT AtMostOnce
INVARIANT EffectsAreConfirmed
PROPERTY ChallengeOpensGateOnce
CHECK_DEADLOCK FALSE
