SPECIFICATION Spec
CONSTANTS
  Callers = {c1, c2}
  Keys = {k1}
  Payloads = {p1}
  AttemptIds = {a1, a2, a3}
  ChallengeIds = {h1, h2}
  None = None
  RequiresConfirmation = TRUE
  Timeout = 1
  LeaseMargin = 0
  Retention = 3
  ConfirmationTTL = 2
  MaxTime = 3
SYMMETRY Symmetry
INVARIANT OneEffectPerChallenge
CHECK_DEADLOCK FALSE
