SPECIFICATION Spec
CONSTANTS
  Callers = {c1, c2}
  Keys = {k1}
  Payloads = {p1}
  AttemptIds = {a1, a2, a3, a4}
  ChallengeIds = {}
  None = None
  RequiresConfirmation = FALSE
  Timeout = 1
  LeaseMargin = 1
  Retention = 4
  ConfirmationTTL = 1
  MaxTime = 3
SYMMETRY Symmetry
INVARIANT RunningHandlersHoldLease
CHECK_DEADLOCK FALSE
