SPECIFICATION FairSpec
CONSTANTS
  Callers = {c1, c2}
  Keys = {k1}
  Payloads = {p1}
  AttemptIds = {a1, a2, a3}
  ChallengeIds = {}
  None = None
  RequiresConfirmation = FALSE
  Timeout = 1
  LeaseMargin = 0
  Retention = 9
  ConfirmationTTL = 1
  MaxTime = 2
PROPERTY RetriedSubmitCommits
CHECK_DEADLOCK FALSE
