SPECIFICATION Spec
CONSTANTS
  Callers = {c1, c2}
  Keys = {k1}
  Payloads = {p1, p2}
  AttemptIds = {a1, a2, a3, a4}
  ChallengeIds = {}
  None = None
  RequiresConfirmation = FALSE
  Timeout = 1
  LeaseMargin = 1
  Retention = 3
  ConfirmationTTL = 1
  MaxTime = 4
SYMMETRY Symmetry
INVARIANT TypeOK
INVARIANT CommittedIsReplayable
INVARIANT AtMostOnce
INVARIANT AnswersAreCommitted
PROPERTY ReservationOutlivesDeadline
PROPERTY KeepsSubmitOnce
CHECK_DEADLOCK FALSE
