SPECIFICATION FairSpec
CONSTANTS
  Documents = {d1}
  Deliveries = {d1, other}
  Executors = {w1, w2}
  Self = w1
  Lanes = 2
  ChainBound = 2
  MaxAttempts = 2
  FaultBound = 1
INVARIANTS TypeOK WakeNotLost StopDrains StoppedOwesNothing DeadIsMarked
PROPERTIES KeepsDocumentPdf ReadyIsFinal EveryDocumentSettles StopTerminates
