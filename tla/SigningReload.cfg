SPECIFICATION Spec
CONSTANTS
  Attempts = {a1, a2}
  MaxReloads = 1
  None = None
INVARIANTS OpenedStorageIsLive
