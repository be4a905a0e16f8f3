SPECIFICATION FairSpec
CONSTANTS
  Attempts = {a1, a2}
  MaxReloads = 1
  None = None
INVARIANTS TypeOK SessionHolder StorageReleased OwnKey OwnCa KeyFileErased
PROPERTIES KeepsKeySession LeakStays AttemptEnds
