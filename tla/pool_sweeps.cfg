SPECIFICATION FairSpec
CONSTANTS
  Worker = {w1}
  Janitor = janitor
  MaxVersions = 2
  TTL = 1
  LastVersion = 4
  MaxChanges = 4
  NoWait = NoWait
INVARIANTS TypeOK CurrentRegistered
PROPERTIES EvictsOldestSpare Drains
