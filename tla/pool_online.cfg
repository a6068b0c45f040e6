SPECIFICATION Spec
CONSTANTS
  Worker = {w1, w2}
  Janitor = janitor
  MaxVersions = 1
  TTL = 0
  LastVersion = 2
  MaxChanges = 2
  NoWait = NoWait
PROPERTY OnlineKept
