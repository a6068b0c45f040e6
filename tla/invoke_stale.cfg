SPECIFICATION Spec
CONSTANTS
  Replica = {r1, r2}
  Slot = {s1}
  Redis = {m1}
  TTL = 1
  FillBound = 1
  MaxChanges = 2
  NoEntry = NoEntry
SYMMETRY Symmetry
INVARIANTS TypeOK RunsNothingOlder CacheSurvivesNoClear
