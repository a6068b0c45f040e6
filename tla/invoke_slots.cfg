SPECIFICATION FairSpec
CONSTANTS
  Replica = {r1}
  Slot = {s1, s2}
  Redis = {m1}
  TTL = 2
  FillBound = 1
  MaxChanges = 2
  NoEntry = NoEntry
PROPERTIES ImplementsFreshReads ServedWithinTTL Heals
