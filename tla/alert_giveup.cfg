SPECIFICATION Spec
CONSTANTS
  Activity = {a1}
  Threshold = 2
  CacheTTL = 3
  Grace = 2
  Remind = 1
  GiveUp = 2
  Never = Never
PROPERTY QuietAfterGiveUp
