SPECIFICATION Spec
CONSTANTS
  Admin = {a1, a2}
  Doc = {d1, d2}
  NoDoc = NoDoc
  LastVersion = 3
CHECK_DEADLOCK FALSE
SYMMETRY Symmetry
INVARIANTS TypeOK ChosenStaysOnline ProtectedAlone NumberIsFree ChainKept
PROPERTIES NeverOffline ImplementsOnlineRelease
