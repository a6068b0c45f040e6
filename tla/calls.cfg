SPECIFICATION Spec
CONSTANTS
  Chain = {c1, c2, c3}
  MaxDepth = 2
  MaxChanges = 3
  NoRelease = NoRelease
SYMMETRY Symmetry
INVARIANTS TypeOK Acyclic TargetsOnline RunsAsChecked WalkMatches
