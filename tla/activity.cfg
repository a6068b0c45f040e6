SPECIFICATION FairSpec
CONSTANTS
  Exec = {x}
  Act = {a, b, c}
  x = x
  a = a
  b = b
  c = c
  Shapes <- TwoStages
  Declared = {c}
  Collector = {k1, k2}
  MaxLines = 2
  MaxStops = 1
CHECK_DEADLOCK FALSE
INVARIANTS TypeOK WholeInOrder StoredOnce
PROPERTIES Told
