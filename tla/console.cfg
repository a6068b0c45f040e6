SPECIFICATION MCSpec
CONSTANTS
  theirs = theirs
  admins = admins
  boss = boss
  ann = ann
  bob = bob
  tb = tb
  ta = ta
  tn = tn
  p = p
  q = q
  pb = pb
  n = n
  m = m
  i = i
  j = j
  k = k
  a = a
  b = b
  s = s
  t = t
  u = u
  c = c
  d = d
  x = x
  y = y
  h = h
  Nothing = Nothing
  Gone = Gone
  Req = {theirs, admins}
  User = {boss, ann, bob}
  Token = {tb, ta, tn}
  Project = {p, q, pb}
  Node = {n, m}
  Activity = {i, j, k}
  Name = {a, b}
  Sub = {s, t, u}
  Chain = {c, d}
  Case = {x, y}
  Secret = {h}
  FailLimit = 1
  Input <- Inputs
  Trim <- Trimmed
CHECK_DEADLOCK FALSE
INVARIANTS TypeOK UsedUntouched
PROPERTIES Permitted
