SPECIFICATION Spec
CONSTANTS
  r1 = r1  r2 = r2  b1 = b1  b2 = b2  s1 = s1  s2 = s2  w1 = w1  k1 = k1
  Requests = {r1, r2}
  Browsers = {b1, b2}
  Subs = {s1, s2}
  Writings = {w1}
  Keys = {k1}
  MaxWork = 4
  MaxNotices = 2
  PageSize = 1
CONSTRAINT OnePart
SYMMETRY Symmetry
CHECK_DEADLOCK FALSE
INVARIANTS IInv OwnersStay InboxSettles
