\* Two requests at a time; the banner lives one tick, the feed two.
CONSTANTS
  Keys <- MCKeys
  Values <- MCValues
  Ttl <- MCTtl
  Callers = {c1, c2}
  Slow = 1
  MaxTime = 3
  MaxPosts = 2
  MaxChanges = 2
  Nothing = Nothing
SPECIFICATION Spec
INVARIANTS IInv NoWastedFetch
PROPERTIES ImplementsFreshView WaitersAreServed
CHECK_DEADLOCK FALSE
CONSTRAINT OneKey
