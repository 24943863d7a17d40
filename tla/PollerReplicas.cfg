\* Clicks that land on two replicas.
CONSTANTS
  scheduler = scheduler
  click = click
  click2 = click2
  adminLock = adminLock
  adminLock2 = adminLock2
  NoLock = NoLock
  m1 = m1
  i1 = i1
  i2 = i2
  Users = {u1}
  Pollers = {click, click2}
  lockOf <- TwoReplicaClicks
  Mods = {m1}
  NFeeds = 2
  modOf <- OneModTwoFeeds
  Items = {i1, i2}
  feedOf <- TwoItems
  MaxCrashes = 0
SPECIFICATION Spec
INVARIANTS NoDuplicateNotice
CHECK_DEADLOCK FALSE
