\* The scheduler overlaps clicks, which share a lock.
CONSTANTS
  scheduler = scheduler
  click = click
  click2 = click2
  adminLock = adminLock
  adminLock2 = adminLock2
  NoLock = NoLock
  m1 = m1
  i1 = i1
  i2 = i2
  Users = {u1}
  Pollers = {scheduler, click, click2}
  lockOf <- SchedulerAndClicks
  Mods = {m1}
  NFeeds = 2
  modOf <- OneModTwoFeeds
  Items = {i1, i2}
  feedOf <- TwoItems
  MaxCrashes = 1
SPECIFICATION Spec
INVARIANTS IInv ToldIsKnown NoticesPerSlot
PROPERTIES LearnedIsTold ImplementsFeed
CHECK_DEADLOCK FALSE
