\* Two items of one feed come to its first page and leave it, while the
\* scheduler and a click overlap.
CONSTANTS
  scheduler = scheduler
  click = click
  click2 = click2
  adminLock = adminLock
  adminLock2 = adminLock2
  NoLock = NoLock
  m1 = m1
  i1 = i1
  i2 = i2
  Users = {u1}
  Pollers = {scheduler, click}
  lockOf <- SchedulerAndAdmin
  Mods = {m1}
  NFeeds = 1
  modOf <- OneFeed
  Items = {i1, i2}
  feedOf <- TwoOnOneFeed
  MaxCrashes = 1
SPECIFICATION FairSpec
PROPERTIES EventuallyKnown
CHECK_DEADLOCK FALSE
