\* Two buyers, two checkouts, deliveries late and repeated.
CONSTANTS
  coffee = coffee
  lunch = lunch
  Users = {u1, u2}
  Tiers = {coffee, lunch}
  tierWeight <- TierWeights
  Checkouts = {c1, c2}
  Period = 2
  OpenFor = 1
  Missing = Missing
  Malformed = Malformed
  MaxRow = 4
  MaxTime = 3
SPECIFICATION FairSpec
INVARIANTS MembershipInv GrantedOnce DelayChangesNothing NoUnboughtWeight
PROPERTIES TimeNeverShrinks BoughtIsGranted
CHECK_DEADLOCK FALSE
