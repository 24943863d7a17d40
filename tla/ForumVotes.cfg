\* One user clicks twice at once, or waits; another clicks once; weights 1, 2.
CONSTANTS
  u1 = u1
  u2 = u2
  r1 = r1
  r2 = r2
  r3 = r3
  NoUser = NoUser
  Users = {u1, u2}
  Requests = {r1, r2, r3}
  owner <- DoubleClick
  Weights = {1, 2}
  MaxId = 3
SPECIFICATION Spec
INVARIANTS IInv SerialScoreIsSum OneVotePerUser
PROPERTIES OnlyOwnVoteRemoved
CHECK_DEADLOCK FALSE
