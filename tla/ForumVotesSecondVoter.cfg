\* Two users vote on one thread.
CONSTANTS
  u1 = u1
  u2 = u2
  r1 = r1
  r2 = r2
  r3 = r3
  NoUser = NoUser
  Users = {u1, u2}
  Requests = {r1, r2}
  owner <- OneRequestEach
  Weights = {1, 2}
  MaxId = 4
SPECIFICATION Spec
INVARIANTS EveryUserCanVote
CHECK_DEADLOCK FALSE
