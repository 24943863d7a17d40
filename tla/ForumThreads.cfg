\* Two accounts and three requests: three replies, or deletions and edits.
CONSTANTS
  Users = {u1, u2}
  NoUser = NoUser
  Requests = {r1, r2, r3}
  Statuses = {"open", "closed"}
  MaxPosts = 3
  MaxFanout = 1
SPECIFICATION Spec
SYMMETRY Symmetry
CONSTRAINT Modest
INVARIANTS IInv NoticesAreFew EarlierWritingsAnonymous
PROPERTIES TellsParticipants LockedIsFrozen
CHECK_DEADLOCK FALSE
