CONSTANTS
  u1 = u1
  u2 = u2
  u3 = u3
  a1 = a1
  Users = {u1, u2, u3}
  Announcers = {a1}
  NoUser = NoUser
SPECIFICATION ExcFairSpec
INVARIANTS
  WalkSafe
PROPERTIES
  CallsReturn
