SPECIFICATION Spec
CONSTANTS
  Users = {u1, u2}
  Tokens = {t1, t2, t3}
  RoomIds = {r1, r2}
  InviteIds = {i1}
  MaxOffline = 1
  MaxBots = 1
  MaxWaiting = 0
CONSTRAINT OneAtATime
SYMMETRY Symmetry
INVARIANTS
  OwnerSeated
PROPERTIES
  GameGoesOn
  SettledOnce
