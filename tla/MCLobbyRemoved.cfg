SPECIFICATION Spec
CONSTANTS
  Users = {u1, u2}
  Tokens = {t1, t2}
  RoomIds = {r1}
  InviteIds = {}
  MaxOffline = 1
  MaxBots = 2
  MaxWaiting = 0
SYMMETRY Symmetry
INVARIANTS
  RemovedStaysOut
