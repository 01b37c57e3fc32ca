SPECIFICATION Spec
CONSTANTS
  Users = {u1, u2, u3}
  Tokens = {t1, t2, t3}
  RoomIds = {r1}
  InviteIds = {i1, i2}
  MaxOffline = 1
  MaxBots = 2
  MaxWaiting = 2
CONSTRAINT TwoAtATime
SYMMETRY Symmetry
INVARIANTS
  TypeOK
  OneSession
  InvitationsOpen
  PlayersDistinct
  StartsWhenReady
PROPERTIES
  DeviceTakesOver
