SPECIFICATION Spec
CONSTANTS
  u1 = u1
  u2 = u2
  online = online
  bots = bots
  NoRoom = NoRoom
  Users = {u1, u2}
  Rooms = {online}
  BotRooms = {}
  Members <- OnlineRoom
  MaxActions <- OnlineActions
  MaxChanges = 0
INVARIANTS
  CountedOnce
CHECK_DEADLOCK FALSE
