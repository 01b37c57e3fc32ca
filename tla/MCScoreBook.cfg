SPECIFICATION Spec
CONSTANTS
  u1 = u1
  u2 = u2
  online = online
  bots = bots
  NoRoom = NoRoom
  Users = {u1, u2}
  Rooms = {online, bots}
  BotRooms = {bots}
  Members <- TwoRooms
  MaxActions <- FewActions
  MaxChanges = 1
INVARIANTS
  TypeOK
  RecordedBeforeShown
  BotGameCountedOnce
  NeverAheadOfRecord
CHECK_DEADLOCK FALSE
