SPECIFICATION Spec
CONSTANTS
  x = x
  y = y
  Users = {a, b}
  Accounts = {player1, x}
  DefaultAccount = player1
  Requests = {q1}
  Results = {}
  MaxCrashes = 1
  MaxChanges = 0
  Index = Index
  Likes = Likes
  NoFile = NoFile
  Gone = Gone
  Torn = Torn
INVARIANTS
  ProfileSurvives
CHECK_DEADLOCK FALSE
