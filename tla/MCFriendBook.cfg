SPECIFICATION Spec
CONSTANTS
  x = x
  y = y
  Users = {a, b, c, d}
  Accounts = {player1, x, y}
  DefaultAccount = player1
  Requests = {q1, q2}
  Results <- MCResults
  MaxCrashes = 1
  MaxChanges = 1
  Index = Index
  Likes = Likes
  NoFile = NoFile
  Gone = Gone
  Torn = Torn
SYMMETRY Symmetry
INVARIANTS
  TypeOK
  RequestSurvives
  OneSidedIsUnaccepted
  OnePendingBetween
  AccountsKept
  BooksBalance
PROPERTIES
  AcceptedOnlyWhenLinked
CHECK_DEADLOCK FALSE
