SPECIFICATION FairSpec
CONSTANTS
  w1 = w1
  w2 = w2
  w3 = w3
  Writers = {w1, w2, w3}
  Ids = {"a", "b"}
  Levels = {0, 3, 4}
  Kind = "intent"
  Received <- MCReceived
INVARIANTS
  TypeOK
  BilledAsAchieved
  AcceptedIsTrue
  UndisturbedIsRead
  ShownIsBacked
PROPERTIES
  EmptyIsTemporary
