SPECIFICATION FairSpec
CONSTANTS
  Deck <- SmallDeck
  Value <- SmallValue
  Deals <- SmallDeals
  Mode = "VS_BOT"
  Bots = {1, 2}
  ActionIds = {a1, a2, a3, a4}
  MaxAcks = 1
INVARIANTS
  TypeOK
  AutoTurnScheduled
  FinishOnce
PROPERTIES
  PresentationRespected
  OwnMoveTakesOver
  EndsOrModelFails
