SPECIFICATION Spec
CONSTANTS
  Deck <- MCDeck
  Value <- MCValue
  Deals <- MCDeals
  Mode = "PVP"
  Bots = {2}
  ActionIds = {a1}
  MaxAcks = 0
INVARIANTS
  TrickOrder
  CardsAccounted
  Settlement
  SpringMeansShutOut
PROPERTIES
  PlaysTheGame
