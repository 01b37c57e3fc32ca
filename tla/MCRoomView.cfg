SPECIFICATION FairViewSpec
CONSTANTS
  Deck <- MCDeck
  Value <- MCValue
  Deals <- MCDeals
  Mode = "PVP"
  Bots = {1, 2}
  ActionIds = {a1}
  MaxAcks = 0
  HistoryLimit = 5
INVARIANTS
  SeesTheTable
  ViewTellsTheRound
  CounterShortOnlyByTwice
PROPERTIES
  ModelsEndTheRound
