SPECIFICATION Spec
CONSTANTS
  Deck <- MCDeck
  Value <- MCValue
  Hands <- MCHands
INVARIANTS
  OneReading
  ReadsByTheRules
  CandidatesComplete
  NoBeatingCircle
  PlanPlayable
