SPECIFICATION SessionSpec
CONSTANTS
  MaxIce = 3
  Id <- Ids
  Ops <- AllOps
  MaxEvents = 5
  MaxSize = 4
CONSTRAINT Focus
INVARIANTS
  AnswerFollowsOffer
  ScreenShowsCurrent
  LetterboxExact
PROPERTIES
  HandshakeCompletes
CHECK_DEADLOCK FALSE
