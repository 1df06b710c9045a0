CONSTANTS
  red = red
  blue = blue
  EMPTY = EMPTY
  NumPlayers = 3
  Colours = {red, blue}
  MaxNumber = 2
  Copies <- ThreeOne
  DisplayedCards = 2
  totalBlueTokens = 1
  totalBlackFuseTokens = 1
  MaxTurns = 1
  Leavers = {0, 1}
SPECIFICATION FairSpec
INVARIANT OneMovePerTurn
PROPERTY LeaverEndsGame
