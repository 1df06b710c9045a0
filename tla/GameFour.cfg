CONSTANTS
  red = red
  blue = blue
  EMPTY = EMPTY
  NumPlayers = 4
  Colours = {red, blue}
  MaxNumber = 2
  Copies <- TwoNumbers
  DisplayedCards = 2
  totalBlueTokens = 1
  totalBlackFuseTokens = 1
  MaxTurns = 1
  Leavers = {}
SPECIFICATION Spec
INVARIANT DisplayInBounds
