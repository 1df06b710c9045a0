CONSTANTS
  red = red
  blue = blue
  EMPTY = EMPTY
  NumPlayers = 2
  Colours = {red, blue}
  MaxNumber = 2
  Copies <- TwoNumbers
  DisplayedCards = 2
  totalBlueTokens = 0
  totalBlackFuseTokens = 2
  MaxTurns = 5
  Leavers = {}
SPECIFICATION Spec
SYMMETRY ColourSymmetry
INVARIANTS TypeOK HandsFull CardsAccounted FusesLeft TokenLedger EmptyMeansDrawn InBoundsWhileDeckLasts
PROPERTY ImplementsRules
