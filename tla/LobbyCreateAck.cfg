CONSTANTS
  c1 = c1
  c2 = c2
  c3 = c3
  NoOne = NoOne
  Clients <- Three
  MaxPlayers = 2
  AskIds = {0, 1}
SPECIFICATION Spec
INVARIANT CreateAckToCreator
