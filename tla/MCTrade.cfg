SPECIFICATION Spec
CONSTANTS
  p1 = p1
  p2 = p2
  b1 = b1
  b2 = b2
  c1 = c1
  c2 = c2
  c3 = c3
  c4 = c4
  Players <- MCPlayers
  Bags <- MCBags
  Coins <- MCCoins
  Start <- MCStart
  Ground = Ground
  None = None
  MaxStack = 2
  BagSlots = 2
  BagWeight = 1
  Capacity = 6
  MaxLying = 1
  MaxPending = 0
SYMMETRY MCSymmetry
INVARIANTS
  StoreConsistent
  BagsConsistent
  CoinsConserved
PROPERTIES
  OfferStands
  FairExchange
CHECK_DEADLOCK FALSE
