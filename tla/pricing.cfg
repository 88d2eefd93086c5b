SPECIFICATION Spec
CONSTANTS
  Nil = Nil
  Prices = {15, 45, 50, 80}
  MaxSize = 2
  MaxLevels = 2
  Probabilities = {30, 54, 90}
  Histories <- SampleHistories
  FeeNum = 7
  FeeDen = 100
  MinEdge = 30000
  MinPrice = 20
  MaxPrice = 95
  MaxSpread = 10
  MinLiquidity = 2
  MinMatches = 20
  ThinMatches = 50
  MaxStaleness = 365
  Bankroll = 1000
  KellyNum = 1
  KellyDen = 4
  CapNum = 1
  CapDen = 20
  FlatStakes <- SampleStakes
  RoundedUp <- Doubles
  SiblingBooks <- OtherBooks
INVARIANTS
  OneSideAtMost
  AlertEarnsItsEdge
  StakeWithinCap
  AlertPriceHasDepth
  SiblingIsConsistent
