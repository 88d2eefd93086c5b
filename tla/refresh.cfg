SPECIFICATION FairSpec
CONSTANTS
  Nil = Nil
  Torn = Torn
  Jobs = {scan}
  Tours = {atp, wta}
  MaxTime = 1
  StaleAfter = 0
  MaxFaults = 2
INVARIANTS NoTornInput OkMeansServed
PROPERTIES ServesWholeBuilds TourKept FrozenModelIsFlagged BotComesBack
