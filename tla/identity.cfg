SPECIFICATION Spec
CONSTANTS
  Nil = Nil
  Players <- MCPlayers
  Rated <- MCRated
  Matches <- MCMatches
  Quotes <- MCQuotes
  Stamps = {1}
  MaxRows = 2
INVARIANTS TypeOK RatedNeverConfused PriceIsForTheBacked PricedOnACheckedStart
CHECK_DEADLOCK FALSE
