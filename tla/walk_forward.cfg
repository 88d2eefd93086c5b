SPECIFICATION Spec
CONSTANTS
  Nil = Nil
  Players = {p1, p2, p3, p4}
  Spellings = {plain}
  Rounds <- Knockout
  MaxDate = 1
  MaxMatches = 3
  MinMatches = 0
SYMMETRY PlayerSymmetry
INVARIANTS NoLookahead TrainingIsUnspoiled LastPlayedIsNewest RehydratedBookAgrees
