SPECIFICATION Spec
CONSTANTS
  Nil = Nil
  Players = {p1, p2, p3, p4}
  Spellings = {plain, variant}
  Rounds <- Knockout
  MaxDate = 1
  MaxMatches = 2
  MinMatches = 0
SYMMETRY PlayerSymmetry
INVARIANTS RehydratedBookAgrees
