SPECIFICATION Spec
CONSTANTS
  Nil = Nil
  MaxTime = 3
  Opps = {1}
  Workers = {w1, w2}
  Stamps = {1, 2}
  BeforeStart = 1
  LateGrace = 0
  Earliest = 1
  Epsilon = 0
  EntryTime = 0
  MaxTries = 1
  MaxFaults = 0
INVARIANTS NoInPlayClose
