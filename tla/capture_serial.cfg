SPECIFICATION FairSpec
CONSTANTS
  Nil = Nil
  MaxTime = 4
  Opps = {1}
  Workers = {w1}
  Stamps = {1, 3}
  BeforeStart = 1
  LateGrace = 1
  Earliest = 2
  Epsilon = 1
  EntryTime = 2
  MaxTries = 2
  MaxFaults = 2
INVARIANTS NoInPlayClose
PROPERTIES WriteOnce TimedRowsSettle
