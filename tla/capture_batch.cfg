SPECIFICATION Spec
CONSTANTS
  Nil = Nil
  MaxTime = 1
  Opps = {1, 2}
  Workers = {w1}
  Stamps = {1}
  BeforeStart = 0
  LateGrace = 0
  Earliest = 0
  Epsilon = 0
  EntryTime = 1
  MaxTries = 1
  MaxFaults = 1
PROPERTIES FailClosed
