SPECIFICATION Spec
CONSTANTS
  Nil = Nil
  Events = {e1}
  Lanes = 2
  MaxRows = 2
INVARIANTS TypeOK DuplicateOnlyFromRace DedupNamesItsRow CycleFindsItsRows
