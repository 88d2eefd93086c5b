SPECIFICATION FairSpec
CONSTANTS
  Nil = Nil
  Opps = {1, 2}
  Side <- MCSide
  Sized = {1}
  MaxFaults = 1
INVARIANTS TypeOK AutoAgreesWithKalshi PnlBelongsToResult AskedOnce
PROPERTIES OwnerWins QuestionArrives SettledIsRecorded
