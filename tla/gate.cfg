SPECIFICATION Spec
CONSTANTS
  Nil = Nil
  Bets = {1, 2, 3}
  Week <- MCWeek
  Sized = {1, 2}
  Clvs <- MCClvs
  Fills = {40, 60}
  Entry = 40
  Contracts = 2
  FeeNum = 7
  FeeDen = 100
  MinBets = 2
  MinWeeks = 1
  BcaMinClusters = 2
  BcaPasses <- MCBcaPasses
  CoverNum = 3
  CoverDen = 4
  MissNum = 3
  MissDen = 10
INVARIANTS OnlySharpEvidenceOpens ReportedPnlIsRecorded
PROPERTIES BadNewsNeverOpens
