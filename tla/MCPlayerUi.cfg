SPECIFICATION FairSpec
CONSTANTS
  videoCount = 3
  Progress <- MCProgress
  None = None
  Serial = TRUE
  MaxActs = 5
INVARIANTS
  TypeOK
  PlaysWhatIsShown
  FlagAgrees
  SeekIsExact
PROPERTY ButtonComesBack
CHECK_DEADLOCK FALSE
