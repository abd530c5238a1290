SPECIFICATION FairSpec
CONSTANTS
  Videos = {v, w}
  DeletesOne = TRUE
  Outside = TRUE
  MaxId = 3
  MaxActs = 7
INVARIANTS
  PicturesAreTheirOwn
  ShownPicturesExist
CHECK_DEADLOCK FALSE
PROPERTY EveryVideoGetsPicture
