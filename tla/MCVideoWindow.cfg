SPECIFICATION FairSpec
CONSTANTS
  w1 = w1
  w2 = w2
  w3 = w3
  NoWindow = NoWindow
  Windows <- MCWindows
  MaxLoads = 3
INVARIANTS
  LockedIsAlive
CHECK_DEADLOCK FALSE
 
