SPECIFICATION Spec
CONSTANTS
  m = m
  n = n
  sub = sub
  Labels <- MCLabels
  Paths <- MCPaths
  Starts <- MCStarts
  Names = {a, b}
  Nowhere = Nowhere
  Uses = {{"search"}, {"last"}, {"outside"}, {"above"}, {"killed"}}
  MaxId = 5
  MaxActs = 6
INVARIANTS
  TypeOK
  
  
  RecentIsLast
  RecentAgrees
  
  
CHECK_DEADLOCK FALSE
