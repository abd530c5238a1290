SPECIFICATION Spec
INVARIANTS
  MemoryMatches
  IdleHoldsNothing
  ThreadsHaveTheirs
  CodecsCloseFirst
