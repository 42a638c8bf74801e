SPECIFICATION DSpec
CONSTANTS
  Programs <- MCPrograms
  BreakpointSets <- MCBreakpointSets
  Watches <- MCWatches
  MaxSets = 1
  MaxResumes = 5
  MaxNested = 2
  MaxRefs = 0
INVARIANT
  OutputAsUndebugged
CHECK_DEADLOCK FALSE
