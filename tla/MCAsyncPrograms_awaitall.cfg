\* Async main and one more task.
SPECIFICATION BFairSpec
CONSTANTS
  main = main
  a = a
  b = b
  null = null
  Task = {main, a}
  Root = main
  NoTask = null
  Programs <- GroupPrograms
  MaxCalls = 2
PROPERTIES
  AwaitAllEnds
