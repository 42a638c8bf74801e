\* Async main and two more tasks.
SPECIFICATION BSpec
CONSTANTS
  main = main
  a = a
  b = b
  null = null
  Task = {main, a, b}
  Root = main
  NoTask = null
  Programs <- EagerPrograms
  MaxCalls = 2
PROPERTIES
  AwaitCompletes
