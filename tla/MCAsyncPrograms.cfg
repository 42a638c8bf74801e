\* Two classes of programs; two blocking calls.
SPECIFICATION BFairSpec
CONSTANTS
  main = main
  a = a
  b = b
  null = null
  Task <- MCTask
  Root = main
  NoTask = null
  Programs <- MCPrograms
  MaxCalls = 2
INVARIANTS
  PlainNoFault
  PlainOneWakeSource
  BStackDiscipline
PROPERTIES
  PlainAwaitCompletes
  PlainResumesAreDue
  PlainRootCompletes
  TimeoutReturns
