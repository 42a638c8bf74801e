\* A ring that wraps and grows twice, timers for three levels of the heap;
\* functions of five statements over three variables and a reference;
\* matches of up to three arms.
SPECIFICATION QSpec
CONSTANTS
  t1 = t1
  t2 = t2
  t3 = t3
  s1 = s1
  s2 = s2
  s3 = s3
  s4 = s4
  null = null
  noTask = noTask
  Task <- MCTask
  FirstCap = 2
  MaxTail = 7
  Sleepers <- MCSleepers
  Delays = {0, 1, 2, 3}
  FirstTimers = 2
  MaxTime = 3
  a = a
  b = b
  c = c
  r = r
  Name <- MCName
  RefName <- MCRefName
  NoName = NoName
  Nothing = Nothing
  Garbage = Garbage
  Nowhere = Nowhere
  Caller = Caller
  MaxStmts = 5
  MaxDepth = 3
  Enums <- MCEnums
  Tuples <- MCTuples
  Written <- MCWritten
  Domain <- MCDomain
  MaxArms = 3
SYMMETRY Symmetric
INVARIANTS
  DroppedOnce
  ReadsSound
  MatchRunsFirstArm
PROPERTIES
  RingIsFifo
  HeapIsBag
CHECK_DEADLOCK FALSE
