\* Two senders, two receivers and two closers on a channel of two slots: four
\* values go through, so that the indices wrap around; two workers, two pools;
\* a table of four slots that grows to eight.
SPECIFICATION RSpec
CONSTANTS
  Senders = {s1, s2}
  Receivers = {r1, r2}
  Closers = {c1, c2}
  RequestedCapacity = 2
  MaxSends = 2
  Zero = Zero
  WorkerIds <- MCWorkerIds
  MaxInits = 2
  k1 = k1
  k2 = k2
  k3 = k3
  v1 = v1
  v2 = v2
  nil = nil
  Key <- MCKey
  Value <- MCValue
  hash <- MCHash
  FirstSlots = 4
  MaxSlots = 8
INVARIANTS
  FifoExactlyOnce
  NoLostWakeup
  CloseReleasesWaiters
  NilIsFinal
  NoWorkerAfterDelete
  LoopVisitsOnce
PROPERTIES
  FifoSpec
  ChannelEnds
  ShutdownReturns
  TableIsMap
