\* Overlapping uploads, failures and one restart.
CONSTANTS
  e1 = e1
  e2 = e2
  e3 = e3
  pod1 = pod1
  pod2 = pod2
  Events = {e1, e2, e3}
  SizeOf <- MCSizeOf
  FlushBytes = 4
  Pods <- MCPods
  MaxFailures = 2
SPECIFICATION FairSpec
INVARIANTS
  TypeOK
  EventsAreKept
  BufSizeIsExact
  FullBufferIsFlushed
  NoDuplicates
PROPERTIES
  ObjectsAreFinal
  EventsAreStored
