SPECIFICATION Spec
CONSTANTS
  d1 = d1
  d2 = d2
  d3 = d3
  c1 = c1
  c2 = c2
  None = None
  Daemons = {d1, d2, d3}
  Commands = {c1, c2}
  MaxBegun = 3
  MaxDeaths = 1
SYMMETRY Symmetry
CHECK_DEADLOCK FALSE
INVARIANTS OneDaemon OrderlyReadyIsReachable NamedListens StartReportsChild EmptyFileIsBeingWritten LifecycleInv
PROPERTIES FirstWriterStays
