\* Every list of three entries over nine addresses; some need more requests
\* than the limit allows.
SPECIFICATION Spec
CONSTANTS
  AddrSpace = 9
  MaxMergeGap = 2
  MaxReadLength = 4
  MaxReadRequests = 2
  MaxEntries = 3
INVARIANTS
  EachAddressOnce
  RequestsFit
CHECK_DEADLOCK FALSE
