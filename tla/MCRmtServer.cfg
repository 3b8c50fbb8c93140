\* sessions of up to four requests; the peer may die in the middle of one
CONSTANTS
  Requests <- MCRequests
  MaxRequests = 4
SPECIFICATION Spec
INVARIANTS InStep NoLeak
PROPERTIES NeverLeftWaiting EndsWithPeer
CHECK_DEADLOCK FALSE
