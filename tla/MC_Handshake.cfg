SPECIFICATION FairSpec
CONSTANTS
  UartSize = 2
  MaxPending = 2
INVARIANTS QuietWhenHeard
PROPERTIES TypedIsKept GuestComesUp PageReturns
CHECK_DEADLOCK FALSE
