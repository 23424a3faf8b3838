SPECIFICATION FairSpec
CONSTANTS
  f1 = f1  f2 = f2
  Fetcher = {f1, f2}
  Served = {"good", "short"}
  Attempts = 2
  NarAttempts = 2
  MaxVisits = 2
  Nothing = Nothing
INVARIANTS ShortIsEvicted BadCopyHeals RowExactlyFull
PROPERTIES FetchEnds
CHECK_DEADLOCK FALSE
