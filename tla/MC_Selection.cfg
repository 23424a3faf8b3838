SPECIFICATION Spec
CONSTANTS
  d1 = d1
  d2 = d2
  c1 = c1
  none = none
  nixos = nixos
  Digest = {d1, d2}
  Packages = {d1}
  Absent = none
  NixOS = nixos
  Holdings <- MCHoldings
  CacheLists <- MCCacheLists
  Links <- MCLinks
  MaxVisits = 2
  MaxActs = 2
INVARIANTS
  ChipForetellsWalk
  LinkReproduces
CHECK_DEADLOCK FALSE
