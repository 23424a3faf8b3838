SPECIFICATION FairSpec
CONSTANTS
  rg = rg  fd = fd  pcre = pcre  zlib = zlib  gcc = gcc  glibc = glibc
  Path <- Paths
  Refs <- Graph
  RootLists <- Lists
  FetchConcurrency = 2
INVARIANTS WInv WalkFindsReach NothingMissing EachOnce
PROPERTIES WalkEnds
CHECK_DEADLOCK FALSE
