SPECIFICATION Spec
CONSTANTS
  nothing = nothing
  Attrs <- MCAttrs
  shardOf <- MCShardOf
  Shipped <- MCShipped
  Built <- MCBuilt
  Includes <- MCIncludes
  Rank <- MCRank
  SearchLimit = 5
  Fragments <- MCFragments
  Begins <- MCBegins
  Lines <- MCLines
  Nothing = nothing
  MaxActs = 5
  MaxFaults = 1
INVARIANTS
  PillsTruthful
  QuietIsCurrent
  RangeAccounts
CHECK_DEADLOCK FALSE
