SPECIFICATION FairSpec
CONSTANTS
  out = out  bin = bin  rg = rg  lib = lib  p = p  q = q
  Unlinked = Unlinked
  NoVM = NoVM
  Path <- PairPath
  Program <- Programmes
  Programs <- PairPrograms
  Refs <- PairRefs
  BinOf <- PairBin
  Selectable = {rg}
  Deniable = {rg}
  NarConcurrency = 2
  MaxBoots = 2
  MaxAdds = 1
  OneBootAtATime = TRUE
  LinkFirst = TRUE
INVARIANTS IInv ReleasedComplete OneGuest ButtonComesBack
PROPERTIES VMStays JobsEnd
CHECK_DEADLOCK FALSE
