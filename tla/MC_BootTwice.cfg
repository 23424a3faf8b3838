SPECIFICATION Spec
CONSTANTS
  out = out  bin = bin  rg = rg  lib = lib  p = p  q = q
  Unlinked = Unlinked
  NoVM = NoVM
  Path <- PairPath
  Program <- Programmes
  Programs <- PairPrograms
  Refs <- PairRefs
  BinOf <- PairBin
  Selectable = {rg}
  Deniable = {}
  NarConcurrency = 2
  MaxBoots = 2
  MaxAdds = 0
  OneBootAtATime = FALSE
  LinkFirst = TRUE
INVARIANTS ReleasedComplete
CHECK_DEADLOCK FALSE
