SPECIFICATION Spec
CONSTANTS
  out = out  bin = bin  rg = rg  lib = lib  p = p  q = q
  Unlinked = Unlinked
  NoVM = NoVM
  Path <- SplitPath
  Program <- Programmes
  Programs <- SplitPrograms
  Refs <- SplitRefs
  BinOf <- SplitBin
  Selectable = {out, bin}
  Deniable = {}
  NarConcurrency = 2
  MaxBoots = 1
  MaxAdds = 2
  OneBootAtATime = TRUE
  LinkFirst = TRUE
INVARIANTS RootsShadow LinksResolve MountedWritten
PROPERTIES KeepsPromise
CHECK_DEADLOCK FALSE
