SPECIFICATION LoopSpec
CONSTANTS
  a = a  b = b  c = c  p = p  q = q
  Unlinked = Unlinked
  Path <- MCPath
  Program <- MCProgram
  Programs <- MCPrograms
  RootLists <- MCRootLists
INVARIANTS LinksAsPromised
CHECK_DEADLOCK FALSE
