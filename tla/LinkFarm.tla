------------------------------ MODULE LinkFarm ------------------------------
(***************************************************************************)
(* The loops of linkAll and linkPrograms (site/js/boot.js, store.js), one  *)
(* path at a time: first the roots in their order, then the other paths of *)
(* the batch.  They run to the end between two awaits; what other modules  *)
(* take them to compute in one step is StoreShare!LinkAll, and that they   *)
(* do is what this module is for.                                          *)
(***************************************************************************)
EXTENDS StoreShare

CONSTANT RootLists  \* the lists of roots a batch can come with

\* digestsOf leaves no duplicates.
ASSUME RootListsAssumption ==
  /\ RootLists \subseteq Seq(Path)
  /\ \A r \in RootLists : \A i, j \in DOMAIN r : r[i] = r[j] => i = j

VARIABLES
  call,  \* what linkAll was called with
  farm,  \* the farm as it is now
  next,  \* the position of the next root to link
  rest   \* the other paths of the batch not linked yet

loop == <<call, farm, next, rest>>

Calls == [written : SUBSET Path, farm : Farm, batch : SUBSET Path,
          roots : RootLists, precedence : Precedence]

\* The batch has been written by then, and older links were made from paths
\* written before.
Prepared(c) ==
  /\ c.batch \subseteq c.written
  /\ \A n \in Program : c.farm[n] # Unlinked => Offers(c.written, c.farm[n], n)

LoopInit ==
  /\ call \in Calls /\ Prepared(call)
  /\ farm = call.farm
  /\ next = 1
  /\ rest = call.batch \ Rooted(call.roots)

\* Mutant: the first root is linked as the others of the batch are.
LinkRootKeeping ==
  /\ next \in DOMAIN call.roots
  /\ farm' = Link(call.written, farm, call.roots[next], "keep")
  /\ next' = next + 1
  /\ UNCHANGED <<call, rest>>

LinkRoot ==
  /\ next \in DOMAIN call.roots
  /\ farm' = Link(call.written, farm, call.roots[next], call.precedence)
  /\ next' = next + 1
  /\ UNCHANGED <<call, rest>>

LinkRest(p) ==
  /\ next \notin DOMAIN call.roots
  /\ p \in rest
  /\ farm' = Link(call.written, farm, p, "keep")
  /\ rest' = rest \ {p}
  /\ UNCHANGED <<call, next>>

LoopNext == LinkRoot \/ \E p \in Path : LinkRest(p)

LoopSpec == LoopInit /\ [][LoopNext]_loop

Done == next \notin DOMAIN call.roots /\ rest = {}

-----------------------------------------------------------------------------
\* The loops and the closed form agree: when they are through, the farm is
\* one that LinkAll allows (boot.js, linkAll).
LinksAsPromised ==
  Done => farm \in LinkAll(call.written, call.farm, call.batch, call.roots,
                           call.precedence)

\* While the rest is linked no name that already had a link changes hands: a
\* dependency only ever fills a name still free (store.js, Precedence.KEEP).
RestOnlyFills ==
  [][next \notin DOMAIN call.roots =>
       \A n \in Program : farm[n] # Unlinked => farm'[n] = farm[n]]_loop

-----------------------------------------------------------------------------
(***************************************************************************)
(* The loop invariant.                                                     *)
(***************************************************************************)
LoopTypeOK ==
  /\ call \in Calls
  /\ farm \in Farm
  /\ next \in 1 .. Len(call.roots) + 1
  /\ rest \subseteq call.batch \ Rooted(call.roots)

\* The roots linked so far that offer n.
Tried(n) == {i \in 1 .. next - 1 : Offers(call.written, call.roots[i], n)}

\* What the roots at the positions T of call c, which all offer n, make of it.
ByRoots(c, T, n, f) ==
  \/ T = {} /\ f = c.farm[n]
  \/ /\ c.precedence = "replace"
     /\ \E i \in T : f = c.roots[i] /\ \A j \in T : j <= i
  \/ /\ c.precedence = "keep" /\ T # {}
     /\ c.farm[n] # Unlinked /\ f = c.farm[n]
  \/ /\ c.precedence = "keep" /\ c.farm[n] = Unlinked
     /\ \E i \in T : f = c.roots[i] /\ \A j \in T : i <= j

\* The other paths linked so far that offer n.
Filled(n) ==
  {p \in (call.batch \ Rooted(call.roots)) \ rest : Offers(call.written, p, n)}

LoopInv ==
  /\ LoopTypeOK
  /\ next \in DOMAIN call.roots => rest = call.batch \ Rooted(call.roots)
  /\ \A n \in Program :
       \/ ByRoots(call, Tried(n), n, farm[n]) /\ (farm[n] # Unlinked \/ Filled(n) = {})
       \/ ByRoots(call, Tried(n), n, Unlinked) /\ farm[n] \in Filled(n)
=============================================================================
