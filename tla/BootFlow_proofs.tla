-------------------------- MODULE BootFlow_proofs --------------------------
(***************************************************************************)
(* Theorems about BootFlow, for every set of paths, every reference        *)
(* relation and every number of boots, adds and workers, about the share   *)
(* of StoreShare that it fills, and about the loops of LinkFarm that link  *)
(* into it.                                                                *)
(***************************************************************************)
EXTENDS BootFlow, LinkFarm, WellFoundedInduction, TLAPS

-----------------------------------------------------------------------------
(***************************************************************************)
(* What StoreShare!LinkAll promises, for every share, every batch and      *)
(* every list of roots.                                                    *)
(***************************************************************************)
LEMMA LeastOfNaturals ==
  ASSUME NEW S \in SUBSET Nat, S # {}
  PROVE  \E x \in S : \A y \in S : x <= y
<1> DEFINE R == OpToRel(<, Nat)
<1>1. IsWellFoundedOn(R, Nat)
  BY NatLessThanWellFounded
<1>2. \A x, y \in Nat : x < y => <<x, y>> \in R
  BY DEF OpToRel
<1> HIDE DEF R
<1>3. PICK x \in S : \A y \in S : ~ (<<y, x>> \in R)
  BY <1>1, WFMin
<1>4. \A y \in S : ~ (y < x)
  BY <1>2, <1>3
<1>5. \A y \in S : x <= y
  BY <1>4, SMT
<1> QED BY <1>5

LEMMA GreatestOfNaturals ==
  ASSUME NEW S \in SUBSET Nat, S # {}, NEW k \in Nat, \A i \in S : i <= k
  PROVE  \E x \in S : \A y \in S : y <= x
<1> DEFINE T == {n \in Nat : \A y \in S : y <= n}
<1>1. T # {} /\ T \subseteq Nat
  OBVIOUS
<1>2. PICK x \in T : \A y \in T : x <= y
  BY <1>1, LeastOfNaturals
<1>3. CASE x = 0
  <2>1. \A y \in S : y = 0
    BY <1>2, <1>3
  <2>2. PICK y \in S : TRUE
    OBVIOUS
  <2>3. \A z \in S : z <= y
    BY <2>1
  <2> QED BY <2>3
<1>4. CASE x # 0
  <2>1. x - 1 \in Nat /\ x - 1 \notin T
    BY <1>2, <1>4
  <2>2. PICK y \in S : ~ (y <= x - 1)
    BY <2>1
  <2>3. y = x
    BY <1>2, <2>2
  <2> QED BY <1>2, <2>3
<1> QED BY <1>3, <1>4

\* Min and Max are what they should be on a bounded set of numbers.
LEMMA MinMaxIn ==
  ASSUME NEW S \in SUBSET Nat, S # {}, NEW k \in Nat, \A i \in S : i <= k
  PROVE  Min(S) \in S /\ Max(S) \in S
<1>1. \E x \in S : \A y \in S : x <= y
  BY LeastOfNaturals
<1>2. \E x \in S : \A y \in S : x >= y
  BY GreatestOfNaturals
<1> QED BY <1>1, <1>2 DEF Min, Max

\* A name that some root offers is claimed: by the position at which that root
\* stands first.
LEMMA ClaimsExist ==
  ASSUME NEW D \in SUBSET Nat, NEW list \in [D -> Path], NEW written, NEW n,
         NEW i \in D, Offers(written, list[i], n)
  PROVE  Claims(written, list, n) # {}
<1> DEFINE S == {j \in D : list[j] = list[i]}
<1>1. S \subseteq Nat /\ S # {}
  OBVIOUS
<1>2. PICK j \in S : \A m \in S : j <= m
  BY <1>1, LeastOfNaturals
<1>3. \A m \in D : m < j => list[m] # list[j]
  BY <1>2
<1>4. j \in Claims(written, list, n)
  BY <1>2, <1>3 DEF Claims
<1> QED BY <1>4

\* A list of roots: a function from finitely many positions to paths.
RootList(list) ==
  /\ list \in [DOMAIN list -> Path] /\ DOMAIN list \in SUBSET Nat
  /\ \E k \in Nat : \A i \in DOMAIN list : i <= k

\* What may have become of name n when a batch has been linked: it keeps its
\* link or gets one that resolves; if a root offers it, it goes to a root,
\* unless it had a link and the precedence is "keep"; if no root offers it and
\* it had a link, it keeps it.
Relinked(written, old, new, list, precedence, n) ==
  LET offered == \E i \in DOMAIN list : Offers(written, list[i], n)
  IN  /\ new[n] = old[n] \/ Offers(written, new[n], n)
      /\ offered /\ (old[n] = Unlinked \/ precedence = "replace")
           => new[n] \in Rooted(list)
      /\ ~offered /\ old[n] # Unlinked => new[n] = old[n]

\* That is what linkAll does to every name (boot.js, linkAll).
THEOREM LinkAllFacts ==
  ASSUME NEW written, NEW old \in Farm, NEW batch, NEW list, RootList(list),
         NEW precedence \in Precedence,
         NEW f \in LinkAll(written, old, batch, list, precedence),
         NEW n \in Program
  PROVE  Relinked(written, old, f, list, precedence, n)
<1> USE DEF RootList, Relinked
<1> DEFINE D       == DOMAIN list
           claims  == Claims(written, list, n)
           held    == AfterRoots(written, old, list, precedence, n)
           fillers == {p \in batch \ Rooted(list) : Offers(written, p, n)}
<1>1. f[n] \in IF held # Unlinked \/ fillers = {} THEN {held} ELSE fillers
  BY DEF LinkAll, Winners
<1>2. claims \in SUBSET D /\ \A i \in claims : Offers(written, list[i], n)
  BY DEF Claims
<1>3. claims # {} => Min(claims) \in claims /\ Max(claims) \in claims
  <2>1. PICK k \in Nat : \A i \in D : i <= k
    OBVIOUS
  <2> QED BY <1>2, <2>1, MinMaxIn
<1>4. (\E i \in DOMAIN list : Offers(written, list[i], n)) => claims # {}
  BY ClaimsExist
<1>5. Unlinked \notin Path /\ \A i \in DOMAIN list : list[i] \in Rooted(list) /\ list[i] \in Path
  BY ShareAssumption DEF Rooted
<1>6. \A p \in fillers : Offers(written, p, n)
  OBVIOUS
<1> HIDE DEF claims, fillers
<1>7. CASE claims = {}
  <2>1. held = old[n]
    BY <1>7 DEF AfterRoots, claims
  <2> QED BY <1>1, <1>4, <1>6, <1>7, <2>1
<1>8. CASE claims # {}
  <2>1. PICK i \in claims : held = IF precedence = "replace" \/ old[n] = Unlinked
                                   THEN list[i] ELSE old[n]
    BY <1>3, <1>8 DEF AfterRoots, claims
  <2>2. held # Unlinked
    BY <1>2, <1>5, <2>1
  <2>3. f[n] = held
    BY <1>1, <2>2
  <2> QED BY <1>2, <1>5, <2>1, <2>3
<1> QED BY <1>7, <1>8

-----------------------------------------------------------------------------
(***************************************************************************)
(* The loops of linkAll do what StoreShare!LinkAll says, for any number of *)
(* paths, programs and roots.                                              *)
(***************************************************************************)
\* A number that is in a set and below (above) all of it is its Min (Max).
LEMMA Extremes ==
  ASSUME NEW S \in SUBSET Int, NEW i \in S
  PROVE  /\ (\A j \in S : j <= i) => Max(S) = i
         /\ (\A j \in S : i <= j) => Min(S) = i
<1>1. ASSUME \A j \in S : j <= i PROVE Max(S) = i
  <2>1. Max(S) \in S /\ \A j \in S : Max(S) >= j
    <3>1. \E x \in S : \A y \in S : x >= y
      BY <1>1
    <3> QED BY <3>1 DEF Max
  <2>2. Max(S) \in Int /\ Max(S) >= i /\ i >= Max(S)
    BY <1>1, <2>1
  <2> QED BY <2>2, SMT
<1>2. ASSUME \A j \in S : i <= j PROVE Min(S) = i
  <2>1. Min(S) \in S /\ \A j \in S : Min(S) <= j
    <3>1. \E x \in S : \A y \in S : x <= y
      BY <1>2
    <3> QED BY <3>1 DEF Min
  <2>2. Min(S) \in Int /\ Min(S) <= i /\ i <= Min(S)
    BY <1>2, <2>1
  <2> QED BY <2>2, SMT
<1> QED BY <1>1, <1>2

\* What a call is made of.
LEMMA CallType ==
  ASSUME LoopTypeOK
  PROVE  /\ call.written \subseteq Path /\ call.batch \subseteq Path
         /\ call.farm \in Farm /\ call.roots \in Seq(Path)
         /\ call.precedence \in {"keep", "replace"}
         /\ \A i, j \in DOMAIN call.roots : call.roots[i] = call.roots[j] => i = j
BY RootListsAssumption DEF LoopTypeOK, Calls, Precedence

\* Linking a path gives a farm.
LEMMA LinkType ==
  ASSUME NEW f \in Farm, NEW p \in Path, NEW written, NEW precedence
  PROVE  Link(written, f, p, precedence) \in Farm
BY DEF Link, Farm

LEMMA LoopStarts == LoopInit => LoopInv
<1> SUFFICES ASSUME LoopInit PROVE LoopInv
  OBVIOUS
<1>1. call.roots \in Seq(Path) /\ call.farm \in Farm
  BY RootListsAssumption DEF LoopInit, Calls
<1>2. LoopTypeOK
  BY <1>1 DEF LoopInit, LoopTypeOK, Calls
<1>3. ASSUME NEW n \in Program PROVE Tried(n) = {} /\ Filled(n) = {}
  BY DEF LoopInit, Tried, Filled
<1> QED BY <1>2, <1>3 DEF LoopInit, LoopInv, ByRoots

LEMMA LoopRootStep ==
  ASSUME LoopInv, LinkRoot
  PROVE  LoopInv'
<1> DEFINE r == call.roots[next]
<1>1. /\ LoopTypeOK /\ next \in DOMAIN call.roots
      /\ rest = call.batch \ Rooted(call.roots)
      /\ farm' = Link(call.written, farm, r, call.precedence)
      /\ next' = next + 1 /\ UNCHANGED <<call, rest>>
  BY DEF LoopInv, LinkRoot
<1>2. /\ call.roots \in Seq(Path) /\ call.farm \in Farm /\ farm \in Farm
      /\ next \in 1 .. Len(call.roots) /\ r \in Path
      /\ call.precedence \in {"keep", "replace"}
  BY <1>1, CallType DEF LoopTypeOK
<1>3. LoopTypeOK'
  BY <1>1, <1>2, LinkType DEF LoopTypeOK
<1>4. ASSUME NEW n \in Program
      PROVE  ByRoots(call, Tried(n)', n, farm'[n]) /\ Filled(n)' = {}
  <2> DEFINE T == Tried(n)
             U == Tried(n)'
  <2>1. Filled(n) = {} /\ Filled(n)' = {}
    BY <1>1 DEF Filled
  <2>2. ByRoots(call, T, n, farm[n])
    BY <2>1 DEF LoopInv
  <2>3. U = IF Offers(call.written, r, n) THEN T \cup {next} ELSE T
    BY <1>1, <1>2 DEF Tried
  <2>4. \A i \in T : i \in Int /\ i < next /\ call.roots[i] \in Path
    BY <1>2 DEF Tried
  <2>5. farm'[n] = IF Offers(call.written, r, n) /\ (farm[n] = Unlinked \/ call.precedence = "replace")
                   THEN r ELSE farm[n]
    BY <1>1 DEF Link
  <2> HIDE DEF T, U
  <2>6. CASE ~Offers(call.written, r, n)
    <3>1. U = T /\ farm'[n] = farm[n]
      BY <2>3, <2>5, <2>6
    <3> QED BY <2>1, <2>2, <3>1 DEF U
  <2>7. CASE Offers(call.written, r, n) /\ call.precedence = "replace"
    <3>1. farm'[n] = call.roots[next] /\ next \in U /\ \A j \in U : j <= next
      BY <1>2, <2>3, <2>4, <2>5, <2>7
    <3> QED BY <2>1, <2>7, <3>1 DEF ByRoots, U
  <2>8. CASE Offers(call.written, r, n) /\ call.precedence = "keep" /\ call.farm[n] # Unlinked
    <3>1. farm[n] = call.farm[n] /\ farm'[n] = farm[n]
      BY <2>2, <2>5, <2>8 DEF ByRoots
    <3>2. U # {}
      BY <2>3, <2>8
    <3> QED BY <2>1, <2>8, <3>1, <3>2 DEF ByRoots, U
  <2>9. CASE Offers(call.written, r, n) /\ call.precedence = "keep" /\ call.farm[n] = Unlinked
    <3>1. CASE T = {}
      <4>1. farm[n] = Unlinked
        BY <2>2, <2>9, <3>1 DEF ByRoots
      <4>2. farm'[n] = call.roots[next] /\ next \in U /\ \A j \in U : next <= j
        BY <1>2, <2>3, <2>5, <2>9, <3>1, <4>1
      <4> QED BY <2>1, <2>9, <4>2 DEF ByRoots, U
    <3>2. CASE T # {}
      <4>1. PICK i \in T : farm[n] = call.roots[i] /\ \A j \in T : i <= j
        BY <2>2, <2>9, <3>2 DEF ByRoots
      <4>2. farm'[n] = call.roots[i]
        BY <2>4, <2>5, <2>9, <4>1, ShareAssumption
      <4>3. i \in U /\ \A j \in U : i <= j
        BY <1>2, <2>3, <2>4, <4>1
      <4> QED BY <2>1, <2>9, <4>2, <4>3 DEF ByRoots, U
    <3> QED BY <3>1, <3>2
  <2> QED BY <1>2, <2>6, <2>7, <2>8, <2>9
<1> QED BY <1>1, <1>3, <1>4 DEF LoopInv

LEMMA LoopRestStep ==
  ASSUME LoopInv, NEW p \in Path, LinkRest(p)
  PROVE  LoopInv'
<1>1. /\ LoopTypeOK /\ next \notin DOMAIN call.roots /\ p \in rest
      /\ farm' = Link(call.written, farm, p, "keep")
      /\ rest' = rest \ {p} /\ UNCHANGED <<call, next>>
  BY DEF LoopInv, LinkRest
<1>2. LoopTypeOK'
  BY <1>1, LinkType DEF LoopTypeOK
<1>3. ASSUME NEW n \in Program
      PROVE  \/ ByRoots(call, Tried(n), n, farm'[n]) /\ (farm'[n] # Unlinked \/ Filled(n)' = {})
             \/ ByRoots(call, Tried(n), n, Unlinked) /\ farm'[n] \in Filled(n)'
  <2> DEFINE F == Filled(n)
             G == Filled(n)'
             T == Tried(n)
  <2>1. farm'[n] = IF Offers(call.written, p, n) /\ farm[n] = Unlinked THEN p ELSE farm[n]
    BY <1>1 DEF Link
  <2>2. G = IF Offers(call.written, p, n) THEN F \cup {p} ELSE F
    BY <1>1 DEF Filled, LoopTypeOK
  <2>3. F \subseteq Path /\ Unlinked \notin Path
    BY <1>1, CallType, ShareAssumption DEF Filled
  <2>4. \/ ByRoots(call, T, n, farm[n]) /\ (farm[n] # Unlinked \/ F = {})
        \/ ByRoots(call, T, n, Unlinked) /\ farm[n] \in F
    BY DEF LoopInv
  <2> HIDE DEF F, G, T
  <2>5. \/ ByRoots(call, T, n, farm'[n]) /\ (farm'[n] # Unlinked \/ G = {})
        \/ ByRoots(call, T, n, Unlinked) /\ farm'[n] \in G
    BY <2>1, <2>2, <2>3, <2>4
  <2> QED BY <2>5 DEF G, T
<1>4. ASSUME NEW n \in Program PROVE Tried(n)' = Tried(n)
  BY <1>1 DEF Tried
<1> QED BY <1>1, <1>2, <1>3, <1>4 DEF LoopInv

\* The loop invariant of linkAll (boot.js).
THEOREM LoopInvariant == LoopSpec => []LoopInv
<1>1. LoopInv /\ [LoopNext]_loop => LoopInv'
  <2>1. ASSUME LoopInv, UNCHANGED loop PROVE LoopInv'
    BY <2>1 DEF loop, LoopInv, LoopTypeOK, ByRoots, Tried, Filled
  <2> QED BY <2>1, LoopRootStep, LoopRestStep DEF LoopNext
<1> QED BY <1>1, LoopStarts, PTL DEF LoopSpec

\* The loops of linkAll leave a farm that LinkAll allows: the roots in their
\* order under the precedence asked for, then the rest where a name is free.
THEOREM LoopsKeepPromise == LoopSpec => []LinksAsPromised
<1>1. LoopInv => LinksAsPromised
  <2> SUFFICES ASSUME LoopInv, Done
               PROVE  farm \in LinkAll(call.written, call.farm, call.batch,
                                       call.roots, call.precedence)
    BY DEF LinksAsPromised
  <2>1. /\ LoopTypeOK /\ farm \in Farm
        /\ call.roots \in Seq(Path) /\ call.farm \in Farm /\ rest = {}
        /\ call.precedence \in {"keep", "replace"}
        /\ next = Len(call.roots) + 1 /\ Unlinked \notin Path
        /\ \A i, j \in DOMAIN call.roots : call.roots[i] = call.roots[j] => i = j
    BY CallType, ShareAssumption DEF LoopInv, Done, LoopTypeOK
  <2>2. ASSUME NEW n \in Program
        PROVE  farm[n] \in Winners(call.written, call.farm, call.batch, call.roots,
                                   call.precedence, n)
    <3> DEFINE claims == Claims(call.written, call.roots, n)
               held == AfterRoots(call.written, call.farm, call.roots, call.precedence, n)
               fillers == {p \in call.batch \ Rooted(call.roots) : Offers(call.written, p, n)}
    <3>1. Tried(n) = claims
      BY <2>1 DEF Tried, Claims
    <3>2. claims \in SUBSET Int /\ \A i \in claims : call.roots[i] \in Path
      BY <2>1 DEF Claims
    <3>3. Filled(n) = fillers
      BY <2>1 DEF Filled
    <3> HIDE DEF claims, fillers
    <3>4. ASSUME NEW f, ByRoots(call, Tried(n), n, f) PROVE f = held
      BY <2>1, <3>1, <3>2, <3>4, Extremes DEF ByRoots, AfterRoots, claims
    <3>5. CASE ByRoots(call, Tried(n), n, farm[n]) /\ (farm[n] # Unlinked \/ fillers = {})
      BY <3>4, <3>5 DEF Winners, fillers
    <3>6. CASE ByRoots(call, Tried(n), n, Unlinked) /\ farm[n] \in fillers
      BY <3>4, <3>6 DEF Winners, fillers
    <3> QED BY <3>3, <3>5, <3>6 DEF LoopInv
  <2> QED BY <2>1, <2>2 DEF LinkAll
<1> QED BY <1>1, LoopInvariant, PTL

\* While the rest of a batch is linked no link changes hands (store.js,
\* Precedence.KEEP).
THEOREM RestFills == LoopSpec => RestOnlyFills
<1>1. [LoopNext]_loop => [next \notin DOMAIN call.roots =>
        \A n \in Program : farm[n] # Unlinked => farm'[n] = farm[n]]_loop
  BY DEF LoopNext, LinkRoot, LinkRest, Link, loop
<1> QED BY <1>1, PTL DEF LoopSpec, RestOnlyFills

-----------------------------------------------------------------------------
(***************************************************************************)
(* Facts about the operators.                                              *)
(***************************************************************************)
\* No number is both a boot and an add.
LEMMA JobKinds ==
  /\ Boots \subseteq Jobs /\ Adds \subseteq Jobs
  /\ \A b \in Boots : b \notin Adds
  /\ NoVM \notin Boots
BY FlowAssumption, SMT DEF Boots, Adds, Jobs

\* The roots of a selection are paths (app.js, rootsOf).
LEMMA RootsOfType ==
  ASSUME NEW sel \in Seq(Path)
  PROVE  RootsOf(sel) \in Seq(Path)
<1>1. 2 * Len(sel) \in Nat
  OBVIOUS
<1>2. ASSUME NEW i \in 1 .. 2 * Len(sel)
      PROVE  (IF i % 2 = 1 THEN sel[(i + 1) \div 2] ELSE BinOf[sel[i \div 2]]) \in Path
  <2>1. CASE i % 2 = 1
    <3>1. (i + 1) \div 2 \in 1 .. Len(sel)
      BY <2>1, SMT
    <3> QED BY <2>1, <3>1
  <2>2. CASE i % 2 # 1
    <3>1. i \div 2 \in 1 .. Len(sel)
      BY <2>2, SMT
    <3> QED BY <2>2, <3>1, FlowAssumption
  <2> QED BY <2>1, <2>2
<1> QED BY <1>1, <1>2 DEF RootsOf

\* Removing what stands at one position leaves a list of paths, without what
\* stood there and with everything else that was in the list.
LEMMA RemoveAtType ==
  ASSUME NEW sel \in Seq(Path), NEW i \in DOMAIN sel
  PROVE  /\ RemoveAt(sel, i) \in Seq(Path)
         /\ \A k \in DOMAIN sel : sel[k] # sel[i] =>
              \E m \in DOMAIN RemoveAt(sel, i) : RemoveAt(sel, i)[m] = sel[k]
<1> DEFINE lo == SubSeq(sel, 1, i - 1)
           hi == SubSeq(sel, i + 1, Len(sel))
<1>1. /\ lo \in Seq(Path) /\ Len(lo) = i - 1
      /\ \A k \in 1 .. i - 1 : lo[k] = sel[k]
  OBVIOUS
<1>2. /\ hi \in Seq(Path) /\ Len(hi) = Len(sel) - i
      /\ \A k \in 1 .. Len(sel) - i : hi[k] = sel[i + k]
  OBVIOUS
<1>3. RemoveAt(sel, i) = lo \o hi
  BY DEF RemoveAt
<1> HIDE DEF lo, hi
<1>4. lo \o hi \in Seq(Path)
  BY <1>1, <1>2
<1>5. ASSUME NEW k \in DOMAIN sel, sel[k] # sel[i]
      PROVE  \E m \in DOMAIN (lo \o hi) : (lo \o hi)[m] = sel[k]
  <2>1. CASE k < i
    <3>1. k \in DOMAIN (lo \o hi) /\ (lo \o hi)[k] = sel[k]
      BY <2>1, <1>1, <1>2
    <3> QED BY <3>1
  <2>2. CASE k > i
    <3>1. k - 1 \in DOMAIN (lo \o hi) /\ (lo \o hi)[k - 1] = hi[k - i]
      BY <2>2, <1>1, <1>2
    <3>2. hi[k - i] = sel[k]
      BY <2>2, <1>2
    <3> QED BY <3>1, <3>2
  <2> QED BY <2>1, <2>2, <1>5
<1> QED BY <1>3, <1>4, <1>5

\* The walk finds its roots, and the references of all it finds, unless it
\* was told to skip them (app.js, walkRoots).
LEMMA ReachHolds ==
  ASSUME NEW from, NEW skip
  PROVE  /\ Reach(from, skip) \subseteq Path
         /\ (from \cap Path) \ skip \subseteq Reach(from, skip)
         /\ \A p \in Reach(from, skip) : Refs[p] \ skip \subseteq Reach(from, skip)
<1>1. ASSUME NEW p \in Reach(from, skip), NEW q \in Refs[p] \ skip
      PROVE  q \in Reach(from, skip)
  <2>1. p \in Path /\ q \in Path
    BY <1>1, FlowAssumption DEF Reach
  <2>2. ASSUME NEW S \in SUBSET Path, HoldsReach(S, from, skip)
        PROVE  q \in S
    BY <1>1, <2>2 DEF Reach, HoldsReach
  <2> QED BY <2>1, <2>2 DEF Reach
<1> QED BY <1>1 DEF Reach, HoldsReach

\* What linkAll may leave behind is a farm.
LEMMA LinkAllType ==
  ASSUME NEW written, NEW old, NEW batch, NEW list, NEW precedence
  PROVE  LinkAll(written, old, batch, list, precedence) \subseteq Farm
BY DEF LinkAll

-----------------------------------------------------------------------------
(***************************************************************************)
(* Type correctness.                                                       *)
(***************************************************************************)
LEMMA InitType == Init => TypeOK
<1> SUFFICES ASSUME Init PROVE TypeOK
  OBVIOUS
<1>1. EmptyShare \in Share
  BY DEF EmptyShare, Share, Farm
<1>2. selection \in Seq(Path) /\ unheld \subseteq Selected /\ button \in BOOLEAN /\ link \in BOOLEAN
  <2>1. << >> \in Seq(Path)
    OBVIOUS
  <2> QED BY <2>1 DEF Init
<1>3. roots \in [Jobs -> Seq(Path)] /\ known \in [Adds -> SUBSET Path]
  BY DEF Init
<1>4. /\ pc \in [Jobs -> Status]
      /\ nar \in [Jobs -> [Path -> NarState]]
      /\ engine \in [Boots -> {"waiting", "up", "failed", "hung"}]
  BY DEF Init, Status, NarState
<1>5. /\ vm \in Boots \cup {NoVM} /\ vmStarted \in BOOLEAN /\ mounted \subseteq Path
      /\ released \in [Boots -> Nat] /\ rooted \in [Boots -> SUBSET Path]
      /\ share \in [Boots -> Share]
  BY <1>1 DEF Init
<1> QED BY <1>2, <1>3, <1>4, <1>5 DEF TypeOK

\* A share that gains paths, or is linked anew, is a share.
LEMMA ShareTypes ==
  ASSUME TypeOK, NEW v \in Boots, NEW w \in SUBSET Path
  PROVE  /\ [share EXCEPT ![v].written = @ \cup w] \in [Boots -> Share]
         /\ \A f \in Farm :
              /\ [share EXCEPT ![v].farm = f] \in [Boots -> Share]
              /\ [share EXCEPT ![v] = [written |-> share[v].written \cup w, farm |-> f]]
                    \in [Boots -> Share]
<1>1. share \in [Boots -> Share] /\ share[v] \in Share
  BY DEF TypeOK
<1>2. share[v].written \in SUBSET Path /\ share[v].farm \in Farm
  BY <1>1 DEF Share
<1>3. /\ [share[v] EXCEPT !.written = @ \cup w] \in Share
      /\ \A f \in Farm : /\ [share[v] EXCEPT !.farm = f] \in Share
                        /\ [written |-> share[v].written \cup w, farm |-> f] \in Share
  BY <1>1, <1>2 DEF Share
<1> QED BY <1>1, <1>3

\* What a job downloads is a set of paths, and so are its roots.
LEMMA WantedType ==
  ASSUME TypeOK, NEW j \in Jobs
  PROVE  Wanted(j) \subseteq Path /\ Rooted(roots[j]) \subseteq Path
<1>1. roots[j] \in Seq(Path)
  BY DEF TypeOK
<1>2. Rooted(roots[j]) \subseteq Path
  BY <1>1 DEF Rooted
<1> QED BY <1>2 DEF Wanted

LEMMA ReaderType ==
  ASSUME TypeOK, ReaderStep
  PROVE  TypeOK'
<1>1. ASSUME NEW p \in Selectable, Select(p)
      PROVE  TypeOK'
  <2>1. p \in Path
    BY FlowAssumption
  <2>2. CASE p \in Selected
    <3>1. selection' = selection
      BY <1>1, <2>2 DEF Select
    <3>2. unheld' \subseteq Selected'
      BY <1>1, <3>1 DEF Select, TypeOK, Selected
    <3> QED BY <1>1, <3>1, <3>2
            DEF Select, TypeOK, Refresh, Offered, page, guests
  <2>3. CASE p \notin Selected
    <3>1. selection' = Append(selection, p)
      BY <1>1, <2>3 DEF Select
    <3>2. /\ selection' \in Seq(Path)
          /\ \A i \in DOMAIN selection : i \in DOMAIN selection' /\ selection'[i] = selection[i]
      BY <2>1, <3>1 DEF TypeOK
    <3>3. Selected \subseteq Selected'
      BY <3>2 DEF Selected
    <3>4. unheld' \subseteq Selected'
      BY <1>1, <3>3 DEF Select, TypeOK
    <3> QED BY <1>1, <3>2, <3>4
            DEF Select, TypeOK, Refresh, Offered, page, guests
  <2> QED BY <2>2, <2>3
<1>2. ASSUME NEW p \in Selectable, Deselect(p)
      PROVE  TypeOK'
  <2>1. PICK i \in DOMAIN selection :
          selection[i] = p /\ selection' = RemoveAt(selection, i)
    BY <1>2 DEF Deselect
  <2>2. selection \in Seq(Path)
    BY DEF TypeOK
  <2>3. /\ selection' \in Seq(Path)
        /\ \A k \in DOMAIN selection : selection[k] # p =>
             \E m \in DOMAIN selection' : selection'[m] = selection[k]
    BY <2>1, <2>2, RemoveAtType
  <2>4. Selected \ {p} \subseteq Selected'
    BY <2>3 DEF Selected
  <2>5. unheld' \subseteq Selected'
    BY <1>2, <2>4 DEF Deselect, TypeOK
  <2> QED BY <1>2, <2>3, <2>5
          DEF Deselect, TypeOK, Refresh, Offered, page, guests
<1>3. ASSUME NEW p \in Selectable, NEW held \in BOOLEAN, Answer(p, held)
      PROVE  TypeOK'
  <2>1. unheld' \subseteq Selected'
    BY <1>3 DEF Answer, TypeOK, Selected
  <2> QED BY <1>3, <2>1
          DEF Answer, TypeOK, Refresh, Offered, page, guests
<1> QED BY <1>1, <1>2, <1>3 DEF ReaderStep

\* A boot begins, by hand or by the link.
Starts(b) == BootStart(b) \/ LinkBoots(b)

LEMMA BootType ==
  ASSUME TypeOK, NEW b \in Boots, Starts(b) \/ BootStep(b)
  PROVE  TypeOK'
<1>0. b \in Jobs
  BY JobKinds
<1>1. CASE Starts(b)
  <2>1. RootsOf(selection) \in Seq(Path)
    BY RootsOfType DEF TypeOK
  <2>2. Begin(b) /\ link' \in BOOLEAN
    BY <1>1 DEF Starts, BootStart, LinkBoots, ByHand, TypeOK
  <2> QED BY <1>0, <2>1, <2>2
          DEF Begin, TypeOK, Status, Selected, page, guests
<1>2. CASE BootWalked(b)
  BY <1>0, <1>2
     DEF BootWalked, TypeOK, Status, NarState, Selected, reader, page, guests
<1>3. CASE EngineUp(b)
  BY <1>0, <1>3 DEF EngineUp, TypeOK, Selected, reader, page, guests
<1>4. CASE EngineFails(b)
  BY <1>0, <1>4 DEF EngineFails, TypeOK, Selected, reader, page, guests
<1>9. CASE EngineHangs(b)
  BY <1>0, <1>9 DEF EngineHangs, TypeOK, Selected, reader, page, guests
<1>5. CASE TakeVM(b)
  BY <1>0, <1>5 DEF TakeVM, TypeOK, Status, Selected, reader, guests
<1>6. CASE RunVM(b)
  <2>1. Release(b, share[vm].written)
    BY <1>6 DEF RunVM
  <2>2. PICK f \in Farm : share' = [share EXCEPT ![vm].farm = f]
    BY <2>1, LinkAllType DEF Release
  <2>3. share' \in [Boots -> Share]
    <3>1. CASE vm \in Boots
      BY <2>2, <3>1, ShareTypes
    <3>2. CASE vm \notin Boots
      <4>1. share' = share
        BY <2>2, <3>2 DEF TypeOK
      <4> QED BY <4>1 DEF TypeOK
    <3> QED BY <3>1, <3>2
  <2>4. mounted' \subseteq Path
    BY <1>0, <2>1, WantedType DEF Release
  <2>5. rooted' \in [Boots -> SUBSET Path]
    BY <1>0, <2>1, WantedType DEF Release, TypeOK
  <2>6. released' \in [Boots -> Nat]
    <3>1. released \in [Boots -> Nat] /\ released' = [released EXCEPT ![vm] = @ + 1]
      BY <2>1 DEF Release, TypeOK
    <3>2. \A n \in Nat : n + 1 \in Nat
      OBVIOUS
    <3> QED BY <3>1, <3>2
  <2>7. /\ pc' \in [Jobs -> Status] /\ vmStarted' \in BOOLEAN /\ button' \in BOOLEAN
        /\ UNCHANGED <<selection, unheld, link, roots, known, nar, engine, vm>>
    BY <1>0, <2>1 DEF Release, TypeOK, Status, reader
  <2>8. Selected' = Selected
    BY <2>7 DEF Selected
  <2> QED BY <2>3, <2>4, <2>5, <2>6, <2>7, <2>8 DEF TypeOK
<1>7. CASE BootReady(b)
  BY <1>0, <1>7 DEF BootReady, TypeOK, Status, Selected, reader, page, guests
<1>8. CASE BootFails(b)
  BY <1>0, <1>8
     DEF BootFails, TypeOK, Status, Selected, Refresh, Offered, reader, page, guests
<1> QED BY <1>1, <1>2, <1>3, <1>4, <1>5, <1>6, <1>7, <1>8, <1>9 DEF BootStep

LEMMA AddType ==
  ASSUME TypeOK, NEW a \in Adds, AddStart(a) \/ AddStep(a)
  PROVE  TypeOK'
<1>0. a \in Jobs
  BY JobKinds
<1>1. CASE AddStart(a)
  <2>1. RootsOf(selection) \in Seq(Path)
    BY RootsOfType DEF TypeOK
  <2> QED BY <1>0, <1>1, <2>1
          DEF AddStart, TypeOK, Status, Selected, reader, page, guests
<1>2. CASE AddRooted(a)
  BY <1>0, <1>2
     DEF AddRooted, TypeOK, Status, Selected, reader, page, guests
<1>3. CASE AddNothing(a)
  BY <1>0, <1>3
     DEF AddNothing, TypeOK, Status, Selected, Refresh, Offered, reader, page, guests
<1>4. CASE AddWalked(a)
  BY <1>0, <1>4
     DEF AddWalked, TypeOK, Status, NarState, Selected, reader, page, guests
<1>5. CASE AddFinish(a)
  <2>1. Join(a, "replace")
    BY <1>5 DEF AddFinish
  <2> DEFINE held    == {i \in DOMAIN roots[a] : roots[a][i] \in mounted'}
             linked  == [i \in held |-> roots[a][i]]
             written == share[vm].written \cup Wanted(a)
  <2>2. /\ \E f \in LinkAll(written, share[vm].farm, Wanted(a), linked, "replace") :
             share' = [share EXCEPT ![vm] = [written |-> written, farm |-> f]]
        /\ rooted' = [rooted EXCEPT ![vm] = @ \cup Rooted(linked)]
    BY <2>1 DEF Join
  <2>3. Wanted(a) \subseteq Path /\ Rooted(linked) \subseteq Path
    BY <1>0, WantedType DEF Rooted
  <2>4. PICK f \in Farm :
          share' = [share EXCEPT ![vm] = [written |-> written, farm |-> f]]
    BY <2>2, LinkAllType
  <2>5. share' \in [Boots -> Share]
    <3>1. CASE vm \in Boots
      BY <2>3, <2>4, <3>1, ShareTypes
    <3>2. CASE vm \notin Boots
      <4>1. share' = share
        BY <2>4, <3>2 DEF TypeOK
      <4> QED BY <4>1 DEF TypeOK
    <3> QED BY <3>1, <3>2
  <2> HIDE DEF linked, written
  <2>6. rooted' \in [Boots -> SUBSET Path]
    BY <2>2, <2>3 DEF TypeOK
  <2>7. nar' \in [Jobs -> [Path -> NarState]]
    BY <1>0, <2>1 DEF Join, TypeOK, NarState
  <2>8. mounted' \subseteq Path
    BY <2>1, <2>3 DEF Join, TypeOK
  <2>9. /\ pc' \in [Jobs -> Status] /\ button' \in BOOLEAN
        /\ UNCHANGED <<selection, unheld, link, roots, known, engine, vm, vmStarted, released>>
    BY <1>0, <2>1 DEF Join, TypeOK, Status, Refresh, Offered, reader
  <2>10. Selected' = Selected
    BY <2>9 DEF Selected
  <2> QED BY <2>5, <2>6, <2>7, <2>8, <2>9, <2>10 DEF TypeOK
<1>6. CASE AddFails(a)
  BY <1>0, <1>6
     DEF AddFails, TypeOK, Status, Selected, Refresh, Offered, reader, page, guests
<1> QED BY <1>1, <1>2, <1>3, <1>4, <1>5, <1>6 DEF AddStep

LEMMA WorkerType ==
  ASSUME TypeOK, NEW j \in Jobs, WorkerStep(j)
  PROVE  TypeOK'
<1>0. PICK p \in Path : NarStart(j, p) \/ NarParsed(j, p) \/ NarFails(j, p) \/ NarWritten(j, p)
  BY DEF WorkerStep
<1>1. ASSUME NEW s \in NarState, SetNar(j, p, s)
      PROVE  nar' \in [Jobs -> [Path -> NarState]]
  BY <1>1 DEF SetNar, TypeOK
<1>2. nar' \in [Jobs -> [Path -> NarState]]
  BY <1>0, <1>1 DEF NarStart, NarParsed, NarFails, NarWritten, NarState
<1>3. share' \in [Boots -> Share]
  <2>1. CASE NarWritten(j, p)
    <3>1. j \in Boots /\ share' = [share EXCEPT ![j].written = @ \cup {p}]
      BY <2>1 DEF NarWritten
    <3>2. {p} \in SUBSET Path
      OBVIOUS
    <3> QED BY <3>1, <3>2, ShareTypes
  <2>2. CASE NarStart(j, p) \/ NarParsed(j, p) \/ NarFails(j, p)
    BY <2>2 DEF NarStart, NarParsed, NarFails, guests, TypeOK
  <2> QED BY <1>0, <2>1, <2>2
<1>4. /\ UNCHANGED <<reader, button, pc, roots, known, engine, page>>
      /\ UNCHANGED <<released, rooted>>
  BY <1>0 DEF NarStart, NarParsed, NarFails, NarWritten, guests
<1>5. Selected' = Selected
  BY <1>4 DEF Selected, reader
<1> QED BY <1>2, <1>3, <1>4, <1>5 DEF TypeOK, reader, page

LEMMA StepType ==
  ASSUME TypeOK, [Next]_vars
  PROVE  TypeOK'
<1>1. CASE UNCHANGED vars
  BY <1>1 DEF vars, TypeOK, Selected
<1>2. CASE LinkIsEmpty
  BY <1>2 DEF LinkIsEmpty, TypeOK, Selected, page, guests
<1> QED BY <1>1, <1>2, ReaderType, BootType, AddType, WorkerType DEF Next, Starts

\* Every variable keeps to its kind, on any page (app.js, the module's state).
THEOREM TypeCorrect == Spec => []TypeOK
BY InitType, StepType, PTL DEF Spec

-----------------------------------------------------------------------------
(***************************************************************************)
(* The inductive invariant.                                                *)
(***************************************************************************)
\* All of IInv but the types and the link.
Order ==
  /\ OneBootInFlight
  /\ \A b \in Boots : BootPhase(b)
  /\ \A a \in Adds : AddPhase(a)
  /\ Running
  /\ released = [v \in Boots |-> IF vmStarted /\ v = vm THEN 1 ELSE 0]

LEMMA InitOrder == Init => Order
<1> SUFFICES ASSUME Init PROVE Order
  OBVIOUS
<1>1. \A j \in Jobs : pc[j] = "idle" /\ \A s \in NarState \ {"absent"} : InState(j, s) = {}
  BY DEF Init, InState, NarState
<1>2. \A j \in Jobs : Wanted(j) = {}
  BY DEF Init, Wanted, InState
<1>3. \A b \in Boots : share[b].written = {}
  BY DEF Init, EmptyShare
<1>8. \A b \in Boots : ~Hung(b)
  BY DEF Init, Hung
<1>4. ASSUME NEW b \in Boots PROVE BootPhase(b)
  BY <1>1, <1>2, <1>3, <1>8, JobKinds DEF BootPhase, NarState
<1>5. ASSUME NEW a \in Adds PROVE AddPhase(a)
  BY <1>1, JobKinds DEF AddPhase
<1>6. OneBootInFlight
  BY <1>1, JobKinds DEF OneBootInFlight, UnderWay, InFlight, Hung
<1>7. Running /\ released = [v \in Boots |-> IF vmStarted /\ v = vm THEN 1 ELSE 0]
  BY DEF Init, Running
<1> QED BY <1>4, <1>5, <1>6, <1>7 DEF Order

\* What a job wants, and what has become of it, is a matter of its archives.
LEMMA SameNar ==
  ASSUME NEW j, nar'[j] = nar[j]
  PROVE  Wanted(j)' = Wanted(j) /\ \A s \in NarState : InState(j, s)' = InState(j, s)
BY DEF Wanted, InState

\* A step that leaves the jobs, the machine and its share alone keeps Order.
LEMMA Aside ==
  ASSUME Order, UNCHANGED <<pc, known, nar, vm, vmStarted, mounted, share, released>>,
         \A b \in Boots : Hung(b)' = Hung(b)
  PROVE  Order'
BY DEF Order, OneBootInFlight, UnderWay, InFlight, BootPhase, Hung, AddPhase, Running, Closed,
       Wanted, InState

LEMMA ReaderOrder ==
  ASSUME Order, ReaderStep
  PROVE  Order'
<1>1. UNCHANGED <<engine, pc, known, nar, vm, vmStarted, mounted, share, released>>
  BY DEF ReaderStep, Select, Deselect, Answer, page, guests
<1> QED BY <1>1, Aside DEF Hung

LEMMA BootStartOrder ==
  ASSUME OneBootAtATime, TypeOK, LinkWaits, Order, NEW b \in Boots, Starts(b)
  PROVE  Order'
<1>1. /\ pc[b] = "idle" /\ ~vmStarted
      /\ \A c \in Boots : ~UnderWay(c)
      /\ b \in Jobs
      /\ pc' = [pc EXCEPT ![b] = "walk"]
      /\ UNCHANGED <<engine, known, nar, vm, vmStarted, mounted, share, released>>
  BY JobKinds DEF Starts, BootStart, LinkBoots, Begin, LinkWaits, NextOf, Idle, page, guests
<1>2. \A j \in Jobs : pc'[j] = IF j = b THEN "walk" ELSE pc[j]
  BY <1>1 DEF TypeOK
<1>3. OneBootInFlight'
  BY <1>1, <1>2, JobKinds DEF OneBootInFlight, UnderWay, InFlight, Hung
<1>4. ASSUME NEW c \in Boots PROVE BootPhase(c)'
  <2>1. Wanted(c)' = Wanted(c) /\ InState(c, "done")' = InState(c, "done")
    BY <1>1, SameNar DEF NarState
  <2>2. BootPhase(c) /\ ~UnderWay(c)
    BY <1>1 DEF Order
  <2> QED BY <1>1, <1>2, <2>1, <2>2, JobKinds DEF BootPhase, Hung, UnderWay, InFlight, Closed
<1>5. ASSUME NEW a \in Adds PROVE AddPhase(a)'
  BY <1>1, <1>2, JobKinds DEF Order, AddPhase, Wanted, InState
<1>6. Running' /\ (released = [v \in Boots |-> IF vmStarted /\ v = vm THEN 1 ELSE 0])'
  BY <1>1 DEF Order, Running, Closed, Wanted, InState
<1> QED BY <1>3, <1>4, <1>5, <1>6 DEF Order

LEMMA BootWalkedOrder ==
  ASSUME TypeOK, Order, NEW b \in Boots, BootWalked(b)
  PROVE  Order'
<1> DEFINE found == Reach(Rooted(roots[b]), {})
<1>1. /\ pc[b] = "walk" /\ ~vmStarted
      /\ b \in Jobs
      /\ pc' = [pc EXCEPT ![b] = "download"]
      /\ nar' = [nar EXCEPT ![b] = [p \in Path |-> IF p \in found THEN "queued" ELSE "absent"]]
      /\ UNCHANGED <<engine, known, vm, vmStarted, mounted, share, released>>
  BY JobKinds DEF BootWalked, page, guests, Order, BootPhase, Hung
<1>2. found \subseteq Path /\ Closed(found)
  BY ReachHolds DEF Closed
<1> HIDE DEF found
<1>3. \A j \in Jobs : /\ pc'[j] = IF j = b THEN "download" ELSE pc[j]
                      /\ j # b => nar'[j] = nar[j]
  BY <1>1 DEF TypeOK
<1>4. nar'[b] = [p \in Path |-> IF p \in found THEN "queued" ELSE "absent"]
  BY <1>1 DEF TypeOK
<1>5. /\ Wanted(b)' = found
      /\ InState(b, "done")' = {}
  BY <1>2, <1>4 DEF Wanted, InState
<1>6. InState(b, "done") = {}
  BY <1>1 DEF Order, BootPhase, Hung, Wanted, InState
<1>7. OneBootInFlight'
  BY <1>1, <1>3, JobKinds DEF Order, OneBootInFlight, UnderWay, InFlight, Hung
<1>8. BootPhase(b)'
  <2>1. pc'[b] = "download" /\ ~vmStarted'
    BY <1>1, <1>3
  <2>2. Closed(Wanted(b)')
    BY <1>2, <1>5
  <2>3. share'[b].written = InState(b, "done")'
    BY <1>1, <1>5, <1>6 DEF Order, BootPhase, Hung
  <2> QED BY <2>1, <2>2, <2>3 DEF BootPhase, Hung, Closed
<1>9. ASSUME NEW c \in Boots, c # b PROVE BootPhase(c)'
  BY <1>1, <1>3, <1>9, SameNar, JobKinds DEF Order, BootPhase, Hung, Closed, NarState
<1>10. ASSUME NEW a \in Adds PROVE AddPhase(a)'
  BY <1>1, <1>3, SameNar, JobKinds DEF Order, AddPhase, NarState
<1>11. Running' /\ (released = [v \in Boots |-> IF vmStarted /\ v = vm THEN 1 ELSE 0])'
  BY <1>1 DEF Order, Running
<1> QED BY <1>7, <1>8, <1>9, <1>10, <1>11 DEF Order

LEMMA TakeVMOrder ==
  ASSUME TypeOK, Order, NEW b \in Boots, TakeVM(b)
  PROVE  Order'
<1>1. /\ pc[b] = "download" /\ ~vmStarted /\ UnderWay(b)
      /\ b \in Jobs
      /\ pc' = [pc EXCEPT ![b] = "closure"] /\ vm' = b
      /\ UNCHANGED <<engine, known, nar, vmStarted, mounted, share, released>>
  BY JobKinds DEF TakeVM, guests, Order, BootPhase, UnderWay, InFlight, Hung
<1>2. \A j \in Jobs : pc'[j] = IF j = b THEN "closure" ELSE pc[j]
  BY <1>1 DEF TypeOK
<1>3. OneBootInFlight'
  BY <1>1, <1>2, JobKinds DEF Order, OneBootInFlight, UnderWay, InFlight, Hung
<1>4. ASSUME NEW c \in Boots PROVE BootPhase(c)'
  <2>1. /\ Wanted(c)' = Wanted(c) /\ InState(c, "done")' = InState(c, "done")
        /\ Hung(c)' = Hung(c)
    BY <1>1, SameNar DEF NarState, Hung
  <2>2. BootPhase(c) /\ c \in Jobs
    BY JobKinds DEF Order
  <2>3. CASE c = b
    BY <1>1, <1>2, <2>1, <2>2, <2>3 DEF BootPhase, Closed, UnderWay
  <2>4. CASE c # b
    <3>1. pc[c] # "closure"
      BY <1>1, <2>2, <2>4 DEF Order, OneBootInFlight, BootPhase, UnderWay, InFlight
    <3> QED BY <1>1, <1>2, <2>1, <2>2, <2>4, <3>1 DEF BootPhase, Closed
  <2> QED BY <2>3, <2>4
<1>5. ASSUME NEW a \in Adds PROVE AddPhase(a)'
  BY <1>1, <1>2, JobKinds DEF Order, AddPhase, Wanted, InState
<1>6. Running' /\ (released = [v \in Boots |-> IF vmStarted /\ v = vm THEN 1 ELSE 0])'
  BY <1>1 DEF Order, Running
<1> QED BY <1>3, <1>4, <1>5, <1>6 DEF Order

\* The release of QEMU: what the boot wants is what it has written, and all
\* of that is what counts as mounted.
LEMMA RunVMOrder ==
  ASSUME TypeOK, Order, NEW b \in Boots, RunVM(b)
  PROVE  Order'
<1>1. /\ pc[b] = "closure" /\ ~vmStarted /\ vm = b
      /\ b \in Jobs
      /\ Wanted(b) = InState(b, "done")
      /\ share[b].written = InState(b, "done")
      /\ Closed(Wanted(b))
  BY JobKinds DEF RunVM, Order, BootPhase, Hung
<1>2. /\ pc' = [pc EXCEPT ![b] = "ready"]
      /\ vmStarted' = TRUE /\ mounted' = Wanted(b)
      /\ \E f : share' = [share EXCEPT ![b].farm = f]
      /\ released' = [released EXCEPT ![b] = @ + 1]
      /\ UNCHANGED <<engine, known, nar, vm>>
  BY <1>1 DEF RunVM, Release
<1>3. \A j \in Jobs : pc'[j] = IF j = b THEN "ready" ELSE pc[j]
  BY <1>2 DEF TypeOK
<1>4. share'[b].written = share[b].written
  BY <1>2 DEF TypeOK, Share
<1>5. Wanted(b)' = Wanted(b) /\ InState(b, "done")' = InState(b, "done")
  BY <1>2 DEF Wanted, InState
<1>6. OneBootInFlight'
  BY <1>1, <1>2, <1>3, JobKinds DEF Order, OneBootInFlight, UnderWay, InFlight, Hung
<1>7. ASSUME NEW c \in Boots PROVE BootPhase(c)'
  BY <1>1, <1>2, <1>3, JobKinds
     DEF Order, OneBootInFlight, UnderWay, InFlight, BootPhase, Hung, Closed, Wanted, InState
<1>8. ASSUME NEW a \in Adds PROVE AddPhase(a)'
  BY <1>1, <1>2, <1>3, JobKinds DEF Order, AddPhase, Wanted, InState
<1>9. Running'
  BY <1>1, <1>2, <1>4, <1>5 DEF Running, Closed
<1>10. released' = [v \in Boots |-> IF vmStarted' /\ v = vm' THEN 1 ELSE 0]
  BY <1>1, <1>2 DEF Order
<1> QED BY <1>6, <1>7, <1>8, <1>9, <1>10 DEF Order

\* The steps that end a boot.
LEMMA BootEndOrder ==
  ASSUME TypeOK, Order, NEW b \in Boots, BootReady(b) \/ BootFails(b)
  PROVE  Order'
<1>1. /\ b \in Jobs
      /\ pc[b] # "idle" /\ ~Hung(b)
      /\ pc' = [pc EXCEPT ![b] = "done"] \/ pc' = [pc EXCEPT ![b] = "failed"]
      /\ UNCHANGED <<engine, known, nar, vm, vmStarted, mounted, share, released>>
  BY JobKinds DEF BootReady, BootFails, page, guests, Order, BootPhase, Hung
<1>2. \A j \in Jobs : IF j = b THEN pc'[j] \in {"done", "failed"} ELSE pc'[j] = pc[j]
  BY <1>1 DEF TypeOK
<1>3. OneBootInFlight'
  BY <1>1, <1>2, JobKinds DEF Order, OneBootInFlight, UnderWay, InFlight, Hung
<1>4. ASSUME NEW c \in Boots PROVE BootPhase(c)'
  BY <1>1, <1>2, JobKinds DEF Order, BootPhase, Hung, Closed, Wanted, InState
<1>5. ASSUME NEW a \in Adds PROVE AddPhase(a)'
  BY <1>1, <1>2, JobKinds DEF Order, AddPhase, Wanted, InState
<1>6. Running' /\ (released = [v \in Boots |-> IF vmStarted /\ v = vm THEN 1 ELSE 0])'
  BY <1>1 DEF Order, Running, Closed, Wanted, InState
<1> QED BY <1>3, <1>4, <1>5, <1>6 DEF Order

\* A boot that hangs is no longer under way.
LEMMA BootHangsOrder ==
  ASSUME TypeOK, Order, NEW b \in Boots, EngineHangs(b)
  PROVE  Order'
<1>1. /\ UNCHANGED <<pc, known, nar, vm, vmStarted, mounted, share, released>>
      /\ engine' = [engine EXCEPT ![b] = "hung"]
      /\ pc[b] = "download"
  BY DEF EngineHangs, page, guests
<1>2. \A c \in Boots : Hung(c)' <=> Hung(c) \/ c = b
  BY <1>1 DEF TypeOK, Hung
<1>3. OneBootInFlight'
  BY <1>1, <1>2 DEF Order, OneBootInFlight, UnderWay, InFlight
<1>4. ASSUME NEW c \in Boots PROVE BootPhase(c)'
  <2>1. Wanted(c)' = Wanted(c) /\ InState(c, "done")' = InState(c, "done")
    BY <1>1, SameNar DEF NarState
  <2>2. BootPhase(c)
    BY DEF Order
  <2> QED BY <1>1, <1>2, <2>1, <2>2 DEF BootPhase, Closed
<1>5. ASSUME NEW a \in Adds PROVE AddPhase(a)'
  BY <1>1, SameNar DEF Order, AddPhase
<1>6. Running' /\ (released = [v \in Boots |-> IF vmStarted /\ v = vm THEN 1 ELSE 0])'
  BY <1>1 DEF Order, Running, Closed, Wanted, InState
<1> QED BY <1>3, <1>4, <1>5, <1>6 DEF Order

LEMMA BootOrder ==
  ASSUME OneBootAtATime, TypeOK, LinkWaits, Order, NEW b \in Boots,
         Starts(b) \/ BootStep(b)
  PROVE  Order'
<1>1. CASE EngineUp(b) \/ EngineFails(b)
  <2>1. /\ UNCHANGED <<pc, known, nar, vm, vmStarted, mounted, share, released>>
        /\ \E s \in {"up", "failed"} : engine' = [engine EXCEPT ![b] = s]
        /\ engine[b] = "waiting"
    BY <1>1 DEF EngineUp, EngineFails, page, guests
  <2>2. \A c \in Boots : Hung(c)' = Hung(c)
    BY <2>1 DEF TypeOK, Hung
  <2> QED BY <2>1, <2>2, Aside
<1> QED BY <1>1, BootHangsOrder, BootStartOrder, BootWalkedOrder, TakeVMOrder, RunVMOrder,
           BootEndOrder DEF BootStep

\* The steps of an add that move nothing but the add itself.
LEMMA AddMovesOrder ==
  ASSUME TypeOK, Order, NEW a \in Adds,
         AddStart(a) \/ AddRooted(a) \/ AddNothing(a) \/ AddFails(a)
  PROVE  Order'
<1>1. /\ a \in Jobs /\ a \notin Boots
      /\ vmStarted
      /\ \E s \in {"asked", "walk", "done", "failed"} :
           /\ pc' = [pc EXCEPT ![a] = s]
           /\ s = "walk" => known' = [known EXCEPT ![a] = mounted]
           /\ s # "walk" => known' = known
      /\ UNCHANGED <<engine, nar, vm, vmStarted, mounted, share, released>>
  BY JobKinds DEF AddStart, AddRooted, AddNothing, AddFails, page, guests, Order, AddPhase
<1>2. /\ \A j \in Jobs : j # a => pc'[j] = pc[j]
      /\ \A c \in Adds : c # a => known'[c] = known[c]
      /\ pc'[a] \in {"asked", "walk", "done", "failed"}
      /\ pc'[a] = "walk" => known'[a] = mounted
  BY <1>1 DEF TypeOK
<1>3. OneBootInFlight'
  BY <1>1, <1>2, JobKinds DEF Order, OneBootInFlight, UnderWay, InFlight, Hung
<1>4. ASSUME NEW c \in Boots PROVE BootPhase(c)'
  BY <1>1, <1>2, SameNar, JobKinds DEF Order, BootPhase, Hung, Closed, NarState
<1>5. ASSUME NEW c \in Adds PROVE AddPhase(c)'
  BY <1>1, <1>2, SameNar, JobKinds DEF Order, AddPhase
<1>6. Running' /\ (released = [v \in Boots |-> IF vmStarted /\ v = vm THEN 1 ELSE 0])'
  BY <1>1 DEF Order, Running, Closed, Wanted, InState
<1> QED BY <1>3, <1>4, <1>5, <1>6 DEF Order

\* The add's walk is in: what it will fetch refers to nothing but itself and
\* what is mounted, the paths it skipped among them.
LEMMA AddWalkedOrder ==
  ASSUME TypeOK, Order, NEW a \in Adds, AddWalked(a)
  PROVE  Order'
<1> DEFINE fresh == Fresh(a)
<1>1. /\ a \in Jobs /\ a \notin Boots
      /\ vmStarted /\ known[a] \subseteq mounted
      /\ pc' = [pc EXCEPT ![a] = "download"]
      /\ nar' = [nar EXCEPT ![a] = [p \in Path |-> IF p \in fresh THEN "queued" ELSE "absent"]]
      /\ UNCHANGED <<engine, known, vm, vmStarted, mounted, share, released>>
  BY JobKinds DEF AddWalked, page, guests, Order, AddPhase
<1>2. fresh \subseteq Path /\ \A p \in fresh : Refs[p] \subseteq fresh \cup mounted
  BY <1>1, ReachHolds DEF Fresh
<1> HIDE DEF fresh
<1>3. /\ \A j \in Jobs : j # a => pc'[j] = pc[j] /\ nar'[j] = nar[j]
      /\ pc'[a] = "download"
      /\ nar'[a] = [p \in Path |-> IF p \in fresh THEN "queued" ELSE "absent"]
  BY <1>1 DEF TypeOK
<1>4. Wanted(a)' = fresh
  BY <1>2, <1>3 DEF Wanted, InState
<1>5. OneBootInFlight'
  BY <1>1, <1>3, JobKinds DEF Order, OneBootInFlight, UnderWay, InFlight, Hung
<1>6. ASSUME NEW c \in Boots PROVE BootPhase(c)'
  BY <1>1, <1>3, SameNar, JobKinds DEF Order, BootPhase, Hung, Closed, NarState
<1>7. ASSUME NEW c \in Adds PROVE AddPhase(c)'
  <2>1. CASE c = a
    BY <1>1, <1>2, <1>3, <1>4, <2>1 DEF AddPhase
  <2>2. CASE c # a
    BY <1>1, <1>3, <2>2, SameNar, JobKinds DEF Order, AddPhase
  <2> QED BY <2>1, <2>2
<1>8. Running'
  <2>1. vm \in Boots /\ nar'[vm] = nar[vm]
    BY <1>1, <1>3, JobKinds DEF Order, Running
  <2>2. Wanted(vm)' = Wanted(vm) /\ InState(vm, "done")' = InState(vm, "done")
    BY <1>1, <2>1 DEF Wanted, InState
  <2> QED BY <1>1, <2>2 DEF Order, Running, Closed
<1>9. (released = [v \in Boots |-> IF vmStarted /\ v = vm THEN 1 ELSE 0])'
  BY <1>1 DEF Order
<1> QED BY <1>5, <1>6, <1>7, <1>8, <1>9 DEF Order

\* The add is done: `mounted` and the share of the machine grow by the same
\* paths.
LEMMA AddFinishOrder ==
  ASSUME TypeOK, Order, NEW a \in Adds, AddFinish(a)
  PROVE  Order'
<1>1. /\ a \in Jobs /\ a \notin Boots
      /\ vmStarted /\ vm \in Boots
      /\ pc[a] = "download"
      /\ \A p \in Wanted(a) : Refs[p] \subseteq Wanted(a) \cup mounted
      /\ share[vm].written = mounted /\ Closed(mounted)
  BY JobKinds DEF AddFinish, Order, AddPhase, Running
<1>2. /\ pc' = [pc EXCEPT ![a] = "done"]
      /\ nar' = [nar EXCEPT ![a] =
           [p \in Path |-> IF nar[a][p] = "parsed" THEN "done" ELSE nar[a][p]]]
      /\ mounted' = mounted \cup Wanted(a)
      /\ \E f : share' = [share EXCEPT ![vm] =
                   [written |-> share[vm].written \cup Wanted(a), farm |-> f]]
      /\ UNCHANGED <<engine, known, vm, vmStarted, released>>
  BY DEF AddFinish, Join
<1>3. /\ \A j \in Jobs : j # a => pc'[j] = pc[j] /\ nar'[j] = nar[j]
      /\ pc'[a] = "done"
  BY <1>1, <1>2 DEF TypeOK
<1>4. share'[vm].written = mounted'
  BY <1>1, <1>2 DEF TypeOK
<1>5. Closed(mounted')
  BY <1>1, <1>2 DEF Closed
<1>6. OneBootInFlight'
  BY <1>1, <1>2, <1>3, JobKinds DEF Order, OneBootInFlight, UnderWay, InFlight, Hung
<1>7. ASSUME NEW c \in Boots PROVE BootPhase(c)'
  <2>1. c # a /\ c \in Jobs
    BY <1>1, JobKinds
  <2>2. Wanted(c)' = Wanted(c) /\ pc'[c] = pc[c]
    BY <1>3, <2>1, SameNar
  <2>3. BootPhase(c)
    BY DEF Order
  <2> QED BY <1>1, <1>2, <2>2, <2>3 DEF BootPhase, Hung, Closed
<1>8. ASSUME NEW c \in Adds PROVE AddPhase(c)'
  <2>1. CASE c = a
    BY <1>1, <1>2, <1>3, <2>1 DEF AddPhase
  <2>2. CASE c # a
    <3>1. Wanted(c)' = Wanted(c) /\ pc'[c] = pc[c]
      BY <1>3, <2>2, SameNar, JobKinds
    <3>2. mounted \subseteq mounted'
      BY <1>2
    <3>3. AddPhase(c)
      BY DEF Order
    <3> QED BY <1>1, <1>2, <3>1, <3>2, <3>3 DEF AddPhase
  <2> QED BY <2>1, <2>2
<1>9. Running'
  <2>1. Wanted(vm)' = Wanted(vm) /\ InState(vm, "done")' = InState(vm, "done")
    BY <1>1, <1>2, <1>3, JobKinds DEF Wanted, InState
  <2> QED BY <1>1, <1>2, <1>4, <1>5, <2>1 DEF Order, Running, Closed
<1>10. (released = [v \in Boots |-> IF vmStarted /\ v = vm THEN 1 ELSE 0])'
  BY <1>2 DEF Order
<1> QED BY <1>6, <1>7, <1>8, <1>9, <1>10 DEF Order

LEMMA AddOrder ==
  ASSUME TypeOK, Order, NEW a \in Adds, AddStart(a) \/ AddStep(a)
  PROVE  Order'
BY AddMovesOrder, AddWalkedOrder, AddFinishOrder DEF AddStep

\* A worker: nothing a job wants is forgotten, nothing is written that is not
\* wanted, and the machine that runs has no worker left.
LEMMA WorkerOrder ==
  ASSUME TypeOK, Order, NEW j \in Jobs, WorkerStep(j)
  PROVE  Order'
<1>0. PICK p \in Path : NarStart(j, p) \/ NarParsed(j, p) \/ NarFails(j, p) \/ NarWritten(j, p)
  BY DEF WorkerStep
<1>1. PICK s \in {"fetching", "parsed", "failed", "done"} :
        /\ nar' = [nar EXCEPT ![j][p] = s]
        /\ nar[j][p] \in {"queued", "fetching", "parsed"}
        /\ s = "done" <=> NarWritten(j, p)
        /\ s = "done" => /\ j \in Boots
                         /\ share' = [share EXCEPT ![j].written = @ \cup {p}]
        /\ s # "done" => share' = share
  BY <1>0 DEF NarStart, NarParsed, NarFails, NarWritten, SetNar, guests
<1>2. UNCHANGED <<engine, pc, known, vm, vmStarted, mounted, released>>
  BY <1>0 DEF NarStart, NarParsed, NarFails, NarWritten, page, guests
<1>3. /\ \A i \in Jobs : i # j => nar'[i] = nar[i]
      /\ \A q \in Path : nar'[j][q] = IF q = p THEN s ELSE nar[j][q]
  BY <1>1 DEF TypeOK
<1>4. /\ \A i \in Jobs : Wanted(i)' = Wanted(i)
      /\ InState(j, "done")' = IF s = "done" THEN InState(j, "done") \cup {p}
                               ELSE InState(j, "done")
      /\ \A i \in Jobs : i # j => InState(i, "done")' = InState(i, "done")
  BY <1>1, <1>3 DEF Wanted, InState
<1>5. /\ \A b \in Boots : b # j => share'[b] = share[b]
      /\ j \in Boots => share'[j].written = IF s = "done" THEN share[j].written \cup {p}
                                            ELSE share[j].written
  <2>1. share \in [Boots -> Share] /\ \A b \in Boots : share[b] \in Share
    BY DEF TypeOK
  <2>2. CASE s = "done"
    <3>1. j \in Boots /\ share' = [share EXCEPT ![j].written = @ \cup {p}]
      BY <1>1, <2>2
    <3>2. share'[j] = [share[j] EXCEPT !.written = @ \cup {p}]
      BY <2>1, <3>1
    <3>3. share'[j].written = share[j].written \cup {p}
      BY <2>1, <3>1, <3>2 DEF Share
    <3> QED BY <2>1, <2>2, <3>1, <3>3
  <2>3. CASE s # "done"
    BY <1>1, <2>3
  <2> QED BY <2>2, <2>3
<1>6. vmStarted => j # vm
  <2>1. ASSUME vmStarted, j = vm PROVE FALSE
    <3>1. p \in Wanted(vm) /\ p \notin InState(vm, "done")
      BY <1>1, <2>1 DEF Wanted, InState
    <3> QED BY <2>1, <3>1 DEF Order, Running
  <2> QED BY <2>1
<1>7. OneBootInFlight'
  BY <1>2, JobKinds DEF Order, OneBootInFlight, UnderWay, InFlight, Hung
<1>8. ASSUME NEW b \in Boots PROVE BootPhase(b)'
  <2>1. BootPhase(b) /\ b \in Jobs
    BY JobKinds DEF Order
  <2>2. ~vmStarted => share'[b].written = InState(b, "done")'
    BY <1>4, <1>5, <2>1 DEF BootPhase, Hung
  <2> QED BY <1>2, <1>4, <2>1, <2>2 DEF BootPhase, Hung, Closed
<1>9. ASSUME NEW a \in Adds PROVE AddPhase(a)'
  BY <1>2, <1>4, JobKinds DEF Order, AddPhase
<1>10. Running'
  BY <1>2, <1>4, <1>5, <1>6, JobKinds DEF Order, Running, Closed
<1>11. (released = [v \in Boots |-> IF vmStarted /\ v = vm THEN 1 ELSE 0])'
  BY <1>2 DEF Order
<1> QED BY <1>7, <1>8, <1>9, <1>10, <1>11 DEF Order

\* While the link waits, nobody boots by hand.
LEMMA LinkStep ==
  ASSUME LinkFirst, TypeOK, LinkWaits, [Next]_vars
  PROVE  LinkWaits'
<1> SUFFICES ASSUME link' PROVE ~vmStarted' /\ \A b \in Boots : Idle(b)'
  BY DEF LinkWaits
<1> USE JobKinds DEF Idle
<1>1. ASSUME link' = link, vmStarted' = vmStarted, \A b \in Boots : pc'[b] = pc[b]
      PROVE  ~vmStarted' /\ \A b \in Boots : Idle(b)'
  BY <1>1 DEF LinkWaits
<1>2. CASE ReaderStep \/ UNCHANGED vars
  <2>1. UNCHANGED <<link, vmStarted, pc>>
    BY <1>2 DEF ReaderStep, Select, Deselect, Answer, page, vars
  <2> QED BY <1>1, <2>1
<1>3. ASSUME NEW b \in Boots, Starts(b) \/ BootStep(b)
      PROVE  FALSE
  <2>1. CASE Starts(b)
    BY <2>1 DEF Starts, BootStart, LinkBoots, ByHand
  <2>2. CASE BootStep(b)
    <3>1. pc[b] # "idle" /\ link' = link
      BY <2>2 DEF BootStep, BootWalked, EngineUp, EngineFails, EngineHangs, TakeVM,
                  RunVM, Release, BootReady, BootFails, reader
    <3> QED BY <3>1 DEF LinkWaits
  <2> QED BY <1>3, <2>1, <2>2
<1>4. ASSUME NEW a \in Adds, AddStart(a) \/ AddStep(a)
      PROVE  ~vmStarted' /\ \A b \in Boots : Idle(b)'
  <2>1. /\ \E s \in Status : pc' = [pc EXCEPT ![a] = s]
        /\ link' = link /\ vmStarted' = vmStarted
    BY <1>4 DEF AddStart, AddStep, AddRooted, AddNothing, AddWalked, AddFinish,
                AddFails, Join, reader, page, Status
  <2>2. \A b \in Boots : b # a
    OBVIOUS
  <2> QED BY <1>1, <2>1, <2>2 DEF TypeOK
<1>5. ASSUME NEW j \in Jobs, WorkerStep(j)
      PROVE  ~vmStarted' /\ \A b \in Boots : Idle(b)'
  <2>1. UNCHANGED <<link, vmStarted, pc>>
    BY <1>5 DEF WorkerStep, NarStart, NarParsed, NarFails, NarWritten, reader, page
  <2> QED BY <1>1, <2>1
<1>6. CASE LinkIsEmpty
  BY <1>6 DEF LinkIsEmpty
<1> QED BY <1>2, <1>3, <1>4, <1>5, <1>6 DEF Next, Starts

LEMMA StepOrder ==
  ASSUME OneBootAtATime, TypeOK, LinkWaits, Order, [Next]_vars
  PROVE  Order'
<1>1. CASE UNCHANGED vars \/ LinkIsEmpty
  <2>1. UNCHANGED <<engine, pc, known, nar, vm, vmStarted, mounted, share, released>>
    BY <1>1 DEF vars, LinkIsEmpty, page, guests
  <2> QED BY <2>1, Aside DEF Hung
<1> QED BY <1>1, ReaderOrder, BootOrder, AddOrder, WorkerOrder DEF Next, Starts

\* The invariant holds for ever on a page on which no boot begins while one is
\* under way, and none by hand before that of the link it was opened at.
THEOREM Invariant ==
  ASSUME OneBootAtATime, LinkFirst
  PROVE  Spec => []IInv
<1>1. Init => TypeOK /\ LinkWaits /\ Order
  BY InitType, InitOrder DEF Init, LinkWaits, Idle, Jobs
<1>2. TypeOK /\ LinkWaits /\ Order /\ [Next]_vars => (TypeOK /\ LinkWaits /\ Order)'
  BY StepType, LinkStep, StepOrder
<1>3. TypeOK /\ LinkWaits /\ Order => IInv
  BY DEF Order, IInv
<1> QED BY <1>1, <1>2, <1>3, PTL DEF Spec

-----------------------------------------------------------------------------
(***************************************************************************)
(* What follows from it.                                                   *)
(***************************************************************************)
\* What the page takes as mounted has been written (app.js, `mounted`).
THEOREM MountedIsWritten ==
  ASSUME OneBootAtATime, LinkFirst
  PROVE  Spec => []MountedWritten
<1>1. IInv => MountedWritten
  BY DEF IInv, Running, MountedWritten
<1> QED BY <1>1, Invariant, PTL

\* A page runs one guest, and releases it once (app.js, boot).
THEOREM OneGuestRuns ==
  ASSUME OneBootAtATime, LinkFirst
  PROVE  Spec => []OneGuest
<1>1. IInv => OneGuest
  BY DEF IInv, OneGuest
<1> QED BY <1>1, Invariant, PTL

\* Once the guest runs, no step takes it or anything mounted away.
LEMMA GuestGoesOn ==
  ASSUME IInv, [Next]_vars, vmStarted
  PROVE  vmStarted' /\ vm' = vm /\ mounted \subseteq mounted'
<1>1. ASSUME NEW b \in Boots, BootStep(b)
      PROVE  vmStarted' /\ vm' = vm /\ mounted' = mounted
  <2>1. pc[b] \in {"walk", "download", "closure"} => pc[b] = "download" /\ engine[b] = "hung"
    BY DEF IInv, BootPhase, Hung
  <2>2. BootReady(b)
    BY <1>1, <2>1 DEF BootStep, BootWalked, EngineUp, EngineFails, EngineHangs, TakeVM,
                      RunVM, BootFails
  <2> QED BY <2>2 DEF BootReady, page
<1>2. ASSUME NEW b \in Boots, Starts(b)
      PROVE  FALSE
  BY <1>2 DEF Starts, BootStart, LinkBoots, IInv, LinkWaits
<1>3. ASSUME NEW a \in Adds, AddStart(a) \/ AddStep(a)
      PROVE  vmStarted' /\ vm' = vm /\ mounted \subseteq mounted'
  BY <1>3 DEF AddStart, AddStep, AddRooted, AddNothing, AddWalked, AddFinish,
              AddFails, Join, page
<1>4. ASSUME NEW j \in Jobs, WorkerStep(j)
      PROVE  vmStarted' /\ vm' = vm /\ mounted' = mounted
  BY <1>4 DEF WorkerStep, NarStart, NarParsed, NarFails, NarWritten, page
<1>5. CASE ReaderStep
  BY <1>5 DEF ReaderStep, Select, Deselect, Answer, page
<1>6. CASE UNCHANGED vars
  BY <1>6 DEF vars
<1>7. CASE LinkIsEmpty
  BY <1>7 DEF LinkIsEmpty, page
<1> QED BY <1>1, <1>2, <1>3, <1>4, <1>5, <1>6, <1>7 DEF Next, Starts

\* A booted machine is never replaced (app.js, above vmStarted).
THEOREM GuestIsKept ==
  ASSUME OneBootAtATime, LinkFirst
  PROVE  Spec => VMStays
<1>1. IInv /\ [Next]_vars => [vmStarted => vmStarted' /\ vm' = vm]_vars
  BY GuestGoesOn
<1> QED BY <1>1, Invariant, PTL DEF Spec, VMStays

-----------------------------------------------------------------------------
(***************************************************************************)
(* The refinement.                                                         *)
(***************************************************************************)
\* The page implements GuestStore: the store appears complete when the guest
\* is let go, only grows, and never lacks a reference of a path in it
\* (app.js, boot and addToRunningVM).
THEOREM Refinement ==
  ASSUME OneBootAtATime, LinkFirst
  PROVE  Spec => KeepsPromise
<1>1. Init => Promise!Init
  BY DEF Init, Promise!Init, Visible
<1>2. ASSUME IInv, IInv', [Next]_vars
      PROVE  [Promise!Next]_<<vmStarted, Visible>>
  <2>1. CASE ~vmStarted /\ ~vmStarted'
    <3>1. vmStarted' = vmStarted
      BY <1>2, <2>1 DEF IInv, TypeOK
    <3>2. Visible' = Visible
      BY <2>1 DEF Visible
    <3> QED BY <3>1, <3>2
  <2>2. CASE ~vmStarted /\ vmStarted'
    <3>1. vmStarted' = TRUE
      BY <1>2, <2>2 DEF IInv, TypeOK
    <3>2. Visible' \in SUBSET Path /\ \A p \in Visible' : Refs[p] \subseteq Visible'
      BY <1>2, <2>2 DEF IInv, TypeOK, Running, Visible, Closed
    <3> QED BY <2>2, <3>1, <3>2 DEF Promise!Next, Promise!LetGo, Promise!Complete
  <2>3. CASE vmStarted
    <3>1. vmStarted' /\ vm' = vm /\ mounted \subseteq mounted'
      BY <1>2, <2>3, GuestGoesOn
    <3>2. vmStarted' = vmStarted
      BY <1>2, <2>3, <3>1 DEF IInv, TypeOK
    <3>3. Visible \subseteq Visible'
      BY <1>2, <2>3, <3>1 DEF IInv, Running, Visible
    <3>4. Visible' \in SUBSET Path /\ \A p \in Visible' : Refs[p] \subseteq Visible'
      BY <1>2, <3>1 DEF IInv, TypeOK, Running, Visible, Closed
    <3> QED BY <2>3, <3>2, <3>3, <3>4 DEF Promise!Next, Promise!Grow, Promise!Complete
  <2> QED BY <2>1, <2>2, <2>3
<1>3. IInv /\ IInv' /\ [Next]_vars => [Promise!Next]_<<vmStarted, Visible>>
  BY <1>2
<1> QED BY <1>1, <1>3, Invariant, PTL DEF Spec, KeepsPromise, Promise!Spec

-----------------------------------------------------------------------------
(***************************************************************************)
(* That the share is complete needs less: also where a link boots on a     *)
(* running guest, a boot that releases a machine releases its own, as long *)
(* as boots do not overlap.                                                *)
(***************************************************************************)
\* A boot that waits with the machine in hand waits with its own, what it is
\* done with is in its share, and once it is released nothing is left to do.
OwnMachine(b) ==
  /\ Hung(b) => pc[b] = "download"
  /\ pc[b] = "closure" => vm = b
  /\ pc[b] \in {"idle", "walk"} => released[b] = 0
  /\ InState(b, "done") \subseteq share[b].written
  /\ released[b] > 0 => Wanted(b) \subseteq InState(b, "done")

OwnRelease == OneBootInFlight /\ \A b \in Boots : OwnMachine(b)

LEMMA OwnInit == Init => OwnRelease
<1> SUFFICES ASSUME Init PROVE OwnRelease
  OBVIOUS
<1>1. OneBootInFlight
  BY InitOrder DEF Order
<1>2. ASSUME NEW b \in Boots PROVE OwnMachine(b)
  <2>1. pc[b] = "idle" /\ released[b] = 0 /\ ~Hung(b)
    BY JobKinds DEF Init, Hung
  <2>2. InState(b, "done") = {}
    BY JobKinds DEF Init, InState
  <2> QED BY <2>1, <2>2 DEF OwnMachine
<1> QED BY <1>1, <1>2 DEF OwnRelease

\* What leaves the archives, the shares and the releases alone, and a boot's
\* place or puts it at its end.
LEMMA OwnAside ==
  ASSUME OwnRelease, UNCHANGED <<engine, nar, vm, share, released>>,
         \A b \in Boots : pc'[b] = pc[b] \/ (pc'[b] \in {"done", "failed"} /\ ~Hung(b))
  PROVE  OwnRelease'
<1>1. OneBootInFlight'
  BY DEF OwnRelease, OneBootInFlight, UnderWay, InFlight, Hung
<1>2. ASSUME NEW b \in Boots PROVE OwnMachine(b)'
  BY DEF OwnRelease, OwnMachine, Hung, Wanted, InState
<1> QED BY <1>1, <1>2 DEF OwnRelease

LEMMA OwnStart ==
  ASSUME OneBootAtATime, TypeOK, OwnRelease, NEW b \in Boots, Starts(b)
  PROVE  OwnRelease'
<1>1. /\ pc[b] = "idle" /\ b \in Jobs
      /\ \A c \in Boots : ~UnderWay(c)
      /\ pc' = [pc EXCEPT ![b] = "walk"]
      /\ UNCHANGED <<engine, nar, vm, share, released>>
  BY JobKinds DEF Starts, BootStart, LinkBoots, Begin, NextOf, Idle, page, guests
<1>2. \A j \in Jobs : pc'[j] = IF j = b THEN "walk" ELSE pc[j]
  BY <1>1 DEF TypeOK
<1>3. OneBootInFlight'
  BY <1>1, <1>2, JobKinds DEF OneBootInFlight, UnderWay, InFlight, Hung
<1>4. ASSUME NEW c \in Boots PROVE OwnMachine(c)'
  <2>1. OwnMachine(c) /\ c \in Jobs
    BY JobKinds DEF OwnRelease
  <2>2. Wanted(c)' = Wanted(c) /\ InState(c, "done")' = InState(c, "done")
    BY <1>1, SameNar DEF NarState
  <2> QED BY <1>1, <1>2, <2>1, <2>2 DEF OwnMachine, Hung
<1> QED BY <1>3, <1>4 DEF OwnRelease

LEMMA OwnWalked ==
  ASSUME TypeOK, OwnRelease, NEW b \in Boots, BootWalked(b)
  PROVE  OwnRelease'
<1> DEFINE found == Reach(Rooted(roots[b]), {})
<1>1. /\ pc[b] = "walk" /\ b \in Jobs
      /\ pc' = [pc EXCEPT ![b] = "download"]
      /\ nar' = [nar EXCEPT ![b] = [p \in Path |-> IF p \in found THEN "queued" ELSE "absent"]]
      /\ UNCHANGED <<engine, vm, share, released>>
  BY JobKinds DEF BootWalked, page, guests
<1> HIDE DEF found
<1>2. /\ \A j \in Jobs : /\ pc'[j] = IF j = b THEN "download" ELSE pc[j]
                         /\ j # b => nar'[j] = nar[j]
      /\ nar'[b] = [p \in Path |-> IF p \in found THEN "queued" ELSE "absent"]
  BY <1>1 DEF TypeOK
<1>3. OneBootInFlight'
  BY <1>1, <1>2, JobKinds DEF OwnRelease, OneBootInFlight, UnderWay, InFlight, Hung
<1>4. OwnMachine(b)'
  <2>1. InState(b, "done")' = {}
    BY <1>2 DEF InState
  <2>2. released[b] = 0
    BY <1>1 DEF OwnRelease, OwnMachine
  <2> QED BY <1>1, <1>2, <2>1, <2>2 DEF OwnMachine
<1>5. ASSUME NEW c \in Boots, c # b PROVE OwnMachine(c)'
  <2>1. OwnMachine(c) /\ c \in Jobs
    BY JobKinds DEF OwnRelease
  <2>2. Wanted(c)' = Wanted(c) /\ InState(c, "done")' = InState(c, "done")
    BY <1>2, <1>5, <2>1, SameNar DEF NarState
  <2> QED BY <1>1, <1>2, <1>5, <2>1, <2>2 DEF OwnMachine, Hung
<1> QED BY <1>3, <1>4, <1>5 DEF OwnRelease

LEMMA OwnEngine ==
  ASSUME TypeOK, OwnRelease, NEW b \in Boots,
         EngineUp(b) \/ EngineFails(b) \/ EngineHangs(b)
  PROVE  OwnRelease'
<1>1. /\ pc[b] = "download" /\ engine[b] = "waiting"
      /\ \E s \in {"up", "failed", "hung"} : engine' = [engine EXCEPT ![b] = s]
      /\ UNCHANGED <<pc, nar, vm, share, released>>
  BY DEF EngineUp, EngineFails, EngineHangs, page, guests
<1>2. /\ \A c \in Boots : c # b => engine'[c] = engine[c]
      /\ ~Hung(b)
  BY <1>1 DEF TypeOK, Hung
<1>3. OneBootInFlight'
  BY <1>1, <1>2 DEF OwnRelease, OneBootInFlight, UnderWay, InFlight, Hung
<1>4. ASSUME NEW c \in Boots PROVE OwnMachine(c)'
  <2>1. OwnMachine(c)
    BY DEF OwnRelease
  <2>2. Wanted(c)' = Wanted(c) /\ InState(c, "done")' = InState(c, "done")
    BY <1>1, SameNar DEF NarState
  <2> QED BY <1>1, <1>2, <2>1, <2>2 DEF OwnMachine, Hung
<1> QED BY <1>3, <1>4 DEF OwnRelease

LEMMA OwnTake ==
  ASSUME TypeOK, OwnRelease, NEW b \in Boots, TakeVM(b)
  PROVE  OwnRelease'
<1>1. /\ pc[b] = "download" /\ UnderWay(b) /\ b \in Jobs
      /\ pc' = [pc EXCEPT ![b] = "closure"] /\ vm' = b
      /\ UNCHANGED <<engine, nar, share, released>>
  BY JobKinds DEF TakeVM, guests, UnderWay, InFlight, Hung
<1>2. \A j \in Jobs : pc'[j] = IF j = b THEN "closure" ELSE pc[j]
  BY <1>1 DEF TypeOK
<1>3. OneBootInFlight'
  BY <1>1, <1>2, JobKinds DEF OwnRelease, OneBootInFlight, UnderWay, InFlight, Hung
<1>4. ASSUME NEW c \in Boots PROVE OwnMachine(c)'
  <2>1. OwnMachine(c) /\ c \in Jobs
    BY JobKinds DEF OwnRelease
  <2>2. Wanted(c)' = Wanted(c) /\ InState(c, "done")' = InState(c, "done")
    BY <1>1, SameNar DEF NarState
  <2>3. ASSUME c # b PROVE pc[c] # "closure"
    BY <1>1, <2>1, <2>3 DEF OwnRelease, OneBootInFlight, OwnMachine, UnderWay, InFlight
  <2> QED BY <1>1, <1>2, <2>1, <2>2, <2>3 DEF OwnMachine, Hung, UnderWay
<1> QED BY <1>3, <1>4 DEF OwnRelease

\* The machine that `vm` names is the boot's own, and its share is complete.
LEMMA OwnRun ==
  ASSUME TypeOK, OwnRelease, NEW b \in Boots, RunVM(b)
  PROVE  OwnRelease'
<1>1. /\ pc[b] = "closure" /\ vm = b /\ b \in Jobs
      /\ Wanted(b) = InState(b, "done")
  BY JobKinds DEF RunVM, OwnRelease, OwnMachine
<1>2. /\ pc' = [pc EXCEPT ![b] = "ready"]
      /\ \E f : share' = [share EXCEPT ![b].farm = f]
      /\ released' = [released EXCEPT ![b] = @ + 1]
      /\ UNCHANGED <<engine, nar, vm>>
  BY <1>1 DEF RunVM, Release
<1>3. /\ \A j \in Jobs : pc'[j] = IF j = b THEN "ready" ELSE pc[j]
      /\ \A c \in Boots : c # b => released'[c] = released[c] /\ share'[c] = share[c]
  BY <1>2 DEF TypeOK
<1>4. share'[b].written = share[b].written
  BY <1>2 DEF TypeOK, Share
<1>5. OneBootInFlight'
  BY <1>1, <1>2, <1>3, JobKinds DEF OwnRelease, OneBootInFlight, UnderWay, InFlight, Hung
<1>6. ASSUME NEW c \in Boots PROVE OwnMachine(c)'
  <2>1. OwnMachine(c) /\ c \in Jobs
    BY JobKinds DEF OwnRelease
  <2>2. Wanted(c)' = Wanted(c) /\ InState(c, "done")' = InState(c, "done")
    BY <1>2, SameNar DEF NarState
  <2>3. CASE c = b
    BY <1>1, <1>2, <1>3, <1>4, <2>1, <2>2, <2>3 DEF OwnMachine, Hung
  <2>4. CASE c # b
    BY <1>2, <1>3, <2>1, <2>2, <2>4 DEF OwnMachine, Hung
  <2> QED BY <2>3, <2>4
<1> QED BY <1>5, <1>6 DEF OwnRelease

LEMMA OwnBoot ==
  ASSUME TypeOK, OwnRelease, NEW b \in Boots, BootStep(b)
  PROVE  OwnRelease'
<1>1. CASE BootReady(b) \/ BootFails(b)
  <2>1. /\ ~Hung(b) /\ b \in Jobs
        /\ pc' = [pc EXCEPT ![b] = "done"] \/ pc' = [pc EXCEPT ![b] = "failed"]
        /\ UNCHANGED <<engine, nar, vm, share, released>>
    BY <1>1, JobKinds DEF BootReady, BootFails, page, guests, OwnRelease, OwnMachine, Hung
  <2>2. \A c \in Boots : pc'[c] = pc[c] \/ (pc'[c] \in {"done", "failed"} /\ ~Hung(c))
    BY <2>1, JobKinds DEF TypeOK
  <2> QED BY <2>1, <2>2, OwnAside
<1> QED BY <1>1, OwnWalked, OwnEngine, OwnTake, OwnRun DEF BootStep

\* An add only ever writes into the share of the machine that `vm` names.
LEMMA OwnAdd ==
  ASSUME TypeOK, OwnRelease, NEW a \in Adds, AddStart(a) \/ AddStep(a)
  PROVE  OwnRelease'
<1>1. /\ a \notin Boots
      /\ \E s \in Status : pc' = [pc EXCEPT ![a] = s]
      /\ nar' = nar \/ \E n : nar' = [nar EXCEPT ![a] = n]
      /\ UNCHANGED <<engine, vm, released>>
  BY JobKinds DEF AddStart, AddStep, AddRooted, AddNothing, AddWalked, AddFinish, AddFails,
                  Join, page, guests, Status
<1>2. \/ share' = share
      \/ \E w \in SUBSET Path : \E f :
            share' = [share EXCEPT ![vm] =
                        [written |-> share[vm].written \cup w, farm |-> f]]
  BY WantedType, JobKinds
     DEF AddStart, AddStep, AddRooted, AddNothing, AddWalked, AddFinish, AddFails, Join, guests
<1>3. \A b \in Boots : pc'[b] = pc[b] /\ nar'[b] = nar[b]
  BY <1>1, JobKinds DEF TypeOK
<1>4. ASSUME NEW b \in Boots PROVE share[b].written \subseteq share'[b].written
  <2>1. CASE share' = share
    BY <2>1
  <2>2. ASSUME NEW w \in SUBSET Path, NEW f,
               share' = [share EXCEPT ![vm] =
                           [written |-> share[vm].written \cup w, farm |-> f]]
        PROVE  share[b].written \subseteq share'[b].written
    <3>1. CASE b = vm
      <4>1. share'[b] = [written |-> share[b].written \cup w, farm |-> f]
        BY <2>2, <3>1 DEF TypeOK
      <4> QED BY <4>1
    <3>2. CASE b # vm
      BY <2>2, <3>2 DEF TypeOK
    <3> QED BY <3>1, <3>2
  <2> QED BY <1>2, <2>1, <2>2
<1>5. OneBootInFlight'
  BY <1>1, <1>3 DEF OwnRelease, OneBootInFlight, UnderWay, InFlight, Hung
<1>6. ASSUME NEW b \in Boots PROVE OwnMachine(b)'
  <2>1. Wanted(b)' = Wanted(b) /\ InState(b, "done")' = InState(b, "done")
    BY <1>3, SameNar DEF NarState
  <2>2. OwnMachine(b)
    BY DEF OwnRelease
  <2> QED BY <1>1, <1>3, <1>4, <2>1, <2>2 DEF OwnMachine, Hung
<1> QED BY <1>5, <1>6 DEF OwnRelease

LEMMA OwnWorker ==
  ASSUME TypeOK, OwnRelease, NEW j \in Jobs, WorkerStep(j)
  PROVE  OwnRelease'
<1>0. PICK p \in Path : NarStart(j, p) \/ NarParsed(j, p) \/ NarFails(j, p) \/ NarWritten(j, p)
  BY DEF WorkerStep
<1>1. PICK s \in {"fetching", "parsed", "failed", "done"} :
        /\ nar' = [nar EXCEPT ![j][p] = s]
        /\ nar[j][p] \in {"queued", "fetching", "parsed"}
        /\ s = "done" => /\ j \in Boots
                         /\ share' = [share EXCEPT ![j].written = @ \cup {p}]
        /\ s # "done" => share' = share
  BY <1>0 DEF NarStart, NarParsed, NarFails, NarWritten, SetNar, guests
<1>2. UNCHANGED <<engine, pc, vm, released>>
  BY <1>0 DEF NarStart, NarParsed, NarFails, NarWritten, page, guests
<1>3. /\ \A i \in Jobs : i # j => nar'[i] = nar[i]
      /\ \A q \in Path : nar'[j][q] = IF q = p THEN s ELSE nar[j][q]
  BY <1>1 DEF TypeOK
<1>4. \A b \in Boots : b # j => share'[b] = share[b]
  BY <1>1 DEF TypeOK
<1>5. OneBootInFlight'
  BY <1>2 DEF OwnRelease, OneBootInFlight, UnderWay, InFlight, Hung
<1>6. ASSUME NEW b \in Boots PROVE OwnMachine(b)'
  <2>1. OwnMachine(b) /\ b \in Jobs
    BY JobKinds DEF OwnRelease
  <2>2. CASE b # j
    <3>1. Wanted(b)' = Wanted(b) /\ InState(b, "done")' = InState(b, "done")
      BY <1>3, <2>1, <2>2, SameNar DEF NarState
    <3> QED BY <1>2, <1>4, <2>1, <2>2, <3>1 DEF OwnMachine, Hung
  <2>3. CASE b = j
    <3>1. /\ Wanted(b)' = Wanted(b)
          /\ InState(b, "done") \subseteq InState(b, "done")'
          /\ s # "done" => InState(b, "done")' = InState(b, "done")
          /\ s = "done" => InState(b, "done")' = InState(b, "done") \cup {p}
      BY <1>1, <1>3, <2>3 DEF Wanted, InState
    <3>2. InState(b, "done")' \subseteq share'[b].written
      <4>1. CASE s = "done"
        <5>1. share[b] \in Share /\ share'[b] = [share[b] EXCEPT !.written = @ \cup {p}]
          BY <1>1, <2>3, <4>1 DEF TypeOK
        <5>2. share'[b].written = share[b].written \cup {p}
          BY <5>1 DEF Share
        <5> QED BY <2>1, <3>1, <4>1, <5>2 DEF OwnMachine
      <4>2. CASE s # "done"
        BY <1>1, <2>1, <3>1, <4>2 DEF OwnMachine
      <4> QED BY <4>1, <4>2
    <3> QED BY <1>2, <2>1, <3>1, <3>2 DEF OwnMachine, Hung
  <2> QED BY <2>2, <2>3
<1> QED BY <1>5, <1>6 DEF OwnRelease

LEMMA OwnStep ==
  ASSUME OneBootAtATime, TypeOK, OwnRelease, [Next]_vars
  PROVE  OwnRelease'
<1>1. CASE ReaderStep \/ LinkIsEmpty \/ UNCHANGED vars
  <2>1. UNCHANGED <<pc, engine, nar, vm, share, released>>
    BY <1>1 DEF ReaderStep, Select, Deselect, Answer, LinkIsEmpty, vars, page, guests
  <2> QED BY <2>1, OwnAside
<1> QED BY <1>1, OwnStart, OwnBoot, OwnAdd, OwnWorker DEF Next, Starts

\* QEMU is only released on a complete share, whoever asked for the boot and
\* whatever ran before it, on a page on which boots do not overlap (boot.js,
\* run and removeRunDependency; app.js, boot).
THEOREM CompleteBeforeRelease ==
  ASSUME OneBootAtATime
  PROVE  Spec => []ReleasedComplete
<1>1. TypeOK /\ OwnRelease /\ [Next]_vars => (TypeOK /\ OwnRelease)'
  BY StepType, OwnStep
<1>2. OwnRelease => ReleasedComplete
  BY DEF OwnRelease, OwnMachine, ReleasedComplete
<1> QED BY <1>1, <1>2, InitType, OwnInit, PTL DEF Spec

-----------------------------------------------------------------------------
(***************************************************************************)
(* The button, on any page: no matter how many boots are asked for at once.*)
(***************************************************************************)
\* A button that is off although it could be on is owed by a job that has not
\* come to the point where it sets it.
ButtonOwed ==
  ~button /\ Offered(selection, unheld) =>
    \E j \in Jobs : pc[j] \in {"asked", "walk", "download", "closure"}

LEMMA ButtonStep ==
  ASSUME TypeOK, ButtonOwed, [Next]_vars
  PROVE  ButtonOwed'
<1> USE JobKinds DEF ButtonOwed
<1>1. ASSUME Refresh PROVE ButtonOwed'
  BY <1>1 DEF Refresh
<1>2. ASSUME NEW j \in Jobs, NEW s \in {"asked", "walk", "download", "closure"},
             pc' = [pc EXCEPT ![j] = s]
      PROVE  ButtonOwed'
  BY <1>2 DEF TypeOK
<1>3. ASSUME UNCHANGED <<button, selection, unheld, pc>>
      PROVE  ButtonOwed'
  BY <1>3 DEF Offered
<1>4. CASE ReaderStep
  BY <1>1, <1>4 DEF ReaderStep, Select, Deselect, Answer
<1>5. ASSUME NEW b \in Boots, Starts(b) \/ BootStep(b)
      PROVE  ButtonOwed'
  <2>1. CASE Starts(b) \/ BootWalked(b) \/ TakeVM(b)
    BY <1>2, <2>1 DEF Starts, BootStart, LinkBoots, Begin, BootWalked, TakeVM
  <2>2. CASE EngineUp(b) \/ EngineFails(b) \/ EngineHangs(b)
    BY <1>3, <2>2 DEF EngineUp, EngineFails, EngineHangs, reader
  <2>3. CASE RunVM(b)
    BY <2>3 DEF RunVM, Release
  <2>4. CASE BootReady(b)
    <3>1. /\ pc[b] = "ready" /\ \A j \in Jobs : j # b => pc'[j] = pc[j]
          /\ UNCHANGED <<button, selection, unheld>>
      BY <2>4 DEF BootReady, reader, TypeOK
    <3> QED BY <3>1 DEF Offered
  <2>5. CASE BootFails(b)
    BY <1>1, <2>5 DEF BootFails
  <2> QED BY <1>5, <2>1, <2>2, <2>3, <2>4, <2>5 DEF BootStep
<1>6. ASSUME NEW a \in Adds, AddStart(a) \/ AddStep(a)
      PROVE  ButtonOwed'
  <2>1. CASE AddStart(a) \/ AddRooted(a) \/ AddWalked(a)
    BY <1>2, <2>1 DEF AddStart, AddRooted, AddWalked
  <2>2. CASE AddNothing(a) \/ AddFinish(a) \/ AddFails(a)
    BY <1>1, <2>2 DEF AddNothing, AddFinish, AddFails, Join
  <2> QED BY <1>6, <2>1, <2>2 DEF AddStep
<1>7. ASSUME NEW j \in Jobs, WorkerStep(j)
      PROVE  ButtonOwed'
  BY <1>3, <1>7 DEF WorkerStep, NarStart, NarParsed, NarFails, NarWritten, reader
<1>8. CASE UNCHANGED vars \/ LinkIsEmpty
  BY <1>3, <1>8 DEF vars, LinkIsEmpty
<1> QED BY <1>4, <1>5, <1>6, <1>7, <1>8 DEF Next, Starts

\* The button always comes back (app.js, boot and addToRunningVM).
THEOREM ButtonReturns == Spec => []ButtonComesBack
<1>1. Init => ButtonOwed
  BY DEF Init, ButtonOwed, Offered
<1>2. TypeOK /\ ButtonOwed /\ [Next]_vars => ButtonOwed'
  BY ButtonStep
<1>3. ButtonOwed => ButtonComesBack
  BY DEF ButtonOwed, ButtonComesBack, InFlight
<1> QED BY <1>1, <1>2, <1>3, TypeCorrect, PTL DEF Spec

-----------------------------------------------------------------------------
(***************************************************************************)
(* The farm of links that a page keeps through a boot and all the adds     *)
(* after it.                                                               *)
(***************************************************************************)
\* Roots of a job, all of them or those at some positions, are a list of
\* roots.
LEMMA CutList ==
  ASSUME NEW list \in Seq(Path), NEW D \in SUBSET DOMAIN list
  PROVE  /\ RootList([i \in D |-> list[i]])
         /\ RootList(list)
<1>1. Len(list) \in Nat /\ \A i \in DOMAIN list : i \in Nat /\ i <= Len(list) /\ list[i] \in Path
  OBVIOUS
<1> QED BY <1>1 DEF RootList

-----------------------------------------------------------------------------
(***************************************************************************)
(* Links resolve, on any page.                                             *)
(***************************************************************************)
\* A share whose links all resolve.
Resolves(s) ==
  \A n \in Program : s.farm[n] # Unlinked => Offers(s.written, s.farm[n], n)

LEMMA ResolveStep ==
  ASSUME TypeOK, \A v \in Boots : Resolves(share[v]), [Next]_vars
  PROVE  \A v \in Boots : Resolves(share'[v])
<1> USE JobKinds
<1>1. ASSUME share' = share
      PROVE  \A v \in Boots : Resolves(share'[v])
  BY <1>1
<1>2. ASSUME NEW b \in Boots, RunVM(b)
      PROVE  \A v \in Boots : Resolves(share'[v])
  <2>1. PICK f \in LinkAll(share[vm].written, share[vm].farm, share[vm].written,
                           roots[b], "keep") :
          share' = [share EXCEPT ![vm].farm = f]
    BY <1>2 DEF RunVM, Release
  <2>2. CASE vm \notin Boots
    BY <2>1, <2>2 DEF TypeOK
  <2>3. CASE vm \in Boots
    <3>1. RootList(roots[b])
      BY CutList DEF TypeOK
    <3>2. share[vm] \in Share /\ share[vm].farm \in Farm
      BY <2>3 DEF TypeOK, Share
    <3>3. \A n \in Program : f[n] = share[vm].farm[n] \/ Offers(share[vm].written, f[n], n)
      BY <2>1, <3>1, <3>2, LinkAllFacts DEF Precedence, Relinked
    <3>4. share'[vm].farm = f /\ share'[vm].written = share[vm].written
      BY <2>1, <2>3, <3>2 DEF TypeOK, Share
    <3>5. Resolves(share'[vm])
      BY <2>3, <3>3, <3>4 DEF Resolves
    <3>6. \A v \in Boots : v # vm => share'[v] = share[v]
      BY <2>1 DEF TypeOK
    <3> QED BY <3>5, <3>6
  <2> QED BY <2>2, <2>3
<1>3. ASSUME NEW a \in Adds, AddFinish(a)
      PROVE  \A v \in Boots : Resolves(share'[v])
  <2> DEFINE D       == {i \in DOMAIN roots[a] : roots[a][i] \in mounted'}
             written == share[vm].written \cup Wanted(a)
  <2>1. PICK f \in LinkAll(written, share[vm].farm, Wanted(a),
                           [i \in D |-> roots[a][i]], "replace") :
          share' = [share EXCEPT ![vm] = [written |-> written, farm |-> f]]
    BY <1>3 DEF AddFinish, Join
  <2>2. CASE vm \notin Boots
    BY <2>1, <2>2 DEF TypeOK
  <2>3. CASE vm \in Boots
    <3>1. RootList([i \in D |-> roots[a][i]])
      BY CutList DEF TypeOK
    <3>2. share[vm].farm \in Farm
      BY <2>3 DEF TypeOK, Share
    <3> HIDE DEF D
    <3>3. \A n \in Program : f[n] = share[vm].farm[n] \/ Offers(written, f[n], n)
      BY <2>1, <3>1, <3>2, LinkAllFacts DEF Precedence, Relinked
    <3>4. share'[vm].farm = f /\ share'[vm].written = written
      BY <2>1, <2>3 DEF TypeOK
    <3>5. Resolves(share'[vm])
      BY <2>3, <3>3, <3>4 DEF Resolves, Offers
    <3>6. \A v \in Boots : v # vm => share'[v] = share[v]
      BY <2>1 DEF TypeOK
    <3> QED BY <3>5, <3>6
  <2> QED BY <2>2, <2>3
<1>4. ASSUME NEW b \in Boots, NEW p \in Path, NarWritten(b, p)
      PROVE  \A v \in Boots : Resolves(share'[v])
  <2>1. share' = [share EXCEPT ![b].written = @ \cup {p}]
    BY <1>4 DEF NarWritten
  <2>2. share[b] \in Share /\ share'[b] = [share[b] EXCEPT !.written = @ \cup {p}]
    BY <2>1 DEF TypeOK
  <2>3. share'[b].farm = share[b].farm /\ share'[b].written = share[b].written \cup {p}
    BY <2>2 DEF Share
  <2>4. Resolves(share'[b])
    BY <2>3 DEF Resolves, Offers
  <2> QED BY <2>1, <2>4 DEF TypeOK
<1>5. CASE ReaderStep \/ LinkIsEmpty \/ UNCHANGED vars
  BY <1>1, <1>5 DEF ReaderStep, Select, Deselect, Answer, LinkIsEmpty, guests, vars
<1>6. ASSUME NEW b \in Boots, Starts(b) \/ BootStep(b)
      PROVE  \A v \in Boots : Resolves(share'[v])
  BY <1>1, <1>2, <1>6 DEF Starts, BootStart, LinkBoots, Begin, BootStep, BootWalked, EngineUp, EngineFails,
     EngineHangs, TakeVM, BootReady, BootFails, guests
<1>7. ASSUME NEW a \in Adds, AddStart(a) \/ AddStep(a)
      PROVE  \A v \in Boots : Resolves(share'[v])
  BY <1>1, <1>3, <1>7 DEF AddStart, AddStep, AddRooted, AddNothing, AddWalked,
     AddFails, guests
<1>8. ASSUME NEW j \in Jobs, WorkerStep(j)
      PROVE  \A v \in Boots : Resolves(share'[v])
  <2>1. PICK p \in Path : NarStart(j, p) \/ NarParsed(j, p) \/ NarFails(j, p) \/ NarWritten(j, p)
    BY <1>8 DEF WorkerStep
  <2>2. CASE NarWritten(j, p)
    BY <1>4, <2>2 DEF NarWritten
  <2>3. CASE NarStart(j, p) \/ NarParsed(j, p) \/ NarFails(j, p)
    BY <1>1, <2>3 DEF NarStart, NarParsed, NarFails, guests
  <2> QED BY <2>1, <2>2, <2>3
<1> QED BY <1>5, <1>6, <1>7, <1>8 DEF Next, Starts

\* No link of any farm dangles, however many boots run at once (boot.js,
\* linkAll and write).
THEOREM NoLinkDangles == Spec => []LinksResolve
<1> DEFINE Inv == \A v \in Boots : Resolves(share[v])
<1>1. Init => Inv
  BY DEF Init, EmptyShare, Resolves
<1>2. TypeOK /\ Inv /\ [Next]_vars => Inv'
  BY ResolveStep
<1>3. Inv => LinksResolve
  BY DEF LinksResolve, Resolves, Offers
<1> QED BY <1>1, <1>2, <1>3, TypeCorrect, PTL DEF Spec

-----------------------------------------------------------------------------
(***************************************************************************)
(* A dependency never shadows a root, on a page that is asked for one boot *)
(* at a time.                                                              *)
(***************************************************************************)
\* The names that roots offer go to roots.
Ruled(s, R) ==
  /\ R \subseteq s.written
  /\ \A n \in Program : (\E p \in R : Offers(s.written, p, n)) => s.farm[n] \in R

RootInv ==
  /\ \A b \in Boots : pc[b] \in {"download", "closure"} => Rooted(roots[b]) \subseteq Wanted(b)
  /\ ~vmStarted => \A b \in Boots : rooted[b] = {} /\ \A n \in Program : share[b].farm[n] = Unlinked
  /\ vmStarted => Ruled(share[vm], rooted[vm])

LEMMA RootInit == Init => RootInv
BY JobKinds DEF Init, RootInv, EmptyShare

\* The boot's own farm: no name had a link before.
LEMMA RootRun ==
  ASSUME IInv, RootInv, NEW b \in Boots, RunVM(b)
  PROVE  RootInv'
<1> USE JobKinds
<1>1. /\ TypeOK /\ pc[b] = "closure" /\ ~vmStarted /\ vm = b
      /\ share[b].written = Wanted(b)
      /\ Rooted(roots[b]) \subseteq Wanted(b)
  BY DEF RunVM, IInv, BootPhase, RootInv
<1>2. PICK f \in LinkAll(share[b].written, share[b].farm, share[b].written, roots[b], "keep") :
        share' = [share EXCEPT ![b].farm = f]
  BY <1>1 DEF RunVM, Release
<1>3. /\ rooted' = [rooted EXCEPT ![b] = @ \cup Rooted(roots[b])]
      /\ pc' = [pc EXCEPT ![b] = "ready"]
      /\ vmStarted' = TRUE /\ UNCHANGED <<roots, nar, vm>>
  BY <1>1 DEF RunVM, Release
<1>4. RootList(roots[b]) /\ share[b] \in Share /\ share[b].farm \in Farm
  BY <1>1, CutList DEF TypeOK, Share
<1>5. \A n \in Program :
        (\E p \in Rooted(roots[b]) : Offers(share[b].written, p, n)) => f[n] \in Rooted(roots[b])
  <2> SUFFICES ASSUME NEW n \in Program,
                      NEW p \in Rooted(roots[b]), Offers(share[b].written, p, n)
               PROVE  f[n] \in Rooted(roots[b])
    OBVIOUS
  <2>1. Relinked(share[b].written, share[b].farm, f, roots[b], "keep", n)
    BY <1>2, <1>4, LinkAllFacts DEF Precedence
  <2>2. share[b].farm[n] = Unlinked
    BY <1>1 DEF RootInv
  <2>3. \E i \in DOMAIN roots[b] : Offers(share[b].written, roots[b][i], n)
    BY DEF Rooted
  <2> QED BY <2>1, <2>2, <2>3 DEF Relinked
<1>6. share'[b].farm = f /\ share'[b].written = share[b].written
  BY <1>1, <1>2, <1>4 DEF TypeOK, Share
<1>7. rooted'[b] = Rooted(roots[b])
  BY <1>1, <1>3 DEF TypeOK, RootInv
<1>8. Ruled(share'[vm'], rooted'[vm'])
  BY <1>1, <1>3, <1>5, <1>6, <1>7 DEF Ruled
<1>9. \A c \in Boots : pc'[c] \in {"download", "closure"} =>
        Rooted(roots'[c]) \subseteq Wanted(c)'
  BY <1>1, <1>3 DEF TypeOK, RootInv, Wanted, InState
<1> QED BY <1>3, <1>8, <1>9 DEF RootInv

\* An add: a name its roots offer goes to one of them, any other that an older
\* root offers had a link to such a root already, and keeps it.
LEMMA RootAdd ==
  ASSUME IInv, RootInv, NEW a \in Adds, AddFinish(a)
  PROVE  RootInv'
<1> USE JobKinds
<1> DEFINE D       == {i \in DOMAIN roots[a] : roots[a][i] \in mounted'}
           cut     == [i \in D |-> roots[a][i]]
           written == share[vm].written \cup Wanted(a)
<1>1. /\ TypeOK /\ vmStarted /\ vm \in Boots /\ a \in Jobs /\ a \notin Boots
      /\ share[vm].written = mounted
      /\ Ruled(share[vm], rooted[vm])
  BY DEF AddFinish, IInv, AddPhase, Running, RootInv
<1>2. PICK f \in LinkAll(written, share[vm].farm, Wanted(a), cut, "replace") :
        share' = [share EXCEPT ![vm] = [written |-> written, farm |-> f]]
  BY DEF AddFinish, Join
<1>3. /\ rooted' = [rooted EXCEPT ![vm] = @ \cup Rooted(cut)]
      /\ mounted' = mounted \cup Wanted(a)
      /\ pc' = [pc EXCEPT ![a] = "done"]
      /\ nar' = [nar EXCEPT ![a] =
           [p \in Path |-> IF nar[a][p] = "parsed" THEN "done" ELSE nar[a][p]]]
      /\ UNCHANGED <<roots, vm, vmStarted>>
  BY DEF AddFinish, Join
<1>4. RootList(cut) /\ share[vm] \in Share /\ share[vm].farm \in Farm
  BY <1>1, CutList DEF TypeOK, Share
<1>5. Rooted(cut) \subseteq written
  BY <1>1, <1>3 DEF Rooted
<1>6. rooted[vm] \subseteq share[vm].written /\ Unlinked \notin rooted[vm]
  BY <1>1, ShareAssumption DEF Ruled, TypeOK
<1> HIDE DEF cut
<1>7. ASSUME NEW n \in Program,
             NEW p \in rooted[vm] \cup Rooted(cut), Offers(written, p, n)
      PROVE  f[n] \in rooted[vm] \cup Rooted(cut)
  <2>1. Relinked(written, share[vm].farm, f, cut, "replace", n)
    BY <1>2, <1>4, LinkAllFacts DEF Precedence
  <2>2. CASE \E i \in DOMAIN cut : Offers(written, cut[i], n)
    BY <2>1, <2>2 DEF Relinked
  <2>3. CASE ~ \E i \in DOMAIN cut : Offers(written, cut[i], n)
    <3>1. p \in rooted[vm]
      BY <1>7, <2>3 DEF Rooted
    <3>2. Offers(share[vm].written, p, n)
      BY <1>6, <1>7, <3>1 DEF Offers
    <3>3. share[vm].farm[n] \in rooted[vm]
      BY <1>1, <3>1, <3>2 DEF Ruled
    <3>4. f[n] = share[vm].farm[n]
      BY <1>6, <2>1, <2>3, <3>3 DEF Relinked
    <3> QED BY <3>3, <3>4
  <2> QED BY <2>2, <2>3
<1>8. share'[vm].farm = f /\ share'[vm].written = written
  BY <1>1, <1>2 DEF TypeOK
<1>9. rooted'[vm] = rooted[vm] \cup Rooted(cut)
  BY <1>1, <1>3 DEF TypeOK
<1>10. Ruled(share'[vm'], rooted'[vm'])
  BY <1>3, <1>5, <1>6, <1>7, <1>8, <1>9 DEF Ruled
<1>11. \A c \in Boots : pc'[c] = pc[c] /\ nar'[c] = nar[c]
  BY <1>1, <1>3 DEF TypeOK
<1>12. \A c \in Boots : pc'[c] \in {"download", "closure"} =>
         Rooted(roots'[c]) \subseteq Wanted(c)'
  BY <1>3, <1>11, SameNar DEF RootInv
<1> QED BY <1>1, <1>3, <1>10, <1>12 DEF RootInv

\* The walk of a boot finds its roots.
LEMMA RootWalk ==
  ASSUME IInv, RootInv, NEW b \in Boots, BootWalked(b)
  PROVE  RootInv'
<1> USE JobKinds
<1> DEFINE found == Reach(Rooted(roots[b]), {})
<1>1. /\ TypeOK /\ b \in Jobs
      /\ pc' = [pc EXCEPT ![b] = "download"]
      /\ nar' = [nar EXCEPT ![b] = [p \in Path |-> IF p \in found THEN "queued" ELSE "absent"]]
      /\ UNCHANGED <<roots, vm, vmStarted, share, rooted>>
  BY DEF BootWalked, IInv, page, guests
<1>2. Rooted(roots[b]) \subseteq found /\ found \subseteq Path
  BY <1>1, WantedType, ReachHolds
<1> HIDE DEF found
<1>3. /\ \A c \in Boots : c # b => pc'[c] = pc[c] /\ nar'[c] = nar[c]
      /\ nar'[b] = [p \in Path |-> IF p \in found THEN "queued" ELSE "absent"]
  BY <1>1 DEF TypeOK
<1>4. Wanted(b)' = found
  BY <1>2, <1>3 DEF Wanted, InState
<1>5. \A c \in Boots : c # b => Wanted(c)' = Wanted(c)
  BY <1>3, SameNar
<1>6. \A c \in Boots : pc'[c] \in {"download", "closure"} => Rooted(roots'[c]) \subseteq Wanted(c)'
  BY <1>1, <1>2, <1>3, <1>4, <1>5 DEF RootInv
<1> QED BY <1>1, <1>6 DEF RootInv

\* A worker leaves the farms alone, and the share of a machine that runs.
LEMMA RootWorker ==
  ASSUME IInv, RootInv, NEW j \in Jobs, WorkerStep(j)
  PROVE  RootInv'
<1> USE JobKinds
<1>0. TypeOK
  BY DEF IInv
<1>1. PICK p \in Path : NarStart(j, p) \/ NarParsed(j, p) \/ NarFails(j, p) \/ NarWritten(j, p)
  BY DEF WorkerStep
<1>2. /\ UNCHANGED <<pc, roots, vm, vmStarted, rooted>>
      /\ \E s \in NarState \ {"absent"} : nar' = [nar EXCEPT ![j][p] = s]
      /\ nar[j][p] \in {"queued", "fetching", "parsed"}
  BY <1>1 DEF NarStart, NarParsed, NarFails, NarWritten, SetNar, page, guests, NarState
<1>3. \A i \in Jobs : Wanted(i)' = Wanted(i)
  <2>1. \A i \in Jobs : i # j => nar'[i] = nar[i]
    BY <1>0, <1>2 DEF TypeOK
  <2>2. \A q \in Path : nar'[j][q] = "absent" <=> nar[j][q] = "absent"
    BY <1>0, <1>2 DEF TypeOK
  <2> QED BY <2>1, <2>2 DEF Wanted, InState
<1>4. \A b \in Boots : share'[b].farm = share[b].farm
  <2>1. CASE NarWritten(j, p)
    <3>1. j \in Boots /\ share' = [share EXCEPT ![j].written = @ \cup {p}]
      BY <2>1 DEF NarWritten
    <3>2. share[j] \in Share /\ share'[j] = [share[j] EXCEPT !.written = @ \cup {p}]
      BY <1>0, <3>1 DEF TypeOK
    <3>3. share'[j].farm = share[j].farm
      BY <3>2 DEF Share
    <3> QED BY <1>0, <3>1, <3>3 DEF TypeOK
  <2>2. CASE NarStart(j, p) \/ NarParsed(j, p) \/ NarFails(j, p)
    BY <2>2 DEF NarStart, NarParsed, NarFails, guests
  <2> QED BY <1>1, <2>1, <2>2
<1>5. vmStarted => share'[vm] = share[vm]
  <2> SUFFICES ASSUME vmStarted PROVE share'[vm] = share[vm]
    OBVIOUS
  <2>1. vm \in Boots /\ Wanted(vm) = InState(vm, "done")
    BY DEF IInv, Running
  <2>2. j # vm
    BY <1>2, <2>1 DEF Wanted, InState
  <2>3. CASE NarWritten(j, p)
    BY <1>0, <2>1, <2>2, <2>3 DEF NarWritten, TypeOK
  <2>4. CASE NarStart(j, p) \/ NarParsed(j, p) \/ NarFails(j, p)
    BY <2>4 DEF NarStart, NarParsed, NarFails, guests
  <2> QED BY <1>1, <2>3, <2>4
<1> QED BY <1>2, <1>3, <1>4, <1>5 DEF RootInv

\* The other steps touch neither share nor roots of a job that has walked.
LEMMA RootRest ==
  ASSUME IInv, RootInv, UNCHANGED <<nar, vmStarted, share, rooted>>,
         vmStarted => vm' = vm,
         \A b \in Boots : pc'[b] \in {"download", "closure"} =>
           pc[b] \in {"download", "closure"} /\ roots'[b] = roots[b]
  PROVE  RootInv'
BY SameNar DEF RootInv

LEMMA RootStep ==
  ASSUME IInv, RootInv, [Next]_vars
  PROVE  RootInv'
<1> USE JobKinds
<1>0. TypeOK
  BY DEF IInv
<1>1. CASE ReaderStep \/ LinkIsEmpty \/ UNCHANGED vars
  BY <1>1, RootRest DEF ReaderStep, Select, Deselect, Answer, LinkIsEmpty, page, guests, vars
<1>2. ASSUME NEW b \in Boots, Starts(b) \/ BootStep(b)
      PROVE  RootInv'
  <2>1. ASSUME NEW s \in Status \ {"download"}, pc' = [pc EXCEPT ![b] = s],
               s = "closure" => pc[b] = "download",
               \A c \in Boots : c # b => roots'[c] = roots[c],
               s = "closure" => roots' = roots,
               UNCHANGED <<nar, vmStarted, share, rooted>>, vmStarted => vm' = vm
        PROVE  RootInv'
    BY <1>0, <2>1, RootRest DEF TypeOK
  <2>2. CASE Starts(b)
    <3>1. Begin(b)
      BY <2>2 DEF Starts, BootStart, LinkBoots
    <3>2. \A c \in Boots : c # b => roots'[c] = roots[c]
      BY <1>0, <3>1 DEF Begin, TypeOK
    <3> QED BY <2>1, <3>1, <3>2 DEF Begin, Status, page, guests
  <2>3. CASE BootWalked(b)
    BY <2>3, RootWalk
  <2>4. CASE EngineUp(b) \/ EngineFails(b) \/ EngineHangs(b)
    BY <2>4, RootRest DEF EngineUp, EngineFails, EngineHangs, page, guests
  <2>5. CASE TakeVM(b)
    <3>1. ~vmStarted
      BY <2>5 DEF TakeVM, IInv, BootPhase, Hung
    <3> QED BY <2>1, <2>5, <3>1 DEF TakeVM, Status, guests
  <2>6. CASE RunVM(b)
    BY <2>6, RootRun
  <2>7. CASE BootReady(b)
    BY <2>1, <2>7 DEF BootReady, Status, page, guests
  <2>8. CASE BootFails(b)
    BY <2>1, <2>8 DEF BootFails, Status, page, guests
  <2> QED BY <1>2, <2>2, <2>3, <2>4, <2>5, <2>6, <2>7, <2>8 DEF BootStep
<1>3. ASSUME NEW a \in Adds, AddStart(a) \/ AddStep(a)
      PROVE  RootInv'
  <2>1. \A b \in Boots : b # a
    OBVIOUS
  <2>2. CASE AddStart(a)
    BY <1>0, <2>1, <2>2, RootRest DEF AddStart, page, guests, TypeOK
  <2>3. CASE AddRooted(a) \/ AddNothing(a) \/ AddFails(a)
    BY <1>0, <2>1, <2>3, RootRest DEF AddRooted, AddNothing, AddFails, page, guests, TypeOK
  <2>4. CASE AddWalked(a)
    <3>1. /\ \A c \in Boots : pc'[c] = pc[c] /\ nar'[c] = nar[c]
          /\ UNCHANGED <<roots, vm, vmStarted, share, rooted>>
      BY <1>0, <2>1, <2>4 DEF AddWalked, page, guests, TypeOK
    <3> QED BY <3>1, SameNar DEF RootInv
  <2>5. CASE AddFinish(a)
    BY <2>5, RootAdd
  <2> QED BY <1>3, <2>2, <2>3, <2>4, <2>5 DEF AddStep
<1> QED BY <1>1, <1>2, <1>3, RootWorker DEF Next, Starts

\* A dependency never shadows what is linked as a root, through a boot and all
\* the adds after it (boot.js, linkAll; app.js, boot and addToRunningVM).
THEOREM RootsAreNotShadowed ==
  ASSUME OneBootAtATime, LinkFirst
  PROVE  Spec => []RootsShadow
<1>1. IInv /\ RootInv /\ [Next]_vars => RootInv'
  BY RootStep
<1>2. RootInv => RootsShadow
  BY DEF RootInv, Ruled, RootsShadow
<1> QED BY <1>1, <1>2, RootInit, Invariant, PTL DEF Spec

=============================================================================
