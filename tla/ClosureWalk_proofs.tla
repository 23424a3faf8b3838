------------------------- MODULE ClosureWalk_proofs -------------------------
(***************************************************************************)
(* Theorems about ClosureWalk, for every graph of references, every list   *)
(* of roots, every size of batch and whatever is mounted meanwhile.        *)
(***************************************************************************)
EXTENDS ClosureWalk, TLAPS

\* The walk finds its roots, and the references of all it finds, unless they
\* are known (closure.js, walkClosure).
LEMMA ReachHolds ==
  ASSUME NEW from, NEW skip
  PROVE  /\ (from \cap Path) \ skip \subseteq Reach(from, skip)
         /\ \A p \in Reach(from, skip) : Refs[p] \ skip \subseteq Reach(from, skip)
<1>1. ASSUME NEW p \in Reach(from, skip), NEW q \in Refs[p] \ skip
      PROVE  q \in Reach(from, skip)
  <2>1. p \in Path /\ q \in Path
    BY <1>1, WalkAssumption DEF Reach
  <2>2. ASSUME NEW S \in SUBSET Path, HoldsReach(S, from, skip)
        PROVE  q \in S
    BY <1>1, <2>2 DEF Reach, HoldsReach
  <2> QED BY <2>1, <2>2 DEF Reach
<1> QED BY <1>1 DEF Reach, HoldsReach

\* ... and nothing else: whatever holds the roots and is closed holds it all.
LEMMA ReachLeast ==
  ASSUME NEW from, NEW skip, NEW S \in SUBSET Path, HoldsReach(S, from, skip)
  PROVE  Reach(from, skip) \subseteq S
BY DEF Reach

\* The roots asked for are paths, and the turns of the walk count them.
LEMMA RootsType ==
  ASSUME TypeOK
  PROVE  /\ roots \in Seq(Path) /\ DOMAIN roots = 1 .. Len(roots)
         /\ Len(roots) \in Nat /\ turn \in Nat \ {0}
         /\ Rooted \subseteq Path
         /\ \A i \in DOMAIN roots : roots[i] \in Path /\ roots[i] \in Rooted
         /\ turn \notin DOMAIN roots => \A i \in DOMAIN roots : i < turn
<1>1. roots \in Seq(Path)
  BY WalkAssumption DEF TypeOK
<1>2. DOMAIN roots = 1 .. Len(roots) /\ Len(roots) \in Nat
  BY <1>1
<1>3. \A i \in DOMAIN roots : roots[i] \in Path
  BY <1>1
<1>4. turn \in 1 .. Len(roots) + 1
  BY DEF TypeOK
<1>5. turn \in Nat \ {0} /\ (turn \notin DOMAIN roots => \A i \in DOMAIN roots : i < turn)
  BY <1>2, <1>4
<1> QED BY <1>1, <1>2, <1>3, <1>5 DEF Rooted

-----------------------------------------------------------------------------
(***************************************************************************)
(* The inductive invariant.                                                *)
(***************************************************************************)
LEMMA InitWInv == Init => WInv
<1> SUFFICES ASSUME Init PROVE WInv
  OBVIOUS
<1>1. roots \in Seq(Path) /\ Len(roots) \in Nat /\ DOMAIN roots = 1 .. Len(roots)
  BY WalkAssumption DEF Init
<1>2. turn \in 1 .. Len(roots) + 1
  BY <1>1 DEF Init
<1>3. fetched \in [Path -> Nat]
  BY DEF Init
<1>4. TypeOK
  BY <1>2, <1>3 DEF Init, TypeOK
<1>5. Found
  <2>1. \A i \in DOMAIN roots : ~(i < turn)
    BY <1>1 DEF Init
  <2> QED BY <2>1 DEF Init, Found
<1>6. Asked = {}
  BY DEF Init, Asked
<1> QED BY <1>4, <1>5, <1>6 DEF Init, WInv

LEMMA SkipRootWInv == WInv /\ SkipRoot => WInv'
<1> SUFFICES ASSUME WInv, SkipRoot PROVE WInv'
  OBVIOUS
<1> USE DEF WInv, SkipRoot, call, search
<1>1. TypeOK'
  BY RootsType DEF TypeOK
<1>2. Found'
  <2>1. \A i \in DOMAIN roots : i < turn + 1 => i < turn \/ i = turn
    BY RootsType
  <2>2. (\A i \in DOMAIN roots : i < turn => roots[i] \in closure)'
    BY <2>1 DEF Found
  <2>3. Rooted' = Rooted
    BY DEF Rooted
  <2> QED BY <2>2, <2>3 DEF Found
<1>3. Asked' = Asked
  BY DEF Asked
<1> QED BY <1>1, <1>2, <1>3

LEMMA EnterRootWInv == WInv /\ EnterRoot => WInv'
<1> SUFFICES ASSUME WInv, EnterRoot PROVE WInv'
  OBVIOUS
<1> USE DEF WInv, EnterRoot, call
<1>1. TypeOK'
  BY RootsType DEF TypeOK
<1>2. Rooted' = Rooted
  BY DEF Rooted
<1>3. Found'
  BY <1>2 DEF Found
<1>4. roots[turn] \in Reach(Rooted, known)
  <2>1. roots[turn] \in (Rooted \cap Path) \ known
    BY RootsType DEF Found
  <2> QED BY <2>1, ReachHolds
<1>5. Searching'
  <2>1. (enqueued \ known)' \subseteq Reach(Rooted, known)
    BY <1>4 DEF Found
  <2> QED BY <1>2, <2>1 DEF Searching
<1>6. Asked' = Asked
  BY DEF Asked
<1> QED BY <1>1, <1>3, <1>5, <1>6

LEMMA AskWInv == WInv /\ Ask => WInv'
<1> SUFFICES ASSUME WInv, Ask PROVE WInv'
  OBVIOUS
<1>1. /\ pc = "level" /\ batch = {} /\ batch' \subseteq frontier
      /\ frontier' = frontier \ batch' /\ pc' = "batch"
      /\ UNCHANGED <<roots, known, mounted, closure, turn, one, enqueued, next>>
      /\ fetched' = [p \in Path |-> IF p \in batch' THEN fetched[p] + 1 ELSE fetched[p]]
  BY DEF Ask, WInv, call
<1>2. TypeOK
  BY DEF WInv
<1>3. Searching /\ Found
  BY <1>1 DEF WInv
<1>4. fetched' \in [Path -> Nat]
  BY <1>1, <1>2 DEF TypeOK
<1>5. TypeOK'
  BY <1>1, <1>2, <1>4 DEF TypeOK
<1>6. Rooted' = Rooted
  BY <1>1 DEF Rooted
<1>7. Found'
  BY <1>1, <1>3, <1>6 DEF Found
<1>8. Searching'
  BY <1>1, <1>3, <1>6 DEF Searching
<1>9. fetched' = [p \in Path |-> IF p \in Asked' THEN 1 ELSE 0]
  <2>1. batch' \cap Asked = {} /\ Asked' = Asked \cup batch'
    BY <1>1, <1>3 DEF Asked, Searching, Found
  <2>2. fetched = [p \in Path |-> IF p \in Asked THEN 1 ELSE 0]
    BY DEF WInv
  <2>3. \A p \in Path : fetched'[p] = IF p \in Asked' THEN 1 ELSE 0
    BY <1>1, <2>1, <2>2
  <2> QED BY <1>4, <2>3
<1> QED BY <1>1, <1>5, <1>7, <1>8, <1>9 DEF WInv

LEMMA RecordWInv == WInv /\ Record => WInv'
<1> SUFFICES ASSUME WInv, Record PROVE WInv'
  OBVIOUS
<1> DEFINE new == NewIn(batch)
<1>1. /\ pc = "batch" /\ pc' = "level"
      /\ one' = one \cup batch /\ batch' = {}
      /\ enqueued' = enqueued \cup new
      /\ \/ frontier = {} /\ frontier' = next \cup new /\ next' = {}
         \/ frontier # {} /\ frontier' = frontier /\ next' = next \cup new
      /\ UNCHANGED <<roots, known, mounted, closure, turn, fetched>>
  BY DEF Record, call
<1>2. TypeOK /\ Searching /\ Found
  BY <1>1 DEF WInv
<1>3. /\ new \subseteq Path /\ new \cap enqueued = {}
      /\ \A p \in batch : Refs[p] \subseteq enqueued \cup new
      /\ \A q \in new : \E p \in batch : q \in Refs[p]
  BY <1>2, WalkAssumption DEF NewIn, TypeOK
<1> HIDE DEF new
<1>4. TypeOK'
  BY <1>1, <1>2, <1>3 DEF TypeOK
<1>5. Rooted' = Rooted
  BY <1>1 DEF Rooted
<1>6. Found'
  BY <1>1, <1>2, <1>5 DEF Found
<1>7. Searching'
  <2>1. new \subseteq Reach(Rooted, known)
    <3>1. batch \subseteq Reach(Rooted, known) /\ known \subseteq enqueued
      BY <1>2 DEF Searching, Found
    <3>2. ASSUME NEW q \in new PROVE q \in Reach(Rooted, known)
      <4>1. PICK p \in batch : q \in Refs[p]
        BY <1>3
      <4>2. q \notin known
        BY <1>3, <3>1
      <4> QED BY <3>1, <4>1, <4>2, ReachHolds
    <3> QED BY <3>2
  <2>2. (enqueued \ known)' \subseteq Reach(Rooted, known)
    BY <1>1, <1>2, <2>1 DEF Searching
  <2>3. (\A p \in one : Refs[p] \subseteq enqueued)'
    BY <1>1, <1>2, <1>3 DEF Searching
  <2>4. (enqueued = closure \cup one \cup frontier \cup next \cup batch)'
    BY <1>1, <1>2 DEF Searching
  <2>5. /\ (closure \cap (one \cup frontier \cup next \cup batch) = {})'
        /\ (one \cap (frontier \cup next \cup batch) = {})'
        /\ (frontier \cap (next \cup batch) = {})' /\ (next \cap batch = {})'
    BY <1>1, <1>2, <1>3 DEF Searching
  <2>6. (turn \in DOMAIN roots /\ roots[turn] \in enqueued)'
    BY <1>1, <1>2 DEF Searching
  <2> QED BY <1>1, <1>5, <2>2, <2>3, <2>4, <2>5, <2>6 DEF Searching
<1>8. Asked' = Asked
  BY <1>1 DEF Asked
<1> QED BY <1>1, <1>4, <1>6, <1>7, <1>8 DEF WInv

LEMMA LeaveRootWInv == WInv /\ LeaveRoot => WInv'
<1> SUFFICES ASSUME WInv, LeaveRoot PROVE WInv'
  OBVIOUS
<1>1. /\ pc = "level" /\ pc' = "root" /\ frontier = {} /\ next = {} /\ batch = {}
      /\ closure' = closure \cup one /\ turn' = turn + 1
      /\ UNCHANGED <<roots, known, mounted, one, enqueued, frontier, next, batch, fetched>>
  BY DEF LeaveRoot, WInv, call, search
<1>2. TypeOK /\ Searching /\ Found
  BY <1>1 DEF WInv
<1>3. enqueued = closure'
  BY <1>1, <1>2 DEF Searching
<1>4. TypeOK'
  <2>1. (turn \in 1 .. Len(roots) + 1)'
    BY <1>1, <1>2, RootsType DEF Searching
  <2> QED BY <1>1, <1>2, <2>1 DEF TypeOK
<1>5. Rooted' = Rooted
  BY <1>1 DEF Rooted
<1>6. Found'
  <2>1. \A i \in DOMAIN roots : i < turn + 1 => i < turn \/ i = turn
    BY <1>2, RootsType
  <2>2. (\A i \in DOMAIN roots : i < turn => roots[i] \in closure)'
    BY <1>1, <1>2, <1>3, <2>1 DEF Found, Searching
  <2>3. Closed(closure')
    BY <1>1, <1>2, <1>3 DEF Found, Searching, Closed
  <2>4. closure' \ known \subseteq Reach(Rooted, known)
    BY <1>2, <1>3 DEF Searching
  <2>5. Closed(known)' /\ Closed(mounted)' /\ Closed(closure)'
    BY <1>1, <1>2, <2>3 DEF Found, Closed
  <2> QED BY <1>1, <1>2, <1>5, <2>2, <2>4, <2>5 DEF Found
<1>7. Asked' = Asked
  BY <1>1 DEF Asked
<1> QED BY <1>1, <1>4, <1>6, <1>7 DEF WInv

LEMMA MountWInv == ASSUME WInv, NEW S \in SUBSET Path, Mount(S) PROVE WInv'
<1>1. /\ Closed(mounted') /\ mounted \subseteq mounted' /\ mounted' = mounted \cup S
      /\ UNCHANGED <<roots, known, closure, turn, pc, one, enqueued, frontier, next,
                     batch, fetched>>
  BY DEF Mount, call, search
<1>2. TypeOK'
  BY <1>1 DEF WInv, TypeOK
<1>3. Rooted' = Rooted /\ Asked' = Asked
  BY <1>1 DEF Rooted, Asked
<1>4. Found'
  BY <1>1, <1>3 DEF WInv, Found, Closed
<1>5. Searching' = Searching
  BY <1>1, <1>3 DEF Searching
<1> QED BY <1>1, <1>2, <1>3, <1>4, <1>5 DEF WInv

LEMMA NextWInv == WInv /\ [Next]_vars => WInv'
<1> SUFFICES ASSUME WInv, [Next]_vars PROVE WInv'
  OBVIOUS
<1>1. CASE SkipRoot
  BY <1>1, SkipRootWInv
<1>2. CASE EnterRoot
  BY <1>2, EnterRootWInv
<1>3. CASE Ask
  BY <1>3, AskWInv
<1>4. CASE Record
  BY <1>4, RecordWInv
<1>5. CASE LeaveRoot
  BY <1>5, LeaveRootWInv
<1>6. CASE Fail \/ Finish
  <2>1. /\ pc' \in {"done", "failed"} /\ (pc' = "done" => pc = "root" /\ turn \notin DOMAIN roots)
        /\ UNCHANGED <<roots, mounted, known, closure, turn, one, enqueued, frontier,
                       next, batch, fetched>>
    BY <1>6 DEF Fail, Finish, call, search
  <2>2. TypeOK'
    BY <2>1 DEF WInv, TypeOK
  <2>3. Rooted' = Rooted /\ Asked' = Asked
    BY <2>1 DEF Rooted, Asked
  <2>4. Found'
    BY <2>1, <2>3 DEF WInv, Found, Closed
  <2> QED BY <2>1, <2>2, <2>3, <2>4 DEF WInv
<1>7. CASE \E S \in SUBSET Path : Mount(S)
  BY <1>7, MountWInv
<1>8. CASE UNCHANGED vars
  BY <1>8 DEF WInv, vars, TypeOK, Found, Closed, Searching, Asked, Rooted
<1> QED BY <1>1, <1>2, <1>3, <1>4, <1>5, <1>6, <1>7, <1>8 DEF Next, WalkStep

\* The inductive invariant holds (app.js, walkRoots; closure.js, walkClosure).
THEOREM Invariant == Spec => []WInv
BY InitWInv, NextWInv, PTL DEF Spec

-----------------------------------------------------------------------------
(***************************************************************************)
(* What follows from it.                                                   *)
(***************************************************************************)
\* Every variable holds a value of its kind (closure.js and app.js).
THEOREM TypeCorrect == Spec => []TypeOK
<1>1. WInv => TypeOK
  BY DEF WInv
<1> QED BY <1>1, Invariant, PTL

\* No narinfo is asked for twice, and none of a known path (closure.js,
\* `enqueued`).
THEOREM FetchedOnce == Spec => []EachOnce
<1>1. ASSUME WInv, NEW p \in Path
      PROVE  fetched[p] <= 1 /\ (p \in known => fetched[p] = 0)
  <2>1. fetched[p] = IF p \in Asked THEN 1 ELSE 0
    BY <1>1 DEF WInv
  <2>2. p \in known => p \notin Asked
    BY DEF Asked
  <2> QED BY <2>1, <2>2
<1>2. WInv => EachOnce
  BY <1>1 DEF EachOnce
<1> QED BY <1>2, Invariant, PTL

\* A walk that is over has met every root.
LEMMA DoneRooted ==
  ASSUME WInv, pc = "done"
  PROVE  Rooted \subseteq closure
<1>1. TypeOK /\ Found /\ turn \notin DOMAIN roots
  BY DEF WInv
<1> QED BY <1>1, RootsType DEF Found, Rooted

\* What a walk returns is what its roots reach without entering what was
\* known, less what came to be mounted (app.js, walkRoots).
THEOREM FindsReach == Spec => []WalkFindsReach
<1>1. ASSUME WInv, pc = "done" PROVE Fresh = Reach(Rooted, known) \ mounted
  <2>1. closure \subseteq Path /\ Found
    BY <1>1 DEF WInv, TypeOK
  <2>2. HoldsReach(closure \ known, Rooted, known)
    BY <1>1, <2>1, DoneRooted DEF HoldsReach, Found, Closed
  <2>3. Reach(Rooted, known) \subseteq closure \ known
    BY <2>1, <2>2, ReachLeast
  <2>4. closure \ known = Reach(Rooted, known) /\ known \subseteq mounted
    BY <2>1, <2>3 DEF Found
  <2> QED BY <2>4 DEF Fresh
<1>2. WInv => WalkFindsReach
  BY <1>1 DEF WalkFindsReach
<1> QED BY <1>2, Invariant, PTL

\* With it the guest lacks nothing the roots need (app.js, walkRoots).
THEOREM LacksNothing == Spec => []NothingMissing
<1>1. ASSUME WInv, pc = "done"
      PROVE  Rooted \subseteq Fresh \cup mounted /\ Closed(Fresh \cup mounted)
  <2>1. Closed(closure) /\ Closed(mounted)
    BY <1>1 DEF WInv, Found
  <2>2. Fresh \cup mounted = closure \cup mounted
    BY DEF Fresh
  <2> QED BY <1>1, <2>1, <2>2, DoneRooted DEF Closed
<1>2. WInv => NothingMissing
  BY <1>1 DEF NothingMissing
<1> QED BY <1>2, Invariant, PTL
=============================================================================
