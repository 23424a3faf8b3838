---------------------------- MODULE ClosureWalk ----------------------------
(***************************************************************************)
(* walkRoots (site/js/app.js) over walkClosure (site/js/closure.js): from  *)
(* the roots of a boot or an add to the paths it has to download, one root *)
(* at a time, breadth first, a batch of narinfos at a time.                *)
(*                                                                         *)
(* The walk of an add takes a copy of `mounted` when it begins and leaves  *)
(* those paths out; while it waits for narinfos another add may finish and *)
(* mount more, and the walk takes those out again as it ends.              *)
(*                                                                         *)
(* BootFlow takes all of this to be one step: BootWalked, or AddRooted and *)
(* AddWalked.                                                              *)
(***************************************************************************)
EXTENDS References, Naturals, Sequences, FiniteSetsExt

CONSTANTS
  RootLists,        \* the lists of roots a walk can be asked for
  FetchConcurrency  \* FETCH_CONCURRENCY: the narinfos of one batch

\* digestsOf leaves no duplicates.
ASSUME WalkAssumption ==
  /\ Refs \in [Path -> SUBSET Path]
  /\ RootLists \subseteq Seq(Path)
  /\ \A r \in RootLists : \A i, j \in DOMAIN r : r[i] = r[j] => i = j
  /\ FetchConcurrency \in Nat \ {0}

VARIABLES
  roots,     \* the roots asked for
  mounted,   \* the keys of the page's `mounted`; empty for a boot
  known,     \* what `mounted` was when the walk began
  closure,   \* walkRoots: the paths found by the walks so far, and `known`
  turn,      \* the position of the root under way, or next
  pc,        \* where the walk stands
  one,       \* walkClosure: the paths found by this walk
  enqueued,  \* walkClosure: the paths found or queued, and `known`
  frontier,  \* walkClosure: what is left of this level
  next,      \* walkClosure: the level below
  batch,     \* the paths whose narinfos are in flight
  fetched    \* history: how often each path's narinfo was asked for

call   == <<roots, known>>
search == <<one, enqueued, frontier, next>>
vars   == <<roots, mounted, known, closure, turn, pc, one, enqueued, frontier,
            next, batch, fetched>>

Rooted == {roots[i] : i \in DOMAIN roots}

\* What the walk gives back: its closure without what is mounted by now.
Fresh == closure \ mounted

-----------------------------------------------------------------------------
\* A root some earlier walk has met costs nothing.
\* Mutant: it is never passed.
SkipRootInPlace ==
  /\ pc = "root" /\ turn \in DOMAIN roots
  /\ roots[turn] \in closure
  /\ UNCHANGED vars

SkipRoot ==
  /\ pc = "root" /\ turn \in DOMAIN roots
  /\ roots[turn] \in closure
  /\ turn' = turn + 1
  /\ UNCHANGED <<call, mounted, closure, pc, search, batch, fetched>>

\* Mutant: this walk is not told what the others found.
EnterRootAlone ==
  /\ pc = "root" /\ turn \in DOMAIN roots
  /\ roots[turn] \notin closure
  /\ pc' = "level"
  /\ one' = {}
  /\ enqueued' = {roots[turn]}
  /\ frontier' = {roots[turn]}
  /\ next' = {}
  /\ UNCHANGED <<call, mounted, closure, turn, batch, fetched>>

EnterRoot ==
  /\ pc = "root" /\ turn \in DOMAIN roots
  /\ roots[turn] \notin closure
  /\ pc' = "level"
  /\ one' = {}
  /\ enqueued' = {roots[turn]} \cup closure
  /\ frontier' = {roots[turn]}
  /\ next' = {}
  /\ UNCHANGED <<call, mounted, closure, turn, batch, fetched>>

\* The next slice of the level is asked for.
Ask ==
  /\ pc = "level" /\ frontier # {}
  /\ batch' \in SUBSET frontier
  /\ Cardinality(batch') = Min({FetchConcurrency, Cardinality(frontier)})
  /\ frontier' = frontier \ batch'
  /\ fetched' = [p \in Path |-> IF p \in batch' THEN fetched[p] + 1 ELSE fetched[p]]
  /\ pc' = "batch"
  /\ UNCHANGED <<call, mounted, closure, turn, one, enqueued, next>>

\* What a batch refers to and nobody has queued.
NewIn(found) == (UNION {Refs[p] : p \in found}) \ enqueued

\* The narinfos of the batch are all in: they are recorded, and what they
\* refer to is queued for the next level; at the end of a level the next
\* one begins.  Mutant: only what the last batch refers to makes the next
\* level.
RecordLast ==
  /\ pc = "batch"
  /\ one' = one \cup batch
  /\ enqueued' = enqueued \cup NewIn(batch)
  /\ IF frontier = {}
     THEN frontier' = NewIn(batch) /\ next' = {}
     ELSE next' = next \cup NewIn(batch) /\ UNCHANGED frontier
  /\ batch' = {}
  /\ pc' = "level"
  /\ UNCHANGED <<call, mounted, closure, turn, fetched>>

Record ==
  /\ pc = "batch"
  /\ one' = one \cup batch
  /\ enqueued' = enqueued \cup NewIn(batch)
  /\ IF frontier = {}
     THEN frontier' = next \cup NewIn(batch) /\ next' = {}
     ELSE next' = next \cup NewIn(batch) /\ UNCHANGED frontier
  /\ batch' = {}
  /\ pc' = "level"
  /\ UNCHANGED <<call, mounted, closure, turn, fetched>>

\* A narinfo of the batch cannot be had from any cache.
Fail ==
  /\ pc = "batch"
  /\ pc' = "failed"
  /\ UNCHANGED <<call, mounted, closure, turn, search, batch, fetched>>

\* Mutant: only the last root's finds are kept.
LeaveRootAlone ==
  /\ pc = "level" /\ frontier = {}
  /\ closure' = known \cup one
  /\ turn' = turn + 1
  /\ pc' = "root"
  /\ UNCHANGED <<call, mounted, search, batch, fetched>>

LeaveRoot ==
  /\ pc = "level" /\ frontier = {}
  /\ closure' = closure \cup one
  /\ turn' = turn + 1
  /\ pc' = "root"
  /\ UNCHANGED <<call, mounted, search, batch, fetched>>

Finish ==
  /\ pc = "root" /\ turn \notin DOMAIN roots
  /\ pc' = "done"
  /\ UNCHANGED <<call, mounted, closure, turn, search, batch, fetched>>

\* Another add finishes meanwhile.
Mount(S) ==
  /\ pc \notin {"done", "failed"}
  /\ Closed(mounted \cup S)
  /\ mounted' = mounted \cup S
  /\ UNCHANGED <<call, closure, turn, pc, search, batch, fetched>>

-----------------------------------------------------------------------------
Init ==
  /\ roots \in RootLists
  /\ mounted \in SUBSET Path /\ Closed(mounted)
  /\ known = mounted /\ closure = mounted
  /\ turn = 1 /\ pc = "root"
  /\ one = {} /\ enqueued = {} /\ frontier = {} /\ next = {} /\ batch = {}
  /\ fetched = [p \in Path |-> 0]

WalkStep == SkipRoot \/ EnterRoot \/ Ask \/ Record \/ Fail \/ LeaveRoot \/ Finish

Next == WalkStep \/ \E S \in SUBSET Path : Mount(S)

Spec == Init /\ [][Next]_vars

\* A narinfo that was asked for comes or fails, and the page's code runs on.
FairSpec == Spec /\ WF_vars(WalkStep)

-----------------------------------------------------------------------------
\* Every variable holds a value of its kind (closure.js and app.js).
TypeOK ==
  /\ roots \in RootLists /\ turn \in 1 .. Len(roots) + 1
  /\ pc \in {"root", "level", "batch", "done", "failed"}
  /\ mounted \subseteq Path /\ known \subseteq Path /\ closure \subseteq Path
  /\ one \subseteq Path /\ enqueued \subseteq Path
  /\ frontier \subseteq Path /\ next \subseteq Path /\ batch \subseteq Path
  /\ fetched \in [Path -> Nat]

\* The walk finds what the roots reach without entering what was known: the
\* set BootFlow has a job download, whatever the graph and however much is
\* mounted meanwhile (app.js, walkRoots).
WalkFindsReach == pc = "done" => Fresh = Reach(Rooted, known) \ mounted

\* ... and with it the guest lacks nothing the roots need.
NothingMissing ==
  pc = "done" => Rooted \subseteq Fresh \cup mounted /\ Closed(Fresh \cup mounted)

\* No narinfo is asked for twice, not by two roots nor through two paths of
\* a diamond, and none of a known path is (closure.js, `enqueued`: "what keeps
\* a diamond dependency from being fetched twice").
EachOnce ==
  \A p \in Path : fetched[p] <= 1 /\ (p \in known => fetched[p] = 0)

\* Every walk comes to an end, though paths refer to themselves.
WalkEnds == <>(pc \in {"done", "failed"})

-----------------------------------------------------------------------------
(***************************************************************************)
(* The inductive invariant behind the theorems of ClosureWalk_proofs.      *)
(***************************************************************************)
\* The narinfos this call has asked for.
Asked == (closure \cup one \cup batch) \ known

\* Between two roots: what was found is closed, and nothing but what the
\* roots reach; the roots passed are in it.
Found ==
  /\ known \subseteq closure /\ known \subseteq mounted
  /\ Closed(known) /\ Closed(mounted) /\ Closed(closure)
  /\ closure \ known \subseteq Reach(Rooted, known)
  /\ \A i \in DOMAIN roots : i < turn => roots[i] \in closure

\* Within one: everything found or queued stands in exactly one place, and
\* what is found refers to nothing else.
Searching ==
  /\ turn \in DOMAIN roots /\ roots[turn] \in enqueued
  /\ enqueued = closure \cup one \cup frontier \cup next \cup batch
  /\ closure \cap (one \cup frontier \cup next \cup batch) = {}
  /\ one \cap (frontier \cup next \cup batch) = {}
  /\ frontier \cap (next \cup batch) = {} /\ next \cap batch = {}
  /\ \A p \in one : Refs[p] \subseteq enqueued
  /\ enqueued \ known \subseteq Reach(Rooted, known)

WInv ==
  /\ TypeOK
  /\ Found
  /\ pc \in {"level", "batch"} => Searching
  /\ pc = "level" => batch = {} /\ (frontier = {} => next = {})
  /\ pc \in {"root", "done"} => one \subseteq closure /\ batch = {}
  /\ pc = "done" => turn \notin DOMAIN roots
  /\ fetched = [p \in Path |-> IF p \in Asked THEN 1 ELSE 0]
=====
