------------------------------ MODULE BootFlow ------------------------------
(***************************************************************************)
(* The page of site/js/app.js from a selection to a running guest, and     *)
(* from a running guest to a larger one: boot(), addToRunningVM(), the     *)
(* boot button, and what boot.js and its store share do for them.          *)
(*                                                                         *)
(* Everything here runs on the page's one thread, so a step is the code    *)
(* between two awaits.  Between two steps anything else may run: another   *)
(* click, a cache's late answer, a worker of another download.             *)
(*                                                                         *)
(* A job is one call of boot() or of addToRunningVM().  Boots are numbered *)
(* 1 .. MaxBoots and adds above them, in the order they are started; a     *)
(* boot instantiates at most one virtual machine, which takes its number.  *)
(***************************************************************************)
EXTENDS StoreShare, FiniteSets, SequencesExt

CONSTANTS
  Refs,            \* Refs[p]: the references of p's narinfo
  BinOf,           \* BinOf[p]: the bin sibling of p, or p itself
  Selectable,      \* the store paths the reader or an agent may pick
  Deniable,        \* those of them that every cache asked may say it lacks
  NarConcurrency,  \* NAR_CONCURRENCY: the workers of one download
  MaxBoots,        \* bound: calls of boot()
  MaxAdds,         \* bound: calls of addToRunningVM()
  OneBootAtATime,  \* assumed of the workload: no boot begins while one is under way
  LinkFirst,       \* assumed of the workload: nobody boots before the link has
  NoVM             \* the value of `vm` before any boot

ASSUME FlowAssumption ==
  /\ Refs \in [Path -> SUBSET Path]
  /\ BinOf \in [Path -> Path]
  /\ Selectable \subseteq Path /\ Deniable \subseteq Selectable
  /\ NarConcurrency \in Nat \ {0}
  /\ MaxBoots \in Nat /\ MaxAdds \in Nat
  /\ OneBootAtATime \in BOOLEAN /\ LinkFirst \in BOOLEAN
  /\ NoVM \notin 1 .. MaxBoots

VARIABLES
  selection,  \* the keys of the `selection` map, in insertion order
  unheld,     \* the selected paths whose entry says held === false
  link,       \* whether a ?boot=1 link is still being restored
  button,     \* whether the boot button is enabled
  pc,         \* where each job stands
  roots,      \* the digests each job starts its walk from, in order
  known,      \* the `known` closure an add's walk leaves out
  nar,        \* per job and path: what became of the path's archive
  engine,     \* per boot: its vmPromise
  vm,         \* the module-level `vm`
  vmStarted,  \* the module-level `vmStarted`
  mounted,    \* the keys of the module-level `mounted`
  share,      \* per boot: the share of the machine it instantiated
  released,   \* per boot: how often its machine's run dependency was removed
  rooted      \* history: per machine, the paths linked into it as roots

reader == <<selection, unheld, link>>
page   == <<vm, vmStarted, mounted>>
guests == <<share, released, rooted>>
vars   == <<selection, unheld, link, button, pc, roots, known, nar, engine,
            vm, vmStarted, mounted, share, released, rooted>>

Boots == 1 .. MaxBoots
Adds  == MaxBoots + 1 .. MaxBoots + MaxAdds
Jobs  == Boots \cup Adds

Selected == {selection[i] : i \in DOMAIN selection}

Idle(j)     == pc[j] = "idle"
InFlight(j) == pc[j] \in {"asked", "walk", "download", "closure", "ready"}

\* A boot whose engine died before its preRun waits for it for ever.
Hung(b)     == engine[b] = "hung"
UnderWay(b) == InFlight(b) /\ ~Hung(b)

InState(j, s) == {p \in Path : nar[j][p] = s}

\* The paths a job downloads: everything its walk found.
Wanted(j) == Path \ InState(j, "absent")

-----------------------------------------------------------------------------
(***************************************************************************)
(* The walk: rootsOf and digestsOf put the bin sibling behind each         *)
(* selected path, walkRoots collects what the roots reach.                 *)
(***************************************************************************)
RootsOf(sel) ==
  [i \in 1 .. 2 * Len(sel) |->
     IF i % 2 = 1 THEN sel[(i + 1) \div 2] ELSE BinOf[sel[i \div 2]]]

\* walkRoots: what the roots reach without entering the paths it was given
\* (ClosureWalk shows the walk to find it).
INSTANCE References

-----------------------------------------------------------------------------
(***************************************************************************)
(* The selection and the button.  Every change of the selection, and every *)
(* answer about a path still selected, goes through render(), which sets   *)
(* the button again, whatever the page is doing at that moment.            *)
(***************************************************************************)
Offered(sel, missing) == sel # << >> /\ missing = {}

Refresh == button' = Offered(selection', unheld')

Select(p) ==
  /\ selection' = IF p \in Selected THEN selection ELSE Append(selection, p)
  /\ unheld' = unheld \ {p}
  /\ Refresh
  /\ UNCHANGED <<link, pc, roots, known, nar, engine, page, guests>>

Deselect(p) ==
  /\ \E i \in DOMAIN selection :
        selection[i] = p /\ selection' = RemoveAt(selection, i)
  /\ unheld' = unheld \ {p}
  /\ Refresh
  /\ UNCHANGED <<link, pc, roots, known, nar, engine, page, guests>>

\* A cache's answer arrives: probe() stores it and renders.
Answer(p, held) ==
  /\ p \in Selected
  /\ held \/ p \in Deniable
  /\ unheld' = IF held THEN unheld \ {p} ELSE unheld \cup {p}
  /\ UNCHANGED selection
  /\ Refresh
  /\ UNCHANGED <<link, pc, roots, known, nar, engine, page, guests>>

-----------------------------------------------------------------------------
(***************************************************************************)
(* boot(), and the three who call it.  A click needs the button and looks  *)
(* at vmStarted; the agent's tool needs every path held and looks at it    *)
(* too; a ?boot=1 link boots what it has restored, and asks neither.       *)
(***************************************************************************)
NextOf(S, j) == j \in S /\ Idle(j) /\ \A i \in S : i < j => ~Idle(i)

Begin(b) ==
  /\ NextOf(Boots, b)
  /\ OneBootAtATime => \A c \in Boots : ~UnderWay(c)
  /\ pc' = [pc EXCEPT ![b] = "walk"]
  /\ roots' = [roots EXCEPT ![b] = RootsOf(selection)]
  /\ button' = FALSE
  /\ UNCHANGED <<selection, unheld, known, nar, engine, page, guests>>

ByHand ==
  /\ button \/ unheld = {}
  /\ LinkFirst => ~link
  /\ UNCHANGED link

\* Mutant: the click handler does not look at vmStarted.
BootStartAgain(b) == ByHand /\ Begin(b)

BootStart(b) == ~vmStarted /\ ByHand /\ Begin(b)

\* restore(initial) resolves, whatever was clicked in the meantime.
LinkBoots(b) ==
  /\ link /\ selection # << >>
  /\ link' = FALSE
  /\ Begin(b)

LinkIsEmpty ==
  /\ link /\ selection = << >>
  /\ link' = FALSE
  /\ UNCHANGED <<selection, unheld, button, pc, roots, known, nar, engine, page, guests>>

\* The walk and the signatures are in; the downloads begin.
BootWalked(b) ==
  /\ b \in Boots /\ pc[b] = "walk"
  /\ pc' = [pc EXCEPT ![b] = "download"]
  /\ nar' = [nar EXCEPT ![b] =
       [p \in Path |-> IF p \in Reach(Rooted(roots[b]), {}) THEN "queued"
                       ELSE "absent"]]
  /\ UNCHANGED <<reader, button, roots, known, engine, page, guests>>

\* The wasm, the guest image, the machine and the snapshot are in, and
\* startVM resolved: the engine has a file system and waits to be released.
EngineUp(b) ==
  /\ b \in Boots /\ pc[b] = "download" /\ engine[b] = "waiting"
  /\ engine' = [engine EXCEPT ![b] = "up"]
  /\ UNCHANGED <<reader, button, pc, roots, known, nar, page, guests>>

\* An input of the engine, or its script, could not be had: vmPromise rejects.
EngineFails(b) ==
  /\ b \in Boots /\ pc[b] = "download" /\ engine[b] = "waiting"
  /\ engine' = [engine EXCEPT ![b] = "failed"]
  /\ UNCHANGED <<reader, button, pc, roots, known, nar, page, guests>>

\* The engine died before its preRun: that is logged and nothing else, and
\* vmPromise, which waits for the file system, never settles.
EngineHangs(b) ==
  /\ b \in Boots /\ pc[b] = "download" /\ engine[b] = "waiting"
  /\ engine' = [engine EXCEPT ![b] = "hung"]
  /\ UNCHANGED <<reader, button, pc, roots, known, nar, page, guests>>

\* vm = await vmPromise
TakeVM(b) ==
  /\ b \in Boots /\ pc[b] = "download" /\ engine[b] = "up"
  /\ pc' = [pc EXCEPT ![b] = "closure"]
  /\ vm' = b
  /\ UNCHANGED <<reader, button, roots, known, nar, engine, vmStarted, mounted,
                 guests>>

\* What releasing QEMU does once the links are chosen from `offered`.
Release(b, offered) ==
  /\ pc' = [pc EXCEPT ![b] = "ready"]
  /\ vmStarted' = TRUE
  /\ mounted' = Wanted(b)
  /\ \E f \in LinkAll(offered, share[vm].farm, offered, roots[b], "keep") :
        share' = [share EXCEPT ![vm].farm = f]
  /\ rooted' = [rooted EXCEPT ![vm] = @ \cup Rooted(roots[b])]
  /\ released' = [released EXCEPT ![vm] = @ + 1]
  /\ button' = TRUE
  /\ UNCHANGED <<reader, roots, known, nar, engine, vm>>

\* Mutant: closurePromise is not awaited.
RunVMEarly(b) ==
  /\ b \in Boots /\ pc[b] = "closure"
  /\ Release(b, share[vm].written)

\* Mutant: nor are the links made from what the share says was written.
RunVMAhead(b) ==
  /\ b \in Boots /\ pc[b] = "closure"
  /\ Release(b, Wanted(b))

\* The closure is in: QEMU is released on the share of whichever machine
\* `vm` names now, and the button offers to add to it.
RunVM(b) ==
  /\ b \in Boots /\ pc[b] = "closure"
  /\ Wanted(b) = InState(b, "done")
  /\ Release(b, share[vm].written)

\* await ready: the guest is at its prompt, or was given up on.
BootReady(b) ==
  /\ b \in Boots /\ pc[b] = "ready"
  /\ pc' = [pc EXCEPT ![b] = "done"]
  /\ UNCHANGED <<reader, button, roots, known, nar, engine, page, guests>>

\* The catch of boot(): a walk that failed, an engine that did not come up,
\* or, once the engine is up, an archive that could not be had.
\* Mutants: nobody listens to closurePromise; the button is not set again.
BootFailsDeaf(b) ==
  /\ b \in Boots
  /\ pc[b] = "walk" \/ (pc[b] = "download" /\ engine[b] = "failed")
  /\ pc' = [pc EXCEPT ![b] = "failed"]
  /\ UNCHANGED reader
  /\ Refresh
  /\ UNCHANGED <<roots, known, nar, engine, page, guests>>

BootFailsQuietly(b) ==
  /\ b \in Boots
  /\ \/ pc[b] = "walk"
     \/ pc[b] = "download" /\ engine[b] = "failed"
     \/ pc[b] = "closure" /\ InState(b, "failed") # {}
  /\ pc' = [pc EXCEPT ![b] = "failed"]
  /\ UNCHANGED <<reader, button, roots, known, nar, engine, page, guests>>

BootFails(b) ==
  /\ b \in Boots
  /\ \/ pc[b] = "walk"
     \/ pc[b] = "download" /\ engine[b] = "failed"
     \/ pc[b] = "closure" /\ InState(b, "failed") # {}
  /\ pc' = [pc EXCEPT ![b] = "failed"]
  /\ UNCHANGED reader
  /\ Refresh
  /\ UNCHANGED <<roots, known, nar, engine, page, guests>>

-----------------------------------------------------------------------------
(***************************************************************************)
(* The workers of mapConcurrent.  A boot's worker keeps its parsed archive *)
(* until the engine is up and then writes it into the share of its own     *)
(* boot's machine; an add's worker puts it aside and takes the next.  A    *)
(* worker whose archive failed stops; the others carry on, even when the   *)
(* job they work for has been given up.                                    *)
(***************************************************************************)
Busy(j) ==
  InState(j, "fetching") \cup InState(j, "failed")
    \cup (IF j \in Boots THEN InState(j, "parsed") ELSE {})

SetNar(j, p, s) == nar' = [nar EXCEPT ![j][p] = s]

NarStart(j, p) ==
  /\ nar[j][p] = "queued"
  /\ Cardinality(Busy(j)) < NarConcurrency
  /\ SetNar(j, p, "fetching")
  /\ UNCHANGED <<reader, button, pc, roots, known, engine, page, guests>>

NarParsed(j, p) ==
  /\ nar[j][p] = "fetching"
  /\ SetNar(j, p, "parsed")
  /\ UNCHANGED <<reader, button, pc, roots, known, engine, page, guests>>

\* The archive could not be had, or its boot's vmPromise was rejected.
NarFails(j, p) ==
  /\ \/ nar[j][p] = "fetching"
     \/ nar[j][p] = "parsed" /\ j \in Boots /\ engine[j] = "failed"
  /\ SetNar(j, p, "failed")
  /\ UNCHANGED <<reader, button, pc, roots, known, engine, page, guests>>

NarWritten(b, p) ==
  /\ b \in Boots /\ engine[b] = "up" /\ nar[b][p] = "parsed"
  /\ SetNar(b, p, "done")
  /\ share' = [share EXCEPT ![b].written = @ \cup {p}]
  /\ UNCHANGED <<reader, button, pc, roots, known, engine, page, released, rooted>>

-----------------------------------------------------------------------------
(***************************************************************************)
(* addToRunningVM().                                                       *)
(***************************************************************************)
AddStart(a) ==
  /\ NextOf(Adds, a)
  /\ vmStarted
  /\ button \/ unheld = {}
  /\ pc' = [pc EXCEPT ![a] = "asked"]
  /\ roots' = [roots EXCEPT ![a] = RootsOf(selection)]
  /\ button' = FALSE
  /\ UNCHANGED <<reader, known, nar, engine, page, guests>>

\* rootsOf resolves, and walkRoots takes its copy of `mounted`.
AddRooted(a) ==
  /\ a \in Adds /\ pc[a] = "asked"
  /\ pc' = [pc EXCEPT ![a] = "walk"]
  /\ known' = [known EXCEPT ![a] = mounted]
  /\ UNCHANGED <<reader, button, roots, nar, engine, page, guests>>

\* What the walk found and the guest lacks: known paths were left out when
\* the walk began, paths mounted since are taken out as it ends.
\* Mutant: the add fetches its roots and not what they refer to.
FreshShallow(a) == (Rooted(roots[a]) \ known[a]) \ mounted

Fresh(a) == Reach(Rooted(roots[a]), known[a]) \ mounted

\* Nothing is fresh: "already there", and nothing is linked.
AddNothing(a) ==
  /\ a \in Adds /\ pc[a] = "walk"
  /\ Fresh(a) = {}
  /\ pc' = [pc EXCEPT ![a] = "done"]
  /\ UNCHANGED reader
  /\ Refresh
  /\ UNCHANGED <<roots, known, nar, engine, page, guests>>

\* Mutant: the paths count as mounted before they are fetched.
AddWalkedCounting(a) ==
  /\ a \in Adds /\ pc[a] = "walk"
  /\ Fresh(a) # {}
  /\ pc' = [pc EXCEPT ![a] = "download"]
  /\ nar' = [nar EXCEPT ![a] =
       [p \in Path |-> IF p \in Fresh(a) THEN "queued" ELSE "absent"]]
  /\ mounted' = mounted \cup Fresh(a)
  /\ UNCHANGED <<reader, button, roots, known, engine, vm, vmStarted, guests>>

AddWalked(a) ==
  /\ a \in Adds /\ pc[a] = "walk"
  /\ Fresh(a) # {}
  /\ pc' = [pc EXCEPT ![a] = "download"]
  /\ nar' = [nar EXCEPT ![a] =
       [p \in Path |-> IF p \in Fresh(a) THEN "queued" ELSE "absent"]]
  /\ UNCHANGED <<reader, button, roots, known, engine, page, guests>>

\* vm.add: the paths count as mounted, are written, and their programs and
\* the roots' are linked.
Join(a, precedence) ==
  /\ pc' = [pc EXCEPT ![a] = "done"]
  /\ nar' = [nar EXCEPT ![a] =
       [p \in Path |-> IF nar[a][p] = "parsed" THEN "done" ELSE nar[a][p]]]
  /\ mounted' = mounted \cup Wanted(a)
  /\ LET held    == {i \in DOMAIN roots[a] : roots[a][i] \in mounted'}
         linked  == [i \in held |-> roots[a][i]]
         written == share[vm].written \cup Wanted(a)
     IN  /\ \E f \in LinkAll(written, share[vm].farm, Wanted(a), linked, precedence) :
              share' = [share EXCEPT ![vm] = [written |-> written, farm |-> f]]
         /\ rooted' = [rooted EXCEPT ![vm] = @ \cup Rooted(linked)]
  /\ UNCHANGED reader
  /\ Refresh
  /\ UNCHANGED <<roots, known, engine, vm, vmStarted, released>>

\* Mutant: an add links like a boot.
AddFinishKeeping(a) ==
  /\ a \in Adds /\ pc[a] = "download"
  /\ Wanted(a) = InState(a, "parsed")
  /\ Join(a, "keep")

\* Every archive is in: the roots' links replace older ones.
AddFinish(a) ==
  /\ a \in Adds /\ pc[a] = "download"
  /\ Wanted(a) = InState(a, "parsed")
  /\ Join(a, "replace")

AddFails(a) ==
  /\ a \in Adds
  /\ \/ pc[a] = "walk"
     \/ pc[a] = "download" /\ InState(a, "failed") # {}
  /\ pc' = [pc EXCEPT ![a] = "failed"]
  /\ UNCHANGED reader
  /\ Refresh
  /\ UNCHANGED <<roots, known, nar, engine, page, guests>>

-----------------------------------------------------------------------------
Init ==
  /\ selection = << >> /\ unheld = {} /\ button = FALSE /\ link \in BOOLEAN
  /\ pc = [j \in Jobs |-> "idle"]
  /\ roots = [j \in Jobs |-> << >>]
  /\ known = [a \in Adds |-> {}]
  /\ nar = [j \in Jobs |-> [p \in Path |-> "absent"]]
  /\ engine = [b \in Boots |-> "waiting"]
  /\ vm = NoVM /\ vmStarted = FALSE /\ mounted = {}
  /\ share = [b \in Boots |-> EmptyShare]
  /\ released = [b \in Boots |-> 0]
  /\ rooted = [b \in Boots |-> {}]

ReaderStep ==
  \/ \E p \in Selectable : Select(p)
  \/ \E p \in Selectable : Deselect(p)
  \/ \E p \in Selectable, held \in BOOLEAN : Answer(p, held)

BootStep(b) ==
  \/ BootWalked(b) \/ EngineUp(b) \/ EngineFails(b) \/ EngineHangs(b)
  \/ TakeVM(b) \/ RunVM(b) \/ BootReady(b) \/ BootFails(b)

AddStep(a) ==
  \/ AddRooted(a) \/ AddNothing(a) \/ AddWalked(a) \/ AddFinish(a) \/ AddFails(a)

WorkerStep(j) ==
  \E p \in Path : NarStart(j, p) \/ NarParsed(j, p) \/ NarFails(j, p) \/ NarWritten(j, p)

Next ==
  \/ ReaderStep
  \/ \E b \in Boots : BootStart(b)
  \/ \E b \in Boots : LinkBoots(b)
  \/ LinkIsEmpty
  \/ \E b \in Boots : BootStep(b)
  \/ \E a \in Adds : AddStart(a)
  \/ \E a \in Adds : AddStep(a)
  \/ \E j \in Jobs : WorkerStep(j)

Spec == Init /\ [][Next]_vars

\* A request that was sent is answered or fails, and the page's own code
\* runs on: every job and every worker keeps stepping, or its engine hangs.
\* Nothing makes the reader, an agent or a link do anything.
Fairness ==
  /\ \A b \in Boots : WF_vars(BootStep(b))
  /\ \A a \in Adds : WF_vars(AddStep(a))
  /\ \A j \in Jobs : WF_vars(WorkerStep(j))

FairSpec == Spec /\ Fairness
-----------------------------------------------------------------------------
Status == {"idle", "asked", "walk", "download", "closure", "ready", "done", "failed"}
NarState == {"absent", "queued", "fetching", "parsed", "failed", "done"}

\* Every variable holds a value of its kind, and only selected paths can be
\* known to be missing from the caches (app.js, the module's state).
TypeOK ==
  /\ selection \in Seq(Path) /\ unheld \subseteq Selected /\ button \in BOOLEAN
  /\ link \in BOOLEAN
  /\ pc \in [Jobs -> Status]
  /\ roots \in [Jobs -> Seq(Path)]
  /\ known \in [Adds -> SUBSET Path]
  /\ nar \in [Jobs -> [Path -> NarState]]
  /\ engine \in [Boots -> {"waiting", "up", "failed", "hung"}]
  /\ vm \in Boots \cup {NoVM} /\ vmStarted \in BOOLEAN /\ mounted \subseteq Path
  /\ share \in [Boots -> Share]
  /\ released \in [Boots -> Nat]
  /\ rooted \in [Boots -> SUBSET Path]

(***************************************************************************)
(* Safety                                                                  *)
(***************************************************************************)
\* QEMU is only ever released on a complete share: every path the boot's
\* walk found has been written into the machine that boot instantiated
\* (boot.js: the run dependency holds main() back until the share is
\* complete).
ReleasedComplete ==
  \A v \in Boots : released[v] > 0 => Wanted(v) \subseteq share[v].written

\* What the page takes the guest to have, and so will never fetch again, is
\* in the share of the machine that runs (app.js, `mounted`).
MountedWritten == vmStarted => vm \in Boots /\ mounted \subseteq share[vm].written

\* A page runs one guest: one machine is released, once, and it is the one
\* that `vm` names, however many boots failed before it (app.js, boot()).
OneGuest ==
  \A v \in Boots : released[v] > 0 => released[v] = 1 /\ v = vm /\ vmStarted

\* A dependency never shadows a selection: a name that a path linked as a
\* root offers is never linked to a path that was only a dependency
\* (boot.js, linkAll, across the boot and every later add).
RootsShadow ==
  vmStarted =>
    \A n \in Program :
      (\E p \in rooted[vm] : Offers(share[vm].written, p, n))
        => share[vm].farm[n] \in rooted[vm]

\* A farm link never dangles: it names a written path that has the program.
LinksResolve ==
  \A v \in Boots : \A n \in Program :
    share[v].farm[n] # Unlinked =>
      share[v].farm[n] \in share[v].written /\ n \in Programs[share[v].farm[n]]

\* The button is never left off by something that is over: if it is off
\* although the selection could boot, a job is still in flight, be it one that
\* waits for an engine that hangs (app.js, the catch, the early return and the
\* finally of both jobs).
ButtonComesBack ==
  ~button /\ Offered(selection, unheld) => \E j \in Jobs : InFlight(j)

(***************************************************************************)
(* Action properties                                                       *)
(***************************************************************************)
\* A booted machine is not replaced in place (app.js, above vmStarted).
VMStays == [][vmStarted => vmStarted' /\ vm' = vm]_vars

(***************************************************************************)
(* Refinement: what the running guest can see of the share is a store that *)
(* appears complete, only grows, and never lacks a reference.              *)
(***************************************************************************)
Visible == IF vmStarted THEN share[vm].written ELSE {}

Promise == INSTANCE GuestStore WITH up <- vmStarted, store <- Visible

\* The page keeps the promise of GuestStore through boots, failed boots,
\* adds and adds that overlap (app.js, boot and addToRunningVM).
KeepsPromise == Promise!Spec

(***************************************************************************)
(* Liveness                                                                *)
(***************************************************************************)
\* Every add comes to an end, whatever fails on the way and whatever the
\* reader does meanwhile, and every boot whose engine does not die unheard
\* before its preRun (boot.js, startVM).
Ended(j) == pc[j] \in {"done", "failed"}

JobsEnd ==
  /\ \A a \in Adds : InFlight(a) ~> Ended(a)
  /\ \A b \in Boots : InFlight(b) ~> Ended(b) \/ Hung(b)

-----------------------------------------------------------------------------
(***************************************************************************)
(* The inductive invariant behind the theorems of BootFlow_proofs, for a   *)
(* page on which boots do not overlap and none is asked for before that of *)
(* the link the page was opened at.                                        *)
(***************************************************************************)
\* Where a boot stands, what it has found and what it has written.
BootPhase(b) ==
  /\ pc[b] \in {"walk", "download", "closure"} /\ ~Hung(b) => ~vmStarted
  /\ Hung(b) => pc[b] = "download"
  /\ pc[b] \in {"idle", "walk"} => Wanted(b) = {}
  /\ pc[b] \in {"download", "closure"} => Closed(Wanted(b))
  /\ pc[b] = "closure" => vm = b
  /\ pc[b] # "asked"
  /\ ~vmStarted => share[b].written = InState(b, "done")

\* Where an add stands: what it left out of its walk is mounted, and what it
\* fetches refers to nothing outside it but what is mounted.
AddPhase(a) ==
  /\ pc[a] # "idle" => vmStarted
  /\ pc[a] = "walk" => known[a] \subseteq mounted
  /\ pc[a] = "download" => \A p \in Wanted(a) : Refs[p] \subseteq Wanted(a) \cup mounted

OneBootInFlight == \A b, c \in Boots : UnderWay(b) /\ UnderWay(c) => b = c

\* While the link is restored, nothing has been booted.
LinkWaits == link => ~vmStarted /\ \A b \in Boots : Idle(b)

\* The machine that runs: nothing of its boot is left to write, and `mounted`
\* is the whole of its share.
Running ==
  vmStarted =>
    /\ vm \in Boots
    /\ Wanted(vm) = InState(vm, "done")
    /\ Wanted(vm) \subseteq mounted
    /\ share[vm].written = mounted
    /\ Closed(mounted)

IInv ==
  /\ TypeOK
  /\ OneBootInFlight /\ LinkWaits
  /\ \A b \in Boots : BootPhase(b)
  /\ \A a \in Adds : AddPhase(a)
  /\ Running
  /\ released = [v \in Boots |-> IF vmStarted /\ v = vm THEN 1 ELSE 0]
=============================================================================
