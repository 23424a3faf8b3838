# trynix, specified

trynix boots any package nixpkgs ever shipped in a browser tab: the page
resolves store paths, walks their closure through binary caches, downloads
and unpacks the archives into an in-memory 9p share, and starts a QEMU
compiled to wasm whose guest mounts that share. This directory holds TLA+
specifications of that program, the instances TLC checks, and theorems
TLAPS proves. Paths below are relative to the repository.

Everything on the page runs on one JavaScript thread, so **a step of these
models is the code between two awaits**, and two jobs interleave only at
awaits. That is where the difficulty of the program lies: a boot, an add,
a probe, a search and an agent's call may all be suspended at once over the
same module-level variables.

## The parts of the system

| part | state it keeps | operations | what is hard, and what makes it correct |
| --- | --- | --- | --- |
| boot flow (`site/js/app.js`) | `selection`, the button, `vm`, `vmStarted`, `mounted` | select, deselect, `boot()`, `addToRunningVM()`, probe answers | Both jobs await the walk, the engine, the downloads. They may fail anywhere, be retried beside what a failed one left running, and overlap. QEMU may be released only on a complete share, once; the button must come back. |
| store share (`site/js/boot.js` `storeShare`, `site/js/store.js` `linkPrograms`) | written paths; `bin/` farm of links | write, `linkAll`, join a running guest | Links come from several batches under two precedences. No link may dangle and no dependency may hide what was asked for. |
| closure walk (`site/js/closure.js`, `walkRoots`) | found, queued, frontier, next level | a batch of narinfos at a time, root by root | Diamonds, self-references, roots that share, and a `mounted` that grows during the walk. |
| archive fetch and cache (`net.js`, `cache.js`, `store.js` `fetchNar`, `serialize`, `unbzip2`; `nar.js`) | persistent cache entry, attempts, progress; the decode queue and its decoder | fetch, retry, store, decode, evict | Bodies cut short without an error, bad cached copies, two fetchers of one URL, storage that is full or denied; a decode that throws in front of others. |
| handshake (`boot.js` `vm.run`, `nix/guest/init`) | what the page waits for, pty, serial port, where init stands | release QEMU, answer the cold guest's cue, wake a resumed one | The resumed guest printed its cue before the snapshot; input sent too early is overwritten; waits time out. |
| agent driver (`agent.js`) | run counter; the capped transcript of `watchConsole` | `run`, `type`, poll | Status and output have to be found in one stream that carries echoes and other commands, and forgets. |
| WebMCP tools (`webmcp.js`) | none | pass on to the page | Calls at moments a click could not come. |
| substituters and probes (`substituters.js`, `app.js` `probe`) | cache list, `held` of each entry, narinfos in the persistent cache | probe, reprobe, fetch a narinfo, verify | Answers that overtake each other; three-valued answers over several caches. |
| index lookups (`multiverse.js`, `outputs.js`, `assets.js`, `ranges.js`) | promises shared by all callers | shard, names, sibling, asset | A rejected promise that stays in its map; version ordering and ranges. |
| picker and completion (`search.js`, `complete.js`) | the query, the rows drawn | search, expand, complete | An older answer drawn over a newer one. |
| terminal, key bar, window size (`terminal.js`, `keybar.js`, `boot.js`) | modifiers, `resizes` | resize, key | Numbered size files read in turn by the guest. |
| page state in the link (`url.js`, `app.js` `restore`) | the address bar | write at every render, restore at the start | The link is rewritten while it is being restored. |
| reporting (`progress.js`, `report.js`, `analytics.js`) | none that decides anything | draw, measure | Telemetry must be finished once per job. |
| engine, build and test tools (`vendor/`, `patches/`, `tools/`, `nix/`) | — | — | External to the page, or run before it. |

They interact by calls on the one thread (boot flow → walk → fetch; boot flow
→ share; boot flow → handshake), by shared module state (`vm`, `mounted`,
`selection`), by promises many callers hold (engine, assets, index), by the
browser's cache (every tab and visit), and with the guest by the share, the
pty and the console transcript.

## The modules

| module | stands for |
| --- | --- |
| `GuestStore` | The abstract promise: the guest's store appears once, complete, only grows, and is closed under references at every moment. |
| `References` | `Reach(from, skip)`, the least set that holds `from` and the references of its members outside `skip`; `Closed`. |
| `StoreShare` | The share: written paths and the farm. `LinkAll` is the *result* of `linkAll` as a relation: roots in their order, then the rest of the batch in an unknown order. |
| `LinkFarm` | The loops of `linkAll` / `linkPrograms`, one path at a time, shown to end in a farm that `LinkAll` names. |
| `BootFlow` | The page: jobs (boots and adds), their workers, the machines they instantiate. Uses `StoreShare`, `References`; implements `GuestStore`. |
| `ClosureWalk` | `walkRoots` over `walkClosure`, batch by batch, shown to return what `Reach` names, which `BootFlow` takes as one step. |
| `NarFetch` | Fetching one URL through the cache, with both retry loops. |
| `Handshake` | From the release of QEMU to a shell that reads its input. |
| `AgentDriver` | `run()` over a shared console. |
| `Selection` | The selected paths, their marks, the extra caches, the probes that ask them, and the link that carries all of it over a reload. |
| `Index` | The multiverse index: which files a lookup needs, what becomes of their promises, and what is computed from them (order of versions, searches, ranges). No state of its own. |
| `Picker` | Search box, version list, completion and range lane over the lookups of `Index`. |
| `Unpack` | The decode queue, the decoder loaded on demand, the buffer an archive is unpacked into, and the files and links written of it. |
| `Terminal` | The size from the page to the guest's console, and the key bar's modifiers. |
| `*_proofs` | Theorems and proofs: of `BootFlow` and of the share and its loops in `BootFlow_proofs`, of `Handshake` and `Terminal` in `Handshake_proofs`, else of the module they are named after. |
| `MC_*` | Small worlds for TLC. |

A proof module that speaks of two specifications extends both, so the names of
`LinkFarm` and `Terminal` are not those of `BootFlow` and `Handshake`: they say
`LoopSpec` and `EdgeSpec` where the others say `Spec`.

So `LinkFarm` and `ClosureWalk` justify two steps that `BootFlow` takes at
once, and `GuestStore` is what all of `BootFlow` amounts to for the guest.

### BootFlow and the code

A *job* is one call of `boot()` (numbered `1 .. MaxBoots`) or of
`addToRunningVM()` (above them). `pc[j]` says at which await it stands:

| `pc` | the await in the code |
| --- | --- |
| `walk` | `walkRoots` (and, for an add, the sibling lookup before it: `asked`) |
| `download` | `Promise.all` of the engine and the closure in a boot; `mapConcurrent` in an add |
| `closure` | the boot has the machine (`vm = await vmPromise`) and waits for the rest of the archives |
| `ready` | `await vm.run(…)`'s handshake |

`nar[j][p]` is what became of path `p`'s archive in job `j`. Workers
(`mapConcurrent`, at most `NarConcurrency`) step by themselves and go on after
their job has failed, as they do in the code. `vm`, `vmStarted` and `mounted`
are the module's variables of those names, and `share[v]` is the share of the
machine boot `v` instantiated. `button` is set by the code that sets it:
`refreshBootButton` from every `render`, the start of a job, its ends.

`boot()` itself asks nothing of the page's state (`Begin`); what is asked is asked
by its three callers. A click needs the button and looks at `vmStarted`, the
agent's tool needs every path to be held and looks at it too (`BootStart`). The
page that was opened at a `?boot=1` link boots when `restore()` has looked up the
last package, whatever was clicked in the meantime, and looks at neither
(`LinkBoots`; `link` says that the restore is not over).

A boot can so begin while another is under way, and again on a guest that runs.
Two constants say which of it a world admits. `OneBootAtATime` keeps boots from
overlapping; `LinkFirst` keeps the reader and the agent from booting before the
link has booted or has come to nothing. Both are assumptions about what is done
on the page, not facts of the code: without them the properties about the
running guest do not hold, see *Divergences*. On a page that was not opened at
such a link `LinkFirst` says nothing.

The engine may fail in two ways. An input or the script that cannot be had
rejects `vmPromise` (`EngineFails`). An engine that dies before its `preRun` is
logged and nothing else, and `await filesystem` never settles: the boot is
`Hung`, ends never, and holds nobody up (`OneBootAtATime` does not count it, the
button is as the last `render()` set it).

Not in `BootFlow`: a page that is not cross-origin isolated (boot returns at
once and changes nothing), drawing, and a write to the in-memory file system
that throws.

### ClosureWalk and the code

`known` is the copy of `mounted` the walk begins from and `closure` the map of
`walkRoots`; `one`, `enqueued`, `frontier`, `next` are the locals of
`walkClosure`; `batch` is what `Promise.all` waits for. `Mount` is another add
that finishes in the meantime. The code iterates `mounted` itself when it
prunes, so `Fresh` subtracts what is mounted *by then*. The order of a level
does not matter to any property, so a level is a set.

### NarFetch and the code

A body is `good`, `short` (ended early without an error), or `odd` (nothing
checkable speaks against it and it does not parse). `try` counts the attempts
of `fetchWithProgress`, `nth` those of `fetchNar`. `storage` is fixed for a
visit: the browser stores, refuses because it is full, or denies the cache
altogether. `Reopen` ends a visit at any point (the tab is closed) and keeps
the cache. Decoders, the hash and the parser are verdicts on a body. A decoder
may be missing: if it is the module of bzip2's, the body stays (`NoDecoder`); for the
others the code takes it for a body that was refused (`NoneMade`), so that a good
one may be evicted too.

### Handshake and the code

`how` distinguishes a cold boot, a resume by an engine that traces "resumed",
and one that does not. `slow` says whether the waits may run into
`HANDSHAKE_TIMEOUT_MS`. `pty` is input sent and not taken by QEMU; `uart` what
is in the serial port and the guest's tty, overwritten when device state is
restored. `guest` follows `nix/guest/init`, which prints its marker first
("greeted") and starts the shell after that ("shell"): the page, which waits for
the marker, may hand over a console that has no prompt yet. `blind` and `spare`
are history.

### AgentDriver and the code

Text is a sequence of lines, and the transcript keeps the last
`TranscriptLimit`. A closing fence may arrive in part (`ending`) and then
whole (`end`), so that reading it early gives a wrong status: 127 is seen as
12. The guest's tty echoes a line when it arrives, the shell takes lines in
turn, a command may read a line meant for the shell (`Eat`), and an interrupt
drops the rest of the line with its closing fence. `log` and `exit` are
history: all the guest wrote, and how each command ended.

What is typed may be part of a line (`TypeHalf`); the next line sent then joins it
(`joined`). In front of a run's line it may leave everything as it is, spoil the
opening fence (`BeginSpoilt`: what is printed is no fence, the command runs and
the closing one is printed), or take the whole line (`BeginLost`: a comment, a
quotation that is open). What an earlier command left running in the background
prints whenever it likes, also between another run's fences (`WriteAside`); and a
kernel message does the same.

### Selection and the code

`chips` and `entry` are the map `selection`, `extra` is `extraCaches` (the list
the substituters keep is always the same one), `probes` the calls of `probe()`
that have not ended, each with the list it was given and how far along it is.
A probe is `live` while the object it holds is the one in the map: a path taken
out and picked again has a new object, and the old answer marks nothing.
`stored` outlives a visit, as the Cache API does. `address` is what the last
`render()` wrote, which is what a reload finds. `source`, `crossed`, `shown`
and `kept` are history.

`Enter` stands for everything that selects without asking what is selected: the
store-path lane, the range lane, an agent's `select-packages`, one package at a
time as its lookups come in. `Open` is the synchronous start of the page up to
the first lookup of `restore()`; `RestoreStep` is what follows each lookup.

The map's order is left out: `chips`, what a link names and what `restore()` has
yet to look up are sets, and `RestoreStep` takes any of them next. Order decides
nothing here but names in the farm, which `StoreShare` has; see *Divergences*
for what a link does to it.

### Index, Picker and the code

A version is the sequence of parts `compareVersions` splits it into, each with
its place as a string and its value as a number, so that 1.10 and 1.7 come out
differently both ways. `promise` is `shardCache` and `namesPromise`: `none`,
`pending`, and then what came of the one fetch that is ever made. A *call* is
an invocation of `search`, `expand`, `refresh` or the range lane's handler that
waits for promises. When they settle the page goes on with the oldest call
before it handles another event, so every other action waits for `Landing = {}`.

`line` is the fragment the range box had its caret in when there was last input,
`caret` the one it stands in. Arrow keys and clicks move the caret and the
dropdown hears of input only (`MoveCaret`), so that an open list may be for a
fragment the caret has left, and what is accepted goes from where that began to
where the caret is. "caret" in `stale` records that it was moved since.

### Unpack and the code

`queue` is who hangs on `decoding`, the head being decoded. The bytes an
archive decodes to are open: each push hands back any number up to `MaxPart`,
so that streams end early, exactly, and past the size claimed. `blame` is history:
what a decode that failed failed for. bzip2's module that does not load is a
`DecoderUnavailable` (`LoadFails`); an xz or zstd decoder that is not there, and any
that cannot be made, is thrown like bytes that were refused (`NoDecoder`), which
`OwnVerdict` therefore does not tell apart: it says that the failure was that of the
archive's own decode, and not of one it waited behind. A path is a
sequence of names, and `writeEntries` is the whole function, links resolved:
`Places` is what the loop of `absoluteTarget` holds after each part of a target.

`ShareIsArchive` asks the kernel. `Walk` follows the links that stand along a
path, one at a time, as the guest does: it stops at the first name that is a link
and walks its target in front of what is left. It does so on the share, and on
the archives as they were packed, relative targets and all; both must come to the
same place, or follow too many links both. `LinksRiseFirst` is what the property
takes for granted of an archive: a relative target goes up first, not above the
root, and then down. `UnpackAssumption` takes from the format that the names in
an archive are never ".." and that only directories hold anything; Nix refuses to
unpack or to pack anything else, and `parseNar` does not look.

### Terminal and the code

The grid is one number, `width \div font`. `Refit` is `fit()` with the listener
that writes the next numbered file once the share is there, and is part of
everything that changes the width or the face.

## What is checked

Each passing run takes seconds to three minutes.

| run | world | shows |
| --- | --- | --- |
| `MC_BootRetry` | one package over one library, with and without a `?boot=1` link, two boots, one add, failures everywhere, engines that hang, fair | the inductive invariant `IInv`; `ReleasedComplete`; `OneGuest`; `VMStays`; `ButtonComesBack`; `JobsEnd` |
| `MC_BootAdds` | a split package (`out` and its `bin`) over a library; a boot, by hand or by the link, and two overlapping adds | `RootsShadow`, `LinksResolve`, `MountedWritten`; implements `GuestStore` (`KeepsPromise`) |
| `MC_ClosureWalk` | two packages, a diamond of libraries, self-references, six root lists, every closed `mounted`, batches of two | `WalkFindsReach`, `NothingMissing`, `EachOnce`, `WalkEnds`, the inductive invariant `WInv` |
| `MC_LinkFarm` | three paths, two program names, every share, farm, batch, root list and precedence | `LinksAsPromised`: the loops end in a farm `LinkAll` names |
| `MC_NarFetch` | two fetchers, two visits, two attempts at each level, decoders that may be missing | `BadCopyHeals`, `ShortIsEvicted`, `RowExactlyFull`, `FetchEnds` |
| `MC_Handshake` | all three ways to start, slow or not, a command typed at any moment | `GuestComesUp`, `PageReturns`, `TypedIsKept`, `QuietWhenHeard` |
| `MC_AgentDriver` | two overlapping runs, a reader who types, half types or interrupts once, a line of output and one from the background, four lines held | `StatusIsOwn`, `OutputIsOwn`, `OutputIsWhole`, `RunEnds` |
| `MC_Selection` | a package and a pasted path, two caches that may be out of reach (every set of them holds the package, and the same set or the others the pasted path), an index that may be, two visits, two things done by hand; one link names a package the index lacks | `ChipForetellsWalk`, `LinkReproduces` |
| `MC_Picker` | two attributes, one with 1.7, its prerelease 1.7-rc, 1.10 and an unbuilt 1; a caret that moves; a search that finds both and one that finds none, two fragments, two range lines; one of which the prerelease answers; five things done, one fetch that fails or finds nothing | `PillsTruthful`, `QuietIsCurrent`, `RangeAccounts` |
| `MC_Unpack` | four archives (none, xz, bzip2 with and without its size), two tries, pushes of up to two bytes; links in a directory, out of it, into another package, and to itself; five links at most on a path | `OwnVerdict`, `BuffersFit`, `ShareIsArchive`, `QueueDrains` |
| `MC_Terminal` | two widths, three faces, four refits at any stage of a boot, three taps of a modifier | `SizeCatchesUp`, `OneKeyPerModifier` |
| `MC_BootTwice` | two boots that overlap | a violation, see *Divergences* |

### The bounds, and why they are enough

* *Boots and adds.* A failed boot interferes with the next through what it left
  running, so two are the least that do, with an add after them. Two adds are
  the least that overlap; a third would meet the same shared state (`mounted`
  and the share) in the same ways. The proofs below hold for any number.
* *Paths.* A root, its sibling and a shared dependency are all the kinds of
  claim to a program name. The walk needs a diamond and depth: six paths.
* *Workers and batches.* `NAR_CONCURRENCY` is 4 and `FETCH_CONCURRENCY` 20.
  Two are the least with two in flight; the walk's world has levels that
  take more than one batch and batches that are not full.
* *Attempts.* Two at each level, a first and a last; the code has four downloads
  (`ATTEMPTS`) and two archives (`NAR_ATTEMPTS`).
* *Visits.* A bad copy is left by one visit and met by the next.
* *Input.* Two lines in the serial port and two behind it reach the states
  "full" and "empty" and leave a spare newline behind.
* *Things done by hand* (`MaxActs`). A probe is crossed by one act and made stale by
  another, so two do for `MC_Selection`, beside a reload. In `MC_Picker` the
  longest way to a wrong pill is type, open, pick, and type and pick again
  before the answer: five.
* *Caches.* The default one and one more give every answer of a list: yes, no and
  out of reach, in front and behind. Cached narinfos make a third source.
* *Decodes.* Three archives that queue are one being decoded, one to be
  poisoned, one behind that; a size of two bytes in pieces of up to two can be
  missed, met and overshot.
* *Links* (`MaxLinks`). The longest way through the links of `MC_Unpack` takes
  fewer than five, and the link to itself takes more than any number. Linux
  follows 40.
* *Transcript.* Four lines against the seven or more two runs write, so that
  each fence is lost in some behaviours and seen in others. One line from the
  background (`MaxAside`) comes before, between or behind any fences, and one
  part of a line (`MaxTyped`) is in front of any run.

### Fairness

The liveness properties assume what the browser gives: a request that was sent
is answered or fails, a timer fires, and a resolved promise's continuation
runs. So `BootFlow` has weak fairness for each job and each job's workers,
`NarFetch` for each fetcher, `ClosureWalk` for the walk, `Handshake` for each
step of the page apart, so that the 300 ms interval cannot starve the waiter,
and `AgentDriver` for the poll of each run. `Unpack` has weak fairness for
the decode at the head of the queue, `Terminal` for the guest reading its
manifest and the next size file, which its loop does once a second. `Selection`
and `Picker` have safety properties only. No reader or agent ever has to do
anything, no link has to be restored. An engine may die unheard, so `JobsEnd` says
of a boot that it ends or that its engine hangs. The guest may hang: `GuestComesUp` says so in its hypothesis
(`GuestFairness`), while `PageReturns` and `RunEnds` hold without it,
through the timeouts. Deadlock is not checked: all of these stop when the
reader asks for nothing more, or at a bound.

## What is proved

For every value of the constants, with every obligation checked by TLAPS:

**BootFlow** (`BootFlow_proofs`).

* `TypeCorrect`, `ButtonReturns` and `NoLinkDangles` need no assumption but
  those on the constants.
* `CompleteBeforeRelease` assumes `OneBootAtATime`: that boots which are under way
  do not overlap. `MC_BootTwice` shows that it is needed.
* `Invariant`, and from it `MountedIsWritten`, `OneGuestRuns`, `GuestIsKept`,
  `RootsAreNotShadowed` and `Refinement` (BootFlow implements `GuestStore`),
  assume `LinkFirst` too: if the page was opened at a `?boot=1` link, nobody boots
  before the link has.

The code keeps neither assumption, see *Divergences*. A boot whose engine hangs
does not count as under way: the next may begin beside it.

None of these properties is inductive. For `ReleasedComplete` it takes that the
machine a boot waits with is its own, and that what it is done with is in its
share (`OwnMachine`), which holds also where a link boots over a guest that runs.
The rest needs to know where each boot stands. `IInv` says that: a boot that has
not released its machine has written exactly the archives that are `done`
(`BootPhase`); a boot past its walk has a closed set of paths to fetch, and while
one is under way or the link waits no guest runs (`LinkWaits`); when it waits with
the machine in hand, `vm` *is* its machine; an add leaves out of its walk only what
is mounted and fetches a set closed over what is mounted (`AddPhase`); and the
machine that runs holds all of its boot's paths and exactly what `mounted` says
(`Running`). The refinement follows: releasing maps to `GuestStore!LetGo`, an add's
write to `Grow`, everything else stutters. `NoLinkDangles` and
`RootsAreNotShadowed` add what `linkAll` keeps: roots are linked over anything
that is there, the rest fills names only.

**StoreShare and LinkFarm** (`BootFlow_proofs`). `LoopInvariant`, `LoopsKeepPromise` (the loops
end in a farm `LinkAll` names) and `RestFills`, for every set of paths and
programs. `LinkAllFacts` states what `LinkAll` leaves
behind.

**ClosureWalk** (`ClosureWalk_proofs`). `FindsReach`: a walk that ends returns
`Reach` of its roots, less what is mounted by then; `LacksNothing`: with that
the store is closed; `FetchedOnce`; `TypeCorrect`. The invariant `WInv` says
that between roots the closure found is closed and contains nothing the roots do
not reach (`Found`), and that within a root what is queued stands in exactly
one of five disjoint places (`Searching`), whence nothing is lost and nothing
fetched twice.

**NarFetch** (`NarFetch_proofs`). `RowIsTrue` and `ShortGoes` hold
for any number of fetchers, visits and attempts, and also where bodies arrive
that pass for good ones (`odd`). `FInv` says what each fetcher has in hand and has
reported by where it stands (`Hand`), and that a short copy has somebody on the
way to it who will see that it is short (`Judged`). `CopiesHeal` assumes a second
attempt (`NarAttempts > 1`; the code has `NAR_ATTEMPTS` = 2) and that no `odd` body
is about, without which it is false: see *Divergences* for the body that is not
evicted. Its `HInv` adds that while the network works nobody who is past its
first body can meet a short copy, since the first to evict it has cleared it
for all.

**Handshake** (`Handshake_proofs`). `NothingTypedIsLost` (a console that was handed
over loses no command, though the shell may not have started) and `NoSpareLine`,
for serial ports and ptys of any size, with a reader who may type once at any moment. `Stages`
ties how far the page is to how far the guest is and what it has said;
`OneNewline` says where the page's newline is at each of them: not sent, still on
its way with nothing but redraws behind it (`Due`), or taken (`Served`). That is
claimed only of a page that did not give up waiting and was not typed over.

**Terminal** (`Handshake_proofs`). `OneKeyEach`, for any modifiers, widths and
faces: each key takes the modifiers that are armed and disarms them, so the keys
one has modified are never more than its taps, and fewer while it is armed.

**Unpack** (`Unpack_proofs`). `VerdictIsOwn` and `BuffersAreFull`, for any number of
archives, sizes and codecs. What they need is that an archive stands in the
queue once, from being asked to being settled, and that only its head is past
waiting (`Queued`): then what a decoder does is the head's, and so are its buffer
and its verdict. `EveryNodeShared`: the share holds the nodes of the archives that
were written, each under its own root and as `Entry` turns it, and nothing else;
archives do not get into each other's way because their roots differ. From it
`ShareAsPacked`, which assumes `LinksRiseFirst`: for any trees, any number of
links and any limit on them, every path leads to the same place in the share and
in the archives. The two walks stay *alike* (`Alike`): they are at the same place
with the same names left, or the walk of the packed archives still has to go up
from a directory, by nothing but "..", to where that of the share begins at the
root (`Comes`), and what it goes up through is no link because archives have
directories there (`Along`). Walks that are alike meet the same link first
(`SameFirst`), and following it keeps them alike (`FollowAlike`).

These facts are for every length of a path and a walk. What the library has for
induction cannot be used here, for it takes the formula as a parameter; the
proofs take the least number at which a fact fails (`LeastOfNaturals`), which is
a set and no parameter, and show that there is none.

**AgentDriver** (`AgentDriver_proofs`). `StatusOfItsOwn`, `OutputOfItsOwn` and
`OutputComplete`, for any number of runs that overlap, any outputs, a transcript
of any length, and a reader who types lines and parts of lines. The status is a
run's own even if its opening fence was spoilt; for its output to be, the fence
must have been printed, and jobs in the background are excepted. `OneLine`: the line of a run is on the wire, in the
tty, or taken, and in one of them only. `Fenced`: an opening fence is written once, and
between it and its closing one there is nothing but echoes, lines from the
background and what its own command printed, because the shell does one command at a time. `Kept`: the transcript is
the end of the log, and is full once it has lost anything. From these the
text between two fences, wherever the transcript now begins, is the run's own.

**Picker** (`Picker_proofs`). `PillsAreTrue` and `QuietShowsAsked`, for any index, any
number of things done by hand and any order of the files; for these nothing is
assumed of `compareVersions` or of what a search finds. `PInv` says that picker and dropdown
each *owe* something: each shows what was asked of it last, or a call or timer will
bring that, or a fetch it needs was rejected, or something older was drawn over it
(`PickerOwes`, `OfferOwes`). The dropdown owes it to the last input; that the
caret is there unless it was moved is `CaretThere`. That needs the names to be there before anything is
drawn (`NamesFirst`), and for the pills the one moment at which the rows are
cleared and the pills still on the screen (`RowsBehind`): the search that takes
their place is then the only call about to go on.

`LinesAreAnswered` is about the range lane and assumes `VersionsInOrder`, that
`compareVersions` orders the versions of an attribute. What the code computes is
shown to be what the property says in other words: `compareVersions` the first part
that differs (`NewerIs`), `matches` what a spec asks for (`MatchesIs`), and the first hit in the
sorted list the newest that fits (`FirstHit`), newest in the order of the code, which
puts a prerelease above its release. That a list sorted by an order exists
(`Sorted`) is by the least set that has none. The invariant is about time:
every line that waits is answered as far as it has come, by the index as it was
loaded, which does not change any more (`LinesSoFar`, `LineStays`), and so is the last
one on the screen (`LastLine`). `UnmixedIsOrdered` says where the assumption holds:
where no place in the versions of an attribute has a number in one and a word in
another. nixpkgs does not always keep that, see *Divergences*.

**Selection** (`Selection_proofs`). `MarksAreTrue` and `LinkBringsBack`, for any
caches and what they hold, any lists, any links and visits. What a cache answers
about a path does not change within a visit except that its narinfo is kept,
which turns no answer round. So the caches a probe has behind it (`Progress`)
still have not the path when it ends, its list being the rest of the
substituters' for as long as nothing crosses it, and a mark that is no "yes" is
what all of the list come to (`Answered`). For the link, the address bar is
always what the screen says (`AddressTrue`), and what a link named is on the
screen or still to be looked up (`RestoreOwes`).

Only model-checked are the liveness properties (`JobsEnd`, `WalkEnds`, `FetchEnds`,
`GuestComesUp`, `PageReturns`, `RunEnds`, `QueueDrains`, `SizeCatchesUp`): out of the
prover's reach. Every invariant and every action property of a passing run is a
theorem.

`TypeCorrect`, `LoopInvariant`, `RestFills` and the theorems called `Invariant`
are about `TypeOK`, `LoopInv`, `RestOnlyFills` and the inductive invariants, which
no run but those of `BootFlow` and `ClosureWalk` lists: each is the ground of a
theorem that states a property of a run. So are `EveryNodeShared`, of
`ShareAsPacked`, and `UnmixedIsOrdered`, of the assumption of `LinesAreAnswered`.

## Divergences

One run is expected to be violated; it checks a comment against the code:

* `MC_BootTwice` — "What holds QEMU's main() back until the share is complete"
  (`site/js/boot.js:120`). `render()` enables the button while a boot is under
  way, and `boot()` assigns the module-level `vm` before one await and uses it
  after it. With two boots the first may run the second's machine on a share
  that is not complete.

The `?boot=1` link meets the same hole without any overlap. "A booted VM cannot
be replaced in place" (`site/js/app.js:598-601`) is kept by the click handler
and the agent's tool, but `restore().then(…)` (lines 1029-1034) calls `boot()`
without asking, and `boot()` assigns `vm` (line 787). At a link to two packages the
first lookup enables the button; if the reader boots while the second is slow,
the link boots again on the running guest: `vm` becomes another machine whose
share is not complete, an add in between writes and links there, the store the
page speaks of shrinks, and at last a second machine is released. In the world of
`MC_BootRetry` with `LinkFirst = FALSE` TLC finds `VMStays`, `OneGuest`,
`MountedWritten` and `KeepsPromise` violated, and `ReleasedComplete` not.

Met while modelling and not carried as runs. In the boot and the guest:

* An engine that dies before its `preRun` "is logged rather than lost"
  (`site/js/boot.js:303-306`), but the boot waits for its file system for ever
  (line 311): it neither fails nor ends, and its row stays as it was.
* `vm.run` "Resolves when the guest is at its prompt" (`site/js/boot.js:344-345`):
  it resolves on the marker (line 411), which `nix/guest/init` prints before it
  starts the shell (lines 92-101). Nothing is lost by it (`TypedIsKept`).
* "A dependency never shadows a selection" (`docs/design.md:121-123`): an add
  whose closure is mounted already returns before it links anything
  (`site/js/app.js:869`).
* `window.trynix` is there "once a guest is running" (`docs/webmcp.md:42-43`): it
  is there before QEMU is released (`site/js/boot.js:329`); a command sent then
  is read by init as its handshake, or is lost.
* "What the command actually said: everything between the two fences"
  (`site/js/agent.js:96`), where "nothing the page sent can land"
  (lines 98-100): the echo of a second run's line does, and so does what a job
  in the background prints. Behind part of a line, which `type()` is there to
  send (lines 137-139), the opening fence may be lost and the closing one printed;
  the run then has a status and all the console holds for its output.
* "A bad body must be neither used nor kept" (`site/js/net.js:50-54`): no caller
  passes the check this rests on, so the guest image and the snapshot are used
  and kept as they arrive.
* Two adds link in the order they end, so the most recent choice need not run
  (`docs/design.md:126-127`).
* The button is enabled when QEMU is released, whatever the selection has
  become (`site/js/app.js:806` against lines 277-280).
* An add holds every archive until the last is in (`site/js/app.js:879`
  against `docs/design.md:201-202`).
* The manifest drains no spare newlines (`docs/design.md:175-177`); with an
  engine that does not trace, the shell reads them as empty commands.
* An archive with no checkable hash that unpacks and does not parse is not
  evicted: `parse` runs after the `try` (`site/js/store.js:122-126`, line 143).
  For this reason `MC_NarFetch` serves no `odd` bodies.
* "A decoder that never loaded says nothing about these bytes" and they stay in
  the cache (`site/js/store.js:132-135`): so for bzip2's module. An xz or zstd
  decoder that is missing, or any that cannot be made, is thrown as "decode
  failed" (lines 180-199, 264), and the copy is evicted and fetched again.
* A run that times out before its command has begun resolves with the whole
  transcript as its output (`site/js/agent.js:151-153`).
* A relative link that goes up again after a name is resolved as it is spelt
  (`site/js/store.js:361-372`), where the kernel would follow the name first; one
  that goes up above the root loses the slash it begins with, and stays relative.
  `ShareIsArchive` is about links that do neither (`LinksRiseFirst`).
* A PgUp, a PgDn or a paste leaves a tapped modifier armed for whatever is
  typed next (`site/js/keybar.js:125`).

On the page before a boot:

* `reprobe()` asks again beside a probe that is under way; whichever answers
  last has the say, also the one that asked the older list
  (`site/js/app.js:151-160`). `ChipForetellsWalk` leaves out entries asked
  twice (`crossed`).
* A path is called missing when one cache said no, though the others could not
  be asked; the comment says "every cache answered that it does not"
  (`site/js/substituters.js:151-157`, line 182).
* A cache taken out of the list leaves the marks it earned: `reprobe()` passes
  over what is marked as held, and the boot then fails on it.
* "The link reproduces this screen" (`site/js/app.js:309-311`): paths come back
  before packages, so the order, which decides names in the farm, does not.
* While a link is restored the address bar loses the packages that are not
  looked up yet (`site/js/app.js:1012`, 1028); a lookup that fails rejects the
  restore, and they are gone.
* "A release sorts above its own prereleases" (`site/js/multiverse.js:164-167`):
  it does not, the longer version is the greater, and a range that both satisfy is
  answered by the prerelease, as in `MC_Picker`. The order is not transitive
  either where numbers and letters stand in the same place (10 < 5a < 9 < 10 by
  parts), so the list may depend on the order of the keys.
  `RangeAccounts` takes an order for granted (`VersionsInOrder`).
* A fetch of a shard or of the names that failed is kept: nothing looks the
  attribute up again in this visit, and an expand stays at "loading".
* The dropdown "completes the attribute the caret sits in"
  (`site/js/complete.js:1-5`): it is refreshed on input and not when the caret is moved
  (line 26), and `accept()` then replaces from where the fragment began to where
  the caret is by now (lines 124-129).
* An older search is drawn over a newer expand, a list over a box cleared
  meanwhile, a dropdown over a box left meanwhile
  (`site/js/search.js:79-90`, `site/js/complete.js:79-115`).

## What is left

In this order:

1. *Proofs*: what one step may not do where the
   invariants above give it: a mark that only a probe or a hand changes, a
   transcript that only loses its beginning.
2. *Telemetry and progress* of a job that fails while its workers report.

## Not modelled

* `verify()`: which narinfos a configured key signed is counted and shown
  (`site/js/app.js:668-684`); nothing else depends on it.
* `identify()`, `outputs.js`, `assets.js`: one lookup each with a failure that
  counts as an empty answer. The models take their answers as given.
* `webmcp.js`: declarations that pass arguments on to operations that are
  modelled, and keep nothing.
* Encodings (`url.js`'s query, `config.js`), layout and wording (`format.js`,
  `report.js`, `log.js`, `progress.js`), the copy key and the colours.
* Compression and hashing themselves (`hash.js`, the decoders): verdicts here.
* The tab's memory: an add that holds all its archives, a write that throws.
* Vendored engine code and the patches to it, whose base is not in the
  repository; build, snapshot and benchmark scripts, which run outside.
