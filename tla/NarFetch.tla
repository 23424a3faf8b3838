------------------------------ MODULE NarFetch ------------------------------
(***************************************************************************)
(* Fetching one URL through the persistent cache: fetchWithProgress of     *)
(* site/js/net.js over site/js/cache.js, and fetchNar of site/js/store.js  *)
(* around it.  Several fetchers may want the same URL at once: two adds, a *)
(* retried boot and what is left of the failed one, or two tabs.           *)
(*                                                                         *)
(* A body is what its bytes are worth: `good`; `short`, cut off without    *)
(* the fetch failing, which unpacking finds out; `odd`, which no size or   *)
(* hash in the narinfo speaks against and the parser cannot read.          *)
(***************************************************************************)
EXTENDS Integers

CONSTANTS
  Fetcher,      \* the callers that want the URL
  Served,       \* the bodies a flaky network may deliver
  Attempts,     \* ATTEMPTS: downloads tried by one fetchWithProgress
  NarAttempts,  \* NAR_ATTEMPTS: bodies tried by one fetchNar
  MaxVisits,    \* bound: how often the page is opened
  Nothing       \* no body

Body    == {"good", "short", "odd"}
Network == {"good", "flaky"}
Storage == {"works", "full", "denied"}

ASSUME FetchAssumption ==
  /\ Served \subseteq Body
  /\ Attempts \in Nat \ {0} /\ NarAttempts \in Nat \ {0} /\ MaxVisits \in Nat \ {0}
  /\ Nothing \notin Body

VARIABLES
  visit,       \* the number of this visit
  network,     \* whether the network is "good" or "flaky" during it
  storage,     \* what the browser lets the page do with its cache
  cache,       \* the body cached under the URL
  unjudged,    \* history: a fetch ended before its body was looked at, as
               \*   the tab was closed or the decoder could not be loaded
  pc,          \* where each fetcher stands
  nth,         \* its body: the `attempt` of fetchNar
  try,         \* its download: the `attempt` of fetchWithProgress
  got,         \* the body it has in hand
  downloaded,  \* the chunks of the download under way
  reported     \* the chunks its progress row has been told of, net

env   == <<visit, network, storage, unjudged>>
mine  == <<nth, try, got, downloaded, reported>>
vars  == <<visit, network, storage, cache, unjudged, pc, nth, try, got,
           downloaded, reported>>

\* A whole body comes in two chunks, one that was cut off in one.
Chunks(b) == IF b = "short" THEN 1 ELSE 2

Goto(f, label) == pc' = [pc EXCEPT ![f] = label]
Report(f, n) == reported' = [reported EXCEPT ![f] = @ + n]

InFlight(f) == pc[f] \notin {"idle", "done", "failed"}

-----------------------------------------------------------------------------
Start(f) ==
  /\ pc[f] = "idle"
  /\ Goto(f, "match")
  /\ UNCHANGED <<env, cache, mine>>

\* cachedResponse: a response, or null, also when the cache cannot be read.
\* Finding none, fetchWithProgress starts counting its downloads.
Match(f) ==
  /\ pc[f] = "match"
  /\ IF cache # Nothing /\ storage # "denied"
     THEN /\ got' = [got EXCEPT ![f] = cache]
          /\ Goto(f, "drain")
          /\ UNCHANGED try
     ELSE /\ try' = [try EXCEPT ![f] = 1]
          /\ Goto(f, "download")
          /\ UNCHANGED got
  /\ UNCHANGED <<env, cache, nth, downloaded, reported>>

\* The cached response is read; nothing catches a read that fails.
DrainHit(f) ==
  /\ pc[f] = "drain"
  /\ Report(f, Chunks(got[f]))
  /\ Goto(f, "decode")
  /\ UNCHANGED <<env, cache, nth, try, got, downloaded>>

DrainFails(f) ==
  /\ pc[f] = "drain" /\ network = "flaky"
  /\ Goto(f, "failed")
  /\ UNCHANGED <<env, cache, mine>>

Deliverable == IF network = "good" THEN {"good"} ELSE Served

Chunk(f) ==
  /\ pc[f] = "download"
  /\ \E b \in Deliverable : downloaded[f] < Chunks(b)
  /\ downloaded' = [downloaded EXCEPT ![f] = @ + 1]
  /\ Report(f, 1)
  /\ UNCHANGED <<env, cache, pc, nth, try, got>>

\* The body ends, and is all there as far as anyone can tell: no caller
\* passes a `verify`.
BodyEnds(f, b) ==
  /\ pc[f] = "download"
  /\ b \in Deliverable /\ downloaded[f] = Chunks(b)
  /\ got' = [got EXCEPT ![f] = b]
  /\ Goto(f, "store")
  /\ UNCHANGED <<env, cache, nth, try, downloaded, reported>>

\* Mutant: the retry does not take back what the failed attempt reported.
DownloadFailsCounted(f) ==
  /\ pc[f] = "download" /\ network = "flaky"
  /\ downloaded' = [downloaded EXCEPT ![f] = 0]
  /\ IF try[f] < Attempts
     THEN try' = [try EXCEPT ![f] = @ + 1] /\ UNCHANGED pc
     ELSE Goto(f, "failed") /\ UNCHANGED try
  /\ UNCHANGED <<env, cache, nth, got, reported>>

\* Mutant: the download is tried for ever.
DownloadFailsForever(f) ==
  /\ pc[f] = "download" /\ network = "flaky"
  /\ Report(f, -downloaded[f])
  /\ downloaded' = [downloaded EXCEPT ![f] = 0]
  /\ UNCHANGED <<env, cache, pc, nth, try, got>>

DownloadFails(f) ==
  /\ pc[f] = "download" /\ network = "flaky"
  /\ Report(f, -downloaded[f])
  /\ downloaded' = [downloaded EXCEPT ![f] = 0]
  /\ IF try[f] < Attempts
     THEN try' = [try EXCEPT ![f] = @ + 1] /\ UNCHANGED pc
     ELSE Goto(f, "failed") /\ UNCHANGED try
  /\ UNCHANGED <<env, cache, nth, got>>

\* storeInCache: kept, unless storage is denied or full.
Store(f) ==
  /\ pc[f] = "store"
  /\ downloaded' = [downloaded EXCEPT ![f] = 0]
  /\ \/ storage = "works" /\ cache' = got[f]
     \/ storage # "works" /\ UNCHANGED cache
  /\ Goto(f, "decode")
  /\ UNCHANGED <<env, nth, try, got, reported>>

-----------------------------------------------------------------------------
(***************************************************************************)
(* fetchNar: unpack, check, parse; evict what is no good and try again.    *)
(***************************************************************************)
\* Mutant: only the size and the hash are looked at, so that a decoder that
\* stumbles over a short archive ends the fetch.
DecodeOrThrow(f) ==
  /\ pc[f] = "decode"
  /\ Goto(f, IF got[f] = "good" THEN "done" ELSE "failed")
  /\ UNCHANGED <<env, cache, mine>>

\* A malformed archive is an error thrown from outside the try.
Decode(f) ==
  /\ pc[f] = "decode"
  /\ Goto(f, CASE got[f] = "good"  -> "done"
               [] got[f] = "odd"   -> "failed"
               [] got[f] = "short" -> "evict")
  /\ UNCHANGED <<env, cache, mine>>

\* There is no decoder for xz or zstd, or none can be made: that throws as bytes
\* do that are refused, and even a good body is taken for a bad one.
NoneMade(f) ==
  /\ pc[f] = "decode" /\ network = "flaky"
  /\ Goto(f, "evict")
  /\ UNCHANGED <<env, cache, mine>>

\* The module of bzip2's could not be loaded: the bytes stay where they are.
NoDecoder(f) ==
  /\ pc[f] = "decode" /\ network = "flaky"
  /\ Goto(f, "failed")
  /\ unjudged' = TRUE
  /\ UNCHANGED <<visit, network, storage, cache, mine>>

\* Mutant: the next attempt starts without forgetting the bad copy.
Retry(f) ==
  /\ pc[f] = "evict"
  /\ IF nth[f] < NarAttempts
     THEN /\ nth' = [nth EXCEPT ![f] = @ + 1]
          /\ Report(f, -Chunks(got[f]))
          /\ Goto(f, "match")
     ELSE /\ Goto(f, "failed")
          /\ UNCHANGED <<nth, reported>>
  /\ UNCHANGED <<env, cache, try, got, downloaded>>

Evict(f) ==
  /\ pc[f] = "evict"
  /\ cache' = IF storage = "denied" THEN cache ELSE Nothing
  /\ IF nth[f] < NarAttempts
     THEN /\ nth' = [nth EXCEPT ![f] = @ + 1]
          /\ Report(f, -Chunks(got[f]))
          /\ Goto(f, "match")
     ELSE /\ Goto(f, "failed")
          /\ UNCHANGED <<nth, reported>>
  /\ UNCHANGED <<env, try, got, downloaded>>

\* The tab is closed, whatever is under way, and opened again: the cache is
\* all that is left.
Reopen ==
  /\ visit < MaxVisits
  /\ visit' = visit + 1
  /\ network' \in Network /\ storage' \in Storage
  /\ unjudged' = (unjudged \/ \E f \in Fetcher : InFlight(f))
  /\ pc' = [f \in Fetcher |-> "idle"]
  /\ nth' = [f \in Fetcher |-> 1]
  /\ try' = [f \in Fetcher |-> 1]
  /\ got' = [f \in Fetcher |-> Nothing]
  /\ downloaded' = [f \in Fetcher |-> 0]
  /\ reported' = [f \in Fetcher |-> 0]
  /\ UNCHANGED cache

-----------------------------------------------------------------------------
Init ==
  /\ visit = 1 /\ network \in Network /\ storage \in Storage
  /\ cache = Nothing /\ unjudged = FALSE
  /\ pc = [f \in Fetcher |-> "idle"]
  /\ nth = [f \in Fetcher |-> 1] /\ try = [f \in Fetcher |-> 1]
  /\ got = [f \in Fetcher |-> Nothing]
  /\ downloaded = [f \in Fetcher |-> 0] /\ reported = [f \in Fetcher |-> 0]

FetchStep(f) ==
  \/ Match(f) \/ DrainHit(f) \/ DrainFails(f) \/ Chunk(f)
  \/ (\E b \in Body : BodyEnds(f, b)) \/ DownloadFails(f) \/ Store(f)
  \/ Decode(f) \/ NoneMade(f) \/ NoDecoder(f) \/ Evict(f)

Next == (\E f \in Fetcher : Start(f) \/ FetchStep(f)) \/ Reopen

Spec == Init /\ [][Next]_vars

\* A request is answered or fails, and the page's code runs on.
FairSpec == Spec /\ \A f \in Fetcher : WF_vars(FetchStep(f))

-----------------------------------------------------------------------------
\* Every variable holds a value of its kind; no progress row is told to go
\* below empty.
TypeOK ==
  /\ visit \in 1 .. MaxVisits
  /\ network \in Network /\ storage \in Storage
  /\ cache \in Body \cup {Nothing} /\ unjudged \in BOOLEAN
  /\ pc \in [Fetcher -> {"idle", "match", "drain", "download", "store",
                         "decode", "evict", "done", "failed"}]
  /\ nth \in [Fetcher -> 1 .. NarAttempts] /\ try \in [Fetcher -> 1 .. Attempts]
  /\ got \in [Fetcher -> Body \cup {Nothing}]
  /\ downloaded \in [Fetcher -> 0 .. 2]
  /\ reported \in [Fetcher -> Nat]

\* Bytes that cannot be used do not stay: a short body is in the cache only
\* while a fetcher that holds it is on its way to evict it, or because a
\* fetch ended before anyone looked (store.js, fetchNar, the loop).
ShortIsEvicted ==
  cache = "short" =>
    unjudged \/ \E f \in Fetcher : pc[f] \in {"decode", "evict"} /\ got[f] = "short"

\* A bad copy in the cache, left by a visit that was cut off, costs one more
\* download and nothing else: with a network that works every fetch succeeds,
\* however the fetchers of the URL get in each other's way.
BadCopyHeals ==
  network = "good" => \A f \in Fetcher : pc[f] # "failed"

\* A fetch that succeeds leaves its progress row exactly full: no attempt that
\* failed, no bad cached copy is counted, and the row is never told to go below
\* empty (net.js and store.js, onBytes).
RowExactlyFull ==
  \A f \in Fetcher :
    reported[f] >= 0 /\ (pc[f] = "done" => reported[f] = Chunks(got[f]))

\* Every fetch comes to an end.
FetchEnds == \A f \in Fetcher : InFlight(f) ~> ~InFlight(f)
=============================================================================
