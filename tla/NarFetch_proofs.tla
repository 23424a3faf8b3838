-------------------------- MODULE NarFetch_proofs --------------------------
(***************************************************************************)
(* Theorems about NarFetch, for any number of fetchers, visits and         *)
(* attempts, and whatever a flaky network delivers.                        *)
(***************************************************************************)
EXTENDS NarFetch, TLAPS

-----------------------------------------------------------------------------
(***************************************************************************)
(* The inductive invariant.                                                *)
(***************************************************************************)
\* What a fetcher has in hand and has reported, by where it stands.
Hand(f) ==
  /\ pc[f] \in {"idle", "match"} => reported[f] = 0 /\ downloaded[f] = 0
  /\ pc[f] = "drain" => got[f] \in Body /\ reported[f] = 0 /\ downloaded[f] = 0
  /\ pc[f] = "download" => reported[f] = downloaded[f]
  /\ pc[f] = "store" => got[f] \in Body /\ reported[f] = Chunks(got[f])
  /\ pc[f] \in {"decode", "evict", "done"} =>
       got[f] \in Body /\ reported[f] = Chunks(got[f]) /\ downloaded[f] = 0

\* A short body in the cache has somebody who will see that it is short,
\* unless a fetch ended early; where storage is denied nobody could evict it,
\* and it can only be there from an earlier visit.
Judged ==
  /\ ShortIsEvicted
  /\ cache = "short" /\ storage = "denied" => unjudged

FInv == TypeOK /\ (\A f \in Fetcher : Hand(f)) /\ Judged

\* How a network that works heals the cache: nothing short is stored, so who
\* holds something short has it from the cache, and is at its first body,
\* because the first to evict the copy has cleared it for all.
Heals(f) ==
  /\ pc[f] # "failed"
  /\ pc[f] = "store" => got[f] = "good"
  /\ pc[f] = "evict" => got[f] = "short"
  /\ pc[f] \in {"drain", "decode", "evict"} /\ got[f] = "short" =>
       nth[f] = 1 /\ storage # "denied"
  /\ nth[f] > 1 => cache # "short"

\* No body that cannot be told from a good one is about.
NoOdd == cache # "odd" /\ \A f \in Fetcher : got[f] # "odd"

HInv == NoOdd /\ (network = "good" => \A f \in Fetcher : Heals(f))

-----------------------------------------------------------------------------
LEMMA ChunksType == \A b : Chunks(b) \in 1 .. 2
BY DEF Chunks

LEMMA InitF == Init => FInv
<1> SUFFICES ASSUME Init PROVE FInv
  OBVIOUS
<1>1. TypeOK
  <2>1. unjudged \in BOOLEAN /\ network \in Network /\ storage \in Storage
    BY DEF Init
  <2>2. /\ visit \in 1 .. MaxVisits /\ cache \in Body \cup {Nothing}
        /\ nth \in [Fetcher -> 1 .. NarAttempts] /\ try \in [Fetcher -> 1 .. Attempts]
        /\ got \in [Fetcher -> Body \cup {Nothing}]
        /\ downloaded \in [Fetcher -> 0 .. 2] /\ reported \in [Fetcher -> Nat]
    BY FetchAssumption DEF Init
  <2>3. pc \in [Fetcher -> {"idle", "match", "drain", "download", "store",
                           "decode", "evict", "done", "failed"}]
    BY DEF Init
  <2> QED BY <2>1, <2>2, <2>3 DEF TypeOK
<1>2. ASSUME NEW f \in Fetcher PROVE Hand(f)
  BY DEF Init, Hand
<1>3. Judged
  BY FetchAssumption DEF Init, Judged, ShortIsEvicted, Body
<1> QED BY <1>1, <1>2, <1>3 DEF FInv

\* One step of one fetcher keeps the kinds.
LEMMA StepType ==
  ASSUME FInv, NEW f \in Fetcher, Start(f) \/ FetchStep(f)
  PROVE  TypeOK'
<1> USE FetchAssumption, ChunksType
<1>1. CASE Start(f) \/ Match(f) \/ DrainFails(f)
  BY <1>1 DEF FInv, TypeOK, Start, Match, DrainFails, Goto, env, mine
<1>2. CASE DrainHit(f)
  BY <1>2 DEF FInv, TypeOK, DrainHit, Goto, Report, Hand, env
<1>3. CASE Chunk(f)
  BY <1>3 DEF FInv, TypeOK, Chunk, Report, Hand, env
<1>4. CASE \E b \in Body : BodyEnds(f, b)
  BY <1>4 DEF FInv, TypeOK, BodyEnds, Goto, env
<1>5. CASE DownloadFails(f)
  BY <1>5 DEF FInv, TypeOK, DownloadFails, Goto, Report, Hand, env
<1>6. CASE Store(f)
  BY <1>6 DEF FInv, TypeOK, Store, Goto, Hand, env
<1>7. CASE Decode(f)
  BY <1>7 DEF FInv, TypeOK, Decode, Goto, Hand, Body, env, mine
<1>8. CASE NoneMade(f) \/ NoDecoder(f)
  BY <1>8 DEF FInv, TypeOK, NoneMade, NoDecoder, Goto, env, mine
<1>9. CASE Evict(f)
  BY <1>9 DEF FInv, TypeOK, Evict, Goto, Report, Hand, env
<1> QED BY <1>1, <1>2, <1>3, <1>4, <1>5, <1>6, <1>7, <1>8, <1>9 DEF FetchStep

\* It touches nothing another fetcher has in hand, and leaves its own account
\* in order.
LEMMA StepHand ==
  ASSUME FInv, NEW f \in Fetcher, Start(f) \/ FetchStep(f)
  PROVE  \A g \in Fetcher : Hand(g)'
<1> USE ChunksType
<1>1. CASE Start(f)
  BY <1>1 DEF FInv, TypeOK, Start, Goto, Hand, env, mine
<1>2. CASE Match(f)
  BY <1>2 DEF FInv, TypeOK, Match, Goto, Hand, env
<1>3. CASE DrainHit(f)
  BY <1>3 DEF FInv, TypeOK, DrainHit, Goto, Report, Hand, env
<1>4. CASE DrainFails(f)
  BY <1>4 DEF FInv, TypeOK, DrainFails, Goto, Hand, env, mine
<1>5. CASE Chunk(f)
  BY <1>5 DEF FInv, TypeOK, Chunk, Report, Hand, env
<1>6. CASE \E b \in Body : BodyEnds(f, b)
  BY <1>6 DEF FInv, TypeOK, BodyEnds, Goto, Hand, env
<1>7. CASE DownloadFails(f)
  BY <1>7 DEF FInv, TypeOK, DownloadFails, Goto, Report, Hand, env
<1>8. CASE Store(f)
  BY <1>8 DEF FInv, TypeOK, Store, Goto, Hand, env
<1>9. CASE Decode(f)
  BY <1>9 DEF FInv, TypeOK, Decode, Goto, Hand, Body, env, mine
<1>10. CASE NoneMade(f) \/ NoDecoder(f)
  BY <1>10 DEF FInv, TypeOK, NoneMade, NoDecoder, Goto, Hand, env, mine
<1>11. CASE Evict(f)
  BY <1>11 DEF FInv, TypeOK, Evict, Goto, Report, Hand, env
<1> QED BY <1>1, <1>2, <1>3, <1>4, <1>5, <1>6, <1>7, <1>8, <1>9, <1>10, <1>11 DEF FetchStep

\* Whoever stores a short body goes on to look at it, and whoever has looked
\* evicts it.
LEMMA StepJudged ==
  ASSUME FInv, NEW f \in Fetcher, Start(f) \/ FetchStep(f)
  PROVE  Judged'
<1>1. CASE Start(f)
  BY <1>1 DEF FInv, TypeOK, Start, Goto, Judged, ShortIsEvicted, env, mine
<1>2. CASE Match(f)
  BY <1>2 DEF FInv, TypeOK, Match, Goto, Judged, ShortIsEvicted, env
<1>3. CASE DrainHit(f)
  BY <1>3 DEF FInv, TypeOK, DrainHit, Goto, Judged, ShortIsEvicted, env
<1>4. CASE DrainFails(f)
  BY <1>4 DEF FInv, TypeOK, DrainFails, Goto, Judged, ShortIsEvicted, env, mine
<1>5. CASE Chunk(f)
  BY <1>5 DEF FInv, TypeOK, Chunk, Judged, ShortIsEvicted, env
<1>6. CASE \E b \in Body : BodyEnds(f, b)
  BY <1>6 DEF FInv, TypeOK, BodyEnds, Goto, Judged, ShortIsEvicted, env
<1>7. CASE DownloadFails(f)
  BY <1>7 DEF FInv, TypeOK, DownloadFails, Goto, Judged, ShortIsEvicted, env
<1>8. CASE Store(f)
  BY <1>8 DEF FInv, TypeOK, Store, Goto, Judged, ShortIsEvicted, env
<1>9. CASE Decode(f)
  BY <1>9 DEF FInv, TypeOK, Decode, Goto, Judged, ShortIsEvicted, env, mine
<1>10. CASE NoneMade(f)
  BY <1>10 DEF FInv, TypeOK, NoneMade, Goto, Judged, ShortIsEvicted, env, mine
<1>12. CASE NoDecoder(f)
  BY <1>12 DEF NoDecoder, Judged, ShortIsEvicted
<1>11. CASE Evict(f)
  <2>1. CASE storage = "denied"
    BY <1>11, <2>1 DEF FInv, Evict, Judged, ShortIsEvicted, env
  <2>2. CASE storage # "denied"
    BY <1>11, <2>2, FetchAssumption DEF Evict, Judged, ShortIsEvicted, Body, env
  <2> QED BY <2>1, <2>2
<1> QED BY <1>1, <1>2, <1>3, <1>4, <1>5, <1>6, <1>7, <1>8, <1>9, <1>10, <1>11, <1>12 DEF FetchStep

\* A reload leaves only the cache, and remembers what was under way.
LEMMA ReopenF ==
  ASSUME FInv, Reopen
  PROVE  FInv'
<1>1. TypeOK'
  BY FetchAssumption DEF FInv, TypeOK, Reopen
<1>2. \A f \in Fetcher : Hand(f)'
  BY DEF Reopen, Hand
<1>3. cache' = "short" => unjudged'
  <2>1. \A f \in Fetcher : pc[f] \in {"decode", "evict"} => InFlight(f)
    BY DEF InFlight
  <2> QED BY <2>1 DEF FInv, Judged, ShortIsEvicted, Reopen
<1> QED BY <1>1, <1>2, <1>3 DEF FInv, Judged, ShortIsEvicted

LEMMA StepF ==
  ASSUME FInv, [Next]_vars
  PROVE  FInv'
<1>1. ASSUME NEW f \in Fetcher, Start(f) \/ FetchStep(f)
      PROVE  FInv'
  BY <1>1, StepType, StepHand, StepJudged DEF FInv
<1>2. CASE UNCHANGED vars
  BY <1>2 DEF vars, FInv, TypeOK, Hand, Judged, ShortIsEvicted
<1> QED BY <1>1, <1>2, ReopenF DEF Next

\* Kinds, accounts and judgements, as far as they support each other.
THEOREM Invariant == Spec => []FInv
BY InitF, StepF, PTL DEF Spec

\* The progress row of a fetch that succeeds is exactly full, and no row ever
\* goes below empty (net.js and store.js, onBytes).
THEOREM RowIsTrue == Spec => []RowExactlyFull
<1>1. ASSUME FInv, NEW f \in Fetcher
      PROVE  reported[f] >= 0 /\ (pc[f] = "done" => reported[f] = Chunks(got[f]))
  <2>1. reported[f] \in Nat
    BY <1>1 DEF FInv, TypeOK
  <2>2. pc[f] = "done" => reported[f] = Chunks(got[f])
    BY <1>1 DEF FInv, Hand
  <2> QED BY <2>1, <2>2
<1>2. FInv => RowExactlyFull
  BY <1>1 DEF RowExactlyFull
<1> QED BY <1>2, Invariant, PTL

\* A short body is in the cache only on its way out, or because a fetch ended
\* before anyone looked at it (store.js, fetchNar).
THEOREM ShortGoes == Spec => []ShortIsEvicted
<1>1. FInv => ShortIsEvicted
  BY DEF FInv, Judged
<1> QED BY <1>1, Invariant, PTL

-----------------------------------------------------------------------------
(***************************************************************************)
(* A network that works.                                                   *)
(***************************************************************************)
LEMMA InitH == Init => HInv
BY FetchAssumption DEF Init, HInv, NoOdd, Heals, Body

\* Nothing odd comes in.
LEMMA StepOdd ==
  ASSUME FInv, NoOdd, "odd" \notin Served, NEW f \in Fetcher, Start(f) \/ FetchStep(f)
  PROVE  NoOdd'
<1> USE FetchAssumption
<1>1. CASE Start(f) \/ DrainHit(f) \/ DrainFails(f) \/ Chunk(f) \/ Decode(f)
                           \/ NoneMade(f) \/ NoDecoder(f)
  BY <1>1 DEF NoOdd, Start, DrainHit, DrainFails, Chunk, Decode, NoneMade, NoDecoder, env, mine
<1>2. CASE Match(f)
  BY <1>2 DEF NoOdd, FInv, TypeOK, Match, env
<1>3. CASE \E b \in Body : BodyEnds(f, b)
  BY <1>3 DEF NoOdd, FInv, TypeOK, BodyEnds, Deliverable, env
<1>4. CASE DownloadFails(f)
  BY <1>4 DEF NoOdd, DownloadFails, env
<1>5. CASE Store(f)
  BY <1>5 DEF NoOdd, Store, env
<1>6. CASE Evict(f)
  BY <1>6 DEF NoOdd, Evict, Body, env
<1> QED BY <1>1, <1>2, <1>3, <1>4, <1>5, <1>6 DEF FetchStep

\* Every fetcher heals, through one step of f.
LEMMA StepHeals ==
  ASSUME FInv, HInv, network = "good", NarAttempts > 1,
         NEW f \in Fetcher, Start(f) \/ FetchStep(f)
  PROVE  \A g \in Fetcher : Heals(g)'
<1> USE FetchAssumption
<1>1. CASE Start(f)
  BY <1>1 DEF HInv, FInv, TypeOK, Start, Goto, Heals, env, mine
<1>2. CASE Match(f)
  <2>1. cache = "short" => nth[f] = 1
    BY DEF HInv, Heals, FInv, TypeOK
  <2> QED BY <1>2, <2>1 DEF HInv, FInv, TypeOK, Match, Goto, Heals, env
<1>3. CASE DrainHit(f)
  BY <1>3 DEF HInv, FInv, TypeOK, DrainHit, Goto, Heals, env
<1>4. CASE Chunk(f)
  BY <1>4 DEF HInv, Chunk, Heals, env
<1>5. CASE \E b \in Body : BodyEnds(f, b)
  BY <1>5 DEF HInv, FInv, TypeOK, BodyEnds, Deliverable, Goto, Heals, env
<1>6. CASE Store(f)
  BY <1>6 DEF HInv, FInv, TypeOK, Store, Goto, Heals, env
<1>7. CASE Decode(f)
  BY <1>7 DEF HInv, NoOdd, FInv, TypeOK, Hand, Decode, Body, Goto, Heals, env, mine
<1>8. CASE Evict(f)
  <2>1. nth[f] = 1 /\ storage # "denied" /\ cache' = Nothing
    BY <1>8 DEF HInv, Heals, Evict
  <2>2. /\ pc' = [pc EXCEPT ![f] = "match"] /\ nth' = [nth EXCEPT ![f] = @ + 1]
        /\ UNCHANGED <<got, storage>>
    BY <1>8, <2>1 DEF Evict, Goto, env
  <2>3. cache' # "short"
    BY <2>1 DEF Body
  <2> QED BY <2>2, <2>3 DEF HInv, FInv, TypeOK, Heals
<1>9. ~ (DrainFails(f) \/ DownloadFails(f) \/ NoneMade(f) \/ NoDecoder(f))
  BY DEF DrainFails, DownloadFails, NoneMade, NoDecoder
<1> QED BY <1>1, <1>2, <1>3, <1>4, <1>5, <1>6, <1>7, <1>8, <1>9 DEF FetchStep

LEMMA StepH ==
  ASSUME FInv, HInv, "odd" \notin Served, NarAttempts > 1, [Next]_vars
  PROVE  HInv'
<1>1. ASSUME NEW f \in Fetcher, Start(f) \/ FetchStep(f)
      PROVE  HInv'
  <2>1. network' = network
    BY <1>1 DEF FetchStep, Start, Match, DrainHit, DrainFails, Chunk, BodyEnds,
                DownloadFails, Store, Decode, NoneMade, NoDecoder, Evict, env
  <2> QED BY <1>1, <2>1, StepOdd, StepHeals DEF HInv
<1>2. CASE Reopen
  BY <1>2, FetchAssumption DEF Reopen, HInv, NoOdd, Heals, Body
<1>3. CASE UNCHANGED vars
  BY <1>3 DEF vars, HInv, NoOdd, Heals
<1> QED BY <1>1, <1>2, <1>3 DEF Next

\* With a second attempt, and as long as no body arrives that cannot be told
\* from a good one, a short copy that an earlier visit left behind fails
\* nobody once the network works, however many want it at once (store.js,
\* fetchNar; NAR_ATTEMPTS is 2).
THEOREM CopiesHeal ==
  ASSUME "odd" \notin Served, NarAttempts > 1
  PROVE  Spec => []BadCopyHeals
<1>1. FInv /\ HInv /\ [Next]_vars => HInv'
  BY StepH
<1>2. HInv => BadCopyHeals
  BY DEF HInv, Heals, BadCopyHeals
<1> QED BY InitH, <1>1, <1>2, Invariant, PTL DEF Spec
=============================================================================
