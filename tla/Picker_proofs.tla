---------------------------- MODULE Picker_proofs ----------------------------
(***************************************************************************)
(* Theorems about Picker, for any index, any number of things the reader   *)
(* does, and any order in which the files of the index arrive.             *)
(***************************************************************************)
EXTENDS Picker, FiniteSetTheorems, WellFoundedInduction, TLAPS

-----------------------------------------------------------------------------
(***************************************************************************)
(* The inductive invariant.                                                *)
(***************************************************************************)
States == {"none", "pending", "have", "empty", "rejected"}

\* What waits is what its lane says.
CallOK(c) ==
  /\ "lane" \in DOMAIN c /\ c.lane \in {"search", "expand", "complete", "range"}
  /\ c.lane = "search" => c = Search(c.query)
  /\ c.lane = "expand" => c.attr \in Attr /\ c = Expand(c.attr)
  /\ c.lane = "complete" => c.fragment \in Fragments /\ c = Complete(c.fragment)

Waits(c) == \E i \in DOMAIN calls : calls[i] = c

Shapes ==
  /\ promise \in [Keys -> States] /\ promise[NamesKey] # "empty"
  /\ calls \in Seq(Range(calls))
  /\ \A i \in DOMAIN calls : CallOK(calls[i])
  /\ screen.kind = "pills" =>
       screen = [kind |-> "pills", attr |-> screen.attr, all |-> screen.all,
                 can |-> screen.can, on |-> screen.on]

\* Nothing is on the screen, or expanded, before the names are there.
NamesFirst ==
  screen.kind # "empty" \/ (\E i \in DOMAIN calls : calls[i].lane = "expand") =>
    promise[NamesKey] = "have"

\* The rows are gone before the pills are only while the search that takes
\* their place is the one call that is about to go on.
RowsBehind ==
  screen.kind = "pills" /\ ~rows => Landing = {Len(calls)} /\ calls[Len(calls)].lane = "search"

\* What was asked last, once the timer has run out.
AskedLast ==
  /\ \/ asked = Empty
     \/ asked.lane = "search" /\ asked = Search(asked.query)
     \/ asked.lane = "expand" /\ asked.attr \in Attr /\ asked = Expand(asked.attr)
  /\ timer \/ (asked # Empty /\ asked.lane = "expand")
           \/ asked = (IF box = "" THEN Empty ELSE Search(box))

\* What a search for q shows.
Found(q) ==
  LET found == searchAttrs(q)
  IN  IF found = <<>> THEN [kind |-> "no such attribute"] ELSE [kind |-> "attrs", attrs |-> found]

SomeFailed == "rejected" \in Range(promise)

Current ==
  IF asked # Empty /\ asked.lane = "expand"
    THEN screen.kind \in {"pills", "not in the index"} /\ screen.attr = asked.attr
  ELSE IF box = "" THEN screen = Empty
  ELSE screen = Found(box)

\* The picker shows what was asked last, or will, or has drawn over it.
PickerOwes ==
  SomeFailed \/ timer \/ "picker" \in stale \/ Current \/ (asked # Empty /\ Waits(asked))

\* And so does the dropdown.
OfferOwes ==
  \/ SomeFailed \/ offer = Nothing \/ "offer" \in stale \/ Waits(Complete(line))
  \/ /\ offer = line /\ Pool(line) # {}
     /\ line.mode # "attr" => line.attr \in Attr /\ promise[MetaKey(line.attr)] \in {"have", "empty"}

\* The caret is where the last input left it, unless it was moved.
CaretThere == caret = line \/ "caret" \in stale

PInv ==
  /\ Shapes /\ NamesFirst /\ RowsBehind /\ AskedLast /\ PillsTruthful
  /\ PickerOwes /\ OfferOwes /\ CaretThere

-----------------------------------------------------------------------------
(***************************************************************************)
(* The calls that wait.                                                    *)
(***************************************************************************)
LEMMA SeqOfItsRange ==
  ASSUME NEW S, NEW s \in Seq(S)
  PROVE  s \in Seq(Range(s))
BY DEF Range

LEMMA PutLast ==
  ASSUME NEW s, s \in Seq(Range(s)), NEW x
  PROVE  /\ Append(s, x) \in Seq(Range(Append(s, x)))
         /\ Len(Append(s, x)) = Len(s) + 1 /\ Len(s) \in Nat
         /\ \A i \in DOMAIN s : i \in DOMAIN Append(s, x) /\ Append(s, x)[i] = s[i]
         /\ Len(s) + 1 \in DOMAIN Append(s, x) /\ Append(s, x)[Len(s) + 1] = x
         /\ \A i \in DOMAIN Append(s, x) : i \in DOMAIN s \/ i = Len(s) + 1
<1> DEFINE S == Range(s) \cup {x}
<1>1. s \in Seq(S)
  <2>1. Range(s) \subseteq S
    OBVIOUS
  <2> HIDE DEF S
  <2> QED BY <2>1
<1>2. x \in S
  OBVIOUS
<1> HIDE DEF S
<1>3. Append(s, x) \in Seq(S)
  BY <1>1, <1>2
<1>4. Append(s, x) \in Seq(Range(Append(s, x)))
  BY <1>3, SeqOfItsRange
<1> QED BY <1>1, <1>2, <1>3, <1>4

LEMMA Joined ==
  ASSUME NEW S, NEW a \in Seq(S), NEW b \in Seq(S)
  PROVE  /\ a \o b \in Seq(S) /\ Len(a \o b) = Len(a) + Len(b)
         /\ Len(a) \in Nat /\ Len(b) \in Nat
         /\ \A j \in 1 .. Len(a) : (a \o b)[j] = a[j] /\ j \in DOMAIN (a \o b)
         /\ \A j \in 1 .. Len(b) : (a \o b)[Len(a) + j] = b[j] /\ Len(a) + j \in DOMAIN (a \o b)
         /\ \A j \in DOMAIN (a \o b) :
              j \in 1 .. Len(a) \/ \E m \in 1 .. Len(b) : j = Len(a) + m
<1>1. a \o b \in Seq(S) /\ Len(a \o b) = Len(a) + Len(b) /\ Len(a) \in Nat /\ Len(b) \in Nat
  OBVIOUS
<1>2. DOMAIN (a \o b) = 1 .. Len(a) + Len(b)
  BY <1>1
<1>3. ASSUME NEW j \in DOMAIN (a \o b)
      PROVE  j \in 1 .. Len(a) \/ \E m \in 1 .. Len(b) : j = Len(a) + m
  <2>1. CASE j <= Len(a)
    BY <1>1, <1>2, <2>1
  <2>2. CASE ~ (j <= Len(a))
    <3>1. j - Len(a) \in 1 .. Len(b) /\ j = Len(a) + (j - Len(a))
      BY <1>1, <1>2, <2>2
    <3> QED BY <3>1
  <2> QED BY <2>1, <2>2
<1>4. \A j \in 1 .. Len(a) : (a \o b)[j] = a[j] /\ j \in DOMAIN (a \o b)
  BY <1>1, <1>2
<1>5. ASSUME NEW j \in 1 .. Len(b)
      PROVE  (a \o b)[Len(a) + j] = b[j] /\ Len(a) + j \in DOMAIN (a \o b)
  <2>1. Len(a) + j \in 1 .. Len(a) + Len(b) /\ ~ (Len(a) + j <= Len(a)) /\ Len(a) + j - Len(a) = j
    BY <1>1
  <2> QED BY <1>1, <1>2, <2>1
<1> QED BY <1>1, <1>3, <1>4, <1>5

LEMMA TakenOut ==
  ASSUME NEW s, s \in Seq(Range(s)), NEW i \in DOMAIN s
  PROVE  /\ RemoveAt(s, i) \in Seq(Range(RemoveAt(s, i)))
         /\ \A j \in DOMAIN RemoveAt(s, i) :
              \E k \in DOMAIN s : k # i /\ RemoveAt(s, i)[j] = s[k]
         /\ \A k \in DOMAIN s : k # i =>
              \E j \in DOMAIN RemoveAt(s, i) : RemoveAt(s, i)[j] = s[k]
<1> DEFINE n == Len(s)
           a == SubSeq(s, 1, i - 1)
           b == SubSeq(s, i + 1, n)
<1>0. PICK S : S = Range(s)
  OBVIOUS
<1>1. n \in Nat /\ i \in 1 .. n /\ DOMAIN s = 1 .. n /\ s \in Seq(S)
  BY <1>0
<1>2. a \in Seq(S) /\ Len(a) = i - 1 /\ \A j \in 1 .. i - 1 : a[j] = s[j]
  BY <1>1
<1>3. b \in Seq(S) /\ Len(b) = n - i /\ \A j \in 1 .. n - i : b[j] = s[i + j]
  <2>1. i + 1 \in Int /\ n \in Int /\ 1 <= i + 1 /\ n <= Len(s) /\ i + 1 <= n + 1
    BY <1>1
  <2>2. b \in Seq(S) /\ Len(b) = n - (i + 1) + 1 /\ \A j \in 1 .. n - (i + 1) + 1 : b[j] = s[i + 1 + j - 1]
    BY <1>1, <2>1
  <2>3. n - (i + 1) + 1 = n - i /\ \A j \in 1 .. n - i : i + 1 + j - 1 = i + j
    BY <1>1
  <2> QED BY <2>2, <2>3
<1>4. RemoveAt(s, i) = a \o b
  BY DEF RemoveAt
<1> HIDE DEF a, b, n
<1>5. /\ a \o b \in Seq(S)
      /\ \A j \in 1 .. Len(a) : (a \o b)[j] = a[j] /\ j \in DOMAIN (a \o b)
      /\ \A j \in 1 .. Len(b) : (a \o b)[Len(a) + j] = b[j] /\ Len(a) + j \in DOMAIN (a \o b)
      /\ \A j \in DOMAIN (a \o b) : j \in 1 .. Len(a) \/ \E m \in 1 .. Len(b) : j = Len(a) + m
  <2>1. a \in Seq(S) /\ b \in Seq(S)
    BY <1>2, <1>3
  <2> QED BY ONLY <2>1, Joined
<1>6. /\ \A j \in 1 .. Len(a) : j \in DOMAIN s /\ j # i /\ (a \o b)[j] = s[j]
      /\ \A j \in 1 .. Len(b) : i + j \in DOMAIN s /\ i + j # i /\ (a \o b)[Len(a) + j] = s[i + j]
  <2>1. \A j \in 1 .. Len(a) : j \in DOMAIN s /\ j # i
    BY <1>1, <1>2
  <2>2. \A j \in 1 .. Len(b) : i + j \in DOMAIN s /\ i + j # i
    BY <1>1, <1>3
  <2> QED BY <1>2, <1>3, <1>5, <2>1, <2>2
<1>7. \A k \in DOMAIN s : k = i \/ k \in 1 .. Len(a) \/ \E m \in 1 .. Len(b) : k = i + m
  <2> TAKE k \in DOMAIN s
  <2>1. CASE k < i
    BY <1>1, <1>2, <2>1
  <2>2. CASE k > i
    <3>1. k - i \in 1 .. Len(b) /\ k = i + (k - i)
      BY <1>1, <1>3, <2>2
    <3> QED BY <3>1
  <2> QED BY <1>1, <2>1, <2>2
<1>8. \A j \in DOMAIN (a \o b) : \E k \in DOMAIN s : k # i /\ (a \o b)[j] = s[k]
  <2> TAKE j \in DOMAIN (a \o b)
  <2>1. CASE j \in 1 .. Len(a)
    BY <1>6, <2>1
  <2>2. CASE \E m \in 1 .. Len(b) : j = Len(a) + m
    BY <1>6, <2>2
  <2> QED BY <1>5, <2>1, <2>2
<1>9. \A k \in DOMAIN s : k # i => \E j \in DOMAIN (a \o b) : (a \o b)[j] = s[k]
  <2> SUFFICES ASSUME NEW k \in DOMAIN s, k # i
               PROVE  \E j \in DOMAIN (a \o b) : (a \o b)[j] = s[k]
    OBVIOUS
  <2>1. CASE k \in 1 .. Len(a)
    BY <1>5, <1>6, <2>1
  <2>2. CASE \E m \in 1 .. Len(b) : k = i + m
    BY <1>5, <1>6, <2>2
  <2> QED BY <1>7, <2>1, <2>2
<1>10. RemoveAt(s, i) \in Seq(Range(RemoveAt(s, i)))
  BY <1>4, <1>5, SeqOfItsRange
<1> QED BY <1>4, <1>8, <1>9, <1>10

LEMMA Turned ==
  ASSUME NEW s, s \in Seq(Range(s)), NEW i \in DOMAIN s, NEW x
  PROVE  /\ [s EXCEPT ![i] = x] \in Seq(Range([s EXCEPT ![i] = x]))
         /\ DOMAIN [s EXCEPT ![i] = x] = DOMAIN s
         /\ [s EXCEPT ![i] = x][i] = x
         /\ \A j \in DOMAIN s : j # i => [s EXCEPT ![i] = x][j] = s[j]
<1> DEFINE t == [s EXCEPT ![i] = x]
<1>1. DOMAIN s = 1 .. Len(s) /\ Len(s) \in Nat
  OBVIOUS
<1>2. DOMAIN t = 1 .. Len(s) /\ t = [j \in 1 .. Len(s) |-> t[j]]
  BY <1>1
<1>3. t \in [1 .. Len(s) -> Range(t)]
  BY <1>2 DEF Range
<1> HIDE DEF t
<1>4. t \in Seq(Range(t))
  BY <1>1, <1>3
<1> USE DEF t
<1> QED BY <1>1, <1>4

LEMMA LeastOfNaturals ==
  ASSUME NEW S \in SUBSET Nat, S # {}
  PROVE  Min(S) \in S /\ \A y \in S : Min(S) <= y
<1> DEFINE R == OpToRel(<, Nat)
<1>1. IsWellFoundedOn(R, Nat)
  BY NatLessThanWellFounded
<1>2. \A x, y \in Nat : x < y => <<x, y>> \in R
  BY DEF OpToRel
<1> HIDE DEF R
<1>3. PICK x \in S : \A y \in S : ~ (<<y, x>> \in R)
  BY <1>1, WFMin
<1>4. \A y \in S : ~ (y < x)
  BY <1>2, <1>3
<1>5. \A y \in S : x <= y
  BY <1>4, SMT
<1> QED BY <1>5 DEF Min

\* The call that goes on.
LEMMA OldestLands ==
  ASSUME Shapes, Landing # {}
  PROVE  Min(Landing) \in DOMAIN calls /\ Ready(calls[Min(Landing)]) /\ Min(Landing) \in Landing
<1>1. Landing \subseteq Nat
  BY DEF Landing, Shapes
<1>2. Min(Landing) \in Landing
  BY <1>1, LeastOfNaturals
<1> QED BY <1>2 DEF Landing

-----------------------------------------------------------------------------
(***************************************************************************)
(* What is drawn.                                                          *)
(***************************************************************************)
LEMMA Kinds ==
  /\ \A q : Search(q).lane = "search" /\ Search(q).query = q /\ Search(q) # Empty
            /\ "lane" \in DOMAIN Search(q)
  /\ \A a : Expand(a).lane = "expand" /\ Expand(a).attr = a /\ Expand(a) # Empty
            /\ "lane" \in DOMAIN Expand(a)
  /\ \A f : Complete(f).lane = "complete" /\ Complete(f).fragment = f
            /\ "lane" \in DOMAIN Complete(f)
  /\ \A s : Resolve(s).lane = "range" /\ "lane" \in DOMAIN Resolve(s)
  /\ Empty.kind = "empty" /\ "lane" \notin DOMAIN Empty
BY DEF Search, Expand, Complete, Resolve, Empty

LEMMA NeedsFacts ==
  /\ NamesKey \in Keys /\ \A a \in Attr : MetaKey(a) \in Keys /\ VersionsKey(a) \in Keys
  /\ \A c : c.lane = "search" => Needs(c) = {NamesKey}
  /\ \A c : c.lane = "expand" => Needs(c) = {MetaKey(c.attr), VersionsKey(c.attr)}
  /\ \A c : c.lane = "complete" =>
       Needs(c) = {IF c.fragment.mode = "attr" THEN NamesKey ELSE MetaKey(c.fragment.attr)}
BY DEF Needs, Keys

LEMMA NeedsKeys ==
  ASSUME NEW c, CallOK(c), c.lane # "range"
  PROVE  Needs(c) \subseteq Keys
BY NeedsFacts, PickerAssumption DEF CallOK

LEMMA FailedIsSome ==
  ASSUME Shapes, NEW c, CallOK(c), c.lane # "range", Failed(c)
  PROVE  SomeFailed
BY NeedsKeys DEF Failed, SomeFailed, Range, Shapes

LEMMA SearchReady ==
  ASSUME Shapes, NEW c, c.lane = "search"
  PROVE  /\ Failed(c) <=> promise[NamesKey] = "rejected"
         /\ Ready(c) <=> promise[NamesKey] \in {"have", "rejected"}
BY NeedsFacts DEF Ready, Failed, Shapes

LEMMA ShownFacts ==
  ASSUME NEW c
  PROVE  /\ c.lane = "search" => Shown(c) = Found(c.query) /\ Shown(c).kind \in {"no such attribute", "attrs"}
         /\ c.lane = "expand" =>
              /\ Shown(c).kind \in {"not in the index", "pills"} /\ Shown(c).attr = c.attr
              /\ Shown(c).kind = "pills" =>
                   /\ Shown(c) = [kind |-> "pills", attr |-> Shown(c).attr, all |-> Shown(c).all,
                                  can |-> Shown(c).can, on |-> Shown(c).on]
                   /\ Shown(c).on = {v \in Shown(c).can : <<Shown(c).attr, v>> \in selected}
<1>1. c.lane = "search" => Shown(c) = Found(c.query) /\ Shown(c).kind \in {"no such attribute", "attrs"}
  BY DEF Shown, Found
<1>2. ASSUME c.lane = "expand"
      PROVE  /\ Shown(c).kind \in {"not in the index", "pills"} /\ Shown(c).attr = c.attr
             /\ Shown(c).kind = "pills" =>
                  /\ Shown(c) = [kind |-> "pills", attr |-> Shown(c).attr, all |-> Shown(c).all,
                                 can |-> Shown(c).can, on |-> Shown(c).on]
                  /\ Shown(c).on = {v \in Shown(c).can : <<Shown(c).attr, v>> \in selected}
  <2> DEFINE all == versionRowsOf(promise, c.attr)
             can == bootable(promise, c.attr)
             on == {v \in can : <<c.attr, v>> \in selected}
  <2>1. Shown(c) = IF all = <<>> THEN [kind |-> "not in the index", attr |-> c.attr]
                   ELSE [kind |-> "pills", attr |-> c.attr, all |-> all, can |-> can, on |-> on]
    <3>1. c.lane # "search"
      BY <1>2
    <3> QED BY <3>1, Zenon DEF Shown
  <2> HIDE DEF all, can
  <2>2. CASE all = <<>>
    <3>1. Shown(c) = [kind |-> "not in the index", attr |-> c.attr]
      BY <2>1, <2>2
    <3> HIDE DEF on
    <3>2. Shown(c).kind = "not in the index" /\ Shown(c).attr = c.attr
      <4>1. PICK x, r : x = c.attr /\ r = Shown(c)
        OBVIOUS
      <4>2. r = [kind |-> "not in the index", attr |-> x]
        BY <3>1, <4>1
      <4>3. r.kind = "not in the index" /\ r.attr = x
        BY <4>2
      <4> QED BY <4>1, <4>3
    <3> QED BY ONLY <3>2
  <2>3. CASE all # <<>>
    <3>1. /\ Shown(c) = [kind |-> "pills", attr |-> c.attr, all |-> all, can |-> can, on |-> on]
          /\ Shown(c).kind = "pills" /\ Shown(c).attr = c.attr /\ Shown(c).all = all
          /\ Shown(c).can = can /\ Shown(c).on = on
      BY <2>1, <2>3
    <3> QED BY <3>1
  <2> QED BY <2>2, <2>3
<1> QED BY <1>1, <1>2

LEMMA ReselectFacts ==
  ASSUME Shapes, PillsTruthful, NEW s, Reselect(s)
  PROVE  /\ screen'.kind = screen.kind
         /\ screen.kind # "pills" \/ ~rows => screen' = screen
         /\ screen.kind = "pills" =>
              /\ screen'.attr = screen.attr
              /\ screen' = [kind |-> "pills", attr |-> screen'.attr, all |-> screen'.all,
                            can |-> screen'.can, on |-> screen'.on]
         /\ screen.kind = "pills" /\ rows =>
              screen'.on = {v \in screen'.can : <<screen'.attr, v>> \in selected'}
<1>1. CASE ~ (screen.kind = "pills" /\ rows)
  <2>1. screen' = screen
    BY <1>1 DEF Reselect
  <2> QED BY <1>1, <2>1 DEF Shapes
<1>2. CASE screen.kind = "pills" /\ rows
  <2>1. screen' = [screen EXCEPT !.on = {v \in screen.can : <<screen.attr, v>> \in s}] /\ selected' = s
    BY <1>2 DEF Reselect
  <2>2. screen = [kind |-> "pills", attr |-> screen.attr, all |-> screen.all,
                  can |-> screen.can, on |-> screen.on]
    BY <1>2 DEF Shapes
  <2>3. PICK attr, all, can, on : screen = [kind |-> "pills", attr |-> attr, all |-> all, can |-> can, on |-> on]
    BY <2>2
  <2>4. screen' = [kind |-> "pills", attr |-> attr, all |-> all, can |-> can,
                   on |-> {v \in can : <<attr, v>> \in s}]
    BY <2>1, <2>3
  <2> QED BY <1>2, <2>1, <2>3, <2>4
<1> QED BY <1>1, <1>2

-----------------------------------------------------------------------------
(***************************************************************************)
(* The promises.                                                           *)
(***************************************************************************)
Settled == {"have", "empty", "rejected"}

LEMMA FetchedFacts ==
  ASSUME Shapes, NEW K
  PROVE  /\ Fetched(promise, K) \in [Keys -> States]
         /\ Fetched(promise, K)[NamesKey] # "empty"
         /\ \A k \in Keys : promise[k] # "none" => Fetched(promise, K)[k] = promise[k]
BY NeedsFacts DEF Shapes, Fetched, States

LEMMA PromisesStay ==
  ASSUME Shapes, [Next]_vars
  PROVE  /\ promise' \in [Keys -> States] /\ promise'[NamesKey] # "empty"
         /\ \A k \in Keys : promise[k] \in Settled => promise'[k] = promise[k]
<1>1. CASE UNCHANGED promise
  BY <1>1 DEF Shapes
<1>2. CASE \E K : promise' = Fetched(promise, K)
  BY <1>2, FetchedFacts DEF Settled
<1>3. CASE \E k \in Keys : \E fate \in Fates(k) : Settle(k, fate)
  <2>0. PICK k \in Keys : \E fate \in Fates(k) : Settle(k, fate)
    BY <1>3
  <2>1. PICK fate \in Fates(k) : Settle(k, fate)
    BY <2>0
  <2>2. promise' = [promise EXCEPT ![k] = fate] /\ promise[k] = "pending"
    BY <2>1 DEF Settle
  <2>3. fate \in States /\ (k = NamesKey => fate # "empty")
    BY DEF Fates, States
  <2> QED BY <2>2, <2>3 DEF Shapes, Settled
<1>4. \/ UNCHANGED promise
      \/ \E K : promise' = Fetched(promise, K)
      \/ \E k \in Keys : \E fate \in Fates(k) : Settle(k, fate)
  <2>1. CASE \E a \in Attr : StartExpand(a)
    BY <2>1 DEF StartExpand, Ask
  <2>2. CASE \E f \in Fragments \cup {Nothing} : Edit(f)
    BY <2>2 DEF Edit, Ask
  <2>3. CASE \E specs \in Lines : Submit(specs)
    BY <2>3 DEF Submit, Ask
  <2>4. CASE StartSearch
    BY <2>4 DEF StartSearch, Ask
  <2>5. CASE NextSpec
    BY <2>5 DEF NextSpec
  <2>6. CASE Land
    BY <2>6 DEF Land, LandPicker, LandComplete, LandRange
  <2>7. CASE UNCHANGED vars \/ Hide \/ Accept
             \/ (\E f \in Fragments \cup {Nothing} : MoveCaret(f)) \/ \E q \in DOMAIN Includes \cup {""} : Type(q)
    BY <2>7 DEF vars, Hide, Accept, MoveCaret, Type
  <2>8. CASE \E a \in Attr : \E v \in Built[a] : Pick(v) \/ Drop(<<a, v>>)
    BY <2>8 DEF Pick, Drop
  <2> QED BY <2>1, <2>2, <2>3, <2>4, <2>5, <2>6, <2>7, <2>8 DEF Next
<1> QED BY <1>1, <1>2, <1>3, <1>4

LEMMA FailedStays ==
  ASSUME Shapes, [Next]_vars, SomeFailed
  PROVE  SomeFailed'
<1>1. PICK k \in Keys : promise[k] = "rejected"
  BY DEF SomeFailed, Range, Shapes
<1>2. promise'[k] = "rejected" /\ k \in DOMAIN promise'
  BY <1>1, PromisesStay DEF Settled
<1> QED BY <1>2 DEF SomeFailed, Range

-----------------------------------------------------------------------------
(***************************************************************************)
(* A call goes on.                                                         *)
(***************************************************************************)
\* What every step that lands a call has in common.
LEMMA Landed ==
  ASSUME Shapes, Land
  PROVE  \E i \in DOMAIN calls :
           /\ i = Min(Landing) /\ i \in Landing /\ Ready(calls[i]) /\ CallOK(calls[i])
           /\ calls' = RemoveAt(calls, i)
           /\ LandPicker(calls[i]) \/ LandComplete(calls[i]) \/ LandRange(calls[i])
<1>1. Landing # {}
  BY DEF Land
<1>2. PICK i \in DOMAIN calls : i = Min(Landing) /\ i \in Landing /\ Ready(calls[i])
  BY <1>1, OldestLands
<1>3. CallOK(calls[i])
  BY DEF Shapes
<1> QED BY <1>2, <1>3 DEF Land

LEMMA NextSpecFacts ==
  ASSUME Shapes, NextSpec
  PROVE  \E i \in DOMAIN calls :
           /\ i = Min(Landing) /\ i \in Landing /\ calls[i].lane = "range"
           /\ calls' = [calls EXCEPT ![i] = Turn(calls[i])]
           /\ CallOK(Turn(calls[i])) /\ Turn(calls[i]).lane = "range"
<1>1. Landing # {}
  BY DEF NextSpec
<1>2. PICK i \in DOMAIN calls : i = Min(Landing) /\ i \in Landing
  BY <1>1, OldestLands
<1>3. CallOK(calls[i])
  BY DEF Shapes
<1>4. /\ calls[i].lane = "range"
      /\ calls' = [calls EXCEPT ![i] = Turn(calls[i])]
  BY <1>2 DEF NextSpec
<1>5. Turn(calls[i]).lane = "range" /\ "lane" \in DOMAIN Turn(calls[i])
  BY <1>3, <1>4 DEF Turn, CallOK
<1>6. CallOK(Turn(calls[i]))
  BY <1>5 DEF CallOK
<1> QED BY <1>2, <1>4, <1>5, <1>6

LEMMA AskedCalls ==
  ASSUME Shapes, NEW c, CallOK(c), Ask(c)
  PROVE  /\ calls' \in Seq(Range(calls')) /\ \A i \in DOMAIN calls' : CallOK(calls'[i])
         /\ \A d : Waits(d)' <=> Waits(d) \/ d = c
         /\ \A i \in DOMAIN calls' : i \in DOMAIN calls \/ calls'[i] = c
         /\ \A i \in DOMAIN calls : calls'[i] = calls[i]
<1>1. calls' = Append(calls, c)
  BY DEF Ask
<1>2. /\ calls' \in Seq(Range(calls'))
      /\ \A i \in DOMAIN calls : i \in DOMAIN calls' /\ calls'[i] = calls[i]
      /\ Len(calls) + 1 \in DOMAIN calls' /\ calls'[Len(calls) + 1] = c
      /\ \A i \in DOMAIN calls' : i \in DOMAIN calls \/ i = Len(calls) + 1
  BY <1>1, PutLast DEF Shapes
<1>3. \A i \in DOMAIN calls' : CallOK(calls'[i])
  BY <1>2 DEF Shapes
<1>4. \A d : Waits(d)' <=> Waits(d) \/ d = c
  BY <1>2 DEF Waits
<1> QED BY <1>2, <1>3, <1>4

\* A call that is made, goes on or comes to its end.
LEMMA CallsFate ==
  ASSUME Shapes, [Next]_vars
  PROVE  /\ calls' \in Seq(Range(calls')) /\ \A i \in DOMAIN calls' : CallOK(calls'[i])
         /\ \A i \in DOMAIN calls' :
              \/ \E j \in DOMAIN calls : calls'[i].lane = calls[j].lane
              \/ calls'[i].lane # "expand"
              \/ \E a \in Attr : StartExpand(a)
         /\ ~Land => \A c : Waits(c) /\ c.lane # "range" => Waits(c)'
<1> DEFINE Goal ==
      /\ calls' \in Seq(Range(calls')) /\ \A i \in DOMAIN calls' : CallOK(calls'[i])
      /\ \A i \in DOMAIN calls' :
           \/ \E j \in DOMAIN calls : calls'[i].lane = calls[j].lane
           \/ calls'[i].lane # "expand"
           \/ \E a \in Attr : StartExpand(a)
      /\ ~Land => \A c : Waits(c) /\ c.lane # "range" => Waits(c)'
<1> SUFFICES Goal
  OBVIOUS
<1>1. CASE UNCHANGED calls
  BY <1>1 DEF Shapes, Waits
<1>2. ASSUME NEW c, CallOK(c), Ask(c), c.lane # "expand" \/ \E a \in Attr : StartExpand(a)
      PROVE  Goal
  BY <1>2, AskedCalls
<1>3. CASE Land
  <2>1. PICK i \in DOMAIN calls : calls' = RemoveAt(calls, i)
    BY <1>3, Landed
  <2>2. /\ calls' \in Seq(Range(calls'))
        /\ \A j \in DOMAIN calls' : \E k \in DOMAIN calls : k # i /\ calls'[j] = calls[k]
    BY <2>1, TakenOut DEF Shapes
  <2>3. \A j \in DOMAIN calls' : CallOK(calls'[j])
    BY <2>2 DEF Shapes
  <2> QED BY <1>3, <2>2, <2>3
<1>4. CASE NextSpec
  <2>1. PICK i \in DOMAIN calls :
          /\ calls' = [calls EXCEPT ![i] = Turn(calls[i])] /\ calls[i].lane = "range"
          /\ CallOK(Turn(calls[i])) /\ Turn(calls[i]).lane = "range"
    BY <1>4, NextSpecFacts
  <2>2. /\ calls' \in Seq(Range(calls')) /\ DOMAIN calls' = DOMAIN calls
        /\ calls'[i] = Turn(calls[i]) /\ \A j \in DOMAIN calls : j # i => calls'[j] = calls[j]
    BY <2>1, Turned DEF Shapes
  <2>3. \A j \in DOMAIN calls' : CallOK(calls'[j])
    BY <2>1, <2>2 DEF Shapes
  <2>4. \A c : Waits(c) /\ c.lane # "range" => Waits(c)'
    BY <2>1, <2>2 DEF Waits
  <2> QED BY <2>1, <2>2, <2>3, <2>4
<1>5. CASE StartSearch
  <2>1. UNCHANGED calls \/ Ask(Search(box))
    BY <1>5 DEF StartSearch
  <2>2. CallOK(Search(box))
    BY Kinds DEF CallOK
  <2> QED BY <1>1, <1>2, <2>1, <2>2, Kinds
<1>6. ASSUME NEW a \in Attr, StartExpand(a) PROVE Goal
  <2>1. Ask(Expand(a))
    BY <1>6 DEF StartExpand
  <2>2. CallOK(Expand(a))
    BY Kinds DEF CallOK
  <2> QED BY <1>2, <1>6, <2>1, <2>2
<1>7. ASSUME NEW f \in Fragments \cup {Nothing}, Edit(f) PROVE Goal
  <2>1. UNCHANGED calls \/ (f \in Fragments /\ Ask(Complete(f)))
    BY <1>7 DEF Edit
  <2>2. f \in Fragments => CallOK(Complete(f))
    BY Kinds DEF CallOK
  <2> QED BY <1>1, <1>2, <2>1, <2>2, Kinds
<1>8. ASSUME NEW specs \in Lines, Submit(specs) PROVE Goal
  <2>1. Ask(Resolve(specs))
    BY <1>8 DEF Submit
  <2>2. CallOK(Resolve(specs))
    BY Kinds DEF CallOK
  <2> QED BY <1>2, <2>1, <2>2, Kinds
<1>9. CASE UNCHANGED vars \/ Hide \/ Accept
           \/ (\E f \in Fragments \cup {Nothing} : MoveCaret(f)) \/ (\E q \in DOMAIN Includes \cup {""} : Type(q))
           \/ (\E a \in Attr : \E v \in Built[a] : Pick(v) \/ Drop(<<a, v>>))
           \/ (\E k \in Keys : \E fate \in Fates(k) : Settle(k, fate))
  <2>1. UNCHANGED calls
    BY <1>9 DEF vars, Hide, Accept, MoveCaret, Type, Pick, Drop, Settle
  <2> QED BY <1>1, <2>1
<1> HIDE DEF Goal
<1> QED BY <1>3, <1>4, <1>5, <1>6, <1>7, <1>8, <1>9 DEF Next

-----------------------------------------------------------------------------
(***************************************************************************)
(* The screen.                                                             *)
(***************************************************************************)
\* While nothing is about to go on, or something else than a search is, the
\* pills on the screen are the ones in the rows.
LEMMA RowsThere ==
  ASSUME Shapes, NamesFirst, RowsBehind, screen.kind = "pills",
         Landing = {} \/ \E i \in Landing : calls[i].lane # "search" \/ Failed(calls[i])
  PROVE  rows
<1> SUFFICES ASSUME ~rows PROVE FALSE
  OBVIOUS
<1>1. Landing = {Len(calls)} /\ calls[Len(calls)].lane = "search"
  BY DEF RowsBehind
<1>2. promise[NamesKey] = "have"
  BY DEF NamesFirst
<1>3. ~Failed(calls[Len(calls)])
  BY <1>1, <1>2, SearchReady
<1> QED BY <1>1, <1>3

\* What a step does to the screen.
LEMMA ScreenFate ==
  ASSUME Shapes, NamesFirst, RowsBehind, [Next]_vars
  PROVE  \/ UNCHANGED vars
         \/ /\ UNCHANGED <<screen, rows, selected>>
            /\ screen.kind = "pills" => rows
         \/ /\ (\E s : Reselect(s)) /\ UNCHANGED rows
            /\ screen.kind = "pills" => rows
         \/ /\ StartSearch /\ screen' = Empty
         \/ /\ StartSearch /\ box # "" /\ screen' = screen /\ Ask(Search(box))
         \/ \E a \in Attr : StartExpand(a)
         \/ \E i \in Landing :
              /\ i \in DOMAIN calls /\ calls[i].lane \in {"search", "expand"} /\ ~Failed(calls[i])
              /\ Ready(calls[i])
              /\ screen' = Shown(calls[i]) /\ rows' = (rows \/ calls[i].lane = "expand")
              /\ selected' = selected
<1>1. CASE (\E q \in DOMAIN Includes \cup {""} : Type(q)) \/ Hide \/ Accept
           \/ (\E f \in Fragments \cup {Nothing} : MoveCaret(f))
           \/ (\E f \in Fragments \cup {Nothing} : Edit(f)) \/ (\E specs \in Lines : Submit(specs))
           \/ (\E k \in Keys : \E fate \in Fates(k) : Settle(k, fate))
  <2>1. Landing = {}
    BY <1>1 DEF Type, Hide, Accept, MoveCaret, Edit, Submit, Settle, Act
  <2>2. UNCHANGED <<screen, rows, selected>>
    BY <1>1 DEF Type, Hide, Accept, MoveCaret, Edit, Submit, Settle, picker
  <2> QED BY <2>1, <2>2, RowsThere
<1>2. CASE \E a \in Attr : \E v \in Built[a] : Pick(v) \/ Drop(<<a, v>>)
  <2>1. Landing = {} /\ (\E s : Reselect(s)) /\ UNCHANGED rows
    BY <1>2 DEF Pick, Drop, Act
  <2> QED BY <2>1, RowsThere
<1>3. CASE Land
  <2>1. PICK i \in DOMAIN calls :
          /\ i \in Landing /\ Ready(calls[i])
          /\ LandPicker(calls[i]) \/ LandComplete(calls[i]) \/ LandRange(calls[i])
    BY <1>3, Landed
  <2>2. CASE LandPicker(calls[i]) /\ ~Failed(calls[i])
    BY <2>1, <2>2 DEF LandPicker
  <2>3. CASE LandPicker(calls[i]) /\ Failed(calls[i])
    <3>1. UNCHANGED <<screen, rows, selected>>
      BY <2>3 DEF LandPicker
    <3> QED BY <2>1, <2>3, <3>1, RowsThere
  <2>4. CASE LandComplete(calls[i])
    <3>1. UNCHANGED <<screen, rows, selected>> /\ calls[i].lane # "search"
      BY <2>4 DEF LandComplete, picker
    <3> QED BY <2>1, <3>1, RowsThere
  <2>5. CASE LandRange(calls[i])
    <3>1. calls[i].lane # "search" /\ UNCHANGED rows
          /\ (UNCHANGED <<selected, screen>> \/ \E s : Reselect(s))
      BY <2>5 DEF LandRange
    <3> QED BY <2>1, <3>1, RowsThere
  <2> QED BY <2>1, <2>2, <2>3, <2>4, <2>5
<1>4. CASE NextSpec
  <2>1. \E i \in Landing : calls[i].lane # "search"
    BY <1>4, NextSpecFacts
  <2>2. UNCHANGED <<screen, rows, selected>>
    BY <1>4 DEF NextSpec, picker
  <2> QED BY <2>1, <2>2, RowsThere
<1>5. CASE StartSearch
  BY <1>5 DEF StartSearch
<1> QED BY <1>1, <1>2, <1>3, <1>4, <1>5 DEF Next

LEMMA ScreenKept ==
  ASSUME Shapes, NamesFirst, RowsBehind, PillsTruthful, [Next]_vars
  PROVE  /\ PillsTruthful'
         /\ screen'.kind = "pills" =>
              screen' = [kind |-> "pills", attr |-> screen'.attr, all |-> screen'.all,
                         can |-> screen'.can, on |-> screen'.on]
         /\ screen'.kind = "pills" /\ ~rows' => RowsBehind'
<1> DEFINE Goal ==
      /\ PillsTruthful'
      /\ screen'.kind = "pills" =>
           screen' = [kind |-> "pills", attr |-> screen'.attr, all |-> screen'.all,
                      can |-> screen'.can, on |-> screen'.on]
      /\ screen'.kind = "pills" /\ ~rows' => RowsBehind'
<1> SUFFICES Goal
  OBVIOUS
<1>1. CASE UNCHANGED vars
  <2>1. UNCHANGED <<screen, rows, selected, calls, promise>>
    BY <1>1 DEF vars, picker
  <2>2. UNCHANGED Landing
    BY <2>1 DEF Landing, Ready, Failed
  <2> QED BY <2>1, <2>2 DEF PillsTruthful, Shapes, RowsBehind
<1>2. CASE UNCHANGED <<screen, rows, selected>> /\ (screen.kind = "pills" => rows)
  BY <1>2 DEF PillsTruthful, Shapes
<1>3. CASE (\E s : Reselect(s)) /\ UNCHANGED rows /\ (screen.kind = "pills" => rows)
  BY <1>3, ReselectFacts DEF PillsTruthful
<1>4. CASE StartSearch /\ screen' = Empty
  BY <1>4, Kinds DEF PillsTruthful
<1>5. CASE StartSearch /\ box # "" /\ screen' = screen /\ Ask(Search(box))
  <2>1. selected' = selected /\ Landing = {}
    BY <1>5 DEF StartSearch
  <2>2. ASSUME screen.kind = "pills" PROVE RowsBehind'
    <3>1. promise[NamesKey] = "have"
      BY <2>2 DEF NamesFirst
    <3>2. promise' = Fetched(promise, Needs(Search(box))) /\ calls' = Append(calls, Search(box))
      BY <1>5 DEF Ask
    <3>3. promise' = promise
      <4>1. \A k \in Keys : promise'[k] = promise[k]
        BY <3>1, <3>2, NeedsFacts, Kinds DEF Fetched
      <4> QED BY <3>2, <4>1 DEF Shapes, Fetched
    <3>4. /\ Len(calls') = Len(calls) + 1 /\ Len(calls) \in Nat
          /\ \A i \in DOMAIN calls : i \in DOMAIN calls' /\ calls'[i] = calls[i]
          /\ Len(calls') \in DOMAIN calls' /\ calls'[Len(calls')] = Search(box)
          /\ \A i \in DOMAIN calls' : i \in DOMAIN calls \/ i = Len(calls')
      BY <3>2, PutLast DEF Shapes
    <3>5. \A c : Ready(c)' <=> Ready(c)
      BY <3>3 DEF Ready, Failed
    <3>6. Ready(Search(box))
      BY <3>1, Kinds, SearchReady
    <3>7. \A i \in DOMAIN calls : ~Ready(calls[i])
      BY <2>1 DEF Landing
    <3>8. \A i \in DOMAIN calls' : Ready(calls[i])' <=> i = Len(calls')
      <4>0. \A i \in DOMAIN calls' : Ready(calls[i])' <=> Ready(calls'[i])
        BY <3>3 DEF Ready, Failed
      <4> QED BY <3>4, <3>6, <3>7, <4>0
    <3>9. Landing' = {Len(calls')}
      BY <3>4, <3>8 DEF Landing
    <3> QED BY <3>4, <3>9, Kinds DEF RowsBehind
  <2>3. PillsTruthful'
    BY <1>5, <2>1 DEF PillsTruthful
  <2> QED BY <1>5, <2>2, <2>3 DEF Shapes
<1>6. ASSUME NEW a \in Attr, StartExpand(a) PROVE Goal
  <2>1. screen'.kind = "loading"
    BY <1>6 DEF StartExpand
  <2> QED BY <2>1 DEF PillsTruthful
<1>7. ASSUME NEW i \in Landing, i \in DOMAIN calls, calls[i].lane \in {"search", "expand"},
             screen' = Shown(calls[i]), rows' = (rows \/ calls[i].lane = "expand"),
             selected' = selected
      PROVE  Goal
  <2>1. CASE calls[i].lane = "search"
    <3>1. screen'.kind # "pills"
      BY <1>7, <2>1, ShownFacts
    <3> QED BY <3>1 DEF PillsTruthful
  <2>2. CASE calls[i].lane = "expand"
    <3>1. screen'.kind = "pills" =>
            /\ screen' = [kind |-> "pills", attr |-> screen'.attr, all |-> screen'.all,
                          can |-> screen'.can, on |-> screen'.on]
            /\ screen'.on = {v \in screen'.can : <<screen'.attr, v>> \in selected'}
      BY <1>7, <2>2, ShownFacts
    <3>2. rows'
      BY <1>7, <2>2
    <3> QED BY <3>1, <3>2 DEF PillsTruthful
  <2> QED BY <1>7, <2>1, <2>2
<1> HIDE DEF Goal
<1> QED BY <1>1, <1>2, <1>3, <1>4, <1>5, <1>6, <1>7, ScreenFate

LEMMA ShapesKept ==
  ASSUME Shapes, NamesFirst, RowsBehind, PillsTruthful, [Next]_vars
  PROVE  Shapes' /\ RowsBehind'
<1>1. Shapes'
  BY PromisesStay, CallsFate, ScreenKept DEF Shapes
<1>2. RowsBehind'
  BY ScreenKept DEF RowsBehind
<1> QED BY <1>1, <1>2

LEMMA NamesKept ==
  ASSUME Shapes, NamesFirst, RowsBehind, PillsTruthful, [Next]_vars
  PROVE  NamesFirst'
<1>1. promise[NamesKey] = "have" => promise'[NamesKey] = "have"
  BY PromisesStay, NeedsFacts DEF Settled
<1>2. CASE promise[NamesKey] = "have"
  BY <1>1, <1>2 DEF NamesFirst
<1>3. CASE promise[NamesKey] # "have"
  <2>1. screen.kind = "empty" /\ \A i \in DOMAIN calls : calls[i].lane # "expand"
    BY <1>3 DEF NamesFirst
  <2>2. \A a \in Attr : ~StartExpand(a)
    BY <2>1 DEF StartExpand
  <2>3. \A i \in DOMAIN calls' : calls'[i].lane # "expand"
    BY <2>1, <2>2, CallsFate
  <2>4. screen'.kind = "empty"
    <3>1. CASE \E i \in Landing :
                 /\ i \in DOMAIN calls /\ calls[i].lane \in {"search", "expand"} /\ ~Failed(calls[i])
                 /\ Ready(calls[i])
      <4>1. PICK i \in DOMAIN calls : calls[i].lane = "search" /\ ~Failed(calls[i]) /\ Ready(calls[i])
        BY <2>1, <3>1
      <4> QED BY <1>3, <4>1, SearchReady
    <3>2. CASE UNCHANGED screen \/ screen' = Empty \/ \E s : Reselect(s)
      BY <2>1, <3>2, Kinds, ReselectFacts
    <3>3. UNCHANGED vars => UNCHANGED screen
      BY DEF vars, picker
    <3> QED BY <2>2, <3>1, <3>2, <3>3, ScreenFate
  <2> QED BY <2>3, <2>4 DEF NamesFirst
<1> QED BY <1>2, <1>3

-----------------------------------------------------------------------------
(***************************************************************************)
(* What was asked last.                                                    *)
(***************************************************************************)
LEMMA AskedKept ==
  ASSUME AskedLast, [Next]_vars
  PROVE  AskedLast'
<1>1. CASE \E q \in DOMAIN Includes \cup {""} : Type(q)
  <2>1. timer' /\ asked' = asked
    BY <1>1 DEF Type
  <2> QED BY <2>1 DEF AskedLast
<1>2. CASE StartSearch
  <2>1. asked' = (IF box = "" THEN Empty ELSE Search(box)) /\ box' = box
    BY <1>2 DEF StartSearch
  <2> QED BY <2>1, Kinds DEF AskedLast
<1>3. CASE \E a \in Attr : StartExpand(a)
  <2>1. PICK a \in Attr : asked' = Expand(a)
    BY <1>3 DEF StartExpand
  <2> QED BY <2>1, Kinds DEF AskedLast
<1>4. CASE UNCHANGED <<asked, timer, box>>
  BY <1>4 DEF AskedLast
<1>5. \/ (\E q \in DOMAIN Includes \cup {""} : Type(q)) \/ StartSearch
      \/ (\E a \in Attr : StartExpand(a)) \/ UNCHANGED <<asked, timer, box>>
  BY DEF Next, vars, picker, Pick, Drop, Edit, Hide, Accept, MoveCaret, Submit, Land, LandPicker,
         LandComplete, LandRange, NextSpec, Settle
<1> QED BY <1>1, <1>2, <1>3, <1>4, <1>5

\* What was asked and waits goes on waiting, until it lands.
LEMMA WaitsOn ==
  ASSUME Shapes, [Next]_vars, NEW c, Waits(c), c.lane # "range"
  PROVE  \/ Waits(c)'
         \/ \E i \in DOMAIN calls :
              /\ Land /\ i \in Landing /\ Ready(c) /\ CallOK(c) /\ c = calls[i]
              /\ LandPicker(c) \/ LandComplete(c) \/ LandRange(c)
<1>1. CASE ~Land
  BY <1>1, CallsFate
<1>2. CASE Land
  <2>1. PICK i \in DOMAIN calls :
          /\ i \in Landing /\ Ready(calls[i]) /\ CallOK(calls[i]) /\ calls' = RemoveAt(calls, i)
          /\ LandPicker(calls[i]) \/ LandComplete(calls[i]) \/ LandRange(calls[i])
    BY <1>2, Landed
  <2>2. PICK k \in DOMAIN calls : calls[k] = c
    BY DEF Waits
  <2>3. CASE k = i
    BY <1>2, <2>1, <2>2, <2>3
  <2>4. CASE k # i
    <3>1. \E j \in DOMAIN calls' : calls'[j] = calls[k]
      BY <2>1, <2>4, TakenOut DEF Shapes
    <3> QED BY <2>2, <3>1 DEF Waits
  <2> QED BY <2>3, <2>4
<1> QED BY <1>1, <1>2

\* The picker's part of a step.
LEMMA PickerMoves ==
  ASSUME Shapes, [Next]_vars
  PROVE  \/ UNCHANGED <<box, timer, asked>> /\ ("picker" \in stale => "picker" \in stale')
            /\ (UNCHANGED screen \/ \E s : Reselect(s))
         \/ timer'
         \/ StartSearch
         \/ \E a \in Attr : StartExpand(a)
         \/ \E i \in DOMAIN calls :
              /\ LandPicker(calls[i]) /\ ~Failed(calls[i]) /\ UNCHANGED <<box, timer, asked>>
<1>1. CASE Land
  <2>1. PICK i \in DOMAIN calls : LandPicker(calls[i]) \/ LandComplete(calls[i]) \/ LandRange(calls[i])
    BY <1>1, Landed
  <2>2. CASE LandPicker(calls[i])
    BY <2>2 DEF LandPicker
  <2>3. CASE LandComplete(calls[i])
    BY <2>3 DEF LandComplete, Drawn, picker
  <2>4. CASE LandRange(calls[i])
    BY <2>4 DEF LandRange
  <2> QED BY <2>1, <2>2, <2>3, <2>4
<1>2. CASE ~Land
  <2>1. CASE (\E f \in Fragments \cup {Nothing} : Edit(f)) \/ Hide \/ Accept
             \/ (\E f \in Fragments \cup {Nothing} : MoveCaret(f))
    BY <2>1 DEF Edit, Hide, Accept, MoveCaret, picker
  <2>2. CASE \E q \in DOMAIN Includes \cup {""} : Type(q)
    BY <2>2 DEF Type
  <2>3. CASE \E a \in Attr : \E v \in Built[a] : Pick(v) \/ Drop(<<a, v>>)
    BY <2>3 DEF Pick, Drop
  <2>4. CASE UNCHANGED vars \/ NextSpec \/ (\E specs \in Lines : Submit(specs))
             \/ (\E k \in Keys : \E fate \in Fates(k) : Settle(k, fate))
    BY <2>4 DEF vars, NextSpec, Submit, Settle, picker
  <2> QED BY <1>2, <2>1, <2>2, <2>3, <2>4 DEF Next
<1> QED BY <1>1, <1>2

LEMMA CurrentStays ==
  ASSUME Shapes, PillsTruthful, AskedLast, Current, UNCHANGED <<box, asked>>,
         UNCHANGED screen \/ \E s : Reselect(s)
  PROVE  Current'
<1>1. CASE UNCHANGED screen
  BY <1>1 DEF Current
<1>2. CASE screen.kind = "pills" /\ \E s : Reselect(s)
  <2>1. screen'.kind = screen.kind /\ screen'.attr = screen.attr
    BY <1>2, ReselectFacts
  <2>2. asked # Empty /\ asked.lane = "expand"
    <3>1. \A q : Found(q).kind # "pills"
      BY DEF Found
    <3> QED BY <1>2, <3>1, Kinds DEF Current
  <2> QED BY <2>1, <2>2 DEF Current
<1>3. CASE screen.kind # "pills" /\ \E s : Reselect(s)
  BY <1>1, <1>3, ReselectFacts
<1> QED BY <1>1, <1>2, <1>3

LEMMA PickerKept ==
  ASSUME PInv, [Next]_vars
  PROVE  PickerOwes'
<1> USE DEF PInv
<1>1. CASE SomeFailed
  BY <1>1, FailedStays DEF PickerOwes
<1>2. CASE timer'
  BY <1>2 DEF PickerOwes
<1>3. CASE StartSearch
  <2>1. CASE box = ""
    <3>1. box' = "" /\ asked' = Empty /\ screen' = Empty
      BY <1>3, <2>1 DEF StartSearch
    <3> QED BY <3>1 DEF PickerOwes, Current
  <2>2. CASE box # ""
    <3>1. asked' = Search(box) /\ Ask(Search(box)) /\ CallOK(Search(box))
      BY <1>3, <2>2, Kinds DEF StartSearch, CallOK
    <3>2. asked' # Empty /\ Waits(asked)'
      BY <3>1, Kinds, AskedCalls DEF Waits
    <3> QED BY <3>2 DEF PickerOwes
  <2> QED BY <2>1, <2>2
<1>4. ASSUME NEW a \in Attr, StartExpand(a) PROVE PickerOwes'
  <2>1. asked' = Expand(a) /\ Ask(Expand(a)) /\ CallOK(Expand(a))
    BY <1>4, Kinds DEF StartExpand, CallOK
  <2>2. asked' # Empty /\ Waits(asked)'
    BY <2>1, Kinds, AskedCalls DEF Waits
  <2> QED BY <2>2 DEF PickerOwes
<1>5. ASSUME NEW i \in DOMAIN calls, LandPicker(calls[i]), ~Failed(calls[i]),
             UNCHANGED <<box, timer, asked>>, ~timer'
      PROVE  PickerOwes'
  <2>0. PICK c : c = calls[i]
    OBVIOUS
  <2>1. /\ screen' = Shown(c) /\ Drawn("picker", c = asked) /\ c.lane \in {"search", "expand"}
        /\ CallOK(c)
    BY <1>5, <2>0 DEF LandPicker, Shapes
  <2>2. CASE c # asked
    BY <2>1, <2>2 DEF Drawn, PickerOwes
  <2>3. CASE c = asked
    <3>1. CASE c.lane = "expand"
      <4>1. screen'.kind \in {"pills", "not in the index"} /\ screen'.attr = c.attr
        BY <2>1, <3>1, ShownFacts
      <4>2. asked' # Empty /\ asked'.lane = "expand" /\ asked'.attr = c.attr
        BY <1>5, <2>1, <2>3, <3>1, Kinds DEF CallOK
      <4> QED BY <4>1, <4>2 DEF PickerOwes, Current
    <3>2. CASE c.lane = "search"
      <4>1. c = Search(c.query) /\ asked # Empty /\ asked.lane # "expand"
        BY <2>1, <2>3, <3>2, Kinds DEF CallOK
      <4>2. box # "" /\ asked = Search(box)
        BY <1>5, <4>1 DEF AskedLast
      <4>3. c.query = box
        BY <2>3, <4>2, Kinds
      <4>4. screen' = Found(box)
        BY <2>1, <3>2, <4>3, ShownFacts
      <4>5. Current'
        BY <1>5, <4>1, <4>2, <4>4 DEF Current
      <4> QED BY <4>5 DEF PickerOwes
    <3> QED BY <2>1, <3>1, <3>2
  <2> QED BY <2>2, <2>3
<1>6. CASE /\ ~SomeFailed /\ ~timer' /\ UNCHANGED <<box, timer, asked>>
           /\ "picker" \in stale => "picker" \in stale'
           /\ UNCHANGED screen \/ \E s : Reselect(s)
           /\ ~ \E i \in DOMAIN calls : LandPicker(calls[i]) /\ ~Failed(calls[i])
  <2>1. CASE "picker" \in stale
    BY <1>6, <2>1 DEF PickerOwes
  <2>2. CASE Current
    BY <1>6, <2>2, CurrentStays DEF PickerOwes
  <2>3. CASE asked # Empty /\ Waits(asked)
    <3>1. asked.lane \in {"search", "expand"}
      BY <2>3 DEF AskedLast
    <3>2. ~ \E i \in DOMAIN calls :
              /\ CallOK(asked) /\ asked = calls[i]
              /\ LandPicker(asked) \/ LandComplete(asked) \/ LandRange(asked)
      <4> SUFFICES ASSUME NEW i \in DOMAIN calls, CallOK(asked), asked = calls[i],
                          LandPicker(asked) \/ LandComplete(asked) \/ LandRange(asked)
                   PROVE  FALSE
        OBVIOUS
      <4>1. LandPicker(asked)
        BY <3>1 DEF LandComplete, LandRange
      <4>2. Failed(asked)
        BY <1>6, <4>1
      <4> QED BY <1>6, <3>1, <4>2, FailedIsSome
    <3>3. Waits(asked)'
      <4>1. PICK c : c = asked
        OBVIOUS
      <4>2. Waits(c)'
        BY <2>3, <3>1, <3>2, <4>1, WaitsOn
      <4> QED BY <1>6, <4>1, <4>2 DEF Waits
    <3> QED BY <1>6, <2>3, <3>3 DEF PickerOwes
  <2> QED BY <1>6, <2>1, <2>2, <2>3 DEF PickerOwes
<1>7. CASE ~timer' /\ ~SomeFailed
  BY <1>3, <1>4, <1>5, <1>6, <1>7, PickerMoves
<1> QED BY <1>1, <1>2, <1>7


\* The dropdown's part of a step.
LEMMA OfferMoves ==
  ASSUME Shapes, [Next]_vars
  PROVE  \/ offer' = Nothing
         \/ \E f \in Fragments : line' = f /\ Ask(Complete(f))
         \/ \E i \in DOMAIN calls :
              /\ LandComplete(calls[i]) /\ ~Failed(calls[i]) /\ Ready(calls[i])
         \/ UNCHANGED <<line, offer>> /\ ("offer" \in stale => "offer" \in stale')
<1>1. CASE Land
  <2>1. PICK i \in DOMAIN calls :
          /\ LandPicker(calls[i]) \/ LandComplete(calls[i]) \/ LandRange(calls[i])
          /\ Ready(calls[i])
    BY <1>1, Landed
  <2>2. CASE LandPicker(calls[i])
    BY <2>2 DEF LandPicker, Drawn
  <2>3. CASE LandComplete(calls[i]) /\ ~Failed(calls[i])
    BY <2>1, <2>3
  <2>4. CASE LandComplete(calls[i]) /\ Failed(calls[i])
    BY <2>4 DEF LandComplete
  <2>5. CASE LandRange(calls[i])
    BY <2>5 DEF LandRange
  <2> QED BY <2>1, <2>2, <2>3, <2>4, <2>5
<1>2. CASE ~Land
  <2>1. CASE \E f \in Fragments \cup {Nothing} : Edit(f)
    BY <2>1 DEF Edit
  <2>2. CASE Hide \/ Accept \/ (\E f \in Fragments \cup {Nothing} : MoveCaret(f))
    BY <2>2 DEF Hide, Accept, MoveCaret
  <2>3. CASE \E q \in DOMAIN Includes \cup {""} : Type(q)
    BY <2>3 DEF Type
  <2>4. CASE \E a \in Attr : StartExpand(a) \/ \E v \in Built[a] : Pick(v) \/ Drop(<<a, v>>)
    BY <2>4 DEF StartExpand, Pick, Drop
  <2>5. CASE StartSearch
    BY <2>5 DEF StartSearch
  <2>6. CASE UNCHANGED vars \/ NextSpec \/ (\E specs \in Lines : Submit(specs))
             \/ (\E k \in Keys : \E fate \in Fates(k) : Settle(k, fate))
    BY <2>6 DEF vars, NextSpec, Submit, Settle
  <2> QED BY <1>2, <2>1, <2>2, <2>3, <2>4, <2>5, <2>6 DEF Next
<1> QED BY <1>1, <1>2

\* What is offered is still there to be offered.
LEMMA PoolStays ==
  ASSUME Shapes, [Next]_vars, NEW f,
         f.mode # "attr" => f.attr \in Attr /\ promise[MetaKey(f.attr)] \in {"have", "empty"}
  PROVE  /\ Pool(f)' = Pool(f)
         /\ f.mode # "attr" => promise'[MetaKey(f.attr)] \in {"have", "empty"}
<1>1. CASE f.mode = "attr"
  BY <1>1 DEF Pool
<1>2. CASE f.mode # "attr"
  <2>1. promise'[MetaKey(f.attr)] = promise[MetaKey(f.attr)]
    BY <1>2, PromisesStay, NeedsFacts DEF Settled
  <2>2. versionsOf(promise', f.attr) = versionsOf(promise, f.attr)
    BY <2>1 DEF versionsOf, Held
  <2>3. Pool(f)' = Range(versionsOf(promise', f.attr)) \cap Begins[f]
    BY <1>2 DEF Pool
  <2>4. Pool(f) = Range(versionsOf(promise, f.attr)) \cap Begins[f]
    BY <1>2 DEF Pool
  <2> QED BY <1>2, <2>1, <2>2, <2>3, <2>4
<1> QED BY <1>1, <1>2

LEMMA OfferKept ==
  ASSUME PInv, [Next]_vars
  PROVE  OfferOwes'
<1> USE DEF PInv
<1>1. CASE SomeFailed
  BY <1>1, FailedStays DEF OfferOwes
<1>2. CASE offer' = Nothing
  BY <1>2 DEF OfferOwes
<1>3. ASSUME NEW f \in Fragments, line' = f, Ask(Complete(f)) PROVE OfferOwes'
  <2>1. CallOK(Complete(f))
    BY Kinds DEF CallOK
  <2>2. Waits(Complete(f))'
    BY <1>3, <2>1, AskedCalls
  <2>3. Waits(Complete(line))'
    BY <1>3, <2>2 DEF Waits
  <2> QED BY <2>3 DEF OfferOwes
<1>4. ASSUME NEW i \in DOMAIN calls, LandComplete(calls[i]), ~Failed(calls[i]), Ready(calls[i])
      PROVE  OfferOwes'
  <2>0. PICK f \in Fragments : calls[i].fragment = f /\ calls[i].lane = "complete"
    BY <1>4 DEF LandComplete, Shapes, CallOK
  <2>1. /\ offer' = (IF Pool(f) = {} THEN Nothing ELSE f) /\ Drawn("offer", f = line)
        /\ promise' = promise /\ line' = line
    BY <1>4, <2>0 DEF LandComplete
  <2>2. CASE f # line
    BY <2>1, <2>2 DEF Drawn, OfferOwes
  <2>3. CASE f = line /\ Pool(f) # {}
    <3>1. f.mode # "attr" => f.attr \in Attr /\ promise[MetaKey(f.attr)] \in {"have", "empty"}
      <4> SUFFICES ASSUME f.mode # "attr"
                   PROVE  f.attr \in Attr /\ promise[MetaKey(f.attr)] \in {"have", "empty"}
        OBVIOUS
      <4>1. f.attr \in Attr
        BY PickerAssumption
      <4>2. Needs(calls[i]) = {MetaKey(f.attr)}
        BY <2>0, NeedsFacts
      <4> QED BY <1>4, <4>1, <4>2 DEF Ready
    <3>2. Pool(f)' = Pool(f) /\ (f.mode # "attr" => promise'[MetaKey(f.attr)] \in {"have", "empty"})
      BY <3>1, PoolStays
    <3>3. offer' = f /\ line' = f
      BY <2>1, <2>3
    <3>4. Pool(line)' = Pool(f)'
      BY <3>3 DEF Pool
    <3> QED BY <2>3, <3>1, <3>2, <3>3, <3>4 DEF OfferOwes
  <2>4. CASE Pool(f) = {}
    BY <1>2, <2>1, <2>4
  <2> QED BY <2>2, <2>3, <2>4
<1>5. CASE /\ ~SomeFailed /\ UNCHANGED <<line, offer>> /\ offer # Nothing
           /\ "offer" \in stale => "offer" \in stale'
           /\ ~ \E i \in DOMAIN calls : LandComplete(calls[i]) /\ ~Failed(calls[i]) /\ Ready(calls[i])
  <2>1. CASE "offer" \in stale
    BY <1>5, <2>1 DEF OfferOwes
  <2>2. CASE Waits(Complete(line))
    <3>1. PICK c : c = Complete(line)
      OBVIOUS
    <3>2. c.lane = "complete"
      BY <3>1, Kinds
    <3>3. ~ \E i \in DOMAIN calls :
              /\ CallOK(c) /\ c = calls[i] /\ Ready(c)
              /\ LandPicker(c) \/ LandComplete(c) \/ LandRange(c)
      <4> SUFFICES ASSUME NEW i \in DOMAIN calls, CallOK(c), c = calls[i], Ready(c),
                          LandPicker(c) \/ LandComplete(c) \/ LandRange(c)
                   PROVE  FALSE
        OBVIOUS
      <4>1. LandComplete(c)
        BY <3>2 DEF LandPicker, LandRange
      <4>2. Failed(c)
        BY <1>5, <4>1
      <4> QED BY <1>5, <3>2, <4>2, FailedIsSome
    <3>4. Waits(c)'
      BY <2>2, <3>1, <3>2, <3>3, WaitsOn
    <3>5. Waits(Complete(line))'
      BY <1>5, <3>1, <3>4 DEF Waits
    <3> QED BY <3>5 DEF OfferOwes
  <2>3. CASE /\ offer = line /\ Pool(line) # {}
             /\ line.mode # "attr" => line.attr \in Attr /\ promise[MetaKey(line.attr)] \in {"have", "empty"}
    <3>1. PICK f : f = line
      OBVIOUS
    <3>2. Pool(f)' = Pool(f) /\ (f.mode # "attr" => promise'[MetaKey(f.attr)] \in {"have", "empty"})
      BY <2>3, <3>1, PoolStays
    <3>3. offer' = f /\ line' = f /\ Pool(line)' = Pool(f)'
      BY <1>5, <2>3, <3>1 DEF Pool
    <3> QED BY <2>3, <3>1, <3>2, <3>3 DEF OfferOwes
  <2> QED BY <1>5, <2>1, <2>2, <2>3 DEF OfferOwes
<1> QED BY <1>1, <1>2, <1>3, <1>4, <1>5, OfferMoves

LEMMA CaretKept ==
  ASSUME CaretThere, [Next]_vars
  PROVE  CaretThere'
<1>1. CASE (\E f \in Fragments \cup {Nothing} : Edit(f) \/ MoveCaret(f)) \/ Accept
  BY <1>1 DEF Edit, MoveCaret, Accept, CaretThere
<1>2. CASE UNCHANGED <<caret, line>> /\ ("caret" \in stale => "caret" \in stale')
  BY <1>2 DEF CaretThere
<1>3. CASE Land
  <2>1. PICK c : LandPicker(c) \/ LandComplete(c) \/ LandRange(c)
    BY <1>3 DEF Land
  <2> QED BY <1>2, <2>1 DEF LandPicker, LandComplete, LandRange, Drawn
<1>4. CASE \/ Hide \/ StartSearch \/ NextSpec \/ UNCHANGED vars
           \/ (\E q \in DOMAIN Includes \cup {""} : Type(q))
           \/ (\E specs \in Lines : Submit(specs))
           \/ (\E k \in Keys : \E fate \in Fates(k) : Settle(k, fate))
  BY <1>2, <1>4 DEF Hide, StartSearch, NextSpec, vars, Type, Submit, Settle
<1>5. CASE \E a \in Attr : StartExpand(a) \/ \E v \in Built[a] : Pick(v) \/ Drop(<<a, v>>)
  BY <1>2, <1>5 DEF StartExpand, Pick, Drop
<1> QED BY <1>1, <1>3, <1>4, <1>5 DEF Next

-----------------------------------------------------------------------------
(***************************************************************************)
(* The theorems.                                                           *)
(***************************************************************************)
LEMMA InitP == Init => PInv
<1> SUFFICES ASSUME Init PROVE PInv
  OBVIOUS
<1>1. promise \in [Keys -> States] /\ promise[NamesKey] # "empty"
  BY NeedsFacts DEF Init, States
<1>2. calls \in Seq(Range(calls)) /\ DOMAIN calls = {}
  <2>1. calls = <<>>
    BY DEF Init
  <2>2. PICK S : S = Range(calls)
    OBVIOUS
  <2>3. calls \in Seq(S) /\ DOMAIN calls = {}
    BY <2>1
  <2> QED BY <2>2, <2>3
<1>3. /\ screen.kind = "empty" /\ asked = Empty /\ box = "" /\ screen = Empty /\ offer = Nothing
      /\ caret = line
  BY Kinds DEF Init
<1>4. Current /\ AskedLast
  BY <1>3 DEF Current, AskedLast
<1> QED BY <1>1, <1>2, <1>3, <1>4
        DEF PInv, Shapes, NamesFirst, RowsBehind, PillsTruthful, PickerOwes, OfferOwes,
            CaretThere

LEMMA StepP == PInv /\ [Next]_vars => PInv'
<1> SUFFICES ASSUME PInv, [Next]_vars PROVE PInv'
  OBVIOUS
<1>1. Shapes' /\ RowsBehind' /\ PillsTruthful' /\ NamesFirst' /\ AskedLast'
  BY ShapesKept, ScreenKept, NamesKept, AskedKept DEF PInv
<1> QED BY <1>1, PickerKept, OfferKept, CaretKept DEF PInv

\* What the picker and the dropdown rest on: a call is what its lane says, the
\* names are there before anything is shown, the rows are dropped before the
\* pills only while the search that replaces them is about to go on, and each
\* of the two shows what was asked of it last, waits for it, has failed or has
\* drawn something older; search.js and complete.js.
THEOREM Invariant == Spec => []PInv
<1>1. Init => PInv
  BY InitP
<1>2. PInv /\ [Next]_vars => PInv'
  BY StepP
<1> QED BY <1>1, <1>2, PTL DEF Spec

\* A pill is tinted exactly when its version is in the selection, for any index
\* and any order of clicks, chips, range lines and answers; search.js:65, 202.
THEOREM PillsAreTrue == Spec => []PillsTruthful
<1>1. PInv => PillsTruthful
  BY DEF PInv
<1> QED BY <1>1, Invariant, PTL

\* With no answer awaited, the picker and the dropdown are what was asked for
\* last, unless a fetch failed or an older answer was drawn over a newer one,
\* and the dropdown is for where the caret is, unless that was moved without
\* input; search.js:79, complete.js:26, 88.
THEOREM QuietShowsAsked == Spec => []QuietIsCurrent
<1>1. PInv => QuietIsCurrent
  <2> SUFFICES ASSUME PInv, \A i \in DOMAIN calls : calls[i].lane = "range",
                      Range(promise) \cap {"rejected"} = {}
               PROVE  /\ timer \/ "picker" \in stale \/
                           IF asked # Empty /\ asked.lane = "expand"
                             THEN screen.kind \in {"pills", "not in the index"} /\ screen.attr = asked.attr
                           ELSE IF box = "" THEN screen = Empty
                           ELSE screen = Shown(Search(box))
                      /\ offer = Nothing \/ "offer" \in stale \/ OfferCurrent
    BY DEF QuietIsCurrent
  <2>1. ~SomeFailed
    BY DEF SomeFailed
  <2>2. Shown(Search(box)) = Found(box)
    <3>1. PICK c : c = Search(box)
      OBVIOUS
    <3>2. c.lane = "search" /\ c.query = box
      BY <3>1, Kinds
    <3>3. Shown(c) = Found(c.query)
      BY <3>2, ShownFacts
    <3>4. Found(c.query) = Found(box)
      BY <3>2
    <3> QED BY <3>1, <3>3, <3>4
  <2>3. ~ (asked # Empty /\ Waits(asked))
    BY DEF Waits, PInv, AskedLast
  <2>4. ~Waits(Complete(line))
    BY Kinds DEF Waits
  <2>5. timer \/ "picker" \in stale \/ Current
    BY <2>1, <2>3 DEF PInv, PickerOwes
  <2>6. offer = Nothing \/ "offer" \in stale \/ OfferCurrent
    BY <2>1, <2>4 DEF PInv, OfferOwes, CaretThere, OfferCurrent
  <2> QED BY <2>2, <2>5, <2>6 DEF Current
<1> QED BY <1>1, Invariant, PTL
-----------------------------------------------------------------------------
(***************************************************************************)
(* The order of versions.                                                  *)
(***************************************************************************)
Version == Seq(Parts)

LEMMA PartsFacts ==
  ASSUME NEW x \in Parts, NEW y \in Parts
  PROVE  PartOrder(x, y) \in {-1, 0, 1} /\ PartOrder(y, x) = 0 - PartOrder(x, y)
<1>1. x.num \in Int /\ x.lex \in Int /\ y.num \in Int /\ y.lex \in Int
  BY DEF Parts
<1>2. CASE x.num >= 0 /\ y.num >= 0
  BY <1>1, <1>2 DEF PartOrder
<1>3. CASE ~ (x.num >= 0 /\ y.num >= 0)
  BY <1>1, <1>3 DEF PartOrder
<1> QED BY <1>2, <1>3

\* Where two versions have parts that differ.
Apart(a, b) == {i \in DOMAIN a \cap DOMAIN b : PartOrder(a[i], b[i]) # 0}

LEMMA ApartFacts ==
  ASSUME NEW a \in Version, NEW b \in Version
  PROVE  /\ Apart(a, b) \in SUBSET Nat /\ Apart(b, a) = Apart(a, b)
         /\ Len(a) \in Nat /\ Len(b) \in Nat
         /\ DOMAIN a = 1 .. Len(a) /\ DOMAIN b = 1 .. Len(b)
         /\ \A i \in DOMAIN a : a[i] \in Parts
         /\ \A i \in DOMAIN b : b[i] \in Parts
<1>1. /\ Len(a) \in Nat /\ Len(b) \in Nat
      /\ DOMAIN a = 1 .. Len(a) /\ DOMAIN b = 1 .. Len(b)
      /\ \A i \in DOMAIN a : a[i] \in Parts
      /\ \A i \in DOMAIN b : b[i] \in Parts
  BY DEF Version
<1>2. \A i \in DOMAIN a \cap DOMAIN b : PartOrder(a[i], b[i]) # 0 <=> PartOrder(b[i], a[i]) # 0
  BY <1>1, PartsFacts
<1>3. Apart(b, a) = Apart(a, b)
  BY <1>2 DEF Apart
<1>4. Apart(a, b) \in SUBSET Nat
  BY <1>1 DEF Apart
<1> QED BY <1>1, <1>3, <1>4

LEMMA FirstApart ==
  ASSUME NEW a \in Version, NEW b \in Version, Apart(a, b) # {}
  PROVE  \E m \in Apart(a, b) :
           /\ m = Min(Apart(a, b)) /\ m = Min(Apart(b, a))
           /\ m \in Nat /\ m \in DOMAIN a /\ m \in DOMAIN b
           /\ \A j \in 1 .. m - 1 :
                j \in DOMAIN a /\ j \in DOMAIN b /\ PartOrder(a[j], b[j]) = 0 /\ PartOrder(b[j], a[j]) = 0
           /\ compareVersions(a, b) = PartOrder(a[m], b[m])
           /\ compareVersions(b, a) = PartOrder(b[m], a[m])
           /\ PartOrder(a[m], b[m]) \in {-1, 1}
           /\ PartOrder(b[m], a[m]) = 0 - PartOrder(a[m], b[m])
<1> DEFINE m == Min(Apart(a, b))
<1>1. m \in Apart(a, b) /\ \A y \in Apart(a, b) : m <= y
  BY ApartFacts, LeastOfNaturals
<1>2. m \in Nat /\ m \in DOMAIN a /\ m \in DOMAIN b /\ PartOrder(a[m], b[m]) # 0
  BY <1>1, ApartFacts DEF Apart
<1>3. Apart(b, a) = Apart(a, b)
  BY ApartFacts
<1>4. m = Min(Apart(b, a))
  BY <1>3
<1>5. ASSUME NEW j \in 1 .. m - 1
      PROVE  j \in DOMAIN a /\ j \in DOMAIN b /\ PartOrder(a[j], b[j]) = 0 /\ PartOrder(b[j], a[j]) = 0
  <2>1. j \in Nat /\ j < m /\ j \in DOMAIN a /\ j \in DOMAIN b
    BY <1>2, ApartFacts
  <2>2. j \notin Apart(a, b)
    BY <1>1, <1>2, <2>1
  <2>3. PartOrder(a[j], b[j]) = 0
    BY <2>1, <2>2 DEF Apart
  <2>4. PartOrder(b[j], a[j]) = 0 - PartOrder(a[j], b[j])
    BY <2>1, ApartFacts, PartsFacts
  <2> QED BY <2>1, <2>3, <2>4
<1>6. /\ PartOrder(a[m], b[m]) \in {-1, 1}
      /\ PartOrder(b[m], a[m]) = 0 - PartOrder(a[m], b[m])
  <2>1. a[m] \in Parts /\ b[m] \in Parts
    BY <1>2, ApartFacts
  <2> QED BY <1>2, <2>1, PartsFacts
<1>7. compareVersions(a, b) = PartOrder(a[m], b[m])
  BY DEF compareVersions, Apart
<1>8. compareVersions(b, a) = PartOrder(b[m], a[m])
  <2>1. compareVersions(b, a) = PartOrder(b[Min(Apart(b, a))], a[Min(Apart(b, a))])
    BY <1>3 DEF compareVersions, Apart
  <2> QED BY <1>4, <2>1
<1> QED BY <1>1, <1>2, <1>4, <1>5, <1>6, <1>7, <1>8

LEMMA NowhereApart ==
  ASSUME NEW a \in Version, NEW b \in Version, Apart(a, b) = {}
  PROVE  compareVersions(a, b) = IF Len(a) < Len(b) THEN -1 ELSE IF Len(a) > Len(b) THEN 1 ELSE 0
BY DEF compareVersions, Apart

LEMMA CompareFacts ==
  ASSUME NEW a \in Version, NEW b \in Version
  PROVE  compareVersions(a, b) \in {-1, 0, 1} /\ compareVersions(b, a) = 0 - compareVersions(a, b)
<1>1. CASE Apart(a, b) # {}
  BY <1>1, FirstApart
<1>2. CASE Apart(a, b) = {}
  <2>1. Apart(b, a) = {}
    BY <1>2, ApartFacts
  <2> QED BY <1>2, <2>1, NowhereApart, ApartFacts
<1> QED BY <1>1, <1>2

\* The newer of two versions, as compareVersions has it.
LEMMA NewerIs ==
  ASSUME NEW a \in Version, NEW b \in Version
  PROVE  Newer(a, b) <=> compareVersions(a, b) > 0
<1>1. CASE Apart(a, b) # {}
  <2>1. PICK m \in Apart(a, b) :
           /\ m \in Nat /\ m \in DOMAIN a /\ m \in DOMAIN b
           /\ \A j \in 1 .. m - 1 : j \in DOMAIN b /\ PartOrder(a[j], b[j]) = 0
           /\ compareVersions(a, b) = PartOrder(a[m], b[m])
           /\ PartOrder(a[m], b[m]) \in {-1, 1}
    BY <1>1, FirstApart
  <2>2. ASSUME PartOrder(a[m], b[m]) = 1 PROVE Newer(a, b)
    BY <2>1, <2>2 DEF Newer
  <2>3. ASSUME Newer(a, b) PROVE PartOrder(a[m], b[m]) = 1
    <3>1. PICK i \in DOMAIN a :
             /\ \A j \in 1..(i - 1) : j \in DOMAIN b /\ PartOrder(a[j], b[j]) = 0
             /\ i \in DOMAIN b => PartOrder(a[i], b[i]) = 1
      BY <2>3 DEF Newer
    <3>2. i \in Nat /\ i >= 1 /\ m >= 1
      BY <2>1, ApartFacts
    <3>3. ~ (m < i)
      BY <2>1, <3>1, <3>2
    <3>4. i \in DOMAIN b
      BY <2>1, <3>2, <3>3, ApartFacts
    <3>5. ~ (i < m)
      BY <2>1, <3>1, <3>2, <3>4
    <3>6. i = m
      BY <2>1, <3>2, <3>3, <3>5
    <3> QED BY <3>1, <3>4, <3>6
  <2> QED BY <2>1, <2>2, <2>3
<1>2. CASE Apart(a, b) = {}
  <2>1. \A i \in DOMAIN a \cap DOMAIN b : PartOrder(a[i], b[i]) = 0
    BY <1>2 DEF Apart
  <2>2. compareVersions(a, b) > 0 <=> Len(a) > Len(b)
    BY <1>2, NowhereApart, ApartFacts
  <2>3. ASSUME Len(a) > Len(b) PROVE Newer(a, b)
    <3>1. Len(b) + 1 \in DOMAIN a /\ Len(b) + 1 \notin DOMAIN b
      BY <2>3, ApartFacts
    <3>2. \A j \in 1 .. Len(b) + 1 - 1 : j \in DOMAIN a /\ j \in DOMAIN b
      BY <2>3, ApartFacts
    <3> QED BY <2>1, <3>1, <3>2 DEF Newer
  <2>4. ASSUME Newer(a, b) PROVE Len(a) > Len(b)
    <3>1. PICK i \in DOMAIN a : i \in DOMAIN b => PartOrder(a[i], b[i]) = 1
      BY <2>4 DEF Newer
    <3>2. i \notin DOMAIN b
      BY <2>1, <3>1
    <3> QED BY <3>2, ApartFacts
  <2> QED BY <2>2, <2>3, <2>4
<1> QED BY <1>1, <1>2

-----------------------------------------------------------------------------
(***************************************************************************)
(* A finite set that is ordered can be sorted.  Such a relation is a set   *)
(* of pairs here, the newer first.                                         *)
(***************************************************************************)
Orders(G, S) ==
  /\ \A u, v \in S : <<u, v>> \in G \/ <<v, u>> \in G
  /\ \A u, v, w \in S : <<u, v>> \in G /\ <<v, w>> \in G => <<u, w>> \in G

Sorts(s, T, G) ==
  /\ Range(s) = T
  /\ \A i, j \in DOMAIN s : i < j => <<s[i], s[j]>> \in G

IsLast(m, T, G) == m \in T /\ \A v \in T : <<v, m>> \in G

\* It has an oldest element ...
LEMMA OldestExists ==
  ASSUME NEW S, IsFiniteSet(S), NEW G, Orders(G, S)
  PROVE  \A T \in SUBSET S : T # {} => \E m \in T : IsLast(m, T, G)
<1> DEFINE Bad == {T \in SUBSET S : T # {} /\ ~ \E m \in T : IsLast(m, T, G)}
<1> DEFINE B == {Cardinality(T) : T \in Bad}
<1> SUFFICES ASSUME Bad # {} PROVE FALSE
  OBVIOUS
<1>1. \A T \in SUBSET S : IsFiniteSet(T) /\ Cardinality(T) \in Nat
  BY FS_Subset, FS_CardinalityType
<1>2. B \in SUBSET Nat /\ B # {}
  BY <1>1
<1>3. PICK T \in Bad : \A U \in Bad : Cardinality(T) <= Cardinality(U)
  <2>1. Min(B) \in B /\ \A n \in B : Min(B) <= n
    BY <1>2, LeastOfNaturals
  <2> QED BY <2>1
<1>4. PICK x \in T : TRUE
  BY <1>3
<1>5. /\ T \ {x} \in SUBSET S
      /\ Cardinality(T \ {x}) < Cardinality(T)
  BY <1>1, <1>3, <1>4, FS_RemoveElement
<1>6. T \ {x} \notin Bad
  BY <1>1, <1>3, <1>5
<1>7. CASE T \ {x} = {}
  <2>1. IsLast(x, T, G)
    BY <1>3, <1>4, <1>7 DEF IsLast, Orders
  <2> QED BY <1>3, <1>4, <2>1
<1>8. CASE T \ {x} # {}
  <2>1. PICK m \in T \ {x} : IsLast(m, T \ {x}, G)
    BY <1>5, <1>6, <1>8
  <2>2. CASE <<x, m>> \in G
    <3>1. IsLast(m, T, G)
      BY <2>1, <2>2 DEF IsLast
    <3> QED BY <1>3, <2>1, <3>1
  <2>3. CASE <<m, x>> \in G
    <3>1. ASSUME NEW v \in T PROVE <<v, x>> \in G
      <4>1. CASE v = x
        BY <1>3, <1>4, <4>1 DEF Orders
      <4>2. CASE v # x
        <5>1. <<v, m>> \in G /\ v \in S /\ m \in S /\ x \in S
          BY <1>3, <1>4, <2>1, <4>2 DEF IsLast
        <5> QED BY <2>3, <5>1 DEF Orders
      <4> QED BY <4>1, <4>2
    <3>2. IsLast(x, T, G)
      BY <1>4, <3>1 DEF IsLast
    <3> QED BY <1>3, <1>4, <3>2
  <2> QED BY <1>3, <1>4, <2>1, <2>2, <2>3 DEF Orders
<1> QED BY <1>7, <1>8

\* ... which is put behind the others, sorted.
LEMMA Sorted ==
  ASSUME NEW S, IsFiniteSet(S), NEW G, Orders(G, S)
  PROVE  \A T \in SUBSET S : \E s \in [1 .. Cardinality(T) -> T] : Sorts(s, T, G)
<1> DEFINE Bad == {T \in SUBSET S : ~ \E s \in [1 .. Cardinality(T) -> T] : Sorts(s, T, G)}
<1> DEFINE B == {Cardinality(T) : T \in Bad}
<1> SUFFICES ASSUME Bad # {} PROVE FALSE
  OBVIOUS
<1>1. \A T \in SUBSET S : IsFiniteSet(T) /\ Cardinality(T) \in Nat
  BY FS_Subset, FS_CardinalityType
<1>2. B \in SUBSET Nat /\ B # {}
  BY <1>1
<1>3. PICK T \in Bad : \A U \in Bad : Cardinality(T) <= Cardinality(U)
  <2>1. Min(B) \in B /\ \A n \in B : Min(B) <= n
    BY <1>2, LeastOfNaturals
  <2> QED BY <2>1
<1>4. T # {}
  <2> SUFFICES ASSUME T = {} PROVE FALSE
    OBVIOUS
  <2>1. Cardinality(T) = 0
    BY FS_EmptySet
  <2> DEFINE s == [i \in {} |-> i]
  <2>2. s \in [1 .. Cardinality(T) -> T]
    BY <2>1
  <2>3. Sorts(s, T, G)
    BY DEF Sorts, Range
  <2> QED BY <1>3, <2>2, <2>3
<1>5. PICK m \in T : IsLast(m, T, G)
  BY <1>3, <1>4, OldestExists
<1> DEFINE U == T \ {m}
<1> DEFINE n == Cardinality(T)
<1>6. U \in SUBSET S /\ n \in Nat /\ Cardinality(U) = n - 1 /\ n > 0
  <2>1. Cardinality(U) = n - 1 /\ Cardinality(U) \in Nat /\ n \in Nat
    BY <1>1, <1>3, <1>5, FS_RemoveElement
  <2> QED BY <1>3, <2>1
<1>7. U \notin Bad
  <2> HIDE DEF Bad
  <2> QED BY <1>3, <1>6
<1>8. PICK s \in [1 .. n - 1 -> U] : Sorts(s, U, G)
  BY <1>6, <1>7
<1> DEFINE t == [i \in 1 .. n |-> IF i = n THEN m ELSE s[i]]
<1>9. /\ DOMAIN t = 1 .. n /\ t[n] = m
      /\ \A i \in 1 .. n - 1 : i \in 1 .. n /\ t[i] = s[i] /\ s[i] \in U
      /\ \A i \in 1 .. n : i # n => i \in 1 .. n - 1
  BY <1>6
<1> HIDE DEF t
<1>10. t \in [1 .. n -> T]
  BY <1>5, <1>9 DEF t
<1>11. Range(t) = T
  <2>1. Range(s) = U /\ DOMAIN s = 1 .. n - 1
    BY <1>8 DEF Sorts
  <2>2. Range(t) \subseteq T
    BY <1>10 DEF Range
  <2>3. ASSUME NEW v \in T PROVE v \in Range(t)
    <3>1. CASE v = m
      BY <1>6, <1>9, <3>1 DEF Range
    <3>2. CASE v # m
      <4>1. PICK i \in 1 .. n - 1 : s[i] = v
        BY <2>1, <3>2 DEF Range
      <4> QED BY <1>9, <4>1 DEF Range
    <3> QED BY <3>1, <3>2
  <2> QED BY <2>2, <2>3
<1>12. ASSUME NEW i \in DOMAIN t, NEW j \in DOMAIN t, i < j PROVE <<t[i], t[j]>> \in G
  <2>1. i # n /\ i \in 1 .. n - 1
    BY <1>6, <1>9, <1>12
  <2>2. CASE j = n
    BY <1>5, <1>9, <2>1, <2>2 DEF IsLast
  <2>3. CASE j # n
    BY <1>8, <1>9, <1>12, <2>1, <2>3 DEF Sorts
  <2> QED BY <2>2, <2>3
<1>13. Sorts(t, T, G)
  BY <1>11, <1>12 DEF Sorts
<1> QED BY <1>3, <1>10, <1>13

\* The list of the versions of an attribute.
InOrder(versions) ==
  \A u, v, w \in versions :
    compareVersions(u, v) >= 0 /\ compareVersions(v, w) >= 0 => compareVersions(u, w) >= 0

LEMMA NewestFirstSorts ==
  ASSUME NEW S \in SUBSET Version, IsFiniteSet(S), InOrder(S)
  PROVE  /\ NewestFirst(S) \in [1 .. Cardinality(S) -> S] /\ Cardinality(S) \in Nat
         /\ Range(NewestFirst(S)) = S
         /\ \A i, j \in DOMAIN NewestFirst(S) :
              i < j => compareVersions(NewestFirst(S)[i], NewestFirst(S)[j]) >= 0
<1> DEFINE G == {p \in S \X S : compareVersions(p[1], p[2]) >= 0}
<1>1. \A u, v \in S : <<u, v>> \in G <=> compareVersions(u, v) >= 0
  OBVIOUS
<1> HIDE DEF G
<1>2. Orders(G, S)
  <2>1. \A u, v \in S : compareVersions(u, v) >= 0 \/ compareVersions(v, u) >= 0
    BY CompareFacts
  <2> QED BY <1>1, <2>1 DEF Orders, InOrder
<1>3. PICK s \in [1 .. Cardinality(S) -> S] : Sorts(s, S, G)
  BY <1>2, Sorted
<1>4. /\ Range(s) = S
      /\ \A i, j \in DOMAIN s : i < j => compareVersions(s[i], s[j]) >= 0
  <2>1. \A i \in DOMAIN s : s[i] \in S
    BY <1>3
  <2> QED BY <1>1, <1>3, <2>1 DEF Sorts
<1>5. Cardinality(S) \in Nat
  BY FS_CardinalityType
<1> DEFINE lists == {q \in [1 .. Cardinality(S) -> S] : Range(q) = S}
<1> DEFINE sorted == {q \in lists : \A i, j \in DOMAIN q :
                        i < j => compareVersions(q[i], q[j]) >= 0}
<1>6. s \in sorted /\ s \in lists
  BY <1>3, <1>4
<1>7. NewestFirst(S) = CHOOSE q \in lists : sorted # {} => q \in sorted
  BY DEF NewestFirst
<1>8. NewestFirst(S) \in sorted
  <2> HIDE DEF lists, sorted
  <2> QED BY <1>6, <1>7
<1> QED BY <1>5, <1>8

\* Where the parts in one place can be ordered, the versions can.
PartsInOrder ==
  \A a \in Attr : \A u, v, w \in Built[a] : \A i \in DOMAIN u \cap DOMAIN v \cap DOMAIN w :
    PartOrder(u[i], v[i]) >= 0 /\ PartOrder(v[i], w[i]) >= 0 => PartOrder(u[i], w[i]) >= 0

\* They can where no place has a number in one version and a word in another.
Unmixed ==
  \A a \in Attr : \A u, v \in Built[a] : \A i \in DOMAIN u \cap DOMAIN v :
    u[i].num >= 0 <=> v[i].num >= 0

LEMMA UnmixedParts == Unmixed => PartsInOrder
<1> SUFFICES ASSUME Unmixed, NEW a \in Attr, NEW u \in Built[a], NEW v \in Built[a], NEW w \in Built[a],
                    NEW i \in DOMAIN u \cap DOMAIN v \cap DOMAIN w,
                    PartOrder(u[i], v[i]) >= 0, PartOrder(v[i], w[i]) >= 0
             PROVE  PartOrder(u[i], w[i]) >= 0
  BY DEF PartsInOrder
<1>1. u \in Version /\ v \in Version /\ w \in Version
  BY IndexAssumption DEF Version
<1>2. u[i] \in Parts /\ v[i] \in Parts /\ w[i] \in Parts
  BY <1>1 DEF Version
<1>3. (u[i].num >= 0 <=> v[i].num >= 0) /\ (v[i].num >= 0 <=> w[i].num >= 0)
  BY DEF Unmixed
<1>4. ASSUME NEW x \in Parts, NEW y \in Parts, NEW z \in Parts,
             x.num >= 0 <=> y.num >= 0, y.num >= 0 <=> z.num >= 0,
             PartOrder(x, y) >= 0, PartOrder(y, z) >= 0
      PROVE  PartOrder(x, z) >= 0
  <2>1. x.num \in Int /\ x.lex \in Int /\ y.num \in Int /\ y.lex \in Int /\ z.num \in Int /\ z.lex \in Int
    BY DEF Parts
  <2>2. CASE x.num >= 0
    BY <1>4, <2>1, <2>2 DEF PartOrder
  <2>3. CASE ~ (x.num >= 0)
    BY <1>4, <2>1, <2>3 DEF PartOrder
  <2> QED BY <2>2, <2>3
<1> QED BY <1>2, <1>3, <1>4

\* If w were above u, then at the first place at which the three are not all the
\* same, v would be neither above u nor below w, and so the same as both.
LEMMA PartsGiveOrder == PartsInOrder => VersionsInOrder
<1> SUFFICES ASSUME PartsInOrder, NEW a \in Attr,
                    NEW u \in Built[a], NEW v \in Built[a], NEW w \in Built[a],
                    compareVersions(u, v) >= 0, compareVersions(v, w) >= 0, ~ (compareVersions(u, w) >= 0)
             PROVE  FALSE
  BY DEF VersionsInOrder
<1>1. u \in Version /\ v \in Version /\ w \in Version
  BY IndexAssumption DEF Version
<1>2. ~Newer(v, u) /\ ~Newer(w, v) /\ Newer(w, u)
  <2>1. \A x, y \in Version : ~ (compareVersions(x, y) >= 0) <=> Newer(y, x)
    <3> SUFFICES ASSUME NEW x \in Version, NEW y \in Version
                 PROVE  ~ (compareVersions(x, y) >= 0) <=> Newer(y, x)
      OBVIOUS
    <3>1. compareVersions(x, y) \in {-1, 0, 1} /\ compareVersions(y, x) = 0 - compareVersions(x, y)
      BY CompareFacts
    <3>2. Newer(y, x) <=> compareVersions(y, x) > 0
      BY NewerIs
    <3> QED BY <3>1, <3>2
  <2> QED BY <1>1, <2>1
<1>3. PICK i \in DOMAIN w :
        /\ \A j \in 1 .. i - 1 : j \in DOMAIN u /\ PartOrder(w[j], u[j]) = 0
        /\ i \in DOMAIN u => PartOrder(w[i], u[i]) = 1
  BY <1>2 DEF Newer
<1>4. i \in Nat /\ i >= 1 /\ \A j \in 1 .. i - 1 : j \in DOMAIN w
  BY <1>1, ApartFacts
<1> DEFINE Same(j) == j \in DOMAIN v /\ PartOrder(w[j], v[j]) = 0 /\ PartOrder(v[j], u[j]) = 0
<1>5. ASSUME NEW j, j \in DOMAIN u, j \in DOMAIN v, j \in DOMAIN w
      PROVE  /\ u[j] \in Parts /\ v[j] \in Parts /\ w[j] \in Parts
             /\ PartOrder(u[j], v[j]) >= 0 /\ PartOrder(v[j], w[j]) >= 0 => PartOrder(u[j], w[j]) >= 0
             /\ PartOrder(v[j], w[j]) >= 0 /\ PartOrder(w[j], u[j]) >= 0 => PartOrder(v[j], u[j]) >= 0
             /\ PartOrder(w[j], u[j]) >= 0 /\ PartOrder(u[j], v[j]) >= 0 => PartOrder(w[j], v[j]) >= 0
  <2>1. u[j] \in Parts /\ v[j] \in Parts /\ w[j] \in Parts
    BY <1>1, <1>5, ApartFacts
  <2> QED BY <1>5, <2>1 DEF PartsInOrder
\* Where all before a place are the same, v is not above u and not below w there.
<1>6. ASSUME NEW k \in Nat, k \in DOMAIN w, \A j \in 1 .. k - 1 : j \in DOMAIN u /\ Same(j)
      PROVE  /\ k \in DOMAIN v /\ k \in DOMAIN u
             /\ PartOrder(u[k], v[k]) >= 0 /\ PartOrder(v[k], w[k]) >= 0
  <2>1. k \in DOMAIN v /\ PartOrder(w[k], v[k]) # 1
    BY <1>2, <1>6 DEF Newer
  <2>2. k \in DOMAIN u /\ PartOrder(v[k], u[k]) # 1
    BY <1>2, <1>6, <2>1 DEF Newer
  <2>3. u[k] \in Parts /\ v[k] \in Parts /\ w[k] \in Parts
    BY <1>5, <1>6, <2>1, <2>2
  <2>4. /\ PartOrder(w[k], v[k]) \in {-1, 0, 1} /\ PartOrder(v[k], w[k]) = 0 - PartOrder(w[k], v[k])
        /\ PartOrder(v[k], u[k]) \in {-1, 0, 1} /\ PartOrder(u[k], v[k]) = 0 - PartOrder(v[k], u[k])
    BY <2>3, PartsFacts
  <2> QED BY <2>1, <2>2, <2>4
<1>7. CASE \A j \in 1 .. i - 1 : Same(j)
  <2>1. /\ i \in DOMAIN v /\ i \in DOMAIN u
        /\ PartOrder(u[i], v[i]) >= 0 /\ PartOrder(v[i], w[i]) >= 0
    BY <1>3, <1>4, <1>6, <1>7
  <2>2. PartOrder(u[i], w[i]) >= 0 /\ u[i] \in Parts /\ w[i] \in Parts
    BY <1>5, <2>1
  <2>3. PartOrder(u[i], w[i]) = 0 - PartOrder(w[i], u[i]) /\ PartOrder(w[i], u[i]) = 1
    BY <1>3, <2>1, <2>2, PartsFacts
  <2> QED BY <2>2, <2>3
<1>8. CASE ~ \A j \in 1 .. i - 1 : Same(j)
  <2> DEFINE K == {j \in 1 .. i - 1 : ~Same(j)}
  <2>1. K \in SUBSET Nat /\ K # {}
    BY <1>4, <1>8
  <2>2. PICK k \in K : \A j \in K : k <= j
    BY <2>1, LeastOfNaturals
  <2>3. k \in Nat /\ k \in 1 .. i - 1 /\ ~Same(k)
    BY <2>1, <2>2
  <2>4. \A j \in 1 .. k - 1 : j \in 1 .. i - 1 /\ j \notin K
    BY <1>4, <2>2, <2>3
  <2>5. \A j \in 1 .. k - 1 : j \in DOMAIN u /\ Same(j)
    BY <1>3, <2>4
  <2>6. /\ k \in DOMAIN v /\ k \in DOMAIN u /\ k \in DOMAIN w
        /\ PartOrder(u[k], v[k]) >= 0 /\ PartOrder(v[k], w[k]) >= 0
    BY <1>4, <1>6, <2>3, <2>5
  <2>7. PartOrder(w[k], u[k]) = 0
    BY <1>3, <2>3
  <2>8. /\ PartOrder(v[k], u[k]) >= 0 /\ PartOrder(w[k], v[k]) >= 0
        /\ u[k] \in Parts /\ v[k] \in Parts /\ w[k] \in Parts
    BY <1>5, <2>6, <2>7
  <2>9. /\ PartOrder(u[k], v[k]) \in {-1, 0, 1} /\ PartOrder(v[k], u[k]) = 0 - PartOrder(u[k], v[k])
        /\ PartOrder(v[k], w[k]) \in {-1, 0, 1} /\ PartOrder(w[k], v[k]) = 0 - PartOrder(v[k], w[k])
    BY <2>8, PartsFacts
  <2>10. PartOrder(v[k], u[k]) = 0 /\ PartOrder(w[k], v[k]) = 0
    BY <2>6, <2>8, <2>9
  <2> QED BY <2>3, <2>6, <2>10
<1> QED BY <1>7, <1>8

\* compareVersions orders the versions of an attribute if no place in them has a
\* number in one and a word in another; multiverse.js:182.
THEOREM UnmixedIsOrdered == Unmixed => VersionsInOrder
BY UnmixedParts, PartsGiveOrder

-----------------------------------------------------------------------------
(***************************************************************************)
(* A spec: what matches it is what satisfies it, and the first hit is the  *)
(* newest.                                                                 *)
(***************************************************************************)
LEMMA PrefixIs ==
  ASSUME NEW p \in Version, NEW v \in Version
  PROVE  (/\ IsPrefix(p, v)
          /\ Len(v) > Len(p) => v[Len(p) + 1].sep = ".")
         <=> (v = p \/ \E rest \in 1 .. Len(v) : SubSeq(v, 1, rest - 1) = p /\ v[rest].sep = ".")
<1>1. /\ Len(p) \in Nat /\ Len(v) \in Nat /\ SubSeq(p, 1, Len(p)) = p /\ SubSeq(v, 1, Len(v)) = v
  BY DEF Version
<1>2. IsPrefix(p, v) <=> Len(p) <= Len(v) /\ p = SubSeq(v, 1, Len(p))
  BY <1>1 DEF IsPrefix
<1>3. ASSUME IsPrefix(p, v), Len(v) > Len(p) => v[Len(p) + 1].sep = "."
      PROVE  v = p \/ \E rest \in 1 .. Len(v) : SubSeq(v, 1, rest - 1) = p /\ v[rest].sep = "."
  <2>1. CASE Len(v) = Len(p)
    BY <1>1, <1>2, <1>3, <2>1
  <2>2. CASE Len(v) # Len(p)
    <3>0. Len(p) <= Len(v) /\ Len(p) \in Nat /\ Len(v) \in Nat
      BY <1>1, <1>2, <1>3
    <3>1. Len(p) + 1 \in 1 .. Len(v) /\ Len(p) + 1 - 1 = Len(p) /\ Len(v) > Len(p)
      BY <2>2, <3>0
    <3>2. SubSeq(v, 1, Len(p) + 1 - 1) = p
      BY <1>2, <1>3, <3>1
    <3>3. v[Len(p) + 1].sep = "."
      BY <1>1, <1>3, <3>1
    <3> QED BY <3>1, <3>2, <3>3
  <2> QED BY <2>1, <2>2
<1>4. ASSUME v = p
      PROVE  IsPrefix(p, v) /\ (Len(v) > Len(p) => v[Len(p) + 1].sep = ".")
  BY <1>1, <1>2, <1>4
<1>5. ASSUME NEW rest \in 1 .. Len(v), SubSeq(v, 1, rest - 1) = p, v[rest].sep = "."
      PROVE  IsPrefix(p, v) /\ (Len(v) > Len(p) => v[Len(p) + 1].sep = ".")
  <2>1. Len(SubSeq(v, 1, rest - 1)) = rest - 1
    BY <1>1 DEF Version
  <2>2. Len(p) = rest - 1 /\ Len(p) + 1 = rest /\ Len(p) <= Len(v)
    BY <1>1, <1>5, <2>1
  <2> QED BY <1>2, <1>5, <2>2
<1> QED BY <1>3, <1>4, <1>5

LEMMA MatchesIs ==
  ASSUME NEW spec \in Specs, NEW v \in Version
  PROVE  matches(spec, v) <=> Satisfies(spec, v)
<1> DEFINE p == spec.pattern
<1>1. spec.operator \in Operators /\ p \in Version
  BY DEF Specs, Version
<1>2. compareVersions(v, p) \in {-1, 0, 1} /\ compareVersions(p, v) = 0 - compareVersions(v, p)
  BY <1>1, CompareFacts
<1>3. (Newer(v, p) <=> compareVersions(v, p) > 0) /\ (Newer(p, v) <=> compareVersions(p, v) > 0)
  BY <1>1, NewerIs
<1>4. CASE spec.operator = "any"
  BY <1>4 DEF matches, Satisfies
<1>5. CASE spec.operator = "prefix"
  BY <1>1, <1>5, PrefixIs DEF matches, Satisfies
<1>6. CASE spec.operator = ">="
  BY <1>2, <1>3, <1>6 DEF matches, Satisfies
<1>7. CASE spec.operator = "<="
  BY <1>2, <1>3, <1>7 DEF matches, Satisfies
<1>8. CASE spec.operator = ">"
  BY <1>2, <1>3, <1>8 DEF matches, Satisfies
<1>9. CASE spec.operator = "<"
  BY <1>2, <1>3, <1>9 DEF matches, Satisfies
<1> QED BY <1>1, <1>4, <1>5, <1>6, <1>7, <1>8, <1>9 DEF Operators

\* The versions a spec may be answered with.
Fit(spec) == {v \in Built[spec.attr] : Satisfies(spec, v)}

LEMMA FirstHit ==
  ASSUME VersionsInOrder, NEW spec \in Specs, promise[MetaKey(spec.attr)] = "have",
         NEW versions, versions = versionsOf(promise, spec.attr)
  PROVE  /\ Hits(spec, versions) = {} => Fit(spec) = {}
         /\ Hits(spec, versions) # {} =>
              /\ versions[Min(Hits(spec, versions))] \in Fit(spec)
              /\ \A w \in Fit(spec) : ~Newer(w, versions[Min(Hits(spec, versions))])
<1> DEFINE S == Built[spec.attr]
<1> DEFINE hits == Hits(spec, versions)
<1>1. spec.attr \in Attr
  BY DEF Specs
<1>2. S \in SUBSET Version /\ IsFiniteSet(S) /\ InOrder(S)
  BY <1>1, IndexAssumption DEF VersionsInOrder, InOrder, Version
<1>3. versions = NewestFirst(S)
  BY DEF versionsOf, Held
<1> HIDE DEF S
<1>4. /\ DOMAIN versions = 1 .. Cardinality(S) /\ Cardinality(S) \in Nat
      /\ \A i \in DOMAIN versions : versions[i] \in S /\ versions[i] \in Version
      /\ Range(versions) = S
      /\ \A i, j \in DOMAIN versions : i < j => compareVersions(versions[i], versions[j]) >= 0
  <2>1. /\ versions \in [1 .. Cardinality(S) -> S] /\ Cardinality(S) \in Nat
        /\ Range(versions) = S
        /\ \A i, j \in DOMAIN versions : i < j => compareVersions(versions[i], versions[j]) >= 0
    BY <1>2, <1>3, NewestFirstSorts
  <2> QED BY <1>2, <2>1
<1>5. \A i \in DOMAIN versions : i \in hits <=> versions[i] \in Fit(spec)
  <2>1. \A i \in DOMAIN versions : matches(spec, versions[i]) <=> Satisfies(spec, versions[i])
    BY <1>4, MatchesIs
  <2> QED BY <1>4, <2>1 DEF Hits, Fit, S
<1>6. \A w \in Fit(spec) : \E j \in hits : versions[j] = w
  <2>1. \A w \in S : \E j \in DOMAIN versions : versions[j] = w
    BY <1>4 DEF Range
  <2> QED BY <1>5, <2>1 DEF Fit, S
<1>7. hits \in SUBSET Nat /\ hits \subseteq DOMAIN versions
  BY <1>4 DEF Hits
<1> HIDE DEF hits
<1>8. ASSUME hits # {}
      PROVE  versions[Min(hits)] \in Fit(spec) /\ \A w \in Fit(spec) : ~Newer(w, versions[Min(hits)])
  <2>1. Min(hits) \in hits /\ \A j \in hits : Min(hits) <= j
    BY <1>7, <1>8, LeastOfNaturals
  <2>2. ASSUME NEW w \in Fit(spec) PROVE ~Newer(w, versions[Min(hits)])
    <3>1. PICK j \in hits : versions[j] = w
      BY <1>6
    <3>2. w \in Version /\ versions[Min(hits)] \in Version
      BY <1>4, <1>7, <2>1, <3>1
    <3>3. compareVersions(versions[Min(hits)], w) >= 0 \/ versions[Min(hits)] = w
      <4>1. CASE j = Min(hits)
        BY <3>1, <4>1
      <4>2. CASE j # Min(hits)
        <5>1. Min(hits) \in Nat /\ j \in Nat /\ Min(hits) <= j
          BY <1>7, <2>1
        <5>2. Min(hits) \in DOMAIN versions /\ j \in DOMAIN versions /\ Min(hits) < j
          BY <1>7, <2>1, <4>2, <5>1
        <5> QED BY <1>4, <3>1, <5>2
      <4> QED BY <4>1, <4>2
    <3>4. compareVersions(w, versions[Min(hits)]) = 0 - compareVersions(versions[Min(hits)], w)
          /\ compareVersions(versions[Min(hits)], w) \in {-1, 0, 1}
      BY <3>2, CompareFacts
    <3>5. ~ (compareVersions(w, versions[Min(hits)]) > 0)
      BY <3>3, <3>4
    <3> QED BY <3>2, <3>5, NewerIs
  <2> QED BY <1>5, <1>7, <2>1, <2>2
<1>9. hits = {} => Fit(spec) = {}
  BY <1>6
<1> QED BY <1>8, <1>9 DEF hits


-----------------------------------------------------------------------------
(***************************************************************************)
(* The lines that wait, and the last that was answered.                    *)
(***************************************************************************)
\* What the range lane has to say of a spec, on the index as it is loaded.
Answered(pr, spec, resolved, problems) ==
  /\ pr[MetaKey(spec.attr)] \in {"have", "empty"}
  /\ IF pr[MetaKey(spec.attr)] = "empty" \/ Fit(spec) = {} THEN spec \in problems
     ELSE \E v \in Fit(spec) : /\ <<spec.attr, v>> \in Range(resolved)
                               /\ ~\E w \in Fit(spec) : Newer(w, v)

Fields == {"lane", "specs", "todo", "resolved", "problems"}

\* A line of which the specs that are not to do are answered.
LineOK(pr, c) ==
  /\ DOMAIN c = Fields /\ c.lane = "range"
  /\ c.specs \in Seq(Specs) /\ c.todo \in Seq(Specs) /\ Len(c.todo) <= Len(c.specs)
  /\ \A i \in DOMAIN c.todo : c.todo[i] = c.specs[Len(c.specs) - Len(c.todo) + i]
  /\ c.resolved \in Seq(Range(c.resolved))
  /\ \A i \in DOMAIN c.specs :
       i <= Len(c.specs) - Len(c.todo) => Answered(pr, c.specs[i], c.resolved, c.problems)

LinesSoFar ==
  \A i \in DOMAIN calls : calls[i].lane = "range" => LineOK(promise, calls[i]) /\ calls[i].todo # <<>>

LastLine ==
  result # Nothing /\ ~result.failed =>
    /\ result.specs \in Seq(Specs)
    /\ \A i \in DOMAIN result.specs :
         Answered(promise, result.specs[i], result.resolved, result.problems)

\* An answer stays one.
LEMMA AnsweredStays ==
  ASSUME NEW pr, NEW qr, NEW spec, NEW r, NEW s, NEW p, NEW q,
         Answered(pr, spec, r, p), Range(r) \subseteq Range(s), p \subseteq q,
         pr[MetaKey(spec.attr)] \in {"have", "empty"} => qr[MetaKey(spec.attr)] = pr[MetaKey(spec.attr)]
  PROVE  Answered(qr, spec, s, q)
<1>1. qr[MetaKey(spec.attr)] = pr[MetaKey(spec.attr)] /\ pr[MetaKey(spec.attr)] \in {"have", "empty"}
  BY DEF Answered
<1>2. CASE pr[MetaKey(spec.attr)] = "empty" \/ Fit(spec) = {}
  <2>1. spec \in p
    BY <1>2 DEF Answered
  <2> QED BY <1>1, <1>2, <2>1 DEF Answered
<1>3. CASE ~ (pr[MetaKey(spec.attr)] = "empty" \/ Fit(spec) = {})
  <2>1. PICK v \in Fit(spec) : <<spec.attr, v>> \in Range(r) /\ ~\E w \in Fit(spec) : Newer(w, v)
    BY <1>3 DEF Answered
  <2>2. <<spec.attr, v>> \in Range(s)
    BY <2>1
  <2> QED BY <1>1, <1>3, <2>1, <2>2 DEF Answered
<1> QED BY <1>2, <1>3

LEMMA LineStays ==
  ASSUME Shapes, [Next]_vars, NEW c, LineOK(promise, c)
  PROVE  LineOK(promise', c)
<1>1. ASSUME NEW i \in DOMAIN c.specs, i <= Len(c.specs) - Len(c.todo)
      PROVE  Answered(promise', c.specs[i], c.resolved, c.problems)
  <2>1. Answered(promise, c.specs[i], c.resolved, c.problems)
    BY <1>1 DEF LineOK
  <2>2. c.specs[i].attr \in Attr
    <3>1. c.specs \in Seq(Specs)
      BY DEF LineOK
    <3>2. c.specs[i] \in Specs
      BY <1>1, <3>1
    <3> QED BY <3>2 DEF Specs
  <2>3. MetaKey(c.specs[i].attr) \in Keys
    BY <2>2, NeedsFacts
  <2>4. promise[MetaKey(c.specs[i].attr)] \in {"have", "empty"}
          => promise'[MetaKey(c.specs[i].attr)] = promise[MetaKey(c.specs[i].attr)]
    BY <2>3, PromisesStay DEF Settled
  <2> QED BY <2>1, <2>4, AnsweredStays
<1> QED BY <1>1 DEF LineOK

\* What a turn makes of a line.
Turns(c, d, spec, hit, v) ==
  /\ DOMAIN d = Fields /\ d.lane = "range" /\ d.specs = c.specs /\ d.todo = Tail(c.todo)
  /\ hit => d.resolved = Append(c.resolved, <<spec.attr, v>>) /\ d.problems = c.problems
  /\ ~hit => d.resolved = c.resolved /\ d.problems = c.problems \cup {spec}

LEMMA TurnIs ==
  ASSUME NEW c, LineOK(promise, c)
  PROVE  LET spec == Head(c.todo)
             versions == versionsOf(promise, spec.attr)
         IN  Turns(c, Turn(c), spec, Hits(spec, versions) # {}, versions[Min(Hits(spec, versions))])
<1> DEFINE spec == Head(c.todo)
<1> DEFINE versions == versionsOf(promise, spec.attr)
<1> DEFINE hits == Hits(spec, versions)
<1> DEFINE d == Turn(c)
<1>1. DOMAIN c = Fields /\ c.lane = "range"
  BY DEF LineOK
<1>2. d = [c EXCEPT !.todo = Tail(@),
                !.resolved = IF hits = {} THEN @
                             ELSE Append(@, <<spec.attr, versions[Min(hits)]>>),
                !.problems = IF hits = {} THEN @ \cup {spec} ELSE @]
  BY DEF Turn
<1> HIDE DEF spec, hits, versions, d
<1>3. /\ DOMAIN d = Fields /\ d.lane = "range" /\ d.specs = c.specs /\ d.todo = Tail(c.todo)
      /\ d.resolved = IF hits = {} THEN c.resolved ELSE Append(c.resolved, <<spec.attr, versions[Min(hits)]>>)
      /\ d.problems = IF hits = {} THEN c.problems \cup {spec} ELSE c.problems
  BY <1>1, <1>2 DEF Fields
<1>4. Turns(c, d, spec, hits # {}, versions[Min(hits)])
  BY <1>3 DEF Turns
<1> QED BY <1>4 DEF spec, versions, hits, d

LEMMA NoVersions ==
  ASSUME NEW spec
  PROVE  Hits(spec, NewestFirst({})) = {}
<1>1. IsFiniteSet({}) /\ Cardinality({}) = 0
  BY FS_EmptySet
<1>2. {} \in SUBSET Version /\ InOrder({})
  BY DEF InOrder
<1>3. NewestFirst({}) \in [1 .. Cardinality({}) -> {}]
  BY <1>1, <1>2, NewestFirstSorts
<1>4. DOMAIN NewestFirst({}) = 1 .. 0
  BY <1>1, <1>3
<1> QED BY <1>4 DEF Hits

\* The answer a turn finds accounts for its spec.
LEMMA TurnAnswers ==
  ASSUME VersionsInOrder, NEW c, NEW d, NEW spec \in Specs,
         promise[MetaKey(spec.attr)] \in {"have", "empty"},
         c.resolved \in Seq(Range(c.resolved)),
         LET versions == versionsOf(promise, spec.attr)
         IN  Turns(c, d, spec, Hits(spec, versions) # {}, versions[Min(Hits(spec, versions))])
  PROVE  /\ Answered(promise, spec, d.resolved, d.problems)
         /\ d.resolved \in Seq(Range(d.resolved))
         /\ Range(c.resolved) \subseteq Range(d.resolved) /\ c.problems \subseteq d.problems
<1> DEFINE versions == versionsOf(promise, spec.attr)
<1> DEFINE hits == Hits(spec, versions)
<1> DEFINE v == versions[Min(hits)]
<1>1. CASE hits = {}
  <2>1. d.resolved = c.resolved /\ d.problems = c.problems \cup {spec}
    BY <1>1 DEF Turns
  <2>2. promise[MetaKey(spec.attr)] = "have" => Fit(spec) = {}
    BY <1>1, FirstHit
  <2>3. Answered(promise, spec, d.resolved, d.problems)
    BY <2>1, <2>2 DEF Answered
  <2> QED BY <2>1, <2>3
<1>2. CASE hits # {}
  <2>1. d.resolved = Append(c.resolved, <<spec.attr, v>>) /\ d.problems = c.problems
    BY <1>2 DEF Turns
  <2>2. promise[MetaKey(spec.attr)] = "have"
    <3> SUFFICES ASSUME promise[MetaKey(spec.attr)] # "have" PROVE FALSE
      OBVIOUS
    <3>1. versions = NewestFirst({})
      BY DEF versionsOf, Held
    <3> HIDE DEF versions
    <3> QED BY <1>2, <3>1, NoVersions
  <2>3. v \in Fit(spec) /\ \A w \in Fit(spec) : ~Newer(w, v)
    BY <1>2, <2>2, FirstHit
  <2> HIDE DEF v
  <2>4. /\ d.resolved \in Seq(Range(d.resolved))
        /\ \A i \in DOMAIN c.resolved : i \in DOMAIN d.resolved /\ d.resolved[i] = c.resolved[i]
        /\ Len(c.resolved) + 1 \in DOMAIN d.resolved
        /\ d.resolved[Len(c.resolved) + 1] = <<spec.attr, v>>
    BY <2>1, PutLast
  <2>5. Range(c.resolved) \subseteq Range(d.resolved) /\ <<spec.attr, v>> \in Range(d.resolved)
    BY <2>4 DEF Range
  <2>6. Answered(promise, spec, d.resolved, d.problems)
    BY <2>2, <2>3, <2>5 DEF Answered
  <2> QED BY <2>1, <2>4, <2>5, <2>6
<1> QED BY <1>1, <1>2

\* One turn on, a line is accounted for one spec further.
LEMMA TurnKeeps ==
  ASSUME VersionsInOrder, NEW c, LineOK(promise, c), c.todo # <<>>,
         promise[MetaKey(Head(c.todo).attr)] \in {"have", "empty"}
  PROVE  /\ LineOK(promise, Turn(c)) /\ Turn(c).specs = c.specs
         /\ Turn(c).todo = Tail(c.todo) /\ Len(Tail(c.todo)) = Len(c.todo) - 1
<1> DEFINE spec == Head(c.todo)
<1> DEFINE versions == versionsOf(promise, spec.attr)
<1> DEFINE hits == Hits(spec, versions)
<1>1. PICK d : d = Turn(c)
  OBVIOUS
<1>2. Turns(c, d, spec, hits # {}, versions[Min(hits)])
  BY <1>1, TurnIs
<1> DEFINE n == Len(c.specs)
<1> DEFINE m == Len(c.todo)
<1>3. /\ c.specs \in Seq(Specs) /\ c.todo \in Seq(Specs) /\ m <= n
      /\ \A i \in DOMAIN c.todo : c.todo[i] = c.specs[n - m + i]
      /\ c.resolved \in Seq(Range(c.resolved))
      /\ \A i \in DOMAIN c.specs : i <= n - m => Answered(promise, c.specs[i], c.resolved, c.problems)
  BY DEF LineOK
<1>4. n \in Nat /\ m \in Nat /\ m > 0 /\ DOMAIN c.todo = 1 .. m /\ DOMAIN c.specs = 1 .. n
  BY <1>3
<1>5. /\ Tail(c.todo) \in Seq(Specs) /\ Len(Tail(c.todo)) = m - 1 /\ DOMAIN Tail(c.todo) = 1 .. m - 1
      /\ \A i \in 1 .. m - 1 : Tail(c.todo)[i] = c.todo[i + 1]
  BY <1>3
<1>6. spec = c.todo[1] /\ spec \in Specs
  BY <1>3
<1>7. spec = c.specs[n - m + 1]
  <2>1. 1 \in DOMAIN c.todo
    BY <1>4
  <2>2. c.todo[1] = c.specs[n - m + 1]
    BY <1>3, <2>1
  <2> QED BY <1>6, <2>2
<1>8. /\ Answered(promise, spec, d.resolved, d.problems)
      /\ d.resolved \in Seq(Range(d.resolved))
      /\ Range(c.resolved) \subseteq Range(d.resolved) /\ c.problems \subseteq d.problems
  BY <1>2, <1>3, <1>6, TurnAnswers
<1>9. DOMAIN d = Fields /\ d.lane = "range" /\ d.specs = c.specs /\ d.todo = Tail(c.todo)
  BY <1>2 DEF Turns
<1>0. /\ Len(d.specs) = n /\ Len(d.todo) = m - 1
      /\ DOMAIN d.specs = 1 .. n /\ DOMAIN d.todo = 1 .. m - 1
  <2>1. Len(d.specs) = n /\ DOMAIN d.specs = 1 .. n
    BY <1>4, <1>9
  <2>2. Len(d.todo) = m - 1 /\ DOMAIN d.todo = 1 .. m - 1
    BY <1>5, <1>9
  <2> QED BY <2>1, <2>2
<1> HIDE DEF spec, n, m
<1>10. ASSUME NEW i \in DOMAIN d.specs, i <= Len(d.specs) - Len(d.todo)
       PROVE  Answered(promise, d.specs[i], d.resolved, d.problems)
  <2>1. i \in 1 .. n /\ i <= n - m + 1 /\ d.specs[i] = c.specs[i]
    BY <1>0, <1>4, <1>9, <1>10
  <2>2. CASE i = n - m + 1
    BY <1>7, <1>8, <2>1, <2>2
  <2>3. CASE i # n - m + 1
    <3>1. i <= n - m
      BY <1>4, <2>1, <2>3
    <3>2. Answered(promise, c.specs[i], c.resolved, c.problems)
      BY <1>3, <1>4, <2>1, <3>1
    <3> QED BY <1>8, <2>1, <3>2, AnsweredStays
  <2> QED BY <2>2, <2>3
<1>11. ASSUME NEW i \in DOMAIN d.todo PROVE d.todo[i] = d.specs[Len(d.specs) - Len(d.todo) + i]
  <2>0. i \in 1 .. m - 1
    BY <1>0
  <2>1. d.todo[i] = c.todo[i + 1]
    BY <1>5, <1>9, <2>0
  <2>2. i + 1 \in 1 .. m /\ n - m + (i + 1) = n - (m - 1) + i
    BY <1>4, <2>0
  <2>3. c.todo[i + 1] = c.specs[n - m + (i + 1)]
    BY <1>3, <1>4, <2>2
  <2> QED BY <1>0, <1>9, <2>1, <2>2, <2>3
<1>12. Len(d.todo) <= Len(d.specs)
  BY <1>0, <1>3, <1>4
<1>13. LineOK(promise, d)
  BY <1>3, <1>5, <1>8, <1>9, <1>10, <1>11, <1>12 DEF LineOK
<1> QED BY <1>1, <1>5, <1>9, <1>13 DEF m

\* A line that is submitted has nothing behind it.
LEMMA ResolveIs ==
  ASSUME NEW specs \in Lines
  PROVE  LineOK(promise, Resolve(specs)) /\ Resolve(specs).todo # <<>> /\ Resolve(specs).lane = "range"
<1>1. specs \in Seq(Specs) /\ specs # <<>>
  BY PickerAssumption
<1>2. PICK c : c = Resolve(specs)
  OBVIOUS
<1>3. /\ DOMAIN c = Fields /\ c.lane = "range" /\ c.specs = specs /\ c.todo = specs
      /\ c.resolved = <<>> /\ c.problems = {}
  BY <1>2 DEF Resolve, Fields
<1>4. c.resolved \in Seq(Range(c.resolved))
  BY <1>3
<1>5. Len(specs) \in Nat /\ DOMAIN specs = 1 .. Len(specs)
  BY <1>1
<1>6. \A i \in DOMAIN c.specs : ~ (i <= Len(c.specs) - Len(c.todo))
  BY <1>3, <1>5
<1>7. \A i \in DOMAIN c.todo : c.todo[i] = c.specs[Len(c.specs) - Len(c.todo) + i]
  BY <1>3, <1>5
<1>8. LineOK(promise, c)
  BY <1>1, <1>3, <1>4, <1>5, <1>6, <1>7 DEF LineOK
<1> QED BY <1>1, <1>2, <1>3, <1>8

LEMMA RangeReady ==
  ASSUME NEW c, c.lane = "range", Ready(c), ~Failed(c)
  PROVE  promise[MetaKey(Head(c.todo).attr)] \in {"have", "empty"}
<1>1. Needs(c) = {MetaKey(Head(c.todo).attr)}
  BY DEF Needs
<1> QED BY <1>1 DEF Ready

LEMMA LinesKept ==
  ASSUME VersionsInOrder, Shapes, LinesSoFar, [Next]_vars
  PROVE  LinesSoFar'
<1> DEFINE OK(c) == c.lane = "range" => LineOK(promise, c) /\ c.todo # <<>>
<1>1. ASSUME \A i \in DOMAIN calls' : OK(calls'[i])
      PROVE  LinesSoFar'
  <2> SUFFICES ASSUME NEW i \in DOMAIN calls', calls'[i].lane = "range"
               PROVE  LineOK(promise', calls'[i]) /\ calls'[i].todo # <<>>
    BY DEF LinesSoFar
  <2>1. LineOK(promise, calls'[i]) /\ calls'[i].todo # <<>>
    BY <1>1
  <2> QED BY <2>1, LineStays
<1> SUFFICES \A i \in DOMAIN calls' : OK(calls'[i])
  BY <1>1
<1>2. \A i \in DOMAIN calls : OK(calls[i])
  BY DEF LinesSoFar
<1> HIDE DEF OK
<1>3. CASE UNCHANGED calls
  BY <1>2, <1>3
<1>4. ASSUME NEW c, CallOK(c), Ask(c), OK(c)
      PROVE  \A i \in DOMAIN calls' : OK(calls'[i])
  BY <1>2, <1>4, AskedCalls
<1>5. \A c : c.lane # "range" => OK(c)
  BY DEF OK
<1>6. CASE Land
  <2>1. PICK i \in DOMAIN calls : calls' = RemoveAt(calls, i)
    BY <1>6, Landed
  <2>2. \A j \in DOMAIN calls' : \E k \in DOMAIN calls : k # i /\ calls'[j] = calls[k]
    BY <2>1, TakenOut DEF Shapes
  <2> QED BY <1>2, <2>2
<1>7. CASE NextSpec
  <2>1. PICK i \in DOMAIN calls :
          /\ i = Min(Landing) /\ i \in Landing /\ calls[i].lane = "range"
          /\ calls' = [calls EXCEPT ![i] = Turn(calls[i])]
    BY <1>7, NextSpecFacts
  <2>2. DOMAIN calls' = DOMAIN calls /\ calls'[i] = Turn(calls[i])
        /\ \A j \in DOMAIN calls : j # i => calls'[j] = calls[j]
    BY <2>1, Turned DEF Shapes
  <2>3. ~Failed(calls[i]) /\ Len(calls[i].todo) > 1 /\ Ready(calls[i])
    BY <1>7, <2>1 DEF NextSpec, Landing
  <2>4. LineOK(promise, calls[i]) /\ calls[i].todo # <<>>
    BY <2>1 DEF LinesSoFar
  <2>5. /\ LineOK(promise, Turn(calls[i])) /\ Turn(calls[i]).todo = Tail(calls[i].todo)
        /\ Len(Tail(calls[i].todo)) = Len(calls[i].todo) - 1
    BY <2>1, <2>3, <2>4, RangeReady, TurnKeeps
  <2>6. Turn(calls[i]).todo # <<>>
    <3>1. calls[i].todo \in Seq(Specs)
      BY <2>4 DEF LineOK
    <3>2. Len(calls[i].todo) \in Nat /\ Len(calls[i].todo) - 1 # 0
      <4>1. Len(calls[i].todo) > 1
        BY <2>3
      <4>2. Len(calls[i].todo) \in Nat
        BY <3>1
      <4>3. \A n \in Nat : n > 1 => n - 1 # 0
        OBVIOUS
      <4> QED BY <4>1, <4>2, <4>3, Zenon
    <3>3. Len(Turn(calls[i]).todo) # 0
      BY <2>5, <3>2, Zenon
    <3>4. Len(<<>>) = 0
      OBVIOUS
    <3> QED BY <3>3, <3>4, Zenon
  <2>7. OK(Turn(calls[i]))
    BY <2>5, <2>6 DEF OK
  <2> QED BY <1>2, <2>2, <2>7
<1>8. CASE StartSearch
  <2>1. UNCHANGED calls \/ Ask(Search(box))
    BY <1>8 DEF StartSearch
  <2>2. CallOK(Search(box)) /\ OK(Search(box))
    BY <1>5, Kinds DEF CallOK
  <2> QED BY <1>3, <1>4, <2>1, <2>2
<1>9. ASSUME NEW a \in Attr, StartExpand(a)
      PROVE  \A i \in DOMAIN calls' : OK(calls'[i])
  <2>1. Ask(Expand(a))
    BY <1>9 DEF StartExpand
  <2>2. CallOK(Expand(a)) /\ OK(Expand(a))
    BY <1>5, Kinds DEF CallOK
  <2> QED BY <1>4, <2>1, <2>2
<1>10. ASSUME NEW f \in Fragments \cup {Nothing}, Edit(f)
       PROVE  \A i \in DOMAIN calls' : OK(calls'[i])
  <2>1. UNCHANGED calls \/ (f \in Fragments /\ Ask(Complete(f)))
    BY <1>10 DEF Edit
  <2>2. f \in Fragments => CallOK(Complete(f)) /\ OK(Complete(f))
    BY <1>5, Kinds DEF CallOK
  <2> QED BY <1>3, <1>4, <2>1, <2>2
<1>11. ASSUME NEW specs \in Lines, Submit(specs)
       PROVE  \A i \in DOMAIN calls' : OK(calls'[i])
  <2>1. Ask(Resolve(specs))
    BY <1>11 DEF Submit
  <2>2. CallOK(Resolve(specs))
    BY Kinds DEF CallOK
  <2>3. OK(Resolve(specs))
    BY ResolveIs DEF OK
  <2> QED BY <1>4, <2>1, <2>2, <2>3
<1>12. CASE UNCHANGED vars \/ Hide \/ Accept
            \/ (\E f \in Fragments \cup {Nothing} : MoveCaret(f)) \/ (\E q \in DOMAIN Includes \cup {""} : Type(q))
           \/ (\E a \in Attr : \E v \in Built[a] : Pick(v) \/ Drop(<<a, v>>))
           \/ (\E k \in Keys : \E fate \in Fates(k) : Settle(k, fate))
  <2>1. UNCHANGED calls
    BY <1>12 DEF vars, Hide, Accept, MoveCaret, Type, Pick, Drop, Settle
  <2> QED BY <1>3, <2>1
<1> QED BY <1>6, <1>7, <1>8, <1>9, <1>10, <1>11, <1>12 DEF Next

\* What becomes of the answer on the screen.
LEMMA ResultFate ==
  ASSUME Shapes, [Next]_vars
  PROVE  \/ result' = result \/ result' = Nothing
         \/ \E i \in DOMAIN calls :
              /\ calls[i].lane = "range" /\ Ready(calls[i])
              /\ \/ result' = [specs |-> calls[i].specs, failed |-> TRUE]
                 \/ /\ ~Failed(calls[i]) /\ Len(calls[i].todo) = 1
                    /\ result' = [specs |-> calls[i].specs, failed |-> FALSE,
                                  resolved |-> Turn(calls[i]).resolved,
                                  problems |-> Turn(calls[i]).problems]
<1>1. CASE Land
  <2>1. PICK i \in DOMAIN calls :
           /\ Ready(calls[i])
           /\ LandPicker(calls[i]) \/ LandComplete(calls[i]) \/ LandRange(calls[i])
    BY <1>1, Landed
  <2>2. CASE LandPicker(calls[i]) \/ LandComplete(calls[i])
    BY <2>2 DEF LandPicker, LandComplete
  <2>3. CASE LandRange(calls[i])
    BY <2>1, <2>3 DEF LandRange
  <2> QED BY <2>1, <2>2, <2>3
<1>2. CASE \E specs \in Lines : Submit(specs)
  BY <1>2 DEF Submit
<1>3. CASE UNCHANGED vars \/ StartSearch \/ NextSpec \/ Hide \/ Accept
           \/ (\E f \in Fragments \cup {Nothing} : MoveCaret(f))
           \/ (\E q \in DOMAIN Includes \cup {""} : Type(q))
           \/ (\E a \in Attr : StartExpand(a))
           \/ (\E a \in Attr : \E v \in Built[a] : Pick(v) \/ Drop(<<a, v>>))
           \/ (\E f \in Fragments \cup {Nothing} : Edit(f))
           \/ (\E k \in Keys : \E fate \in Fates(k) : Settle(k, fate))
  BY <1>3 DEF vars, StartSearch, NextSpec, Hide, Accept, MoveCaret, Type, StartExpand, Pick, Drop, Edit, Settle
<1> QED BY <1>1, <1>2, <1>3 DEF Next

LEMMA LastKept ==
  ASSUME VersionsInOrder, Shapes, LinesSoFar, LastLine, [Next]_vars
  PROVE  LastLine'
<1>1. ASSUME NEW spec \in Specs, NEW r, NEW p, Answered(promise, spec, r, p)
      PROVE  Answered(promise', spec, r, p)
  <2>1. MetaKey(spec.attr) \in Keys
    BY NeedsFacts DEF Specs
  <2>2. promise[MetaKey(spec.attr)] \in {"have", "empty"}
          => promise'[MetaKey(spec.attr)] = promise[MetaKey(spec.attr)]
    BY <2>1, PromisesStay DEF Settled
  <2> QED BY <1>1, <2>2, AnsweredStays
<1>2. CASE result' = result
  <2> SUFFICES ASSUME result # Nothing, ~result.failed
               PROVE  /\ result.specs \in Seq(Specs)
                      /\ \A i \in DOMAIN result.specs :
                           Answered(promise', result.specs[i], result.resolved, result.problems)
    BY <1>2 DEF LastLine
  <2>1. /\ result.specs \in Seq(Specs)
        /\ \A i \in DOMAIN result.specs :
             Answered(promise, result.specs[i], result.resolved, result.problems)
    BY DEF LastLine
  <2>2. \A i \in DOMAIN result.specs : result.specs[i] \in Specs
    BY <2>1
  <2> QED BY <1>1, <2>1, <2>2
<1>3. CASE result' = Nothing
  BY <1>3 DEF LastLine
<1>4. ASSUME NEW specs, result' = [specs |-> specs, failed |-> TRUE]
      PROVE  LastLine'
  <2>1. result'.failed
    BY <1>4
  <2> QED BY <2>1 DEF LastLine
<1>5. ASSUME NEW i \in DOMAIN calls, calls[i].lane = "range", Ready(calls[i]), ~Failed(calls[i]),
             Len(calls[i].todo) = 1,
             result' = [specs |-> calls[i].specs, failed |-> FALSE,
                        resolved |-> Turn(calls[i]).resolved, problems |-> Turn(calls[i]).problems]
      PROVE  LastLine'
  <2> DEFINE d == Turn(calls[i])
  <2>1. LineOK(promise, calls[i]) /\ calls[i].todo # <<>>
    BY <1>5 DEF LinesSoFar
  <2>2. /\ LineOK(promise, d) /\ d.specs = calls[i].specs
        /\ d.todo = Tail(calls[i].todo) /\ Len(Tail(calls[i].todo)) = Len(calls[i].todo) - 1
    BY <1>5, <2>1, RangeReady, TurnKeeps
  <2>3. result'.specs = d.specs /\ result'.resolved = d.resolved /\ result'.problems = d.problems
    BY <1>5, <2>2
  <2> HIDE DEF d
  <2>4. Len(d.todo) = 0
    BY <1>5, <2>2
  <2>5. d.specs \in Seq(Specs)
        /\ \A j \in DOMAIN d.specs :
             j <= Len(d.specs) - Len(d.todo) => Answered(promise, d.specs[j], d.resolved, d.problems)
    BY <2>2 DEF LineOK
  <2>6. \A j \in DOMAIN d.specs : j <= Len(d.specs) - Len(d.todo) /\ d.specs[j] \in Specs
    BY <2>4, <2>5
  <2>7. \A j \in DOMAIN d.specs : Answered(promise', d.specs[j], d.resolved, d.problems)
    BY <1>1, <2>5, <2>6
  <2> QED BY <2>3, <2>5, <2>7 DEF LastLine
<1> QED BY <1>2, <1>3, <1>4, <1>5, ResultFate

LEMMA InitR == Init => LinesSoFar /\ LastLine
<1>1. Init => calls = <<>> /\ result = Nothing
  BY DEF Init
<1> QED BY <1>1 DEF LinesSoFar, LastLine

\* The answer of the range lane accounts for every spec of the line, whatever was
\* typed, picked or submitted meanwhile and in whatever order the files came: by
\* the newest version that was built and satisfies it, or by saying that there is
\* none.  It is taken for granted that compareVersions orders the versions of an
\* attribute; ranges.js:71.
THEOREM LinesAreAnswered ==
  ASSUME VersionsInOrder
  PROVE  Spec => []RangeAccounts
<1>1. Init => LinesSoFar /\ LastLine
  BY InitR
<1>2. PInv /\ LinesSoFar /\ LastLine /\ [Next]_vars => (LinesSoFar /\ LastLine)'
  BY LinesKept, LastKept DEF PInv
<1>3. LastLine => RangeAccounts
  BY DEF LastLine, RangeAccounts, Answered, Fit
<1>4. Spec => [](LinesSoFar /\ LastLine)
  BY <1>1, <1>2, Invariant, PTL DEF Spec
<1> QED BY <1>3, <1>4, PTL
=============================================================================
