-------------------------- MODULE Selection_proofs --------------------------
(***************************************************************************)
(* Theorems about Selection, for any caches and what they hold, any lists  *)
(* of them, any links and any number of visits.                            *)
(***************************************************************************)
EXTENDS Selection, WellFoundedInduction, TLAPS

-----------------------------------------------------------------------------
(***************************************************************************)
(* The inductive invariant.                                                *)
(***************************************************************************)
Entries == [lane : Lanes, held : Answers, source : Caches, crossed : BOOLEAN]
ProbeCalls == [digest : Digest, list : Seq(Caches) \ {<<>>}, asked : BOOLEAN, live : BOOLEAN]
LinkType == [pkgs : SUBSET (Digest \cup {Absent}), paths : SUBSET Digest, caches : Seq(Caches)]

Shapes ==
  /\ visit \in Nat /\ chips \subseteq Digest /\ extra \in Seq(Caches)
  /\ entry \in [Digest -> Entries] /\ probes \subseteq ProbeCalls
  /\ todo \subseteq Digest \cup {Absent} /\ address \in LinkType

LiveOf(d) == {p \in probes : p.digest = d /\ p.live}

\* A probe has some of the caches behind it, which gave what it makes of them.
Progress(p) ==
  LET all == readSubstituters(extra)
  IN  \E k \in Nat :
        /\ Len(all) = Len(p.list) + k
        /\ \A i \in 1 .. Len(p.list) : p.list[i] = all[k + i]
        /\ \A i \in 1 .. k : Ask(all[i], p.digest) # "text"
        /\ p.asked <=> \E i \in 1 .. k : Ask(all[i], p.digest) = "null"

\* A mark that is no "yes" is what all the caches come to.
Answered(d) ==
  LET all == readSubstituters(extra)
  IN  /\ entry[d].held # "unasked"
      /\ entry[d].held # "yes" =>
           /\ \A i \in 1 .. Len(all) : Ask(all[i], d) # "text"
           /\ entry[d].held = "no" <=> \E i \in 1 .. Len(all) : Ask(all[i], d) = "null"

\* A chip's one probe is under way, or it has left its answer.
Foretold(d) ==
  /\ entry[d].held = "yes" => Ask(entry[d].source, d) = "text"
  /\ \/ entry[d].crossed
     \/ /\ LiveOf(d) # {} /\ entry[d].held # "yes"
        /\ \A p, q \in LiveOf(d) : p = q
        /\ \A p \in LiveOf(d) : Progress(p)
     \/ LiveOf(d) = {} /\ Answered(d)

\* The link in the address bar says what is on the screen.
AddressTrue == visit > 0 => address = urlState(chips, entry, extra)

\* What is not on the screen yet is still to be looked up.
RestoreOwes ==
  visit > 0 /\ kept =>
    /\ (chips \cup todo) \ {Absent} = (shown.pkgs \cup shown.paths) \ {Absent}
    /\ extra = shown.caches

SInv == Shapes /\ AddressTrue /\ RestoreOwes /\ \A d \in chips : Foretold(d)

-----------------------------------------------------------------------------
(***************************************************************************)
(* The caches.                                                             *)
(***************************************************************************)
LEMMA ListFacts ==
  ASSUME NEW list \in Seq(Caches)
  PROVE  /\ readSubstituters(list) \in Seq(Caches) \ {<<>>}
         /\ Len(readSubstituters(list)) = Len(list) + 1 /\ Len(list) \in Nat
         /\ DOMAIN readSubstituters(list) = 1 .. Len(readSubstituters(list))
         /\ Range(readSubstituters(list)) =
              {readSubstituters(list)[i] : i \in 1 .. Len(readSubstituters(list))}
<1>1. NixOS \in Caches
  BY DEF Caches
<1>2. <<NixOS>> \in Seq(Caches) /\ Len(<<NixOS>>) = 1
  BY <1>1
<1>3. PICK all : all = readSubstituters(list)
  OBVIOUS
<1>4. all \in Seq(Caches) /\ Len(all) = 1 + Len(list) /\ Len(list) \in Nat
  BY <1>2, <1>3 DEF readSubstituters
<1>5. all # <<>> /\ DOMAIN all = 1 .. Len(all)
  BY <1>4
<1>6. Range(all) = {all[i] : i \in 1 .. Len(all)}
  BY <1>5 DEF Range
<1> QED BY <1>3, <1>4, <1>5, <1>6

LEMMA Answering ==
  ASSUME NEW c, NEW d
  PROVE  /\ Ask(c, d) \in {"text", "null", "throws"}
         /\ Ask(c, d) = "text" <=> <<c, d>> \in stored \/ (c \notin down /\ <<c, d>> \in holds)
         /\ Ask(c, d) = "null" <=> <<c, d>> \notin stored /\ c \notin down /\ <<c, d>> \notin holds
<1>1. CASE <<c, d>> \in stored
  BY <1>1 DEF Ask
<1>2. CASE <<c, d>> \notin stored /\ c \in down
  BY <1>2 DEF Ask
<1>3. CASE <<c, d>> \notin stored /\ c \notin down
  BY <1>3 DEF Ask
<1> QED BY <1>1, <1>2, <1>3

LEMMA LeastOfNaturals ==
  ASSUME NEW S \in SUBSET Nat, S # {}
  PROVE  \E x \in S : \A y \in S : x <= y
<1> DEFINE R == OpToRel(<, Nat)
<1>1. IsWellFoundedOn(R, Nat)
  BY NatLessThanWellFounded
<1>2. \A x, y \in Nat : x < y => <<x, y>> \in R
  BY DEF OpToRel
<1> HIDE DEF R
<1>3. PICK x \in S : \A y \in S : ~ (<<y, x>> \in R)
  BY <1>1, WFMin
<1>4. \A y \in S : ~ (y < x)
  BY <1>2, <1>3
<1>5. \A y \in S : x <= y
  BY <1>4, SMT
<1> QED BY <1>5

\* The cache a walk takes a narinfo from has it.
LEMMA WalkTakes ==
  ASSUME NEW d, extra \in Seq(Caches), Serving(d, extra) # {}
  PROVE  Ask(fetchNarinfo(d, extra), d) = "text"
<1>1. Serving(d, extra) \subseteq Nat
  BY ListFacts DEF Serving
<1>2. \E i \in Serving(d, extra) : \A j \in Serving(d, extra) : i <= j
  BY <1>1, LeastOfNaturals
<1>3. PICK i : i = CHOOSE k \in Serving(d, extra) : \A j \in Serving(d, extra) : k <= j
  OBVIOUS
<1>4. i \in Serving(d, extra)
  BY <1>2, <1>3
<1>5. fetchNarinfo(d, extra) = readSubstituters(extra)[i]
  BY <1>3 DEF fetchNarinfo
<1> QED BY <1>4, <1>5 DEF Serving

\* In one visit a cache comes to the same thing whenever it is asked: the
\* persistent cache only takes in what it would have got.
LEMMA AskStays ==
  ASSUME Shapes, [Next]_vars, ~Open
  PROVE  \A c, d : Ask(c, d)' = Ask(c, d)
<1>1. UNCHANGED <<holds, down>>
  BY DEF Next, vars, world, Toggle, Enter, EnterCaches, ProbeStep, Walk, RestoreStep
<1>2. stored' = stored \/ \E c, d : Ask(c, d) = "text" /\ stored' = stored \cup {<<c, d>>}
  <2>1. CASE \E p \in probes : ProbeStep(p)
    BY <2>1 DEF ProbeStep, Keep
  <2>2. CASE \E d \in Digest : Walk(d)
    <3>1. PICK d \in Digest : Walk(d)
      BY <2>2
    <3>2. Ask(fetchNarinfo(d, extra), d) = "text"
      BY <3>1, WalkTakes DEF Walk, Shapes
    <3> QED BY <3>1, <3>2 DEF Walk
  <2>3. CASE ~ (\E p \in probes : ProbeStep(p)) /\ ~ \E d \in Digest : Walk(d)
    BY <2>3 DEF Next, vars, Toggle, Enter, EnterCaches, RestoreStep
  <2> QED BY <2>1, <2>2, <2>3
<1> SUFFICES ASSUME NEW c, NEW d PROVE Ask(c, d)' = Ask(c, d)
  OBVIOUS
<1>3. \A x, y : <<x, y>> = <<c, d>> => x = c /\ y = d
  OBVIOUS
<1>4. <<c, d>> \in stored' => <<c, d>> \in stored \/ Ask(c, d) = "text"
  BY <1>2, <1>3
<1>5. stored \subseteq stored'
  BY <1>2
<1>6. CASE Ask(c, d) = "text"
  <2>1. <<c, d>> \in stored \/ (c \notin down /\ <<c, d>> \in holds)
    BY <1>6, Answering
  <2> QED BY <1>1, <1>5, <1>6, <2>1 DEF Ask
<1>7. CASE Ask(c, d) # "text"
  <2>1. <<c, d>> \notin stored /\ <<c, d>> \notin stored'
    BY <1>4, <1>7, Answering
  <2> QED BY <1>1, <2>1 DEF Ask
<1> QED BY <1>6, <1>7

-----------------------------------------------------------------------------
(***************************************************************************)
(* What a step does to the probes of a chip.                               *)
(***************************************************************************)
Fresh(d, list) ==
  [digest |-> d, list |-> readSubstituters(list), asked |-> FALSE, live |-> TRUE]

LEMMA FreshType ==
  ASSUME NEW list \in Seq(Caches), NEW d \in Digest
  PROVE  Fresh(d, list) \in ProbeCalls /\ Fresh(d, list).digest = d /\ Fresh(d, list).live
<1>1. readSubstituters(list) \in Seq(Caches) \ {<<>>}
  BY ListFacts
<1> QED BY <1>1 DEF Fresh, ProbeCalls

LEMMA BegunFacts ==
  ASSUME NEW list \in Seq(Caches), NEW D \in SUBSET Digest
  PROVE  /\ Begun(D, list) \subseteq ProbeCalls
         /\ \A d \in D : Fresh(d, list) \in Begun(D, list)
         /\ \A p \in Begun(D, list) : p.digest \in D /\ p = Fresh(p.digest, list) /\ p.live
<1>1. Begun(D, list) = {Fresh(d, list) : d \in D}
  BY DEF Begun, Fresh
<1> QED BY <1>1, FreshType

LEMMA EndedFacts ==
  ASSUME probes \subseteq ProbeCalls, NEW D \in SUBSET Digest
  PROVE  /\ Ended(D) \subseteq ProbeCalls
         /\ \A p \in Ended(D) : p.live => p \in probes /\ p.digest \notin D
         /\ \A p \in probes : p.live /\ p.digest \notin D => p \in Ended(D)
<1> DEFINE E(p) == [p EXCEPT !.live = @ /\ p.digest \notin D]
<1>1. ASSUME NEW p \in probes
      PROVE  /\ E(p) \in ProbeCalls /\ E(p).digest = p.digest
             /\ E(p).live => E(p) = p /\ p.live /\ p.digest \notin D
             /\ p.live /\ p.digest \notin D => E(p) = p
  <2>1. PICK dg \in Digest, ls \in Seq(Caches) \ {<<>>}, as \in BOOLEAN, lv \in BOOLEAN :
          p = [digest |-> dg, list |-> ls, asked |-> as, live |-> lv]
    BY DEF ProbeCalls
  <2>2. PICK b \in BOOLEAN : b = (p.live /\ p.digest \notin D)
    OBVIOUS
  <2>3. p.digest = dg /\ p.live = lv
    BY <2>1
  <2>4. b <=> lv /\ dg \notin D
    BY <2>2, <2>3
  <2>5. PICK e : e = E(p)
    OBVIOUS
  <2>6. e = [p EXCEPT !.live = b]
    BY <2>2, <2>5
  <2>7. e = [digest |-> dg, list |-> ls, asked |-> as, live |-> b]
    BY <2>1, <2>6
  <2>8. b => b = lv
    BY <2>4
  <2>9. e \in ProbeCalls
    BY <2>7 DEF ProbeCalls
  <2>10. e.digest = dg /\ e.live = b
    BY <2>7
  <2>11. b => e = p
    BY <2>1, <2>7, <2>8
  <2> HIDE DEF E
  <2> QED BY <2>3, <2>4, <2>5, <2>9, <2>10, <2>11
<1>2. Ended(D) = {E(p) : p \in probes}
  BY DEF Ended
<1> HIDE DEF E
<1> QED BY <1>1, <1>2

LEMMA SelectFacts ==
  ASSUME Shapes, NEW d \in Digest, NEW lane \in Lanes, select(d, lane)
  PROVE  /\ chips' = chips \cup {d} /\ entry' \in [Digest -> Entries] /\ probes' \subseteq ProbeCalls
         /\ LiveOf(d)' = {Fresh(d, extra)} /\ entry'[d] = Unasked(lane)
         /\ \A e \in Digest : e # d => LiveOf(e)' = LiveOf(e) /\ entry'[e] = entry[e]
<1>1. Unasked(lane) \in Entries
  BY DEF Unasked, Entries, Answers, Caches
<1>2. entry' = [entry EXCEPT ![d] = Unasked(lane)] /\ probes' = Ended({d}) \cup Begun({d}, extra)
  BY DEF select
<1>3. probes' \subseteq ProbeCalls
  BY <1>2, BegunFacts, EndedFacts DEF Shapes
<1>4. LiveOf(d)' = {Fresh(d, extra)}
  <2>1. \A p \in probes' : p.digest = d /\ p.live => p = Fresh(d, extra)
    BY <1>2, BegunFacts, EndedFacts DEF Shapes
  <2>2. Fresh(d, extra) \in probes' /\ Fresh(d, extra).digest = d /\ Fresh(d, extra).live
    BY <1>2, BegunFacts, FreshType DEF Shapes
  <2> QED BY <2>1, <2>2 DEF LiveOf
<1>5. ASSUME NEW e \in Digest, e # d PROVE LiveOf(e)' = LiveOf(e)
  <2>1. \A p \in probes' : p.digest = e /\ p.live => p \in probes
    BY <1>2, <1>5, BegunFacts, EndedFacts DEF Shapes
  <2>2. \A p \in probes : p.digest = e /\ p.live => p \in probes'
    BY <1>2, <1>5, EndedFacts DEF Shapes
  <2> QED BY <2>1, <2>2 DEF LiveOf
<1> QED BY <1>1, <1>2, <1>3, <1>4, <1>5 DEF select, Shapes

LEMMA DeselectFacts ==
  ASSUME Shapes, NEW d \in Digest, deselect(d)
  PROVE  /\ chips' = chips \ {d} /\ entry' = entry /\ probes' \subseteq ProbeCalls
         /\ \A e \in Digest : e # d => LiveOf(e)' = LiveOf(e)
<1>1. chips' = chips \ {d} /\ entry' = entry /\ probes' = Ended({d})
  BY DEF deselect
<1>2. ASSUME NEW e \in Digest, e # d PROVE LiveOf(e)' = LiveOf(e)
  <2>1. \A p \in probes' : p.digest = e /\ p.live => p \in probes
    BY <1>1, EndedFacts DEF Shapes
  <2>2. \A p \in probes : p.digest = e /\ p.live => p \in probes'
    BY <1>1, <1>2, EndedFacts DEF Shapes
  <2> QED BY <2>1, <2>2 DEF LiveOf
<1> QED BY <1>1, <1>2, EndedFacts DEF Shapes

\* A chip nobody touched is as it was.
LEMMA Untouched ==
  ASSUME NEW d, Foretold(d), LiveOf(d)' = LiveOf(d), entry'[d] = entry[d], extra' = extra,
         \A c, e : Ask(c, e)' = Ask(c, e)
  PROVE  Foretold(d)'
<1>1. \A p : Progress(p)' <=> Progress(p)
  BY DEF Progress
<1>2. Answered(d)' <=> Answered(d)
  BY DEF Answered
<1> QED BY <1>1, <1>2 DEF Foretold

\* A chip whose one probe has just begun.
LEMMA Begins ==
  ASSUME NEW d, extra' \in Seq(Caches), LiveOf(d)' = {Fresh(d, extra')},
         entry'[d].held # "yes"
  PROVE  Foretold(d)'
<1>1. PICK p : p = Fresh(d, extra')
  OBVIOUS
<1>2. p.list = readSubstituters(extra') /\ p.asked = FALSE
  BY <1>1 DEF Fresh
<1>3. Progress(p)'
  <2>1. PICK all : all = readSubstituters(extra')
    OBVIOUS
  <2>2. all \in Seq(Caches) /\ p.list = all
    BY <1>2, <2>1, ListFacts
  <2>3. /\ Len(all) = Len(p.list) + 0
        /\ \A i \in 1 .. Len(p.list) : p.list[i] = all[0 + i]
        /\ 1 .. 0 = {}
    BY <2>2
  <2> QED BY <1>2, <2>1, <2>3 DEF Progress
<1>4. \A q \in LiveOf(d)' : Progress(q)'
  BY <1>1, <1>3
<1> QED BY <1>4 DEF Foretold

-----------------------------------------------------------------------------
(***************************************************************************)
(* One step.                                                               *)
(***************************************************************************)
LEMMA UrlType ==
  ASSUME NEW ds \in SUBSET Digest, NEW e, NEW list \in Seq(Caches)
  PROVE  urlState(ds, e, list) \in LinkType
BY DEF urlState, LinkType

LEMMA ListType ==
  ASSUME NEW list \in CacheLists
  PROVE  list \in Seq(Caches)
BY SelectionAssumption

\* Selecting a path, by whatever way.
LEMMA Selecting ==
  ASSUME SInv, NEW d \in Digest, NEW lane \in Lanes, select(d, lane), extra' = extra,
         \A c, e : Ask(c, e)' = Ask(c, e)
  PROVE  /\ chips' = chips \cup {d} /\ entry' \in [Digest -> Entries] /\ probes' \subseteq ProbeCalls
         /\ \A e \in chips' : Foretold(e)'
<1>1. /\ chips' = chips \cup {d} /\ entry' \in [Digest -> Entries] /\ probes' \subseteq ProbeCalls
      /\ LiveOf(d)' = {Fresh(d, extra)} /\ entry'[d] = Unasked(lane)
      /\ \A e \in Digest : e # d => LiveOf(e)' = LiveOf(e) /\ entry'[e] = entry[e]
  BY SelectFacts DEF SInv
<1>2. Foretold(d)'
  <2>1. entry'[d].held # "yes" /\ extra' \in Seq(Caches) /\ LiveOf(d)' = {Fresh(d, extra')}
    BY <1>1 DEF Unasked, SInv, Shapes
  <2> QED BY <2>1, Begins
<1>3. ASSUME NEW e \in chips, e # d PROVE Foretold(e)'
  <2>1. e \in Digest /\ Foretold(e)
    BY DEF SInv, Shapes
  <2> QED BY <1>1, <1>3, <2>1, Untouched
<1> QED BY <1>1, <1>2, <1>3

LEMMA ToggleStep ==
  ASSUME SInv, NEW d \in Digest, Toggle(d), \A c, e : Ask(c, e)' = Ask(c, e)
  PROVE  SInv'
<1> USE DEF SInv
<1>1. /\ extra' = extra /\ address' = urlState(chips', entry', extra) /\ kept' = FALSE
      /\ visit' = visit /\ todo' = todo
  BY DEF Toggle, render
<1>2. /\ chips' \subseteq Digest /\ entry' \in [Digest -> Entries] /\ probes' \subseteq ProbeCalls
      /\ \A e \in chips' : Foretold(e)'
  <2>1. CASE d \in chips /\ deselect(d)
    <3>1. /\ chips' = chips \ {d} /\ entry' = entry /\ probes' \subseteq ProbeCalls
          /\ \A e \in Digest : e # d => LiveOf(e)' = LiveOf(e)
      BY <2>1, DeselectFacts
    <3>2. ASSUME NEW e \in chips' PROVE Foretold(e)'
      <4>1. e \in Digest /\ e # d /\ Foretold(e)
        BY <3>1 DEF Shapes
      <4> QED BY <1>1, <3>1, <4>1, Untouched
    <3> QED BY <3>1, <3>2 DEF Shapes
  <2>2. CASE select(d, "pkg")
    BY <1>1, <2>2, Selecting DEF Lanes, Shapes
  <2> QED BY <2>1, <2>2 DEF Toggle
<1>3. address' \in LinkType
  BY <1>1, <1>2, UrlType DEF Shapes
<1> QED BY <1>1, <1>2, <1>3 DEF Shapes, AddressTrue, RestoreOwes

LEMMA EnterStep ==
  ASSUME SInv, NEW d \in Digest, NEW lane \in Lanes, Enter(d, lane),
         \A c, e : Ask(c, e)' = Ask(c, e)
  PROVE  SInv'
<1> USE DEF SInv
<1>1. /\ extra' = extra /\ address' = urlState(chips', entry', extra) /\ kept' = FALSE
      /\ visit' = visit /\ todo' = todo /\ select(d, lane)
  BY DEF Enter, render
<1>2. /\ chips' \subseteq Digest /\ entry' \in [Digest -> Entries] /\ probes' \subseteq ProbeCalls
      /\ \A e \in chips' : Foretold(e)'
  BY <1>1, Selecting DEF Shapes
<1>3. address' \in LinkType
  BY <1>1, <1>2, UrlType DEF Shapes
<1> QED BY <1>1, <1>2, <1>3 DEF Shapes, AddressTrue, RestoreOwes

LEMMA RestoreStepStep ==
  ASSUME SInv, NEW d \in todo, RestoreStep(d), \A c, e : Ask(c, e)' = Ask(c, e)
  PROVE  SInv'
<1> USE DEF SInv
<1>1. /\ visit' = visit /\ shown' = shown /\ kept' = (kept /\ indexUp) /\ extra' = extra
      /\ todo' = IF indexUp THEN todo \ {d} ELSE {}
  BY DEF RestoreStep
<1>2. CASE indexUp /\ d # Absent
  <2>1. d \in Digest /\ select(d, "pkg") /\ address' = urlState(chips', entry', extra)
    BY <1>2 DEF RestoreStep, render, Shapes
  <2>2. /\ chips' = chips \cup {d} /\ entry' \in [Digest -> Entries] /\ probes' \subseteq ProbeCalls
        /\ \A e \in chips' : Foretold(e)'
    BY <1>1, <2>1, Selecting DEF Lanes
  <2>3. chips' \subseteq Digest
    BY <2>1, <2>2 DEF Shapes
  <2>4. address' \in LinkType
    BY <2>1, <2>3, UrlType DEF Shapes
  <2>5. Shapes'
    BY <1>1, <2>2, <2>3, <2>4 DEF Shapes
  <2>6. chips' \cup todo' = chips \cup todo
    BY <1>1, <1>2, <2>2
  <2> QED BY <1>1, <2>1, <2>2, <2>5, <2>6 DEF AddressTrue, RestoreOwes
<1>3. CASE ~ (indexUp /\ d # Absent)
  <2>1. UNCHANGED <<chips, entry, probes, address>>
    BY <1>3 DEF RestoreStep
  <2>2. \A e \in chips' : Foretold(e)'
    <3>1. \A e : LiveOf(e)' = LiveOf(e)
      BY <2>1 DEF LiveOf
    <3> QED BY <1>1, <2>1, <3>1, Untouched
  <2>3. kept' => (chips' \cup todo') \ {Absent} = (chips \cup todo) \ {Absent}
    BY <1>1, <1>3, <2>1
  <2> QED BY <1>1, <2>1, <2>2, <2>3 DEF Shapes, AddressTrue, RestoreOwes
<1> QED BY <1>2, <1>3

LEMMA OpenStep ==
  ASSUME SInv, Open
  PROVE  SInv'
<1> USE DEF SInv
<1>1. PICK paths, list : paths = address.paths /\ list = address.caches
  OBVIOUS
<1>2. /\ paths \in SUBSET Digest /\ list \in Seq(Caches) /\ address.pkgs \subseteq Digest \cup {Absent}
      /\ visit \in Nat
  BY <1>1 DEF Shapes, LinkType
<1>3. /\ visit' = visit + 1 /\ extra' = list /\ chips' = paths /\ todo' = address.pkgs
      /\ entry' = [d \in Digest |-> Unasked("path")] /\ probes' = Begun(paths, list)
      /\ address' = urlState(chips', entry', list)
      /\ shown' = (IF visit = 0 THEN address ELSE urlState(chips, entry, extra))
  BY <1>1 DEF Open, render
<1>4. Unasked("path") \in Entries /\ Unasked("path").held # "yes"
  BY DEF Unasked, Entries, Lanes, Answers, Caches
<1>5. Shapes'
  <2>1. probes' \subseteq ProbeCalls
    BY <1>2, <1>3, BegunFacts
  <2>2. address' \in LinkType
    BY <1>2, <1>3, UrlType
  <2> QED BY <1>2, <1>3, <1>4, <2>1, <2>2 DEF Shapes
<1>6. ASSUME NEW d \in chips' PROVE Foretold(d)'
  <2>1. d \in paths /\ d \in Digest
    BY <1>2, <1>3
  <2>2. LiveOf(d)' = {Fresh(d, extra')}
    <3>1. \A p \in probes' : p.digest = d => p = Fresh(d, extra')
      BY <1>2, <1>3, BegunFacts
    <3>2. Fresh(d, extra') \in probes' /\ Fresh(d, extra').digest = d /\ Fresh(d, extra').live
      BY <1>2, <1>3, <2>1, BegunFacts, FreshType
    <3> QED BY <3>1, <3>2 DEF LiveOf
  <2>3. entry'[d].held # "yes" /\ extra' \in Seq(Caches)
    BY <1>2, <1>3, <1>4, <2>1
  <2> QED BY <2>2, <2>3, Begins
<1>7. shown' = address
  BY <1>2, <1>3 DEF AddressTrue
<1>8. AddressTrue' /\ RestoreOwes'
  <2>1. chips' \cup todo' = shown'.pkgs \cup shown'.paths /\ extra' = shown'.caches
    BY <1>1, <1>3, <1>7
  <2> QED BY <1>3, <2>1 DEF AddressTrue, RestoreOwes
<1> QED BY <1>5, <1>6, <1>8

LEMMA CachesStep ==
  ASSUME SInv, NEW list \in CacheLists, EnterCaches(list), \A c, e : Ask(c, e)' = Ask(c, e)
  PROVE  SInv'
<1> USE DEF SInv
<1>1. PICK again : again = {d \in chips : Reasked(d)}
  OBVIOUS
<1>2. /\ extra' = list /\ chips' = chips /\ visit' = visit /\ todo' = todo /\ kept' = FALSE
      /\ address' = urlState(chips', entry', list)
      /\ entry' = [d \in Digest |-> IF d \in again
                     THEN [entry[d] EXCEPT !.crossed = Probing(d)] ELSE entry[d]]
      /\ probes' = probes \cup Begun(again, list)
  BY <1>1 DEF EnterCaches, render
<1>3. list \in Seq(Caches) /\ again \in SUBSET Digest /\ again \subseteq chips
  BY <1>1, ListType DEF Shapes
<1>4. ASSUME NEW d \in Digest
      PROVE  /\ entry'[d] \in Entries
             /\ entry'[d].held = entry[d].held /\ entry'[d].source = entry[d].source
             /\ entry'[d].crossed = IF d \in again THEN Probing(d) ELSE entry[d].crossed
  <2>1. entry[d] \in Entries
    BY DEF Shapes
  <2>2. PICK ln \in Lanes, h \in Answers, s \in Caches, x \in BOOLEAN :
          entry[d] = [lane |-> ln, held |-> h, source |-> s, crossed |-> x]
    BY <2>1 DEF Entries
  <2>3. PICK b \in BOOLEAN : b = Probing(d)
    BY DEF Probing
  <2>4. CASE d \in again
    <3>1. entry'[d] = [entry[d] EXCEPT !.crossed = b]
      BY <1>2, <2>3, <2>4
    <3>2. entry'[d] = [lane |-> ln, held |-> h, source |-> s, crossed |-> b]
      BY <2>2, <3>1
    <3>3. entry'[d] \in Entries
      BY <3>2 DEF Entries
    <3> QED BY <2>2, <2>3, <2>4, <3>2, <3>3
  <2>5. CASE d \notin again
    BY <1>2, <2>1, <2>5
  <2> QED BY <2>4, <2>5
<1>5. Shapes'
  <2>1. entry' \in [Digest -> Entries]
    BY <1>2, <1>4
  <2>2. probes' \subseteq ProbeCalls
    BY <1>2, <1>3, BegunFacts DEF Shapes
  <2>3. address' \in LinkType
    BY <1>2, <1>3, UrlType DEF Shapes
  <2> QED BY <1>2, <1>3, <2>1, <2>2, <2>3 DEF Shapes
<1>6. ASSUME NEW d \in chips PROVE Foretold(d)'
  <2>0. d \in Digest /\ Foretold(d)
    BY DEF Shapes
  <2>1. CASE d \notin again
    <3>1. entry[d].held = "yes" /\ entry'[d] = entry[d]
      BY <1>1, <1>2, <2>0, <2>1 DEF Reasked
    <3>2. LiveOf(d)' = LiveOf(d)
      <4>1. \A p \in probes' : p.digest = d => p \in probes
        BY <1>2, <1>3, <2>1, BegunFacts
      <4>2. probes \subseteq probes'
        BY <1>2
      <4> QED BY <4>1, <4>2 DEF LiveOf
    <3>3. Ask(entry[d].source, d)' = Ask(entry[d].source, d)
      BY <3>1
    <3> QED BY <2>0, <3>1, <3>2, <3>3 DEF Foretold, Answered
  <2>2. CASE d \in again
    <3>1. entry'[d].held = entry[d].held /\ entry[d].held # "yes" /\ entry'[d].crossed = Probing(d)
      BY <1>1, <1>4, <2>0, <2>2 DEF Reasked
    <3>2. CASE Probing(d)
      BY <3>1, <3>2 DEF Foretold
    <3>3. CASE ~Probing(d)
      <4>1. LiveOf(d)' = {Fresh(d, extra')}
        <5>1. \A p \in probes : ~ (p.digest = d /\ p.live)
          BY <3>3 DEF Probing
        <5>2. \A p \in probes' : p.digest = d /\ p.live => p = Fresh(d, extra')
          BY <1>2, <1>3, <5>1, BegunFacts
        <5>3. Fresh(d, extra') \in probes' /\ Fresh(d, extra').digest = d /\ Fresh(d, extra').live
          BY <1>2, <1>3, <2>0, <2>2, BegunFacts, FreshType
        <5> QED BY <5>2, <5>3 DEF LiveOf
      <4> QED BY <1>2, <1>3, <3>1, <4>1, Begins
    <3> QED BY <3>2, <3>3
  <2> QED BY <2>1, <2>2
<1> QED BY <1>2, <1>5, <1>6 DEF AddressTrue, RestoreOwes

\* What is left of the list of a probe that goes on to its next cache.
LEMMA ListGoesOn ==
  ASSUME NEW l \in Seq(Caches) \ {<<>>}
  PROVE  /\ Head(l) = l[1] /\ Head(l) \in Caches /\ Tail(l) \in Seq(Caches)
         /\ Len(l) = Len(Tail(l)) + 1 /\ Len(Tail(l)) \in Nat
         /\ Tail(l) = <<>> <=> Len(Tail(l)) = 0
         /\ \A i \in 1 .. Len(Tail(l)) : Tail(l)[i] = l[i + 1]
<1>1. Len(l) \in Nat /\ Len(l) # 0 /\ DOMAIN l = 1 .. Len(l)
  OBVIOUS
<1>2. Head(l) = l[1] /\ Head(l) \in Caches
  BY <1>1
<1>3. PICK t : t = Tail(l)
  OBVIOUS
<1>4. t \in Seq(Caches) /\ Len(t) = Len(l) - 1
  BY <1>1, <1>3
<1>5. Len(l) = Len(t) + 1 /\ Len(t) \in Nat
  BY <1>1, <1>4
<1>6. t = <<>> <=> Len(t) = 0
  BY <1>4
<1>7. \A i \in 1 .. Len(t) : t[i] = l[i + 1]
  BY <1>1, <1>3, <1>4
<1> QED BY <1>2, <1>3, <1>4, <1>5, <1>6, <1>7

LEMMA ProbeGoesOn ==
  ASSUME Shapes, NEW p \in probes, Progress(p), Ask(Head(p.list), p.digest) # "text",
         NEW q, q.digest = p.digest, q.list = Tail(p.list),
         q.asked <=> p.asked \/ Ask(Head(p.list), p.digest) = "null"
  PROVE  /\ Progress(q)
         /\ q.list = <<>> =>
              LET all == readSubstituters(extra)
              IN  /\ \A i \in 1 .. Len(all) : Ask(all[i], p.digest) # "text"
                  /\ q.asked <=> \E i \in 1 .. Len(all) : Ask(all[i], p.digest) = "null"
<1>1. PICK all : all = readSubstituters(extra)
  OBVIOUS
<1>2. PICK l, m, a, b : l = p.list /\ m = q.list /\ a = Len(l) /\ b = Len(m)
  OBVIOUS
<1>3. l \in Seq(Caches) \ {<<>>} /\ m = Tail(l)
  BY <1>2 DEF Shapes, ProbeCalls
<1>4. /\ Head(l) = l[1] /\ a = b + 1 /\ b \in Nat /\ a \in Nat
      /\ m = <<>> <=> b = 0
      /\ \A i \in 1 .. b : m[i] = l[i + 1]
  BY <1>2, <1>3, ListGoesOn
<1>5. PICK k \in Nat :
        /\ Len(all) = a + k
        /\ \A i \in 1 .. a : l[i] = all[k + i]
        /\ \A i \in 1 .. k : Ask(all[i], p.digest) # "text"
        /\ p.asked <=> \E i \in 1 .. k : Ask(all[i], p.digest) = "null"
  BY <1>1, <1>2 DEF Progress
<1>6. Head(l) = all[k + 1]
  <2>1. 1 \in 1 .. a
    BY <1>4
  <2> QED BY <1>4, <1>5, <2>1
<1>7. /\ k + 1 \in Nat /\ Len(all) = b + (k + 1)
      /\ \A i \in 1 .. (k + 1) : i \in 1 .. k \/ i = k + 1
      /\ k + 1 \in 1 .. (k + 1) /\ \A i \in 1 .. k : i \in 1 .. (k + 1)
      /\ b = 0 => Len(all) = k + 1
  BY <1>4, <1>5
<1>8. \A i \in 1 .. b : m[i] = all[(k + 1) + i]
  <2> TAKE i \in 1 .. b
  <2>1. i + 1 \in 1 .. a /\ k + (i + 1) = (k + 1) + i
    BY <1>4
  <2>2. l[i + 1] = all[k + (i + 1)]
    BY <1>5, <2>1
  <2> QED BY <1>4, <2>1, <2>2
<1>9. /\ \A i \in 1 .. (k + 1) : Ask(all[i], p.digest) # "text"
      /\ q.asked <=> \E i \in 1 .. (k + 1) : Ask(all[i], p.digest) = "null"
  BY <1>2, <1>5, <1>6, <1>7
<1>10. Progress(q)
  <2>1. PICK n \in Nat : n = k + 1
    BY <1>7
  <2>2. /\ Len(all) = Len(q.list) + n
        /\ \A i \in 1 .. Len(q.list) : q.list[i] = all[n + i]
    BY <1>2, <1>7, <1>8, <2>1
  <2>3. /\ \A i \in 1 .. n : Ask(all[i], q.digest) # "text"
        /\ q.asked <=> \E i \in 1 .. n : Ask(all[i], q.digest) = "null"
    BY <1>9, <2>1
  <2> QED BY <1>1, <2>2, <2>3 DEF Progress
<1> QED BY <1>1, <1>2, <1>4, <1>7, <1>9, <1>10

LEMMA LandFacts ==
  ASSUME Shapes, NEW p \in probes, NEW held \in Answers, Land(p, held)
  PROVE  /\ entry' \in [Digest -> Entries] /\ probes' = probes \ {p}
         /\ \A e \in Digest : entry'[e].lane = entry[e].lane /\ entry'[e].crossed = entry[e].crossed
         /\ \A e \in Digest : e # p.digest \/ ~p.live => entry'[e] = entry[e]
         /\ p.live => entry'[p.digest].held = held /\ entry'[p.digest].source = Head(p.list)
<1>1. probes' = probes \ {p}
  BY DEF Land
<1>2. CASE ~p.live
  <2>1. entry' = entry
    BY <1>2 DEF Land
  <2> QED BY <1>1, <1>2, <2>1 DEF Shapes
<1>3. CASE p.live
  <2>1. PICK d, s : d = p.digest /\ s = Head(p.list)
    OBVIOUS
  <2>2. d \in Digest /\ s \in Caches
    BY <2>1, ListGoesOn DEF Shapes, ProbeCalls
  <2>3. entry' = [entry EXCEPT ![d].held = held, ![d].source = s]
    BY <1>3, <2>1 DEF Land
  <2>4. PICK ln \in Lanes, h \in Answers, t \in Caches, x \in BOOLEAN :
          entry[d] = [lane |-> ln, held |-> h, source |-> t, crossed |-> x]
    BY <2>2 DEF Shapes, Entries
  <2>5. entry'[d] = [lane |-> ln, held |-> held, source |-> s, crossed |-> x]
    <3>1. PICK once : once = [entry EXCEPT ![d] = [entry[d] EXCEPT !.held = held]]
      OBVIOUS
    <3>2. once[d] = [lane |-> ln, held |-> held, source |-> t, crossed |-> x] /\ DOMAIN once = Digest
      BY <2>2, <2>4, <3>1 DEF Shapes
    <3>3. entry' = [once EXCEPT ![d] = [once[d] EXCEPT !.source = s]]
      BY <2>3, <3>1
    <3>4. entry'[d] = [once[d] EXCEPT !.source = s]
      BY <2>2, <3>2, <3>3
    <3> QED BY <3>2, <3>4
  <2>6. \A e \in Digest : e # d => entry'[e] = entry[e]
    BY <2>2, <2>3 DEF Shapes
  <2>7. entry'[d] \in Entries
    BY <2>2, <2>5 DEF Entries
  <2>8. entry' \in [Digest -> Entries]
    <3>1. \A e \in Digest : entry'[e] \in Entries
      BY <2>6, <2>7 DEF Shapes
    <3>2. entry' = [e \in Digest |-> entry'[e]]
      BY <2>3 DEF Shapes
    <3> QED BY <3>1, <3>2
  <2>9. /\ entry'[d].lane = entry[d].lane /\ entry'[d].crossed = entry[d].crossed
        /\ entry'[d].held = held /\ entry'[d].source = s
    BY <2>4, <2>5
  <2> QED BY <1>1, <1>3, <2>1, <2>6, <2>8, <2>9
<1> QED BY <1>2, <1>3

\* What a turn of holdsPath comes to.
LEMMA ProbeMoves ==
  ASSUME Shapes, NEW p \in probes, ProbeStep(p)
  PROVE  \E q :
           /\ q.digest = p.digest /\ q.list = Tail(p.list) /\ q.live = p.live
           /\ q.asked <=> p.asked \/ Ask(Head(p.list), p.digest) = "null"
           /\ \/ Ask(Head(p.list), p.digest) = "text" /\ Land(p, "yes")
              \/ /\ Ask(Head(p.list), p.digest) # "text" /\ q.list = <<>>
                 /\ Land(p, IF q.asked THEN "no" ELSE "unknown")
              \/ /\ Ask(Head(p.list), p.digest) # "text" /\ q.list # <<>> /\ q \in ProbeCalls
                 /\ probes' = (probes \ {p}) \cup {q} /\ entry' = entry
<1>1. PICK q, x : /\ x = Ask(Head(p.list), p.digest)
                  /\ q = [p EXCEPT !.list = Tail(@), !.asked = @ \/ x = "null"]
  OBVIOUS
<1>2. PICK dg \in Digest, ls \in Seq(Caches) \ {<<>>}, as \in BOOLEAN, lv \in BOOLEAN :
        p = [digest |-> dg, list |-> ls, asked |-> as, live |-> lv]
  BY DEF Shapes, ProbeCalls
<1>0. PICK t : t = Tail(p.list)
  OBVIOUS
<1>3. PICK b \in BOOLEAN : b = (p.asked \/ x = "null")
  OBVIOUS
<1>4. q = [p EXCEPT !.list = t, !.asked = b]
  BY <1>0, <1>1, <1>3
<1>5. q = [digest |-> dg, list |-> t, asked |-> b, live |-> lv]
  BY <1>2, <1>4
<1>6. q.digest = p.digest /\ q.list = t /\ q.live = p.live /\ q.asked = b
  BY <1>2, <1>5
<1>7. t \in Seq(Caches)
  BY <1>0, <1>2, ListGoesOn
<1>8. t # <<>> => q \in ProbeCalls
  BY <1>5, <1>7 DEF ProbeCalls
<1>9. \/ x = "text" /\ Land(p, "yes")
      \/ x # "text" /\ q.list = <<>> /\ Land(p, IF q.asked THEN "no" ELSE "unknown")
      \/ x # "text" /\ q.list # <<>> /\ probes' = (probes \ {p}) \cup {q} /\ entry' = entry
  BY <1>1 DEF ProbeStep
<1>10. q.asked <=> p.asked \/ x = "null"
  BY <1>3, <1>6
<1>11. q.list = Tail(p.list)
  BY <1>0, <1>6
<1>12. q.list # <<>> => q \in ProbeCalls
  BY <1>6, <1>8
<1> QED BY <1>1, <1>6, <1>9, <1>10, <1>11, <1>12

LEMMA ProbeStepStep ==
  ASSUME SInv, NEW p \in probes, ProbeStep(p), \A c, e : Ask(c, e)' = Ask(c, e)
  PROVE  SInv'
<1> USE DEF SInv
<1>1. /\ UNCHANGED <<visit, chips, extra, todo, address, shown, kept>>
      /\ \A e : Progress(e)' <=> Progress(e)
  BY DEF ProbeStep, Progress
<1>2. PICK q :
        /\ q.digest = p.digest /\ q.list = Tail(p.list) /\ q.live = p.live
        /\ q.asked <=> p.asked \/ Ask(Head(p.list), p.digest) = "null"
        /\ \/ Ask(Head(p.list), p.digest) = "text" /\ Land(p, "yes")
           \/ /\ Ask(Head(p.list), p.digest) # "text" /\ q.list = <<>>
              /\ Land(p, IF q.asked THEN "no" ELSE "unknown")
           \/ /\ Ask(Head(p.list), p.digest) # "text" /\ q.list # <<>> /\ q \in ProbeCalls
              /\ probes' = (probes \ {p}) \cup {q} /\ entry' = entry
  BY ProbeMoves
<1>3. PICK d : d = p.digest
  OBVIOUS
<1>4. ASSUME NEW held \in Answers, Land(p, held), held # "unasked",
             held = "yes" => Ask(Head(p.list), d) = "text",
             held # "yes" => Ask(Head(p.list), d) # "text" /\ q.list = <<>> /\ (held = "no" <=> q.asked)
      PROVE  SInv'
  <2>1. /\ entry' \in [Digest -> Entries] /\ probes' = probes \ {p}
        /\ \A e \in Digest : entry'[e].lane = entry[e].lane /\ entry'[e].crossed = entry[e].crossed
        /\ \A e \in Digest : e # d \/ ~p.live => entry'[e] = entry[e]
        /\ p.live => entry'[d].held = held /\ entry'[d].source = Head(p.list)
    BY <1>3, <1>4, LandFacts
  <2>2. urlState(chips, entry', extra) = urlState(chips, entry, extra)
    BY <2>1 DEF urlState, Shapes
  <2>3. Shapes' /\ AddressTrue' /\ RestoreOwes'
    BY <1>1, <2>1, <2>2 DEF Shapes, AddressTrue, RestoreOwes
  <2>4. ASSUME NEW e \in chips, e # d \/ ~p.live PROVE Foretold(e)'
    <3>1. LiveOf(e)' = LiveOf(e)
      BY <1>3, <2>1, <2>4 DEF LiveOf
    <3>2. entry'[e] = entry[e]
      BY <2>1, <2>4 DEF Shapes
    <3> QED BY <1>1, <3>1, <3>2, Untouched
  <2>5. ASSUME d \in chips, p.live PROVE Foretold(d)'
    <3>1. d \in Digest /\ Foretold(d) /\ p \in LiveOf(d)
      BY <1>3, <2>5 DEF Shapes, LiveOf
    <3>2. /\ entry'[d].held = held /\ entry'[d].source = Head(p.list)
          /\ entry'[d].crossed = entry[d].crossed
      BY <2>1, <2>5, <3>1
    <3>3. held = "yes" => Ask(Head(p.list), d)' = "text"
      BY <1>4
    <3>4. CASE entry[d].crossed
      BY <3>2, <3>3, <3>4 DEF Foretold
    <3>5. CASE ~entry[d].crossed
      <4>1. (\A a, b \in LiveOf(d) : a = b) /\ Progress(p)
        BY <3>1, <3>5 DEF Foretold
      <4>2. LiveOf(d)' = {}
        BY <2>1, <3>1, <4>1 DEF LiveOf
      <4>3. Answered(d)'
        <5>1. CASE held = "yes"
          BY <3>2, <5>1 DEF Answered
        <5>2. CASE held # "yes"
          <6>1. PICK all : all = readSubstituters(extra)
            OBVIOUS
          <6>2. Progress(p) /\ Ask(Head(p.list), p.digest) # "text" /\ q.list = <<>>
            BY <1>3, <1>4, <4>1, <5>2
          <6>3. /\ \A i \in 1 .. Len(all) : Ask(all[i], d) # "text"
                /\ q.asked <=> \E i \in 1 .. Len(all) : Ask(all[i], d) = "null"
            BY <1>2, <1>3, <6>1, <6>2, ProbeGoesOn
          <6>4. all = readSubstituters(extra')
            BY <1>1, <6>1
          <6>5. /\ \A i \in 1 .. Len(all) : Ask(all[i], d)' # "text"
                /\ held = "no" <=> \E i \in 1 .. Len(all) : Ask(all[i], d)' = "null"
            BY <1>4, <5>2, <6>3
          <6> QED BY <1>4, <3>2, <6>4, <6>5 DEF Answered
        <5> QED BY <5>1, <5>2
      <4> QED BY <3>2, <3>3, <4>2, <4>3 DEF Foretold
    <3> QED BY <3>4, <3>5
  <2> QED BY <1>1, <2>3, <2>4, <2>5
<1>5. CASE /\ Ask(Head(p.list), p.digest) # "text" /\ q.list # <<>> /\ q \in ProbeCalls
           /\ probes' = (probes \ {p}) \cup {q} /\ entry' = entry
  <2>1. Shapes' /\ AddressTrue' /\ RestoreOwes'
    BY <1>1, <1>5 DEF Shapes, AddressTrue, RestoreOwes
  <2>2. ASSUME NEW e \in chips, e # d \/ ~p.live PROVE Foretold(e)'
    <3>1. LiveOf(e)' = LiveOf(e)
      BY <1>2, <1>3, <1>5, <2>2 DEF LiveOf
    <3> QED BY <1>1, <1>5, <3>1, Untouched
  <2>3. ASSUME d \in chips, p.live PROVE Foretold(d)'
    <3>1. d \in Digest /\ Foretold(d) /\ p \in LiveOf(d)
      BY <1>3, <2>3 DEF Shapes, LiveOf
    <3>2. entry[d].held = "yes" => Ask(entry[d].source, d)' = "text"
      <4>1. PICK s : s = entry[d].source
        OBVIOUS
      <4>2. entry[d].held = "yes" => Ask(s, d)' = "text"
        BY <3>1, <4>1 DEF Foretold
      <4>3. entry'[d].source = s
        BY <1>5, <4>1
      <4> QED BY <4>2, <4>3 DEF Ask
    <3>3. CASE entry[d].crossed
      BY <1>5, <3>2, <3>3 DEF Foretold
    <3>4. CASE ~entry[d].crossed
      <4>1. (\A a, b \in LiveOf(d) : a = b) /\ Progress(p) /\ entry[d].held # "yes"
        BY <3>1, <3>4 DEF Foretold
      <4>2. LiveOf(d)' = {q}
        BY <1>2, <1>3, <1>5, <2>3, <3>1, <4>1 DEF LiveOf
      <4>3. Progress(q)
        BY <1>2, <1>5, <4>1, ProbeGoesOn
      <4> QED BY <1>1, <1>5, <4>1, <4>2, <4>3 DEF Foretold
    <3> QED BY <3>3, <3>4
  <2> QED BY <1>1, <2>1, <2>2, <2>3
<1>6. CASE Ask(Head(p.list), p.digest) = "text" /\ Land(p, "yes")
  BY <1>3, <1>4, <1>6 DEF Answers
<1>7. CASE /\ Ask(Head(p.list), p.digest) # "text" /\ q.list = <<>>
           /\ Land(p, IF q.asked THEN "no" ELSE "unknown")
  <2>1. PICK held \in Answers : held = IF q.asked THEN "no" ELSE "unknown"
    BY DEF Answers
  <2> QED BY <1>3, <1>4, <1>7, <2>1
<1> QED BY <1>2, <1>5, <1>6, <1>7

-----------------------------------------------------------------------------
(***************************************************************************)
(* The theorems.                                                           *)
(***************************************************************************)
LEMMA InitS == Init => SInv
<1> SUFFICES ASSUME Init PROVE SInv
  OBVIOUS
<1>1. Unasked("path") \in Entries
  BY DEF Unasked, Entries, Lanes, Answers, Caches
<1>2. address \in LinkType
  <2>1. PICK l \in Links : address = l
    BY DEF Init
  <2>2. l \in [pkgs : SUBSET (Packages \cup {Absent}), paths : SUBSET Digest, caches : CacheLists]
    BY SelectionAssumption
  <2>3. CacheLists \subseteq Seq(Caches) /\ Packages \subseteq Digest
    BY SelectionAssumption
  <2>4. SUBSET (Packages \cup {Absent}) \subseteq SUBSET (Digest \cup {Absent})
    BY <2>3
  <2> QED BY <2>1, <2>2, <2>3, <2>4 DEF LinkType
<1>3. extra \in Seq(Caches)
  BY DEF Init
<1> QED BY <1>1, <1>2, <1>3 DEF Init, SInv, Shapes, AddressTrue, RestoreOwes

LEMMA StepS == SInv /\ [Next]_vars => SInv'
<1> SUFFICES ASSUME SInv, [Next]_vars PROVE SInv'
  OBVIOUS
<1>1. CASE Open
  BY <1>1, OpenStep
<1>2. CASE ~Open
  <2>1. \A c, e : Ask(c, e)' = Ask(c, e)
    BY <1>2, AskStays DEF SInv
  <2>2. CASE UNCHANGED <<visit, chips, entry, extra, probes, todo, address, shown, kept>>
    <3>1. \A e : LiveOf(e)' = LiveOf(e)
      BY <2>2 DEF LiveOf
    <3>2. \A e \in chips' : Foretold(e)'
      BY <2>1, <2>2, <3>1, Untouched DEF SInv
    <3> QED BY <2>2, <3>2 DEF SInv, Shapes, AddressTrue, RestoreOwes
  <2>3. ASSUME NEW d \in Digest, Walk(d) PROVE SInv'
    BY <2>2, <2>3 DEF Walk
  <2>4. ASSUME NEW d \in Digest, Toggle(d) PROVE SInv'
    BY <2>1, <2>4, ToggleStep
  <2>5. ASSUME NEW d \in Digest, NEW lane \in Lanes, Enter(d, lane) PROVE SInv'
    BY <2>1, <2>5, EnterStep
  <2>6. ASSUME NEW list \in CacheLists, EnterCaches(list) PROVE SInv'
    BY <2>1, <2>6, CachesStep
  <2>7. ASSUME NEW d \in todo, RestoreStep(d) PROVE SInv'
    BY <2>1, <2>7, RestoreStepStep
  <2>8. ASSUME NEW p \in probes, ProbeStep(p) PROVE SInv'
    BY <2>1, <2>8, ProbeStepStep
  <2>9. CASE UNCHANGED vars
    BY <2>2, <2>9 DEF vars
  <2> QED BY <1>2, <2>3, <2>4, <2>5, <2>6, <2>7, <2>8, <2>9 DEF Next
<1> QED BY <1>1, <1>2

\* What the marks of the chips rest on: the one probe of a chip has left behind
\* the caches that do not have it, a mark without a probe is what all of the
\* list come to, the address bar says what is on the screen and what is not
\* there yet is still to be looked up; app.js:129-160, substituters.js:165.
THEOREM Invariant == Spec => []SInv
<1>1. Init => SInv
  BY InitS
<1>2. SInv /\ [Next]_vars => SInv'
  BY StepS
<1> QED BY <1>1, <1>2, PTL DEF Spec

\* What a chip says is what a boot would meet, for any caches, lists of them and
\* order of answers; substituters.js:165-183, app.js:142.
THEOREM MarksAreTrue == Spec => []ChipForetellsWalk
<1>1. SInv => ChipForetellsWalk
  <2> SUFFICES ASSUME SInv, NEW d \in chips, ~Probing(d), ~entry[d].crossed
               PROVE  LET caches == Range(readSubstituters(extra))
                          refused == {c \in caches : c \notin down /\ <<c, d>> \notin holds}
                          held == entry[d].held
                      IN  /\ held # "unasked"
                          /\ held = "yes" /\ entry[d].source \in caches => Serving(d, extra) # {}
                          /\ held # "yes" => Serving(d, extra) = {}
                          /\ held = "no" <=> held # "yes" /\ refused # {}
    BY DEF ChipForetellsWalk
  <2>1. PICK all : all = readSubstituters(extra)
    OBVIOUS
  <2>2. DOMAIN all = 1 .. Len(all) /\ Range(all) = {all[i] : i \in 1 .. Len(all)}
    BY <2>1, ListFacts DEF SInv, Shapes
  <2>3. LiveOf(d) = {}
    BY DEF Probing, LiveOf
  <2>4. Answered(d) /\ (entry[d].held = "yes" => Ask(entry[d].source, d) = "text")
    BY <2>3 DEF SInv, Foretold
  <2>5. Serving(d, extra) = {i \in 1 .. Len(all) : Ask(all[i], d) = "text"}
    BY <2>1, <2>2 DEF Serving
  <2>6. entry[d].held = "yes" /\ entry[d].source \in Range(all) => Serving(d, extra) # {}
    BY <2>2, <2>4, <2>5
  <2>7. ASSUME entry[d].held # "yes"
        PROVE  /\ Serving(d, extra) = {}
               /\ entry[d].held = "no" <=> {c \in Range(all) : c \notin down /\ <<c, d>> \notin holds} # {}
    <3>1. /\ \A i \in 1 .. Len(all) : Ask(all[i], d) # "text"
          /\ entry[d].held = "no" <=> \E i \in 1 .. Len(all) : Ask(all[i], d) = "null"
      BY <2>1, <2>4, <2>7 DEF Answered
    <3>2. \A i \in 1 .. Len(all) :
            Ask(all[i], d) = "null" <=> all[i] \notin down /\ <<all[i], d>> \notin holds
      BY <3>1, Answering
    <3> QED BY <2>2, <2>5, <3>1, <3>2
  <2> QED BY <2>1, <2>4, <2>6, <2>7 DEF Answered
<1> QED BY <1>1, Invariant, PTL

\* A link brings back what it was copied from, over any number of reloads;
\* app.js:309, 934-985.
THEOREM LinkBringsBack == Spec => []LinkReproduces
<1>1. SInv => LinkReproduces
  <2> SUFFICES ASSUME SInv, visit > 0, todo = {}, kept
               PROVE  chips = (shown.pkgs \cup shown.paths) \ {Absent} /\ extra = shown.caches
    BY DEF LinkReproduces
  <2>1. Absent \notin chips
    BY SelectionAssumption DEF SInv, Shapes
  <2> QED BY <2>1 DEF SInv, RestoreOwes
<1> QED BY <1>1, Invariant, PTL
=============================================================================
