------------------------------- MODULE Picker -------------------------------
(***************************************************************************)
(* The three places of the page that ask the index and draw what comes     *)
(* back: the package picker (site/js/search.js), the completion of the     *)
(* range box (site/js/complete.js) and the range lane itself               *)
(* (site/js/ranges.js and the submit handler of site/js/app.js).  Each     *)
(* call waits for the promises it needs; the selection and the text typed  *)
(* may have changed when it goes on.                                       *)
(*                                                                         *)
(* A call whose promises are settled goes on before any event is handled,  *)
(* the older one first.                                                    *)
(***************************************************************************)
EXTENDS Index

CONSTANTS
  Fragments,  \* what the caret of the range box may stand in
  Begins,     \* for each of them, the names or versions that begin with it
  Lines,      \* the range lines that may be submitted: sequences of specs
  Nothing,    \* no such thing
  MaxActs,    \* bound: how often the reader does something
  MaxFaults   \* bound: how many fetches come to nothing

Operators == {"any", "prefix", ">=", "<=", ">", "<"}
Specs == [attr : Attr, operator : Operators, pattern : Seq(Parts)]

\* A version is completed for an attribute of the index; a line that is empty
\* awaits nothing.
ASSUME PickerAssumption ==
  /\ MaxActs \in Nat /\ MaxFaults \in Nat
  /\ \A f \in Fragments : f.mode # "attr" => f.attr \in Attr
  /\ \A specs \in Lines : specs \in Seq(Specs) /\ specs # <<>>

VARIABLES
  promise,   \* the state of each file of the index
  calls,     \* the calls that wait, the oldest first
  selected,  \* the versions in the selection, with their attributes
  box,       \* the text in the search box
  timer,     \* its debounce timer is running
  screen,    \* what the results element shows
  rows,      \* whether `rows` holds the pills on the screen
  caret,     \* the fragment the caret of the range box stands in
  line,      \* the one it stood in when the box last had input
  offer,     \* the fragment the open dropdown is for, or Nothing
  result,    \* what the range lane says
  acts, faults,
  asked,     \* history: the last thing asked of the picker
  stale      \* history: the parts that drew an older answer over a newer one,
             \* and "caret" when it has been moved since the last input

picker == <<box, timer, screen, rows, asked>>
vars == <<promise, calls, selected, picker, caret, line, offer, result, acts, faults, stale>>

Empty == [kind |-> "empty"]
Search(q) == [lane |-> "search", query |-> q]
Expand(a) == [lane |-> "expand", attr |-> a]
Complete(f) == [lane |-> "complete", fragment |-> f]
Resolve(specs) == [lane |-> "range", specs |-> specs, todo |-> specs, resolved |-> <<>>,
                   problems |-> {}]

Needs(c) ==
  CASE c.lane = "search" -> {NamesKey}
    [] c.lane = "expand" -> {MetaKey(c.attr), VersionsKey(c.attr)}
    [] c.lane = "complete" -> {IF c.fragment.mode = "attr" THEN NamesKey ELSE MetaKey(c.fragment.attr)}
    [] c.lane = "range" -> {MetaKey(Head(c.todo).attr)}

Failed(c) == \E k \in Needs(c) : promise[k] = "rejected"
Ready(c) == Failed(c) \/ \A k \in Needs(c) : promise[k] \in {"have", "empty"}
Landing == {i \in DOMAIN calls : Ready(calls[i])}

\* A call is made: its fetches begin, unless they have.
Ask(c) == calls' = Append(calls, c) /\ promise' = Fetched(promise, Needs(c))

Act == acts < MaxActs /\ Landing = {} /\ acts' = acts + 1

-----------------------------------------------------------------------------
(***************************************************************************)
(* The picker.                                                             *)
(***************************************************************************)
\* render: the pills in `rows` are marked anew after every change.
Reselect(s) ==
  /\ selected' = s
  /\ screen' = IF screen.kind = "pills" /\ rows
                 THEN [screen EXCEPT !.on = {v \in screen.can : <<screen.attr, v>> \in s}]
               ELSE screen

\* Mutant: nothing is searched for while an answer is awaited.
TypeUnlessBusy(q) ==
  /\ q # box /\ Act
  /\ box' = q /\ timer' = (timer \/ calls = <<>>)
  /\ UNCHANGED <<promise, calls, selected, screen, rows, caret, line, offer, result, faults, asked, stale>>

Type(q) ==
  /\ q # box /\ Act
  /\ box' = q /\ timer' = TRUE
  /\ UNCHANGED <<promise, calls, selected, screen, rows, caret, line, offer, result, faults, asked, stale>>

\* search, up to its await, with what the box holds by now.
StartSearch ==
  /\ timer /\ Landing = {}
  /\ timer' = FALSE /\ rows' = FALSE
  /\ asked' = IF box = "" THEN Empty ELSE Search(box)
  /\ IF box = "" THEN screen' = Empty /\ stale' = stale \ {"picker"} /\ UNCHANGED <<promise, calls>>
     ELSE Ask(Search(box)) /\ UNCHANGED <<screen, stale>>
  /\ UNCHANGED <<selected, box, caret, line, offer, result, acts, faults>>

\* expand, up to its await.
StartExpand(a) ==
  /\ screen.kind = "attrs" /\ a \in Range(screen.attrs) /\ Act
  /\ screen' = [kind |-> "loading", attr |-> a] /\ rows' = FALSE
  /\ asked' = Expand(a)
  /\ Ask(Expand(a))
  /\ UNCHANGED <<selected, box, timer, caret, line, offer, result, faults, stale>>

\* A click on the pick half of a pill.
Pick(v) ==
  /\ screen.kind = "pills" /\ v \in screen.can /\ Act
  /\ LET it == <<screen.attr, v>>
     IN  Reselect(IF it \in selected THEN selected \ {it} ELSE selected \cup {it})
  /\ UNCHANGED <<promise, calls, box, timer, rows, caret, line, offer, result, faults, asked, stale>>

\* A chip's cross.
Drop(it) ==
  /\ it \in selected /\ Act
  /\ Reselect(selected \ {it})
  /\ UNCHANGED <<promise, calls, box, timer, rows, caret, line, offer, result, faults, asked, stale>>

-----------------------------------------------------------------------------
(***************************************************************************)
(* The range box.                                                          *)
(***************************************************************************)

\* refresh, up to its await.  A fragment too short for a search is Nothing.
Edit(f) ==
  /\ (f # caret \/ f # line) /\ Act
  /\ caret' = f /\ line' = f
  /\ IF f = Nothing
       THEN offer' = Nothing /\ stale' = stale \ {"offer", "caret"} /\ UNCHANGED <<promise, calls>>
     ELSE Ask(Complete(f)) /\ stale' = stale \ {"caret"} /\ UNCHANGED offer
  /\ UNCHANGED <<selected, picker, result, faults>>

\* An arrow key or a click moves the caret; the dropdown hears of input only.
MoveCaret(f) ==
  /\ f # caret /\ Act
  /\ caret' = f /\ stale' = stale \cup {"caret"}
  /\ UNCHANGED <<promise, calls, selected, picker, line, offer, result, faults>>

\* Escape, or the box loses the focus.
Hide ==
  /\ offer # Nothing /\ Act
  /\ offer' = Nothing /\ stale' = stale \ {"offer"}
  /\ UNCHANGED <<promise, calls, selected, picker, caret, line, result, faults>>

\* One of the suggestions is put from where its fragment began to the caret,
\* wherever that is by now; nothing is looked up for it.
Accept ==
  /\ offer # Nothing /\ Act
  /\ offer' = Nothing /\ caret' = Nothing /\ line' = Nothing /\ stale' = stale \ {"offer", "caret"}
  /\ UNCHANGED <<promise, calls, selected, picker, result, faults>>

Submit(specs) ==
  /\ Act
  /\ result' = Nothing
  /\ Ask(Resolve(specs))
  /\ UNCHANGED <<selected, picker, caret, line, offer, faults, stale>>

-----------------------------------------------------------------------------
(***************************************************************************)
(* A call goes on.                                                         *)
(***************************************************************************)
Drawn(part, fresh) == stale' = IF fresh THEN stale \ {part} ELSE stale \cup {part}

\* What search and expand show.  An expand rejected leaves "loading" there.
Shown(c) ==
  IF c.lane = "search"
    THEN LET found == searchAttrs(c.query)
         IN  IF found = <<>> THEN [kind |-> "no such attribute"]
             ELSE [kind |-> "attrs", attrs |-> found]
  ELSE LET all == versionRowsOf(promise, c.attr)
           can == bootable(promise, c.attr)
       IN  IF all = <<>> THEN [kind |-> "not in the index", attr |-> c.attr]
           ELSE [kind |-> "pills", attr |-> c.attr, all |-> all, can |-> can,
                 on |-> {v \in can : <<c.attr, v>> \in selected}]

LandPicker(c) ==
  /\ c.lane \in {"search", "expand"}
  /\ IF Failed(c) THEN UNCHANGED <<screen, rows, stale>>
     ELSE /\ screen' = Shown(c)
          /\ rows' = (rows \/ c.lane = "expand")
          /\ Drawn("picker", c = asked)
  /\ UNCHANGED <<promise, selected, box, timer, asked, caret, line, offer, result>>

Pool(f) ==
  IF f.mode = "attr" THEN Attr \cap Begins[f]
  ELSE Range(versionsOf(promise, f.attr)) \cap Begins[f]

LandComplete(c) ==
  /\ c.lane = "complete"
  /\ IF Failed(c) THEN UNCHANGED <<offer, stale>>
     ELSE /\ offer' = IF Pool(c.fragment) = {} THEN Nothing ELSE c.fragment
          /\ Drawn("offer", c.fragment = line)
  /\ UNCHANGED <<promise, selected, picker, caret, line, result>>

\* One turn of resolveSpecs; after the last, what the lane selects and says.
Turn(c) ==
  LET spec     == Head(c.todo)
      versions == versionsOf(promise, spec.attr)
      hits     == Hits(spec, versions)
  IN  [c EXCEPT !.todo = Tail(@),
                !.resolved = IF hits = {} THEN @
                             ELSE Append(@, <<spec.attr, versions[Min(hits)]>>),
                !.problems = IF hits = {} THEN @ \cup {spec} ELSE @]

LandRange(c) ==
  /\ c.lane = "range" /\ (Failed(c) \/ Len(c.todo) = 1)
  /\ IF Failed(c) THEN result' = [specs |-> c.specs, failed |-> TRUE] /\ UNCHANGED <<selected, screen>>
     ELSE LET done == Turn(c)
          IN  /\ result' = [specs |-> c.specs, failed |-> FALSE,
                            resolved |-> done.resolved, problems |-> done.problems]
              /\ Reselect(selected \cup Range(done.resolved))
  /\ UNCHANGED <<promise, box, timer, rows, asked, caret, line, offer, stale>>

Land ==
  /\ Landing # {}
  /\ LET i == Min(Landing)
     IN  /\ calls' = RemoveAt(calls, i)
         /\ LandPicker(calls[i]) \/ LandComplete(calls[i]) \/ LandRange(calls[i])
  /\ UNCHANGED <<acts, faults>>

\* resolveSpecs goes on to its next spec, and awaits its shard.
NextSpec ==
  /\ Landing # {}
  /\ LET i == Min(Landing)
         c == calls[i]
     IN  /\ c.lane = "range" /\ ~Failed(c) /\ Len(c.todo) > 1
         /\ calls' = [calls EXCEPT ![i] = Turn(c)]
         /\ promise' = Fetched(promise, Needs(Turn(c)))
  /\ UNCHANGED <<selected, picker, caret, line, offer, result, acts, faults, stale>>

\* A fetch comes to its end.
Settle(k, fate) ==
  /\ promise[k] = "pending" /\ Landing = {}
  /\ fate # "have" => faults < MaxFaults
  /\ promise' = [promise EXCEPT ![k] = fate]
  /\ faults' = IF fate = "have" THEN faults ELSE faults + 1
  /\ UNCHANGED <<calls, selected, picker, caret, line, offer, result, acts, stale>>

-----------------------------------------------------------------------------
Init ==
  /\ promise = [k \in Keys |-> "none"] /\ calls = <<>> /\ selected = {}
  /\ box = "" /\ timer = FALSE /\ screen = Empty /\ rows = FALSE /\ asked = Empty
  /\ caret = Nothing /\ line = Nothing /\ offer = Nothing /\ result = Nothing
  /\ acts = 0 /\ faults = 0 /\ stale = {}

Next ==
  \/ \E q \in DOMAIN Includes \cup {""} : Type(q)
  \/ StartSearch
  \/ \E a \in Attr : StartExpand(a) \/ \E v \in Built[a] : Pick(v) \/ Drop(<<a, v>>)
  \/ \E f \in Fragments \cup {Nothing} : Edit(f) \/ MoveCaret(f)
  \/ Hide \/ Accept
  \/ \E specs \in Lines : Submit(specs)
  \/ Land \/ NextSpec
  \/ \E k \in Keys : \E fate \in Fates(k) : Settle(k, fate)

Spec == Init /\ [][Next]_vars

-----------------------------------------------------------------------------
(***************************************************************************)
(* Properties.                                                             *)
(***************************************************************************)

\* A pill is tinted exactly when its version is in the selection, through
\* whatever lane it got there or left, although a search drops the rows that
\* are marked before the pills are gone from the screen; search.js:65, 202.
PillsTruthful ==
  screen.kind = "pills" =>
    screen.on = {v \in screen.can : <<screen.attr, v>> \in selected}

OfferCurrent ==
  offer = line /\ Pool(line) # {} /\ (offer = caret \/ "caret" \in stale)

\* Once no answer is awaited, the picker shows what the box or the last click
\* asked for, and an open dropdown completes what the last input left the caret
\* in, unless a fetch failed or an older answer came in after a newer one and
\* was drawn over it, which nothing prevents.  The caret stands there still
\* unless it was moved without input, which nothing hears either; search.js:79,
\* complete.js:26, 88.
QuietIsCurrent ==
  (\A i \in DOMAIN calls : calls[i].lane = "range") /\ Range(promise) \cap {"rejected"} = {} =>
    /\ timer \/ "picker" \in stale \/
         IF asked # Empty /\ asked.lane = "expand"
           THEN screen.kind \in {"pills", "not in the index"} /\ screen.attr = asked.attr
         ELSE IF box = "" THEN screen = Empty
         ELSE screen = Shown(Search(box))
    /\ offer = Nothing \/ "offer" \in stale \/ OfferCurrent

\* What a spec asks for and which of two versions the code takes for the newer,
\* said without its helpers: at the first part that differs, or the longer.
Newer(v, w) ==
  \E i \in DOMAIN v :
    /\ \A j \in 1..(i - 1) : j \in DOMAIN w /\ PartOrder(v[j], w[j]) = 0
    /\ i \in DOMAIN w => PartOrder(v[i], w[i]) = 1

Satisfies(spec, v) ==
  LET p == spec.pattern IN
  CASE spec.operator = "any" -> TRUE
    [] spec.operator = "prefix" ->
         v = p \/ \E rest \in 1..Len(v) : /\ SubSeq(v, 1, rest - 1) = p
                                         /\ v[rest].sep = "."
    [] spec.operator = ">=" -> ~Newer(p, v)
    [] spec.operator = "<=" -> ~Newer(v, p)
    [] spec.operator = ">"  -> Newer(v, p)
    [] spec.operator = "<"  -> Newer(p, v)

\* Where compareVersions orders the versions of an attribute: sorting by it and
\* the newest of them have a meaning; multiverse.js:164.
VersionsInOrder ==
  \A a \in Attr : \A u, v, w \in Built[a] :
    compareVersions(u, v) >= 0 /\ compareVersions(v, w) >= 0 => compareVersions(u, w) >= 0

\* The answer of the range lane accounts for every spec of the line: either
\* the newest version that was built and matches it is in the selection, or
\* it is called a problem and the index as loaded has no such version;
\* ranges.js:71.  The newest is by the order of the code, where a prerelease is
\* above its release, and not by its comment (multiverse.js:164).  (Selected it
\* is when the answer is drawn.  Given VersionsInOrder.)
RangeAccounts ==
  result # Nothing /\ ~result.failed =>
    \A i \in DOMAIN result.specs :
      LET spec == result.specs[i]
          fit == {v \in Built[spec.attr] : Satisfies(spec, v)}
      IN  IF promise[MetaKey(spec.attr)] = "empty" \/ fit = {} THEN spec \in result.problems
          ELSE \E v \in fit : /\ <<spec.attr, v>> \in Range(result.resolved)
                              /\ ~\E w \in fit : Newer(w, v)
=============================================================================
