----------------------------- MODULE Selection -----------------------------
(***************************************************************************)
(* What the page shows before a boot: the selected paths with a mark for   *)
(* whether a configured cache holds them (the probes of site/js/app.js     *)
(* over holdsPath of site/js/substituters.js), the extra caches, and the   *)
(* link in the address bar that describes both (site/js/url.js), which a   *)
(* reload restores.                                                        *)
(*                                                                         *)
(* A path is its digest.  `Packages` are the ones the index names, which a *)
(* link carries as attribute and version; the others ride as paths.  What  *)
(* is said here of chips does not depend on their order, which is left     *)
(* out: the packages of a link are looked up one by one in any order.      *)
(* Every cache in the lane is there with its key; signatures are not       *)
(* modelled.                                                               *)
(***************************************************************************)
EXTENDS Integers, SequencesExt

CONSTANTS
  Digest,      \* the store paths the reader may select
  Packages,    \* those among them that come out of the index
  Absent,      \* what a link may name and the index does not offer
  NixOS,       \* the cache every list begins with
  Holdings,    \* which cache may hold what: sets of pairs of a cache and a digest
  CacheLists,  \* the lists of extra caches the reader may enter
  Links,       \* the links the page may first be opened with
  MaxVisits,   \* bound: how often the page is opened
  MaxActs      \* bound: what the reader or an agent does in all of them

Caches == {NixOS} \cup UNION {Range(list) : list \in CacheLists}

ASSUME SelectionAssumption ==
  /\ Packages \subseteq Digest
  /\ Absent \notin Digest
  /\ Holdings \subseteq SUBSET (Caches \X Digest)
  /\ \A list \in CacheLists : list \in Seq(Caches)
  /\ Links \subseteq [pkgs : SUBSET (Packages \cup {Absent}), paths : SUBSET Digest,
                      caches : CacheLists]
  /\ MaxVisits \in Nat \ {0} /\ MaxActs \in Nat

VARIABLES
  holds,    \* which cache holds what: pairs of a cache and a digest
  down,     \* the caches a browser cannot reach in this visit
  indexUp,  \* whether it can reach the index
  stored,   \* the narinfos in the persistent cache, as such pairs
  visit,    \* the number of this visit
  acts,     \* how much was done by hand
  chips,    \* the digests of `selection`
  entry,    \* the object kept for each of them
  extra,    \* extraCaches
  probes,   \* the calls of probe() under way
  todo,     \* what restore() has still to look up
  address,  \* the link in the address bar
  shown,    \* history: the link this visit was to bring back
  kept      \* history: nothing was changed by hand and no lookup failed

world == <<holds, down, indexUp>>
vars == <<world, stored, visit, acts, chips, entry, extra, probes, todo,
          address, shown, kept>>

Lanes   == {"pkg", "path"}
Answers == {"unasked", "yes", "no", "unknown"}

\* What is kept of a chip.  `source`, the cache that had it, and `crossed`,
\* that its last probe was sent while another was under way, are history.
Unasked(lane) == [lane |-> lane, held |-> "unasked", source |-> NixOS, crossed |-> FALSE]

-----------------------------------------------------------------------------
(***************************************************************************)
(* The caches.                                                             *)
(***************************************************************************)
readSubstituters(list) == <<NixOS>> \o list

\* fetchNarinfoText: what asking one cache for a narinfo comes to.
Ask(c, d) ==
  CASE <<c, d>> \in stored -> "text"
    [] <<c, d>> \notin stored /\ c \in down -> "throws"
    [] <<c, d>> \notin stored /\ c \notin down ->
         IF <<c, d>> \in holds THEN "text" ELSE "null"

\* fetchNarinfo, which the walk of a boot calls for every path: the caches it
\* might have the narinfo from, the first of which it takes.
Serving(d, list) ==
  {i \in DOMAIN readSubstituters(list) : Ask(readSubstituters(list)[i], d) = "text"}

fetchNarinfo(d, list) ==
  readSubstituters(list)[CHOOSE i \in Serving(d, list) : \A j \in Serving(d, list) : i <= j]

\* probe, reprobe: a call for each of the digests in D.  A set will do for the
\* calls: two at the same place of the same list get the same answers.
Ended(D) == {[p EXCEPT !.live = @ /\ p.digest \notin D] : p \in probes}
Probing(d) == \E p \in probes : p.digest = d /\ p.live
Begun(D, list) ==
  {[digest |-> d, list |-> readSubstituters(list), asked |-> FALSE, live |-> TRUE] : d \in D}

-----------------------------------------------------------------------------
(***************************************************************************)
(* The link.                                                               *)
(***************************************************************************)
urlState(ds, e, list) ==
  [pkgs   |-> {d \in ds : e[d].lane = "pkg"},
   paths  |-> {d \in ds : e[d].lane = "path"},
   caches |-> list]

\* render: the address bar is rewritten with everything else.
render(list) == address' = urlState(chips', entry', list)

\* select: the entry replaces one that is there; the old one's probe goes on
\* and marks nothing any more.
select(d, lane) ==
  /\ chips' = chips \cup {d}
  /\ entry' = [entry EXCEPT ![d] = Unasked(lane)]
  /\ probes' = Ended({d}) \cup Begun({d}, extra)

deselect(d) ==
  /\ chips' = chips \ {d}
  /\ probes' = Ended({d})
  /\ UNCHANGED entry

Act == visit > 0 /\ acts < MaxActs /\ acts' = acts + 1

\* A click on a pill, or on a chip's cross.
Toggle(d) ==
  /\ Act
  /\ \/ d \in chips /\ deselect(d)
     \/ d \in Packages \ chips /\ select(d, "pkg")
  /\ render(extra) /\ kept' = FALSE
  /\ UNCHANGED <<world, stored, visit, extra, todo, shown>>

\* A range resolved, a path submitted, a package or path an agent names: what
\* is selected already is selected anew.
Enter(d, lane) ==
  /\ Act
  /\ lane = "pkg" => d \in Packages
  /\ select(d, lane)
  /\ render(extra) /\ kept' = FALSE
  /\ UNCHANGED <<world, stored, visit, extra, todo, shown>>

\* reprobe: every path that no cache admitted to having.
Reasked(d) == entry[d].held # "yes"

\* A list of caches that parses, typed or set by an agent.
EnterCaches(list) ==
  LET again == {d \in chips : Reasked(d)}
  IN  /\ Act
      /\ extra' = list
      /\ entry' = [d \in Digest |-> IF d \in again
                     THEN [entry[d] EXCEPT !.crossed = Probing(d)] ELSE entry[d]]
      /\ probes' = probes \cup Begun(again, list)
      /\ UNCHANGED chips
      /\ render(list) /\ kept' = FALSE
      /\ UNCHANGED <<world, stored, visit, todo, shown>>

-----------------------------------------------------------------------------
(***************************************************************************)
(* holdsPath, one cache after the other, and what probe does with it.      *)
(***************************************************************************)
Keep(c, d) == stored' = IF Ask(c, d) = "text" THEN stored \cup {<<c, d>>} ELSE stored

\* `entry.held = held`, on the object the probe was given.
Land(p, held) ==
  /\ probes' = probes \ {p}
  /\ entry' = IF ~p.live THEN entry
              ELSE [entry EXCEPT ![p.digest].held = held,
                                 ![p.digest].source = Head(p.list)]

\* Mutant: a cache that cannot be asked counts as one that says no.
ProbeStepHarsh(p) ==
  LET answer == Ask(Head(p.list), p.digest)
      next == [p EXCEPT !.list = Tail(@), !.asked = TRUE]
  IN  /\ Keep(Head(p.list), p.digest)
      /\ IF answer = "text" THEN Land(p, "yes")
         ELSE IF next.list = <<>> THEN Land(p, "no")
         ELSE probes' = (probes \ {p}) \cup {next} /\ UNCHANGED entry
      /\ UNCHANGED <<world, visit, acts, chips, extra, todo, address, shown, kept>>

\* A render without the selection or the caches changed leaves the link alone.
ProbeStep(p) ==
  LET answer == Ask(Head(p.list), p.digest)
      next == [p EXCEPT !.list = Tail(@), !.asked = @ \/ answer = "null"]
  IN  /\ Keep(Head(p.list), p.digest)
      /\ IF answer = "text" THEN Land(p, "yes")
         ELSE IF next.list = <<>> THEN Land(p, IF next.asked THEN "no" ELSE "unknown")
         ELSE probes' = (probes \ {p}) \cup {next} /\ UNCHANGED entry
      /\ UNCHANGED <<world, visit, acts, chips, extra, todo, address, shown, kept>>

\* The walk of a boot comes to a selected path that some cache serves.
Walk(d) ==
  /\ d \in chips /\ Serving(d, extra) # {}
  /\ stored' = stored \cup {<<fetchNarinfo(d, extra), d>>}
  /\ UNCHANGED <<world, visit, acts, chips, entry, extra, probes, todo,
                 address, shown, kept>>

-----------------------------------------------------------------------------
(***************************************************************************)
(* Opening the link in the address bar, for the first time or by a reload: *)
(* the caches, then the paths, in one go; then the packages, one lookup    *)
(* after the other.  The persistent cache outlives the page; which caches  *)
(* can be reached may have changed.                                        *)
(***************************************************************************)
Open ==
  /\ visit < MaxVisits
  /\ visit' = visit + 1
  /\ down' \in SUBSET Caches /\ indexUp' \in BOOLEAN
  /\ extra' = address.caches
  /\ chips' = address.paths
  /\ entry' = [d \in Digest |-> Unasked("path")]
  /\ probes' = Begun(address.paths, address.caches)
  /\ todo' = address.pkgs
  /\ render(address.caches)
  /\ shown' = IF visit = 0 THEN address ELSE urlState(chips, entry, extra)
  /\ kept' = TRUE
  /\ UNCHANGED <<holds, stored, acts>>

\* Mutant: the first package that cannot be had ends the restore.
RestoreStepOnce(d) ==
  /\ d \in todo
  /\ todo' = IF ~indexUp \/ d = Absent THEN {} ELSE todo \ {d}
  /\ kept' = (kept /\ indexUp)
  /\ IF indexUp /\ d # Absent
     THEN select(d, "pkg") /\ render(extra) /\ UNCHANGED extra
     ELSE UNCHANGED <<chips, entry, probes, extra, address>>
  /\ UNCHANGED <<world, stored, visit, acts, shown>>

\* A lookup that fails rejects the whole of restore().
RestoreStep(d) ==
  /\ d \in todo
  /\ todo' = IF indexUp THEN todo \ {d} ELSE {}
  /\ kept' = (kept /\ indexUp)
  /\ IF indexUp /\ d # Absent
     THEN select(d, "pkg") /\ render(extra) /\ UNCHANGED extra
     ELSE UNCHANGED <<chips, entry, probes, extra, address>>
  /\ UNCHANGED <<world, stored, visit, acts, shown>>

-----------------------------------------------------------------------------
\* No page is open; a link has been sent.
Init ==
  /\ holds \in Holdings
  /\ down = {} /\ indexUp = TRUE
  /\ stored = {} /\ visit = 0 /\ acts = 0
  /\ chips = {} /\ entry = [d \in Digest |-> Unasked("path")]
  /\ extra = <<>> /\ probes = {} /\ todo = {}
  /\ shown \in Links /\ address = shown
  /\ kept = TRUE

Next ==
  \/ Open
  \/ \E d \in todo : RestoreStep(d)
  \/ \E d \in Digest : Toggle(d) \/ Walk(d) \/ \E lane \in Lanes : Enter(d, lane)
  \/ \E list \in CacheLists : EnterCaches(list)
  \/ \E p \in probes : ProbeStep(p)

Spec == Init /\ [][Next]_vars

-----------------------------------------------------------------------------
(***************************************************************************)
(* Properties.                                                             *)
(***************************************************************************)

\* What a chip says is what a boot would meet: a path marked as there is
\* found by the walk as long as the cache that had it is still in the list; a
\* path not marked as there is found by none, it is only called missing when
\* some cache has answered for it, and left open only when none could.  (Once
\* the probe has come to its end; where it was sent while an older one was
\* under way, whichever answers last has the say: app.js:151.)
ChipForetellsWalk ==
  \A d \in chips :
    LET caches == Range(readSubstituters(extra))
        refused == {c \in caches : c \notin down /\ <<c, d>> \notin holds}
        held == entry[d].held
    IN  Probing(d) \/ entry[d].crossed \/
        /\ held # "unasked"
        /\ held = "yes" /\ entry[d].source \in caches => Serving(d, extra) # {}
        /\ held # "yes" => Serving(d, extra) = {}
        /\ held = "no" <=> held # "yes" /\ refused # {}

\* A link brings back the screen it was copied from: unless something was
\* changed by hand or the index could not be asked, what is selected once the
\* restore is through is what the link's screen had selected (less what the
\* index does not offer), with the same caches; app.js:309.
LinkReproduces ==
  visit > 0 /\ todo = {} /\ kept =>
    /\ chips = (shown.pkgs \cup shown.paths) \ {Absent}
    /\ extra = shown.caches
=============================================================================
