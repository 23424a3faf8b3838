------------------------------- MODULE Index -------------------------------
(***************************************************************************)
(* The multiverse index as the page reads it (site/js/multiverse.js): the  *)
(* names file and the shards, each fetched once and kept as a promise, and *)
(* what is computed from them - version lists, the order of versions,      *)
(* searches and the matching of ranges (site/js/ranges.js).                *)
(*                                                                         *)
(* A version is a sequence of parts.  A part has the separator before it,  *)
(* its place among all parts as strings, and its value as a number, or -1. *)
(***************************************************************************)
EXTENDS Integers, FiniteSets, SequencesExt

CONSTANTS
  Attrs,    \* the attributes, in alphabetical order: a sequence
  shardOf,  \* the shard each is in, by the beginning of its name
  Shipped,  \* the versions nixpkgs ever had of each (the versions shard)
  Built,    \* those with an x86_64-linux store path (the meta shard)
  Includes, \* for each search text, the attributes that contain it ...
  Rank,     \* ... with their rank: 0 for equal, 1 for a prefix, 2 for the rest
  SearchLimit

Attr == Range(Attrs)
Parts == [sep : STRING, lex : Int, num : Int]

ASSUME IndexAssumption ==
  /\ \A a \in Attr :
       /\ shardOf[a] \in STRING
       /\ Built[a] \subseteq Seq(Parts) /\ IsFiniteSet(Built[a])
       /\ Shipped[a] \subseteq Seq(Parts) /\ IsFiniteSet(Shipped[a])
  /\ \A q \in DOMAIN Includes : Includes[q] \subseteq Attr
  /\ SearchLimit \in Nat

NamesKey == <<"names", "">>
MetaKey(a) == <<"meta", shardOf[a]>>
VersionsKey(a) == <<"versions", shardOf[a]>>
Keys == {NamesKey} \cup {MetaKey(a) : a \in Attr} \cup {VersionsKey(a) : a \in Attr}

\* A missing shard is an empty one; the names file has no such excuse.
Fates(key) == {"have", "rejected"} \cup IF key = NamesKey THEN {} ELSE {"empty"}

-----------------------------------------------------------------------------
(***************************************************************************)
(* Versions.                                                               *)
(***************************************************************************)
PartOrder(x, y) ==
  LET numeric == x.num >= 0 /\ y.num >= 0
      m == IF numeric THEN x.num ELSE x.lex
      n == IF numeric THEN y.num ELSE y.lex
  IN  IF m < n THEN -1 ELSE IF m > n THEN 1 ELSE 0

\* The first part that differs decides; where none does, the longer one is
\* the greater, a prerelease above its release included.
compareVersions(a, b) ==
  LET apart == {i \in DOMAIN a \cap DOMAIN b : PartOrder(a[i], b[i]) # 0}
  IN  IF apart # {} THEN LET i == Min(apart) IN PartOrder(a[i], b[i])
      ELSE IF Len(a) < Len(b) THEN -1 ELSE IF Len(a) > Len(b) THEN 1 ELSE 0

\* What sorting by it leaves: any list of the versions where it is no order.
NewestFirst(versions) ==
  LET lists  == {s \in [1..Cardinality(versions) -> versions] : Range(s) = versions}
      sorted == {s \in lists : \A i, j \in DOMAIN s :
                   i < j => compareVersions(s[i], s[j]) >= 0}
  IN  CHOOSE s \in lists : sorted # {} => s \in sorted

\* Mutant: a pattern matches whatever begins with the same digits, 3.1 also 3.10.
matchesLoosely(spec, v) ==
  CASE spec.operator = "any" -> TRUE
    [] spec.operator = "prefix" ->
         /\ Len(v) >= Len(spec.pattern)
         /\ \A i \in 1..(Len(spec.pattern) - 1) : v[i] = spec.pattern[i]
         /\ LET n == Len(spec.pattern) IN v[n].num \div 10 = spec.pattern[n].num \/ v[n] = spec.pattern[n]
    [] spec.operator = ">=" -> compareVersions(v, spec.pattern) >= 0
    [] spec.operator = "<=" -> compareVersions(v, spec.pattern) <= 0
    [] spec.operator = ">"  -> compareVersions(v, spec.pattern) > 0
    [] spec.operator = "<"  -> compareVersions(v, spec.pattern) < 0

\* A pattern without an operator, or with "=", is a prefix up to a dot.
matches(spec, v) ==
  CASE spec.operator = "any" -> TRUE
    [] spec.operator = "prefix" ->
         /\ IsPrefix(spec.pattern, v)
         /\ Len(v) > Len(spec.pattern) => v[Len(spec.pattern) + 1].sep = "."
    [] spec.operator = ">=" -> compareVersions(v, spec.pattern) >= 0
    [] spec.operator = "<=" -> compareVersions(v, spec.pattern) <= 0
    [] spec.operator = ">"  -> compareVersions(v, spec.pattern) > 0
    [] spec.operator = "<"  -> compareVersions(v, spec.pattern) < 0

-----------------------------------------------------------------------------
(***************************************************************************)
(* The lookups, on the promises as they are settled.                       *)
(***************************************************************************)
Held(promise, key, contents) == IF promise[key] = "have" THEN contents ELSE {}

versionsOf(promise, a) == NewestFirst(Held(promise, MetaKey(a), Built[a]))

\* versionRowsOf: every version ever, those in `bootable` with a store path.
bootable(promise, a) == Held(promise, MetaKey(a), Built[a])
versionRowsOf(promise, a) ==
  NewestFirst(Held(promise, VersionsKey(a), Shipped[a]) \cup bootable(promise, a))

searchAttrs(q) ==
  LET place == [a \in Attr |-> CHOOSE i \in DOMAIN Attrs : Attrs[i] = a]
      found == SetToSortSeq(Includes[q], LAMBDA a, b :
                 \/ Rank[q][a] < Rank[q][b]
                 \/ Rank[q][a] = Rank[q][b] /\ place[a] < place[b])
  IN  SubSeq(found, 1, Min({Len(found), SearchLimit}))

\* One spec of a range line: where in the list the versions are that match, the
\* first of which is found.
Hits(spec, versions) == {i \in DOMAIN versions : matches(spec, versions[i])}

\* Mutant: what is there already is fetched anew.
FetchedAnew(promise, keys) ==
  [k \in Keys |-> IF k \in keys THEN "pending" ELSE promise[k]]

\* The promises after the keys are asked for: only what was never asked is
\* fetched, and what failed is not fetched again.
Fetched(promise, keys) ==
  [k \in Keys |-> IF k \in keys /\ promise[k] = "none" THEN "pending" ELSE promise[k]]
=============================================================================
