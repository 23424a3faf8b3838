----------------------------- MODULE References -----------------------------
(***************************************************************************)
(* Store paths and what their narinfos say they refer to.                  *)
(***************************************************************************)
CONSTANTS
  Path,  \* store paths; a path stands for its digest and its basename
  Refs   \* Refs[p]: the references of p's narinfo

\* What `from` reaches without entering `skip` is the least set that holds
\* `from` and the references of its own members (closure.js, walkClosure).
HoldsReach(S, from, skip) ==
  /\ from \ skip \subseteq S
  /\ \A p \in S : Refs[p] \ skip \subseteq S

Reach(from, skip) ==
  {p \in Path : \A S \in SUBSET Path : HoldsReach(S, from, skip) => p \in S}

\* A set of store paths that holds every reference of its members.
Closed(S) == \A p \in S : Refs[p] \subseteq S
=============================================================================
