---------------------------- MODULE MC_Selection ----------------------------
(***************************************************************************)
(* A package of the index and a pasted path, the default cache and one     *)
(* more, and links that name a package the index does not offer.           *)
(***************************************************************************)
EXTENDS Selection

CONSTANTS d1, d2, c1, none, nixos

MCCacheLists == {<<>>, <<c1>>}

\* Each path is held by every set of caches; the two share all, or nothing.
MCHoldings ==
  LET Held(X, Y) == (X \X {d1}) \cup (Y \X {d2})
  IN  UNION {{Held(X, X), Held(X, {nixos, c1} \ X)} : X \in SUBSET {nixos, c1}}

MCLinks ==
  {[pkgs |-> {d1}, paths |-> {d2}, caches |-> <<c1>>],
   [pkgs |-> {none, d1}, paths |-> {}, caches |-> <<>>]}
=============================================================================
