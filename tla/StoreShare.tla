----------------------------- MODULE StoreShare -----------------------------
(***************************************************************************)
(* The store share of one virtual machine (site/js/boot.js, storeShare):   *)
(* the store paths written under /share/nix/store and the farm of program  *)
(* links in /share/bin, the one directory the guest keeps on its PATH.     *)
(*                                                                         *)
(* This module holds the values and the operators; the machines that use   *)
(* them are BootFlow (the page) and LinkFarm (the loop inside linkAll).    *)
(***************************************************************************)
EXTENDS Naturals, Sequences, FiniteSetsExt

CONSTANTS
  Path,      \* store paths; a path stands for its digest and its basename
  Program,   \* program names that can appear under a bin/
  Programs,  \* Programs[p]: the programs the archive of p offers
  Unlinked   \* what a program name without a link is mapped to

ASSUME ShareAssumption ==
  /\ Programs \in [Path -> SUBSET Program]
  /\ Unlinked \notin Path

Farm == [Program -> Path \cup {Unlinked}]

Share == [written : SUBSET Path, farm : Farm]

EmptyShare == [written |-> {}, farm |-> [n \in Program |-> Unlinked]]

\* A link of a path that was never written offers nothing.
Offers(written, p, n) == p \in written /\ n \in Programs[p]

Precedence == {"keep", "replace"}

\* linkPrograms: one path's programs go into the farm; a name that already
\* has a link keeps it, or hands it over.
Link(written, farm, p, precedence) ==
  [n \in Program |->
     IF Offers(written, p, n) /\ (farm[n] = Unlinked \/ precedence = "replace")
     THEN p ELSE farm[n]]

-----------------------------------------------------------------------------
(***************************************************************************)
(* What linkAll makes of a farm, name by name.  The roots are linked in    *)
(* their order, so under "keep" the first root that offers a free name     *)
(* gets it, and under "replace" the last root that offers a name does.     *)
(* The rest of the batch is linked under "keep" in the order the paths     *)
(* were written, which is the order their downloads finished: any path     *)
(* that offers a name still free may be the one that gets it.              *)
(*                                                                         *)
(* A list of roots is a function on some positions.  A path may stand at   *)
(* several; the page keeps the first of them (app.js, digestsOf), and so   *)
(* do the operators here.                                                  *)
(***************************************************************************)
Rooted(roots) == {roots[i] : i \in DOMAIN roots}

\* The positions in roots of the paths that offer n.
Claims(written, roots, n) ==
  {i \in DOMAIN roots :
     /\ Offers(written, roots[i], n)
     /\ \A j \in DOMAIN roots : j < i => roots[j] # roots[i]}

\* What a name is linked to once the roots are linked.
AfterRoots(written, farm, roots, precedence, n) ==
  LET claims == Claims(written, roots, n)
  IN  IF claims = {} THEN farm[n]
      ELSE IF precedence = "replace" THEN roots[Max(claims)]
      ELSE IF farm[n] = Unlinked THEN roots[Min(claims)]
      ELSE farm[n]

\* What a name may be linked to once the batch is linked too.
Winners(written, farm, batch, roots, precedence, n) ==
  LET held   == AfterRoots(written, farm, roots, precedence, n)
      fillers == {p \in batch \ Rooted(roots) : Offers(written, p, n)}
  IN  IF held # Unlinked \/ fillers = {} THEN {held} ELSE fillers

\* linkAll: the farms it may leave behind.
LinkAll(written, farm, batch, roots, precedence) ==
  {f \in Farm : \A n \in Program :
                  f[n] \in Winners(written, farm, batch, roots, precedence, n)}
=============================================================================
