---------------------------- MODULE MC_BootFlow ----------------------------
(***************************************************************************)
(* Small worlds for BootFlow.                                              *)
(***************************************************************************)
EXTENDS BootFlow, TLC

CONSTANTS out, bin, rg, lib, p, q

(***************************************************************************)
(* A split package over a library: booting `out` means booting `bin` too,  *)
(* which can also be asked for by itself.  Both offer a program of the     *)
(* library's, and of each other's, so the farm has to choose.              *)
(***************************************************************************)
SplitPath     == {out, bin, lib}
SplitPrograms == out :> {p, q} @@ bin :> {q} @@ lib :> {p, q}
SplitRefs     == out :> {lib} @@ bin :> {lib} @@ lib :> {}
SplitBin      == out :> bin @@ bin :> bin @@ lib :> lib

(***************************************************************************)
(* One package over one library: the least closure with something to wait  *)
(* for.                                                                    *)
(***************************************************************************)
PairPath     == {rg, lib}
PairPrograms == rg :> {q} @@ lib :> {p, q}
PairRefs     == rg :> {lib} @@ lib :> {}
PairBin      == rg :> rg @@ lib :> lib

Programmes == {p, q}
=============================================================================
