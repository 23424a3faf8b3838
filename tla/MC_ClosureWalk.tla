--------------------------- MODULE MC_ClosureWalk ---------------------------
(***************************************************************************)
(* A small world for ClosureWalk: two packages over three libraries that   *)
(* share a fourth, each path also referring to itself, as real ones may.   *)
(***************************************************************************)
EXTENDS ClosureWalk, TLC

CONSTANTS rg, fd, pcre, zlib, gcc, glibc

Paths == {rg, fd, pcre, zlib, gcc, glibc}

Graph ==
  rg :> {rg, pcre, zlib, gcc} @@ fd :> {gcc, glibc} @@ pcre :> {pcre, glibc}
    @@ zlib :> {glibc} @@ gcc :> {gcc, glibc} @@ glibc :> {glibc}

Lists == {<< >>, <<rg>>, <<rg, fd>>, <<fd, rg>>, <<zlib, rg>>, <<glibc, fd, rg>>}
=============================================================================
