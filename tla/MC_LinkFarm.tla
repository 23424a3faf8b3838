----------------------------- MODULE MC_LinkFarm -----------------------------
(***************************************************************************)
(* Every call of linkAll over three paths and two program names, with any  *)
(* part of the three written, any farm before it, and up to two roots.     *)
(***************************************************************************)
EXTENDS LinkFarm, TLC

CONSTANTS a, b, c, p, q

MCPath == {a, b, c}
MCProgram == {p, q}
MCPrograms == a :> {p} @@ b :> {p, q} @@ c :> {p, q}
MCRootLists == {<< >>} \cup {<<x>> : x \in MCPath}
  \cup {r \in MCPath \X MCPath : r[1] # r[2]}
=============================================================================
