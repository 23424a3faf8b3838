----------------------------- MODULE GuestStore -----------------------------
(***************************************************************************)
(* What the page promises the guest about its store, and no more: the      *)
(* store appears at once, complete, when the guest is let go; after that   *)
(* it only grows; and at every moment each path in it has every path it    *)
(* refers to, so a program the guest can name can also be loaded.          *)
(***************************************************************************)
CONSTANTS
  Path,  \* store paths
  Refs   \* Refs[p]: the references of p

VARIABLES
  up,    \* whether the guest has been let go
  store  \* the store paths it can see

Complete(S) == \A p \in S : Refs[p] \subseteq S

Init == up = FALSE /\ store = {}

LetGo ==
  /\ ~up
  /\ up' = TRUE
  /\ store' \in SUBSET Path /\ Complete(store')

Grow ==
  /\ up
  /\ store' \in SUBSET Path /\ Complete(store')
  /\ store \subseteq store'
  /\ UNCHANGED up

Next == LetGo \/ Grow

Spec == Init /\ [][Next]_<<up, store>>
=============================================================================
