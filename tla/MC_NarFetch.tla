----------------------------- MODULE MC_NarFetch -----------------------------
(* Two fetchers of one URL over two visits. *)
EXTENDS NarFetch
CONSTANTS f1, f2
=============================================================================
