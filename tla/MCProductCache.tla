--------------------------- MODULE MCProductCache ---------------------------
(* ProductCache on a small instance; its run checks liveness as well, so it
   uses no symmetry. *)
EXTENDS ProductCache
=============================================================================
