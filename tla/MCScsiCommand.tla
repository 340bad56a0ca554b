--------------------------- MODULE MCScsiCommand ---------------------------
(* ScsiCommand on small instances. *)
EXTENDS ScsiCommand, TLC

Symmetry == Permutations(Threads)

============================================================================
