-------------------------- MODULE MCLaserRegistry --------------------------
(* LaserRegistry and its refinement of LaserClaims, on small instances. *)
EXTENDS LaserRegistryRefinement, TLC

Symmetry == Permutations(Threads) \cup Permutations(Tokens) \cup Permutations(Devices)

============================================================================
