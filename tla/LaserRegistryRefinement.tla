---------------------- MODULE LaserRegistryRefinement ----------------------
(***************************************************************************)
(* The table of registry.c as an implementation of LaserClaims.            *)
(***************************************************************************)
EXTENDS LaserRegistry

(***************************************************************************)
(* An entry is down until its first claim is counted, and closing from the *)
(* step that drops the last one.                                           *)
(***************************************************************************)
DeviceState(k) ==
    IF \E s \in Lookup(k) : entries[s].cancelled THEN "closing"
    ELSE IF \E s \in Lookup(k) : entries[s].refs > 0 THEN "up"
    ELSE "down"

Abstract == INSTANCE LaserClaims WITH device <- [k \in Tokens |-> DeviceState(k)]

(***************************************************************************)
(* The registry implements the claims it promises: no claim is granted on  *)
(* an entry being torn down, and only the last release starts a teardown.  *)
(***************************************************************************)
ImplementsClaims == Abstract!Spec

============================================================================
