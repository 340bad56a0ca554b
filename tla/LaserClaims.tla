---------------------------- MODULE LaserClaims ----------------------------
(***************************************************************************)
(* What laser_acquire() and laser_release() promise to consumers, with no  *)
(* table, lock or setup step: the set of consumers holding each token, and *)
(* a device that is up from the first claim granted until nobody holds it, *)
(* then closes, and grants no claim while it is closing.                   *)
(***************************************************************************)
CONSTANTS Threads, Tokens

VARIABLES holders, device

TypeOK == /\ holders \in [Tokens -> SUBSET Threads]
          /\ device \in [Tokens -> {"down", "up", "closing"}]

Init == /\ holders = [k \in Tokens |-> {}]
        /\ device = [k \in Tokens |-> "down"]

Claim(t, k) ==
    /\ t \notin holders[k] /\ device[k] # "closing"
    /\ holders' = [holders EXCEPT ![k] = @ \cup {t}]
    /\ device' = [device EXCEPT ![k] = "up"]

Unclaim(t, k) ==
    /\ t \in holders[k]
    /\ holders' = [holders EXCEPT ![k] = @ \ {t}]
    /\ UNCHANGED device

StartClosing(k) ==
    /\ device[k] = "up" /\ holders[k] = {}
    /\ device' = [device EXCEPT ![k] = "closing"]
    /\ UNCHANGED holders

Closed(k) ==
    /\ device[k] = "closing"
    /\ device' = [device EXCEPT ![k] = "down"]
    /\ UNCHANGED holders

Next == \E k \in Tokens :
    \/ \E t \in Threads : Claim(t, k) \/ Unclaim(t, k)
    \/ StartClosing(k) \/ Closed(k)

Spec == Init /\ [][Next]_<<holders, device>>

============================================================================
