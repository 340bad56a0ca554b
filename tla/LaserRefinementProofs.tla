----------------------- MODULE LaserRefinementProofs -----------------------
(***************************************************************************)
(* The registry implements LaserClaims: each step of registry.c is a step  *)
(* of the claims it promises, or changes nothing a consumer can see.       *)
(***************************************************************************)
EXTENDS LaserClaimsProofs, LaserRegistryRefinement

device == [k \in Tokens |-> DeviceState(k)]

\* What the abstract device is, for a token with an entry and for one without.
LEMMA DeviceOf ==
    ASSUME TableInv, NEW k \in Tokens
    PROVE  /\ Lookup(k) = {} => DeviceState(k) = "down"
           /\ \A s \in Lookup(k) :
                 DeviceState(k) = IF entries[s].cancelled THEN "closing"
                                  ELSE IF entries[s].refs > 0 THEN "up" ELSE "down"
<1>1. Lookup(k) = {} => DeviceState(k) = "down"
  BY DEF DeviceState
<1>2. ASSUME NEW s \in Lookup(k)
      PROVE  DeviceState(k) = IF entries[s].cancelled THEN "closing"
                              ELSE IF entries[s].refs > 0 THEN "up" ELSE "down"
  <2>1. Lookup(k) = {s}
    BY DEF TableInv, Lookup
  <2> QED BY <2>1 DEF DeviceState
<1> QED BY <1>1, <1>2

LEMMA DevicesStay ==
    ASSUME SameCounts
    PROVE  UNCHANGED device
<1>1. ASSUME NEW k \in Tokens PROVE DeviceState(k)' = DeviceState(k)
  <2>1. Lookup(k)' = Lookup(k)
    BY DEF Lookup, SameCounts
  <2>2. \A s \in Lookup(k) : /\ entries'[s].cancelled = entries[s].cancelled
                             /\ entries'[s].refs = entries[s].refs
    BY DEF Lookup, SameCounts
  <2> QED BY <2>1, <2>2 DEF DeviceState
<1> QED BY <1>1 DEF device

\* A step on one entry, of token k: the other tokens' devices stay.
LEMMA DeviceMoves ==
    ASSUME NEW s \in Slots, NEW k \in Tokens,
           entries[s].in_use => entries[s].token = k,
           entries'[s].in_use => entries'[s].token = k,
           \A r \in Slots \ {s} : entries'[r] = entries[r]
    PROVE  device' = [device EXCEPT ![k] = DeviceState(k)']
<1>1. ASSUME NEW j \in Tokens \ {k} PROVE DeviceState(j)' = DeviceState(j)
  <2>1. Lookup(j)' = Lookup(j) /\ s \notin Lookup(j)
    BY DEF Lookup
  <2>2. \A r \in Lookup(j) : entries'[r] = entries[r]
    BY <2>1 DEF Lookup
  <2> QED BY <2>1, <2>2 DEF DeviceState
<1> QED BY <1>1 DEF device

----------------------------------------------------------------------------
(* The steps a consumer can see. *)

\* laser_acquire() grants a claim, on an entry that is not being closed.
LEMMA CountIsClaim ==
    ASSUME ClaimCore, ClaimCore', NEW t \in Threads, CountClaim(t)
    PROVE  Abstract!Next
<1> USE DEF ClaimCore, TableCore
<1>1. pc[t] = "count" /\ slot[t] \in Slots /\ tok[t] \in Tokens
  BY DEF CountClaim, LocalInv, SlotPcs, TokPcs, AcquirePcs
<1>2. PICK s \in Slots, k \in Tokens : slot[t] = s /\ tok[t] = k
  BY <1>1
<1>3. s \in Lookup(k) /\ entries[s].in_use /\ entries[s].token = k /\ t \notin holders[k]
  BY <1>1, <1>2 DEF SlotsInv, CountInv, Lookup, ClaimInv, AcquirePcs
<1>4. ~entries[s].cancelled
  BY <1>1, <1>3, WorkerKnows, BusySets
<1>5. /\ entries'[s].in_use /\ entries'[s].token = k /\ ~entries'[s].cancelled
      /\ entries'[s].refs > 0
      /\ \A r \in Slots \ {s} : entries'[r] = entries[r]
  <2>1. entries[s] \in Entry
        /\ entries'[s] = [entries[s] EXCEPT !.refs = entries[s].refs + 1]
    BY <1>2 DEF CountClaim, TypeOK
  <2>2. \A r \in Slots \ {s} : entries'[r] = entries[r]
    BY <1>2 DEF CountClaim, TypeOK
  <2>3. entries[s].refs \in Nat /\ entries'[s].refs = entries[s].refs + 1
    BY <2>1 DEF Entry
  <2>4. entries'[s].refs > 0
    BY <2>3
  <2> QED BY <1>3, <1>4, <2>1, <2>2, <2>4 DEF Entry
<1>6. DeviceState(k) # "closing"
  BY <1>3, <1>4, DeviceOf DEF SlotsInv
<1>7. DeviceState(k)' = "up"
  <2>1. TableInv' /\ s \in Lookup(k)'
    BY <1>5 DEF SlotsInv, Lookup
  <2>2. \A r \in Lookup(k)' : ~entries'[r].cancelled
    BY <1>3, <1>5, <2>1 DEF TableInv, Lookup
  <2> QED BY <1>5, <2>1, <2>2 DEF DeviceState
<1>8. device' = [device EXCEPT ![k] = "up"] /\ device[k] # "closing"
  BY <1>3, <1>5, <1>6, <1>7, DeviceMoves DEF device
<1>9. holders' = [holders EXCEPT ![k] = @ \cup {t}]
  BY <1>2 DEF CountClaim
<1>10. Abstract!Claim(t, k)
  BY <1>3, <1>8, <1>9 DEF Abstract!Claim, device
<1> QED BY <1>10 DEF Abstract!Next

\* The last release starts the teardown: nobody else holds a claim.
LEMMA LastStartsClosing ==
    ASSUME ClaimCore, ClaimCore', NEW t \in Threads, ReleaseLast(t)
    PROVE  Abstract!Next
<1> USE DEF ClaimCore, TableCore
<1>1. PICK s \in Lookup(tok[t]) :
         /\ entries[s].refs = 1
         /\ entries' = [entries EXCEPT ![s].refs = 0, ![s].cancelled = TRUE]
  BY DEF ReleaseLast
<1>2. s \in Slots /\ entries[s].in_use /\ entries[s].token = tok[t] /\ tok[t] \in Tokens
  BY <1>1 DEF Lookup, SlotsInv, TableInv
<1>3. PICK k \in Tokens : tok[t] = k
  BY <1>2
<1>4. pc[t] = "rel_find" /\ UNCHANGED holders
  BY DEF ReleaseLast, claims
<1>5. ~entries[s].cancelled
  BY <1>2, <1>4, WorkerKnows, BusySets, PcSets
<1>6. holders[k] = {}
  <2>1. t \notin holders[k] /\ t \in Claimants(k)
    BY <1>3, <1>4, ClaimSets DEF ClaimInv, ClaimPcs, Claimants, Releasing
  <2>2. Cardinality(Claimants(k)) = 1
    BY <1>1, <1>2, <1>3 DEF RefsInv
  <2>3. Cardinality(Claimants(k) \ {t}) = 0 /\ IsFiniteSet(Claimants(k) \ {t})
    BY <2>1, <2>2, ClaimantsFinite, FS_RemoveElement
  <2>4. Claimants(k) \ {t} = {}
    BY <2>3, FS_EmptySet
  <2> QED BY <2>1, <2>4 DEF Claimants
<1>7. /\ entries'[s].in_use /\ entries'[s].token = k /\ entries'[s].cancelled
      /\ \A r \in Slots \ {s} : entries'[r] = entries[r]
  <2>1. entries[s] \in Entry
        /\ entries'[s] = [[entries[s] EXCEPT !.refs = 0] EXCEPT !.cancelled = TRUE]
    BY <1>1, <1>2 DEF TypeOK
  <2>2. \A r \in Slots \ {s} : entries'[r] = entries[r]
    BY <1>1, <1>2 DEF TypeOK
  <2> QED BY <1>2, <1>3, <2>1, <2>2 DEF Entry
<1>8. DeviceState(k) = "up"
  BY <1>1, <1>3, <1>5, DeviceOf DEF SlotsInv
<1>9. DeviceState(k)' = "closing"
  BY <1>2, <1>7 DEF DeviceState, Lookup
<1>10. device' = [device EXCEPT ![k] = "closing"] /\ device[k] = "up"
  BY <1>2, <1>3, <1>7, <1>8, <1>9, DeviceMoves DEF device
<1>11. Abstract!StartClosing(k)
  BY <1>4, <1>6, <1>10 DEF Abstract!StartClosing, device
<1> QED BY <1>11 DEF Abstract!Next

\* The end of teardown_entry_locked() frees the entry.
LEMMA FreeIsClosed ==
    ASSUME ClaimCore, ClaimCore', NEW t \in Threads, FreeSlot(t)
    PROVE  Abstract!Next
<1> USE DEF ClaimCore, TableCore
<1>1. pc[t] = "free_slot" /\ slot[t] \in Slots /\ UNCHANGED holders
  BY CallSets DEF FreeSlot, LocalInv, TeardownPcs, claims
<1>2. PICK s \in Slots : slot[t] = s
  BY <1>1
<1>3. entries[s].in_use /\ entries[s].cancelled /\ entries[s].token \in Tokens
  BY <1>1, <1>2 DEF SlotsInv, TableInv, TeardownInv, BeingClosed, TeardownPcs
<1>4. PICK k \in Tokens : entries[s].token = k
  BY <1>3
<1>5. ~entries'[s].in_use /\ \A r \in Slots \ {s} : entries'[r] = entries[r]
  BY <1>2 DEF FreeSlot, ReleaseSlot, TypeOK, ZeroEntry
<1>6. DeviceState(k) = "closing"
  BY <1>3, <1>4 DEF DeviceState, Lookup
<1>7. DeviceState(k)' = "down"
  <2>1. Lookup(k)' = {}
    BY <1>3, <1>4, <1>5 DEF Lookup, SlotsInv, TableInv
  <2> QED BY <2>1 DEF DeviceState
<1>8. device' = [device EXCEPT ![k] = "down"] /\ device[k] = "closing"
  BY <1>4, <1>5, <1>6, <1>7, DeviceMoves DEF device
<1>9. Abstract!Closed(k)
  BY <1>1, <1>8 DEF Abstract!Closed, device
<1> QED BY <1>9 DEF Abstract!Next

\* laser_release() is called: the consumer gives its claim up.
LEMMA CallIsUnclaim ==
    ASSUME NEW t \in Threads, NEW k \in Tokens, ReleaseCall(t, k)
    PROVE  Abstract!Next
<1>1. SameCounts
  BY DEF ReleaseCall, SameCounts
<1>2. Abstract!Unclaim(t, k)
  BY <1>1, DevicesStay DEF Abstract!Unclaim, ReleaseCall, device
<1> QED BY <1>2 DEF Abstract!Next

----------------------------------------------------------------------------
(* The steps no consumer can see. *)

\* The abstract state is as it was.
Stutter == UNCHANGED <<holders, device>>

LEMMA PublishStutters ==
    ASSUME ClaimCore, ClaimCore', NEW t \in Threads, Publish(t)
    PROVE  Stutter
<1> USE DEF ClaimCore, TableCore
<1>1. pc[t] = "publish" /\ slot[t] \in Slots /\ tok[t] \in Tokens
  BY DEF Publish, LocalInv, SlotPcs, TokPcs, AcquirePcs, RegisterPcs
<1>2. PICK s \in Slots, k \in Tokens : slot[t] = s /\ tok[t] = k
  BY <1>1
<1>3. /\ ~entries[s].in_use /\ entries[s].token = k /\ entries[s].refs = 0
      /\ ~entries[s].cancelled /\ Lookup(k) = {}
  BY <1>1, <1>2 DEF SlotsInv, RegisterInv, BeingBuilt, RegisterPcs
<1>4. /\ entries'[s].in_use /\ entries'[s].token = k /\ entries'[s].refs = 0
      /\ ~entries'[s].cancelled
      /\ \A r \in Slots \ {s} : entries'[r] = entries[r]
  <2>1. entries[s] \in Entry /\ entries'[s] = [entries[s] EXCEPT !.in_use = TRUE]
    BY <1>2 DEF Publish, TypeOK
  <2>2. \A r \in Slots \ {s} : entries'[r] = entries[r]
    BY <1>2 DEF Publish, TypeOK
  <2> QED BY <1>3, <2>1, <2>2 DEF Entry
<1>5. DeviceState(k) = "down"
  BY <1>3 DEF DeviceState
<1>6. DeviceState(k)' = "down"
  <2>1. \A r \in Lookup(k)' : r = s
    BY <1>3, <1>4 DEF Lookup
  <2>2. \A r \in Lookup(k)' : ~entries'[r].cancelled /\ ~(entries'[r].refs > 0)
    BY <1>4, <2>1
  <2> QED BY <2>2 DEF DeviceState
<1>7. device' = [device EXCEPT ![k] = "down"] /\ device[k] = "down"
  BY <1>3, <1>4, <1>5, <1>6, DeviceMoves DEF device
<1>8. UNCHANGED holders
  BY DEF Publish, claims
<1> QED BY <1>7, <1>8 DEF Stutter, device

LEMMA DropStutters ==
    ASSUME ClaimCore, ClaimCore', NEW t \in Threads, ReleaseDrop(t)
    PROVE  Stutter
<1> USE DEF ClaimCore, TableCore
<1>1. PICK s \in Lookup(tok[t]) : /\ entries[s].refs > 1
                                  /\ entries' = [entries EXCEPT ![s].refs = @ - 1]
  BY DEF ReleaseDrop
<1>2. s \in Slots /\ entries[s].in_use /\ entries[s].token = tok[t] /\ tok[t] \in Tokens
  BY <1>1 DEF Lookup, SlotsInv, TableInv
<1>3. PICK k \in Tokens : tok[t] = k
  BY <1>2
<1>4. /\ entries'[s].in_use /\ entries'[s].token = k
      /\ entries'[s].cancelled = entries[s].cancelled
      /\ entries'[s].refs > 0
      /\ \A r \in Slots \ {s} : entries'[r] = entries[r]
  <2>1. entries[s] \in Entry
        /\ entries'[s] = [entries[s] EXCEPT !.refs = entries[s].refs - 1]
    BY <1>1, <1>2 DEF TypeOK
  <2>2. \A r \in Slots \ {s} : entries'[r] = entries[r]
    BY <1>1, <1>2 DEF TypeOK
  <2>3. entries[s].refs \in Nat /\ entries'[s].refs = entries[s].refs - 1
    BY <2>1 DEF Entry
  <2>4. entries'[s].refs > 0
    BY <1>1, <2>3
  <2> QED BY <1>2, <1>3, <2>1, <2>2, <2>4 DEF Entry
<1>5. DeviceState(k)' = DeviceState(k)
  <2>1. Lookup(k) = {s} /\ Lookup(k)' = {s}
    BY <1>1, <1>2, <1>3, <1>4 DEF Lookup, SlotsInv, TableInv
  <2>2. entries[s].refs \in Nat
    BY <1>2 DEF TypeOK, Entry
  <2>3. entries[s].refs > 0
    BY <1>1, <2>2
  <2> QED BY <1>4, <2>1, <2>3 DEF DeviceState
<1>6. device' = [device EXCEPT ![k] = DeviceState(k)]
  BY <1>2, <1>3, <1>4, <1>5, DeviceMoves
<1>7. UNCHANGED holders
  BY DEF ReleaseDrop, claims
<1> QED BY <1>6, <1>7 DEF Stutter, device

LEMMA OthersStutter ==
    ASSUME SameCounts, UNCHANGED holders
    PROVE  Stutter
  BY DevicesStay DEF Stutter

----------------------------------------------------------------------------

LEMMA StepMaps == ClaimCore /\ ClaimCore' /\ [Next]_vars => Abstract!Next \/ Stutter
<1> SUFFICES ASSUME ClaimCore, ClaimCore', [Next]_vars PROVE Abstract!Next \/ Stutter
  OBVIOUS
<1>1. ASSUME NEW t \in Threads, Call(t) PROVE Abstract!Next \/ Stutter
  <2>1. CASE \E k \in Tokens : ReleaseCall(t, k)
    BY <2>1, CallIsUnclaim
  <2>2. CASE ~\E k \in Tokens : ReleaseCall(t, k)
    <3>1. UNCHANGED <<entries, holders>>
      BY <1>1, <2>2 DEF Call, AcquireCall, CommandCall, StrayReleaseCall, claims
    <3>2. SameCounts
      BY <3>1 DEF SameCounts
    <3> QED BY <3>1, <3>2, OthersStutter
  <2> QED BY <2>1, <2>2
<1>2. ASSUME NEW t \in Threads, LockRegistry(t) \/ Acquire(t) \/ Command(t)
      PROVE  Abstract!Next \/ Stutter
  <2>1. CASE CountClaim(t)
    BY <2>1, CountIsClaim
  <2>2. CASE ~CountClaim(t)
    <3>1. UNCHANGED <<entries, holders>>
      BY <1>2, <2>2 DEF LockRegistry, Acquire, AcquireRefused, AcquireFound, AcquireAbsent,
         AcquireFailed, Command, CommandCheck, CommandLock, CommandCancelled, CommandSend,
         CommandDone, claims
    <3>2. SameCounts
      BY <3>1 DEF SameCounts
    <3> QED BY <3>1, <3>2, OthersStutter
  <2> QED BY <2>1, <2>2
<1>3. ASSUME NEW t \in Threads, Register(t) PROVE Abstract!Next \/ Stutter
  <2>1. CASE Publish(t)
    BY <2>1, PublishStutters
  <2>2. CASE ~Publish(t)
    <3>1. SameCounts
      BY <1>3, <2>2, RegisterCounts DEF ClaimCore
    <3>2. UNCHANGED holders
      BY <1>3 DEF Register, Reserve, ReserveFails, SetupStep, Wrap, FindEndpoints,
         DetachKernelDriver, ClaimInterface, Probe, Settle, Publish, UndoStep, UndoHandle,
         UndoSlot, claims
    <3> QED BY <3>1, <3>2, OthersStutter
  <2> QED BY <2>1, <2>2
<1>4. ASSUME NEW t \in Threads, Release(t) PROVE Abstract!Next \/ Stutter
  <2>1. CASE ReleaseIgnored(t) \/ Drain(t) \/ DestroyLocks(t)
    <3>1. UNCHANGED <<entries, holders>>
      BY <2>1 DEF ReleaseIgnored, Drain, DestroyLocks, claims
    <3>2. SameCounts
      BY <3>1 DEF SameCounts
    <3> QED BY <3>1, <3>2, OthersStutter
  <2>2. CASE CloseDevice(t)
    <3>1. slot[t] \in Slots
      BY <2>2, CallSets DEF CloseDevice, ClaimCore, TableCore, LocalInv, TeardownPcs
    <3>2. SameEntries
      BY <2>2, <3>1, SameButHandle DEF CloseDevice, ClaimCore, TableCore
    <3>3. SameCounts
      BY <3>2 DEF SameEntries, SameCounts
    <3> QED BY <2>2, <3>3, OthersStutter DEF CloseDevice, claims
  <2> QED BY <1>4, <2>1, <2>2, DropStutters, LastStartsClosing, FreeIsClosed DEF Release
<1>5. CASE UNCHANGED vars \/ \E k \in Tokens, d \in Devices \cup {None} : Recycle(k, d)
  <2>1. UNCHANGED <<entries, holders>>
    BY <1>5 DEF Recycle, vars, claims
  <2>2. SameCounts
    BY <2>1 DEF SameCounts
  <2> QED BY <2>1, <2>2, OthersStutter
<1> QED BY <1>1, <1>2, <1>3, <1>4, <1>5 DEF Next, Step

(***************************************************************************)
(* registry.c implements the claims it promises, for any number of         *)
(* threads, tokens and slots: no claim is granted on an entry being torn   *)
(* down, and only the release that leaves nobody holding starts a teardown *)
(* (laser_acquire, laser_release, teardown_entry_locked).                  *)
(***************************************************************************)
THEOREM Refines == Spec => ImplementsClaims
<1>1. Init => Abstract!Init
  <2> SUFFICES ASSUME Init PROVE Abstract!Init
    OBVIOUS
  <2>1. \A k \in Tokens : Lookup(k) = {}
    BY DEF Init, ZeroEntry, Lookup
  <2>2. \A k \in Tokens : DeviceState(k) = "down"
    BY <2>1 DEF DeviceState
  <2> QED BY <2>2 DEF Init, Abstract!Init
<1>2. ClaimCore /\ ClaimCore' /\ [Next]_vars
         => [Abstract!Next]_<<holders, [k \in Tokens |-> DeviceState(k)]>>
  BY StepMaps DEF Stutter, device
<1> QED BY <1>1, <1>2, ClaimCoreHolds, PTL DEF Spec, ImplementsClaims, Abstract!Spec

============================================================================
