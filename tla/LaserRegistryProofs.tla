------------------------ MODULE LaserRegistryProofs ------------------------
(***************************************************************************)
(* The registry for any number of threads, tokens, devices and slots: the  *)
(* types, the two locks, what the slots hold, one entry per token.         *)
(* LaserClaimsProofs builds on it.                                         *)
(***************************************************************************)
EXTENDS LaserRegistry, FiniteSetTheorems, TLAPS

----------------------------------------------------------------------------
(* The inductive invariant, part by part. *)

\* g_registry_lock is held by the thread inside laser_acquire() or
\* laser_release(), if any.
LockInv == \A t \in Threads : pc[t] \in LockedPcs <=> g_registry_lock = t

\* Which token and which entry pointer a call is about.
SlotPcs == RegisterPcs \cup TeardownPcs \cup CommandPcs \cup {"count"}
TokPcs == AcquirePcs \cup TeardownPcs \cup CommandPcs \cup {"acq_lock"}
ReleasingPcs == {"rel_lock", "rel_find"}

LocalInv ==
    \A t \in Threads :
        /\ pc[t] \in TokPcs => tok[t] \in Tokens
        /\ pc[t] \in ReleasingPcs => tok[t] \in Tokens \cup StrayTokens
        /\ pc[t] \in SlotPcs => slot[t] \in Slots

\* A published entry has a token of its own.
TableInv ==
    /\ \A s \in Slots : entries[s].in_use => entries[s].token \in Tokens
    /\ \A r, s \in Slots :
          entries[r].in_use /\ entries[s].in_use /\ entries[r].token = entries[s].token
              => r = s

(***************************************************************************)
(* What a registration holds at each step, on the way up and on the way    *)
(* down, and what is left at each step of a teardown.                      *)
(***************************************************************************)
HeldAt ==
    [init_io_lock   |-> {},
     init_css_mtx   |-> {"io_lock"},
     init_css_cv    |-> {"io_lock", "css_mtx"},
     init_ctx       |-> {"io_lock", "css_mtx", "css_cv"},
     wrap           |-> {"io_lock", "css_mtx", "css_cv", "ctx"},
     find_endpoints |-> Resources \ {"iface"},
     detach         |-> Resources \ {"iface"},
     claim          |-> Resources \ {"iface"},
     probe          |-> Resources,
     settle         |-> Resources,
     publish        |-> Resources,
     err_iface      |-> Resources,
     err_handle     |-> Resources \ {"iface"},
     err_ctx        |-> {"io_lock", "css_mtx", "css_cv", "ctx"},
     err_css_cond   |-> {"io_lock", "css_mtx", "css_cv"},
     err_css_mutex  |-> {"io_lock", "css_mtx"},
     err_io_mutex   |-> {"io_lock"},
     err_slot       |-> {},
     drain          |-> Resources,
     close          |-> Resources,
     destroy        |-> {"io_lock", "css_mtx", "css_cv"},
     free_slot      |-> {}]

BeingBuilt(t) ==
    LET e == entries[slot[t]] IN
    /\ ~e.in_use /\ e.token = tok[t] /\ e.refs = 0 /\ ~e.cancelled
    /\ Lookup(tok[t]) = {}
    /\ held[slot[t]] = HeldAt[pc[t]]

BeingClosed(t) ==
    LET e == entries[slot[t]] IN
    /\ e.in_use /\ e.cancelled /\ e.refs = 0
    /\ held[slot[t]] = HeldAt[pc[t]]

RegisterInv == \A t \in Threads : pc[t] \in RegisterPcs => BeingBuilt(t)
TeardownInv == \A t \in Threads : pc[t] \in TeardownPcs => BeingClosed(t)

CountInv ==
    \A t \in Threads : pc[t] = "count" => slot[t] \in Lookup(tok[t])

TornDown(s) == \E t \in Threads : slot[t] = s /\ pc[t] \in TeardownPcs

\* A slot nobody is working on is either up, or empty.
QuietInv ==
    \A s \in Slots :
        /\ entries[s].in_use /\ ~TornDown(s) => ~entries[s].cancelled /\ held[s] = Resources
        /\ ~entries[s].in_use /\ ~UnderConstruction(s) => held[s] = {}

SlotsInv == TableInv /\ RegisterInv /\ TeardownInv /\ CountInv /\ QuietInv

----------------------------------------------------------------------------
(* Types. *)

(***************************************************************************)
(* Replacing a field of an entry, or of a call's locals, by a value of its *)
(* type gives an entry, or locals.                                         *)
(***************************************************************************)
LEMMA EntryFields ==
    ASSUME NEW e \in Entry
    PROVE  /\ \A n \in Nat : [e EXCEPT !.refs = n] \in Entry
           /\ \A b \in BOOLEAN : /\ [e EXCEPT !.in_use = b] \in Entry
                                 /\ [e EXCEPT !.cancelled = b] \in Entry
                                 /\ [e EXCEPT !.kernel_driver_detached = b] \in Entry
           /\ \A d \in Devices \cup {None} : [e EXCEPT !.handle = d] \in Entry
  BY DEF Entry

LEMMA ZeroEntryType == ZeroEntry \in Entry
  BY DEF Entry, ZeroEntry

LEMMA GotoType ==
    ASSUME TypeOK, NEW t \in Threads, NEW l \in Pcs, Goto(t, l)
    PROVE  /\ pc' \in [Threads -> Pcs]
           /\ pc'[t] = l /\ \A u \in Threads \ {t} : pc'[u] = pc[u]
  BY DEF TypeOK, Goto

LEMMA ReturnType ==
    ASSUME TypeOK, NEW t \in Threads, Return(t)
    PROVE  /\ pc' \in [Threads -> Pcs]
           /\ tok' \in [Threads -> Tokens \cup StrayTokens \cup {None}]
           /\ slot' \in [Threads -> Slots \cup {None}]
           /\ setup' \in [Threads -> [before: {"bound", "detached", "none", "unknown"},
                                      declined: BOOLEAN]]
           /\ pc'[t] = "idle"
           /\ \A u \in Threads \ {t} :
                 pc'[u] = pc[u] /\ tok'[u] = tok[u] /\ slot'[u] = slot[u]
<1>1. "idle" \in Pcs
  BY DEF Pcs
<1>2. NoSetup \in [before: {"bound", "detached", "none", "unknown"}, declined: BOOLEAN]
  BY DEF NoSetup
<1> QED BY <1>1, <1>2, GotoType DEF Return, TypeOK

LEMMA ReleaseSlotType ==
    ASSUME TypeOK, NEW s, ReleaseSlot(s)
    PROVE  entries' \in [Slots -> Entry] /\ io_lock' \in [Slots -> Threads \cup {None}]
  BY ZeroEntryType DEF TypeOK, ReleaseSlot

(***************************************************************************)
(* Type correctness needs to know which token and slot a call is about.    *)
(***************************************************************************)
LEMMA TypeStep == TypeOK /\ LocalInv /\ [Next]_vars => TypeOK'
<1> SUFFICES ASSUME TypeOK, LocalInv, [Next]_vars PROVE TypeOK'
  OBVIOUS
<1> USE NoneIsNothing, MaxDevicesNat
<1>0. /\ CommandPcs \cup LockedPcs \cup {"idle", "acq_lock", "rel_lock"} \subseteq Pcs
      /\ AcquirePcs \cup ReleasePcs \subseteq LockedPcs
      /\ RegisterPcs \cup {"acq_find", "reserve", "count", "acq_fail"} \subseteq AcquirePcs
      /\ TeardownPcs \cup {"rel_find"} \subseteq ReleasePcs
      /\ SetupPcs \cup UndoPcs \subseteq RegisterPcs
  BY DEF Pcs, LockedPcs, AcquirePcs, RegisterPcs, ReleasePcs
<1>1. ASSUME NEW t \in Threads, NEW k \in Tokens, AcquireCall(t, k) \/ ReleaseCall(t, k)
      PROVE  TypeOK'
  <2>1. CASE AcquireCall(t, k)
    BY <1>0, <2>1, GotoType DEF TypeOK, AcquireCall, world, claims
  <2>2. CASE ReleaseCall(t, k)
    <3>1. holders' \in [Tokens -> SUBSET Threads]
      BY <2>2 DEF ReleaseCall, TypeOK
    <3>2. claimDevice' \in [Threads -> [Tokens -> Devices \cup {None}]]
      BY <2>2 DEF ReleaseCall, TypeOK
    <3> QED BY <1>0, <2>2, <3>1, <3>2, GotoType DEF TypeOK, ReleaseCall, world
  <2> QED BY <1>1, <2>1, <2>2
<1>2. ASSUME NEW t \in Threads, NEW k \in StrayTokens, StrayReleaseCall(t, k) PROVE TypeOK'
  BY <1>0, <1>2, GotoType DEF TypeOK, StrayReleaseCall, world, claims
<1>3. ASSUME NEW t \in Threads, LockRegistry(t) PROVE TypeOK'
  <2>1. PICK l \in {"acq_find", "rel_find"} : Goto(t, l)
    BY <1>3 DEF LockRegistry
  <2> QED BY <1>0, <1>3, <2>1, GotoType DEF TypeOK, LockRegistry, local, world, claims
<1>4. ASSUME NEW t \in Threads,
             AcquireRefused(t) \/ AcquireFailed(t) \/ ReleaseIgnored(t)
      PROVE  TypeOK'
  BY <1>4, ReturnType DEF TypeOK, UnlockReturn, AcquireRefused, AcquireFailed,
     ReleaseIgnored, world, claims
<1>5. ASSUME NEW t \in Threads, AcquireFound(t) PROVE TypeOK'
  BY <1>0, <1>5, GotoType DEF TypeOK, AcquireFound, Lookup, world, claims
<1>6. ASSUME NEW t \in Threads,
             AcquireAbsent(t) \/ ReserveFails(t) \/ FindEndpoints(t) \/ Settle(t)
      PROVE  TypeOK'
  <2>1. PICK l \in {"reserve", "acq_fail", "detach", "err_handle", "publish"} : Goto(t, l)
    BY <1>6 DEF AcquireAbsent, ReserveFails, FindEndpoints, Settle
  <2>2. l \in Pcs
    BY <1>0, <2>1 DEF RegisterPcs
  <2> QED BY <1>6, <2>1, <2>2, GotoType DEF TypeOK, AcquireAbsent, ReserveFails,
     FindEndpoints, Settle, local, world, claims
<1>7. ASSUME NEW t \in Threads, CountClaim(t) PROVE TypeOK'
  <2>1. tok[t] \in Tokens /\ slot[t] \in Slots
    BY <1>0, <1>7 DEF LocalInv, TokPcs, SlotPcs, CountClaim
  <2>2. entries' \in [Slots -> Entry]
    <3>1. entries[slot[t]] \in Entry /\ entries[slot[t]].refs + 1 \in Nat
      BY <2>1 DEF TypeOK, Entry
    <3>2. [entries[slot[t]] EXCEPT !.refs = entries[slot[t]].refs + 1] \in Entry
      BY <3>1, EntryFields
    <3> QED BY <1>7, <2>1, <3>2 DEF CountClaim, TypeOK
  <2>3. holders' \in [Tokens -> SUBSET Threads]
    BY <1>7, <2>1 DEF CountClaim, TypeOK
  <2>4. claimDevice' \in [Threads -> [Tokens -> Devices \cup {None}]]
    BY <1>7, <2>1 DEF CountClaim, TypeOK
  <2> QED BY <1>7, <2>2, <2>3, <2>4, ReturnType DEF TypeOK, CountClaim, UnlockReturn, world
<1>8. ASSUME NEW t \in Threads, Reserve(t) PROVE TypeOK'
  <2>1. tok[t] \in Tokens
    BY <1>0, <1>8 DEF LocalInv, TokPcs, Reserve
  <2>2. PICK s \in Slots, id \in {fdDevice[tok[t]], None} :
           /\ entries' = [entries EXCEPT ![s] = [ZeroEntry EXCEPT !.token = tok[t], !.reg_id = id]]
           /\ io_lock' = [io_lock EXCEPT ![s] = None]
           /\ slot' = [slot EXCEPT ![t] = s]
    BY <1>8 DEF Reserve
  <2>3. [ZeroEntry EXCEPT !.token = tok[t], !.reg_id = id] \in Entry
    BY <2>1 DEF ZeroEntry, Entry, TypeOK
  <2>4. "init_io_lock" \in Pcs
    BY <1>0 DEF SetupPcs
  <2> QED BY <1>8, <2>2, <2>3, <2>4, GotoType DEF TypeOK, Reserve, world, claims
<1>9. ASSUME NEW t \in Threads, SetupStep(t) PROVE TypeOK'
  <2>1. Setup[pc[t]].gets \in Resources /\ Setup[pc[t]].then \in Pcs /\ Setup[pc[t]].undo \in Pcs
    BY <1>0, <1>9 DEF SetupStep, Setup, SetupPcs, UndoPcs, RegisterPcs, Resources
  <2>2. held' \in [Slots -> SUBSET Resources]
    BY <1>9, <2>1 DEF SetupStep, TypeOK
  <2>3. pc' \in [Threads -> Pcs]
    BY <1>9, <2>1, GotoType DEF SetupStep
  <2> QED BY <1>9, <2>2, <2>3 DEF TypeOK, SetupStep, local, world, claims
<1>10. ASSUME NEW t \in Threads, Wrap(t) PROVE TypeOK'
  <2>1. tok[t] \in Tokens /\ slot[t] \in Slots
    BY <1>0, <1>10 DEF LocalInv, TokPcs, SlotPcs, Wrap, RegisterPcs
  <2>2. fdDevice[tok[t]] \in Devices \cup {None}
    BY <2>1 DEF TypeOK
  <2>3. pc' \in [Threads -> Pcs]
    <3>1. {"find_endpoints", "err_ctx"} \subseteq Pcs
      BY <1>0 DEF RegisterPcs, UndoPcs
    <3> QED BY <1>10, <3>1, GotoType DEF Wrap
  <2>4. entries' \in [Slots -> Entry]
    <3>1. CASE entries' = [entries EXCEPT ![slot[t]].handle = fdDevice[tok[t]]]
      BY <2>1, <2>2, <3>1, EntryFields DEF TypeOK
    <3>2. CASE UNCHANGED entries
      BY <3>2 DEF TypeOK
    <3> QED BY <1>10, <3>1, <3>2 DEF Wrap
  <2>5. setup' \in [Threads -> [before: {"bound", "detached", "none", "unknown"},
                                declined: BOOLEAN]]
    <3>1. CASE fdDevice[tok[t]] # None
               /\ setup' = [setup EXCEPT ![t].before = driver[fdDevice[tok[t]]]]
      BY <2>2, <3>1 DEF TypeOK
    <3>2. CASE UNCHANGED setup
      BY <3>2 DEF TypeOK
    <3> QED BY <1>10, <3>1, <3>2 DEF Wrap
  <2>6. held' \in [Slots -> SUBSET Resources]
    BY <1>10 DEF Wrap, TypeOK, Resources
  <2> QED BY <1>10, <2>3, <2>4, <2>5, <2>6 DEF TypeOK, Wrap, local, world, claims
<1>11. ASSUME NEW t \in Threads, DetachKernelDriver(t) PROVE TypeOK'
  <2>1. entries' \in [Slots -> Entry]
    <3>1. slot[t] \in Slots
      BY <1>0, <1>11 DEF LocalInv, SlotPcs, DetachKernelDriver, RegisterPcs
    <3>2. [entries[slot[t]] EXCEPT !.kernel_driver_detached = TRUE] \in Entry
      BY <3>1, EntryFields DEF TypeOK
    <3> QED BY <1>11, <3>1, <3>2 DEF DetachKernelDriver, TypeOK
  <2>2. driver' \in [Devices -> {"bound", "detached", "none"}]
    BY <1>11 DEF DetachKernelDriver, TypeOK
  <2>3. "claim" \in Pcs
    BY <1>0 DEF RegisterPcs
  <2> QED BY <1>11, <2>1, <2>2, <2>3, GotoType DEF TypeOK, DetachKernelDriver, local, claims
<1>12. ASSUME NEW t \in Threads, ClaimInterface(t) PROVE TypeOK'
  <2>1. pc' \in [Threads -> Pcs]
    <3>1. {"probe", "err_handle"} \subseteq Pcs
      BY <1>0 DEF RegisterPcs
    <3> QED BY <1>12, <3>1, GotoType DEF ClaimInterface
  <2>2. held' \in [Slots -> SUBSET Resources]
    <3>1. CASE held' = [held EXCEPT ![slot[t]] = @ \cup {"iface"}]
      BY <3>1 DEF TypeOK, Resources
    <3>2. CASE UNCHANGED held
      BY <3>2 DEF TypeOK
    <3> QED BY <1>12, <3>1, <3>2 DEF ClaimInterface
  <2> QED BY <1>12, <2>1, <2>2 DEF TypeOK, ClaimInterface, local, world, claims
<1>13. ASSUME NEW t \in Threads, Probe(t) PROVE TypeOK'
  <2>1. pc' \in [Threads -> Pcs]
    <3>1. {"settle", "err_iface"} \subseteq Pcs
      BY <1>0 DEF RegisterPcs, UndoPcs
    <3> QED BY <1>13, <3>1, GotoType DEF Probe
  <2>2. setup' \in [Threads -> [before: {"bound", "detached", "none", "unknown"},
                                declined: BOOLEAN]]
    <3>1. CASE setup' = [setup EXCEPT ![t].declined = TRUE]
      BY <3>1 DEF TypeOK
    <3>2. CASE UNCHANGED setup
      BY <3>2 DEF TypeOK
    <3> QED BY <1>13, <3>1, <3>2 DEF Probe
  <2> QED BY <1>13, <2>1, <2>2 DEF TypeOK, Probe, local, world, claims
<1>14. ASSUME NEW t \in Threads, Publish(t) PROVE TypeOK'
  <2>1. entries' \in [Slots -> Entry]
    BY <1>14, EntryFields DEF Publish, TypeOK
  <2> QED BY <1>0, <1>14, <2>1, GotoType DEF TypeOK, Publish, local, world, claims
<1>15. ASSUME NEW t \in Threads, UndoStep(t) PROVE TypeOK'
  <2>1. Undo[pc[t]].then \in Pcs
    BY <1>0, <1>15 DEF UndoStep, Undo, UndoPcs, RegisterPcs
  <2> QED BY <1>15, <2>1, GotoType DEF TypeOK, UndoStep, local, world, claims
<1>16. ASSUME NEW t \in Threads, UndoHandle(t) PROVE TypeOK'
  <2>1. entries' \in [Slots -> Entry]
    <3>1. slot[t] \in Slots
      BY <1>0, <1>16 DEF LocalInv, SlotPcs, UndoHandle, RegisterPcs
    <3>2. entries[slot[t]] \in Entry
      BY <3>1 DEF TypeOK
    <3>3. [entries[slot[t]] EXCEPT !.kernel_driver_detached = FALSE, !.handle = None] \in Entry
      BY <3>2 DEF Entry
    <3> QED BY <1>16, <3>1, <3>3 DEF UndoHandle, TypeOK
  <2>2. driver' \in [Devices -> {"bound", "detached", "none"}]
    BY <1>16 DEF UndoHandle, TypeOK
  <2>3. held' \in [Slots -> SUBSET Resources]
    BY <1>16 DEF UndoHandle, TypeOK
  <2>4. "err_ctx" \in Pcs
    BY <1>0 DEF UndoPcs
  <2> QED BY <1>16, <2>1, <2>2, <2>3, <2>4, GotoType DEF TypeOK, UndoHandle, local, claims
<1>17. ASSUME NEW t \in Threads, UndoSlot(t) PROVE TypeOK'
  BY <1>0, <1>17, GotoType, ReleaseSlotType DEF TypeOK, UndoSlot, local, world, claims
<1>18. ASSUME NEW t \in Threads, ReleaseDrop(t) PROVE TypeOK'
  <2>1. PICK s \in Slots : /\ entries[s].refs > 1
                           /\ entries' = [entries EXCEPT ![s].refs = @ - 1]
    BY <1>18 DEF ReleaseDrop, Lookup
  <2>2. entries[s].refs - 1 \in Nat
    BY <2>1 DEF TypeOK, Entry
  <2>3. entries' \in [Slots -> Entry]
    BY <2>1, <2>2, EntryFields DEF TypeOK
  <2> QED BY <1>18, <2>3, ReturnType DEF TypeOK, UnlockReturn, ReleaseDrop, world, claims
<1>19. ASSUME NEW t \in Threads, ReleaseLast(t) PROVE TypeOK'
  <2>1. PICK s \in Slots : /\ entries' = [entries EXCEPT ![s].refs = 0, ![s].cancelled = TRUE]
                           /\ slot' = [slot EXCEPT ![t] = s]
    BY <1>19 DEF ReleaseLast, Lookup
  <2>2. [[entries[s] EXCEPT !.refs = 0] EXCEPT !.cancelled = TRUE] \in Entry
    BY EntryFields DEF TypeOK
  <2>3. entries' \in [Slots -> Entry]
    BY <2>1, <2>2 DEF TypeOK
  <2>4. "drain" \in Pcs
    BY <1>0 DEF TeardownPcs
  <2> QED BY <1>19, <2>1, <2>3, <2>4, GotoType DEF TypeOK, ReleaseLast, world, claims
<1>20. ASSUME NEW t \in Threads, Drain(t) \/ DestroyLocks(t) PROVE TypeOK'
  <2>1. {"close", "free_slot"} \subseteq Pcs
    BY <1>0 DEF TeardownPcs
  <2>2. CASE Drain(t)
    BY <2>1, <2>2, GotoType DEF TypeOK, Drain, local, world, claims
  <2>3. CASE DestroyLocks(t)
    <3>1. held' \in [Slots -> SUBSET Resources]
      BY <2>3 DEF DestroyLocks, TypeOK
    <3> QED BY <2>1, <2>3, <3>1, GotoType DEF TypeOK, DestroyLocks, local, world, claims
  <2> QED BY <1>20, <2>2, <2>3
<1>21. ASSUME NEW t \in Threads, CloseDevice(t) PROVE TypeOK'
  <2>1. entries' \in [Slots -> Entry]
    BY <1>21, EntryFields DEF CloseDevice, TypeOK
  <2>2. "destroy" \in Pcs
    BY <1>0 DEF TeardownPcs
  <2> QED BY <1>21, <2>1, <2>2, GotoType DEF TypeOK, CloseDevice, local, world, claims
<1>22. ASSUME NEW t \in Threads, FreeSlot(t) PROVE TypeOK'
  BY <1>22, ReturnType, ReleaseSlotType DEF TypeOK, UnlockReturn, FreeSlot, world, claims
<1>23. ASSUME NEW t \in Threads, NEW k \in Tokens, CommandCall(t, k) PROVE TypeOK'
  <2>1. "cmd_check" \in Pcs
    BY <1>0 DEF CommandPcs
  <2> QED BY <1>23, <2>1, GotoType DEF TypeOK, CommandCall, Lookup, world, claims
<1>24. ASSUME NEW t \in Threads, CommandCheck(t) \/ CommandDone(t) PROVE TypeOK'
  <2>1. {"cmd_queue", "cmd_attempt"} \subseteq Pcs
    BY <1>0 DEF CommandPcs
  <2>2. CASE Return(t)
    BY <1>24, <2>2, ReturnType DEF TypeOK, CommandCheck, CommandDone, local, world, claims
  <2>3. CASE UNCHANGED <<local, setup>>
    BY <1>24, <2>1, <2>3, GotoType, ReturnType
       DEF TypeOK, CommandCheck, CommandDone, local, world, claims
  <2> QED BY <1>24, <2>2, <2>3 DEF CommandCheck, CommandDone
<1>25. ASSUME NEW t \in Threads, CommandLock(t) \/ CommandSend(t) PROVE TypeOK'
  <2>1. {"cmd_attempt", "cmd_xfer"} \subseteq Pcs
    BY <1>0 DEF CommandPcs
  <2>2. CASE CommandLock(t)
    BY <2>1, <2>2, GotoType DEF TypeOK, CommandLock, local, world, claims
  <2>3. CASE CommandSend(t)
    BY <2>1, <2>3, GotoType DEF TypeOK, CommandSend, local, world, claims
  <2> QED BY <1>25, <2>2, <2>3
<1>26. ASSUME NEW t \in Threads, CommandCancelled(t) PROVE TypeOK'
  BY <1>26, ReturnType DEF TypeOK, CommandCancelled, world, claims
<1>27. ASSUME NEW k \in Tokens, NEW d \in Devices \cup {None}, Recycle(k, d) PROVE TypeOK'
  BY <1>27 DEF TypeOK, Recycle, local, claims
<1>28. CASE UNCHANGED vars
  BY <1>28 DEF TypeOK, vars
<1> QED
  BY <1>1, <1>2, <1>3, <1>4, <1>5, <1>6, <1>7, <1>8, <1>9, <1>10, <1>11, <1>12, <1>13, <1>14,
     <1>15, <1>16, <1>17, <1>18, <1>19, <1>20, <1>21, <1>22, <1>23, <1>24, <1>25, <1>26, <1>27,
     <1>28 DEF Next, Call, Step, Acquire, Register, Release, Command

----------------------------------------------------------------------------
(* g_registry_lock, and the locals of a call. *)

(***************************************************************************)
(* A call that moves on without taking or dropping g_registry_lock stays   *)
(* on the same side of it.                                                 *)
(***************************************************************************)
LEMMA SameSide ==
    ASSUME TypeOK, LockInv, NEW t \in Threads, NEW l \in Pcs, Goto(t, l),
           pc[t] \in LockedPcs <=> l \in LockedPcs, UNCHANGED g_registry_lock
    PROVE  LockInv'
  BY GotoType DEF LockInv

LEMMA OutsideReturns ==
    ASSUME TypeOK, LockInv, NEW t \in Threads, Return(t), pc[t] \notin LockedPcs,
           UNCHANGED g_registry_lock
    PROVE  LockInv'
<1>1. "idle" \in Pcs \ LockedPcs
  BY DEF Pcs, LockedPcs, AcquirePcs, RegisterPcs, SetupPcs, UndoPcs, ReleasePcs, TeardownPcs
<1> QED BY <1>1, SameSide DEF Return

LEMMA UnlockType ==
    ASSUME TypeOK, LockInv, NEW t \in Threads, UnlockReturn(t), pc[t] \in LockedPcs
    PROVE  LockInv'
<1>1. "idle" \notin LockedPcs
  BY DEF LockedPcs, AcquirePcs, RegisterPcs, SetupPcs, UndoPcs, ReleasePcs, TeardownPcs
<1> QED BY <1>1, ReturnType, NoneIsNothing DEF LockInv, UnlockReturn

LEMMA PcSets ==
    /\ CommandPcs \cup LockedPcs \cup {"idle", "acq_lock", "rel_lock"} = Pcs
    /\ AcquirePcs \cup ReleasePcs = LockedPcs
    /\ RegisterPcs \cup {"acq_find", "reserve", "count", "acq_fail"} = AcquirePcs
    /\ TeardownPcs \cup {"rel_find"} = ReleasePcs
    /\ SetupPcs \cup UndoPcs \cup {"wrap", "find_endpoints", "detach", "claim", "probe",
                                   "settle", "publish", "err_handle", "err_slot"} = RegisterPcs
    /\ (CommandPcs \cup {"idle", "acq_lock", "rel_lock"}) \cap LockedPcs = {}
    /\ {"idle", "acq_lock", "rel_lock"} \cap CommandPcs = {}
    /\ RegisterPcs \cap ReleasePcs = {}
    /\ AcquirePcs \cap ReleasePcs = {}
    /\ RegisterPcs \cap {"acq_find", "reserve", "count", "acq_fail"} = {}
    /\ TeardownPcs \cap {"rel_find"} = {}
    /\ CommandPcs = {"cmd_check", "cmd_queue", "cmd_attempt", "cmd_xfer"}
    /\ TeardownPcs = {"drain", "close", "destroy", "free_slot"}
<1> USE DEF Pcs, LockedPcs, AcquirePcs, RegisterPcs, SetupPcs, UndoPcs, ReleasePcs,
        TeardownPcs, CommandPcs
<1>1. (CommandPcs \cup {"idle", "acq_lock", "rel_lock"}) \cap LockedPcs = {}
  OBVIOUS
<1>2. RegisterPcs \cap ReleasePcs = {} /\ AcquirePcs \cap ReleasePcs = {}
  OBVIOUS
<1>3. RegisterPcs \cap {"acq_find", "reserve", "count", "acq_fail"} = {}
  OBVIOUS
<1> QED BY <1>1, <1>2, <1>3

LEMMA SetupTargets ==
    ASSUME NEW l \in SetupPcs
    PROVE  Setup[l].then \in RegisterPcs /\ Setup[l].undo \in RegisterPcs
  BY DEF Setup, SetupPcs, UndoPcs, RegisterPcs

LEMMA UndoTargets ==
    ASSUME NEW l \in UndoPcs
    PROVE  Undo[l].then \in RegisterPcs
  BY DEF Undo, UndoPcs, RegisterPcs

LEMMA LockStep == TypeOK /\ LockInv /\ [Next]_vars => LockInv'
<1> SUFFICES ASSUME TypeOK, LockInv, [Next]_vars PROVE LockInv'
  OBVIOUS
<1> USE PcSets
\* Calls, and commands: outside the lock all along.
<1>1. ASSUME NEW t \in Threads, NEW k \in Tokens,
             AcquireCall(t, k) \/ ReleaseCall(t, k) \/ CommandCall(t, k)
      PROVE  LockInv'
  <2>1. PICK l \in {"acq_lock", "rel_lock", "cmd_check"} : Goto(t, l)
    BY <1>1 DEF AcquireCall, ReleaseCall, CommandCall
  <2> QED BY <1>1, <2>1, SameSide DEF AcquireCall, ReleaseCall, CommandCall
<1>2. ASSUME NEW t \in Threads, NEW k \in StrayTokens, StrayReleaseCall(t, k) PROVE LockInv'
  BY <1>2, SameSide DEF StrayReleaseCall
<1>3. ASSUME NEW t \in Threads, Command(t) PROVE LockInv'
  <2>1. pc[t] \in CommandPcs /\ UNCHANGED g_registry_lock
    BY <1>3 DEF Command, CommandCheck, CommandLock, CommandCancelled, CommandSend, CommandDone
  <2>2. Return(t) \/ \E l \in CommandPcs : Goto(t, l)
    BY <1>3 DEF Command, CommandCheck, CommandLock, CommandCancelled, CommandSend, CommandDone
  <2> QED BY <2>1, <2>2, SameSide, OutsideReturns
\* The lock is taken, kept, and dropped.
<1>4. ASSUME NEW t \in Threads, LockRegistry(t) PROVE LockInv'
  <2>1. PICK l \in {"acq_find", "rel_find"} : Goto(t, l)
    BY <1>4 DEF LockRegistry
  <2>2. pc'[t] \in LockedPcs /\ \A u \in Threads \ {t} : pc'[u] = pc[u]
    BY <2>1, GotoType
  <2>3. \A u \in Threads : pc[u] \notin LockedPcs
    BY <1>4, NoneIsNothing DEF LockInv, LockRegistry
  <2> QED BY <1>4, <2>2, <2>3 DEF LockInv, LockRegistry
<1>5. ASSUME NEW t \in Threads, Acquire(t) PROVE LockInv'
  <2>1. pc[t] \in AcquirePcs
    BY <1>5 DEF Acquire, AcquireRefused, AcquireFound, AcquireAbsent, CountClaim, AcquireFailed
  <2>2. UnlockReturn(t) \/ (UNCHANGED g_registry_lock /\ \E l \in AcquirePcs : Goto(t, l))
    BY <1>5 DEF Acquire, AcquireRefused, AcquireFound, AcquireAbsent, CountClaim, AcquireFailed
  <2> QED BY <2>1, <2>2, SameSide, UnlockType
<1>6. ASSUME NEW t \in Threads, Register(t) PROVE LockInv'
  <2>1. pc[t] \in AcquirePcs /\ UNCHANGED g_registry_lock
    BY <1>6 DEF Register, Reserve, ReserveFails, SetupStep, Wrap, FindEndpoints,
       DetachKernelDriver, ClaimInterface, Probe, Settle, Publish, UndoStep, UndoHandle, UndoSlot
  <2>2. CASE SetupStep(t)
    BY <2>1, <2>2, SetupTargets, SameSide DEF SetupStep
  <2>3. CASE UndoStep(t)
    BY <2>1, <2>3, UndoTargets, SameSide DEF UndoStep
  <2>4. CASE ~SetupStep(t) /\ ~UndoStep(t)
    <3>1. {"err_iface", "err_ctx", "init_io_lock"} \subseteq RegisterPcs
      BY DEF SetupPcs, UndoPcs
    <3>2. \E l \in AcquirePcs : Goto(t, l)
      BY <1>6, <2>4, <3>1 DEF Register, Reserve, ReserveFails, Wrap, FindEndpoints,
         DetachKernelDriver, ClaimInterface, Probe, Settle, Publish, UndoHandle, UndoSlot
    <3> QED BY <2>1, <3>2, SameSide
  <2> QED BY <2>2, <2>3, <2>4
<1>7. ASSUME NEW t \in Threads, Release(t) PROVE LockInv'
  <2>1. pc[t] \in ReleasePcs
    BY <1>7 DEF Release, ReleaseIgnored, ReleaseDrop, ReleaseLast, Drain, CloseDevice,
       DestroyLocks, FreeSlot
  <2>2. UnlockReturn(t) \/ (UNCHANGED g_registry_lock /\ \E l \in ReleasePcs : Goto(t, l))
    BY <1>7 DEF Release, ReleaseIgnored, ReleaseDrop, ReleaseLast, Drain, CloseDevice,
       DestroyLocks, FreeSlot
  <2> QED BY <2>1, <2>2, SameSide, UnlockType
<1>8. CASE UNCHANGED vars \/ \E k \in Tokens, d \in Devices \cup {None} : Recycle(k, d)
  BY <1>8 DEF LockInv, Recycle, vars
<1> QED BY <1>1, <1>2, <1>3, <1>4, <1>5, <1>6, <1>7, <1>8 DEF Next, Call, Step

(***************************************************************************)
(* A call keeps the token it was made with, and the entry pointer it found *)
(* or reserved.                                                            *)
(***************************************************************************)
LEMMA LocalOther ==
    ASSUME TypeOK, LocalInv, NEW t \in Threads,
           \A u \in Threads \ {t} : pc'[u] = pc[u] /\ tok'[u] = tok[u] /\ slot'[u] = slot[u],
           pc'[t] \in TokPcs => tok'[t] \in Tokens,
           pc'[t] \in ReleasingPcs => tok'[t] \in Tokens \cup StrayTokens,
           pc'[t] \in SlotPcs => slot'[t] \in Slots
    PROVE  LocalInv'
  BY DEF LocalInv

LEMMA CallSets ==
    /\ TokPcs = RegisterPcs \cup TeardownPcs \cup CommandPcs
                    \cup {"acq_find", "reserve", "count", "acq_fail", "acq_lock"}
    /\ SlotPcs = RegisterPcs \cup TeardownPcs \cup CommandPcs \cup {"count"}
    /\ ReleasingPcs \cap (TokPcs \cup SlotPcs) = {}
    /\ "idle" \notin TokPcs \cup SlotPcs \cup ReleasingPcs
    /\ {"acq_find", "reserve", "acq_fail", "acq_lock"} \cap SlotPcs = {}
    /\ {"init_io_lock", "err_iface", "err_ctx"} \subseteq RegisterPcs
<1>1. TokPcs = RegisterPcs \cup TeardownPcs \cup CommandPcs
                    \cup {"acq_find", "reserve", "count", "acq_fail", "acq_lock"}
  BY PcSets DEF TokPcs
<1>2. /\ ReleasingPcs \cap (TokPcs \cup SlotPcs) = {}
      /\ "idle" \notin TokPcs \cup SlotPcs \cup ReleasingPcs
      /\ {"acq_find", "reserve", "acq_fail", "acq_lock"} \cap SlotPcs = {}
      /\ {"init_io_lock", "err_iface", "err_ctx"} \subseteq RegisterPcs
  BY DEF TokPcs, SlotPcs, ReleasingPcs, RegisterPcs, SetupPcs, UndoPcs, TeardownPcs,
     CommandPcs, AcquirePcs
<1> QED BY <1>1, <1>2 DEF SlotPcs

LEMMA LocalStays ==
    ASSUME TypeOK, LocalInv, NEW t \in Threads, NEW l \in Pcs, Goto(t, l), UNCHANGED local,
           l \in TokPcs => pc[t] \in TokPcs,
           l \in SlotPcs => pc[t] \in SlotPcs,
           l \notin ReleasingPcs
    PROVE  LocalInv'
<1>1. pc'[t] = l /\ \A u \in Threads \ {t} : pc'[u] = pc[u]
  BY GotoType
<1> QED BY <1>1, LocalOther DEF LocalInv, local

LEMMA LocalReturns ==
    ASSUME TypeOK, LocalInv, NEW t \in Threads, Return(t)
    PROVE  LocalInv'
  BY ReturnType, CallSets, LocalOther

LEMMA LocalStep == TypeOK /\ LocalInv /\ [Next]_vars => LocalInv'
<1> SUFFICES ASSUME TypeOK, LocalInv, [Next]_vars PROVE LocalInv'
  OBVIOUS
<1> USE PcSets, CallSets
<1>1. ASSUME NEW t \in Threads, NEW k \in Tokens,
             AcquireCall(t, k) \/ ReleaseCall(t, k) \/ CommandCall(t, k)
      PROVE  LocalInv'
  <2>1. PICK l \in {"acq_lock", "rel_lock", "cmd_check"} : Goto(t, l)
    BY <1>1 DEF AcquireCall, ReleaseCall, CommandCall
  <2>2. pc'[t] = l /\ \A u \in Threads \ {t} : pc'[u] = pc[u]
    BY <2>1, GotoType
  <2>3. tok' = [tok EXCEPT ![t] = k]
    BY <1>1 DEF AcquireCall, ReleaseCall, CommandCall
  <2>4. tok'[t] = k /\ \A u \in Threads \ {t} : tok'[u] = tok[u]
    BY <2>3 DEF TypeOK
  <2>5. \A u \in Threads \ {t} : slot'[u] = slot[u]
    BY <1>1 DEF AcquireCall, ReleaseCall, CommandCall, TypeOK
  <2>6. l \in SlotPcs => slot'[t] \in Slots
    <3>1. CASE l = "cmd_check"
      <4>1. pc'[t] # "acq_lock" /\ pc'[t] # "rel_lock"
        BY <2>2, <3>1
      <4>2. CommandCall(t, k)
        BY <1>1, <4>1, GotoType DEF AcquireCall, ReleaseCall
      <4> QED BY <4>2 DEF CommandCall, Lookup, TypeOK
    <3>2. CASE l # "cmd_check"
      <4>1. l \notin SlotPcs
        BY <3>2, <2>1 DEF ReleasingPcs
      <4> QED BY <4>1
    <3> QED BY <3>1, <3>2
  <2> QED BY <2>2, <2>4, <2>5, <2>6, LocalOther
<1>2. ASSUME NEW t \in Threads, NEW k \in StrayTokens, StrayReleaseCall(t, k) PROVE LocalInv'
  <2>1. pc'[t] = "rel_lock" /\ \A u \in Threads \ {t} : pc'[u] = pc[u]
    BY <1>2, GotoType DEF StrayReleaseCall
  <2>2. tok'[t] = k /\ \A u \in Threads \ {t} : tok'[u] = tok[u]
    BY <1>2 DEF StrayReleaseCall, TypeOK
  <2>3. "rel_lock" \in ReleasingPcs /\ slot' = slot
    BY <1>2 DEF ReleasingPcs, StrayReleaseCall
  <2> QED BY <2>1, <2>2, <2>3, LocalOther
<1>3. ASSUME NEW t \in Threads, Command(t) PROVE LocalInv'
  <2>1. Return(t) \/ (UNCHANGED local /\ \E l \in CommandPcs : Goto(t, l))
    BY <1>3 DEF Command, CommandCheck, CommandLock, CommandCancelled, CommandSend, CommandDone
  <2>2. pc[t] \in CommandPcs
    BY <1>3 DEF Command, CommandCheck, CommandLock, CommandCancelled, CommandSend, CommandDone
  <2> QED BY <2>1, <2>2, LocalStays, LocalReturns
<1>4. ASSUME NEW t \in Threads, LockRegistry(t) PROVE LocalInv'
  <2>1. CASE pc[t] = "acq_lock"
    <3>1. pc'[t] = "acq_find" /\ \A u \in Threads \ {t} : pc'[u] = pc[u]
      BY <1>4, <2>1, GotoType DEF LockRegistry
    <3> QED BY <1>4, <2>1, <3>1, LocalOther DEF LockRegistry, local, LocalInv
  <2>2. CASE pc[t] # "acq_lock"
    <3>1. pc[t] = "rel_lock" /\ pc'[t] = "rel_find" /\ \A u \in Threads \ {t} : pc'[u] = pc[u]
      BY <1>4, <2>2, GotoType DEF LockRegistry
    <3>2. "rel_find" \in ReleasingPcs /\ "rel_lock" \in ReleasingPcs
      BY DEF ReleasingPcs
    <3> QED BY <1>4, <3>1, <3>2, LocalOther DEF LockRegistry, local, LocalInv
  <2> QED BY <2>1, <2>2
<1>5. ASSUME NEW t \in Threads, Acquire(t) PROVE LocalInv'
  <2>1. CASE AcquireFound(t)
    <3>1. pc'[t] = "count" /\ \A u \in Threads \ {t} : pc'[u] = pc[u]
      BY <2>1, GotoType DEF AcquireFound
    <3>2. slot'[t] \in Slots /\ \A u \in Threads \ {t} : slot'[u] = slot[u]
      BY <2>1 DEF AcquireFound, Lookup, TypeOK
    <3> QED BY <2>1, <3>1, <3>2, LocalOther DEF AcquireFound, LocalInv
  <2>2. CASE AcquireAbsent(t)
    BY <2>2, LocalStays DEF AcquireAbsent
  <2>3. CASE Return(t)
    BY <2>3, LocalReturns
  <2> QED BY <1>5, <2>1, <2>2, <2>3 DEF Acquire, AcquireRefused, CountClaim, AcquireFailed,
     UnlockReturn
<1>6. ASSUME NEW t \in Threads, Register(t) PROVE LocalInv'
  <2>1. CASE Reserve(t)
    <3>1. pc'[t] = "init_io_lock" /\ \A u \in Threads \ {t} : pc'[u] = pc[u]
      BY <2>1, GotoType DEF Reserve
    <3>2. slot'[t] \in Slots /\ \A u \in Threads \ {t} : slot'[u] = slot[u]
      BY <2>1 DEF Reserve, TypeOK
    <3> QED BY <2>1, <3>1, <3>2, LocalOther DEF Reserve, LocalInv
  <2>2. CASE ReserveFails(t)
    BY <2>2, LocalStays DEF ReserveFails
  <2>3. CASE SetupStep(t)
    BY <2>3, SetupTargets, LocalStays DEF SetupStep
  <2>4. CASE UndoStep(t)
    BY <2>4, UndoTargets, LocalStays DEF UndoStep
  <2>5. CASE ~Reserve(t) /\ ~ReserveFails(t) /\ ~SetupStep(t) /\ ~UndoStep(t)
    <3>1. pc[t] \in RegisterPcs /\ UNCHANGED local
      BY <1>6, <2>5 DEF Register, Wrap, FindEndpoints, DetachKernelDriver, ClaimInterface,
         Probe, Settle, Publish, UndoHandle, UndoSlot
    <3>2. \E l \in RegisterPcs \cup {"count", "acq_fail"} : Goto(t, l)
      BY <1>6, <2>5 DEF Register, Wrap, FindEndpoints, DetachKernelDriver, ClaimInterface,
         Probe, Settle, Publish, UndoHandle, UndoSlot
    <3> QED BY <3>1, <3>2, LocalStays
  <2> QED BY <2>1, <2>2, <2>3, <2>4, <2>5
<1>7. ASSUME NEW t \in Threads, Release(t) PROVE LocalInv'
  <2>1. CASE ReleaseLast(t)
    <3>1. pc[t] = "rel_find" /\ pc'[t] = "drain" /\ \A u \in Threads \ {t} : pc'[u] = pc[u]
      BY <2>1, GotoType DEF ReleaseLast
    <3>2. PICK s \in Lookup(tok[t]) : slot' = [slot EXCEPT ![t] = s]
      BY <2>1 DEF ReleaseLast
    <3>3. slot'[t] \in Slots /\ \A u \in Threads \ {t} : slot'[u] = slot[u]
      BY <3>2 DEF Lookup, TypeOK
    <3>4. tok[t] \in Tokens
      <4>1. tok[t] \in Tokens \cup {None}
        BY <3>2 DEF Lookup, TypeOK, Entry
      <4>2. tok[t] \in Tokens \cup StrayTokens
        BY <3>1 DEF LocalInv, ReleasingPcs
      <4> QED BY <4>1, <4>2, NoneIsNothing
    <3> QED BY <2>1, <3>1, <3>3, <3>4, LocalOther DEF ReleaseLast, LocalInv
  <2>2. CASE Drain(t) \/ CloseDevice(t) \/ DestroyLocks(t)
    <3>1. pc[t] \in TeardownPcs /\ UNCHANGED local /\ \E l \in TeardownPcs : Goto(t, l)
      BY <2>2 DEF Drain, CloseDevice, DestroyLocks
    <3> QED BY <3>1, LocalStays
  <2>3. CASE Return(t)
    BY <2>3, LocalReturns
  <2> QED BY <1>7, <2>1, <2>2, <2>3 DEF Release, ReleaseIgnored, ReleaseDrop, FreeSlot, UnlockReturn
<1>8. CASE UNCHANGED vars \/ \E k \in Tokens, d \in Devices \cup {None} : Recycle(k, d)
  BY <1>8 DEF LocalInv, Recycle, vars, local
<1> QED BY <1>1, <1>2, <1>3, <1>4, <1>5, <1>6, <1>7, <1>8 DEF Next, Call, Step

LEMMA InitTyped == Init => TypeOK /\ LockInv /\ LocalInv
<1> SUFFICES ASSUME Init PROVE TypeOK /\ LockInv /\ LocalInv
  OBVIOUS
<1> USE DEF Init
<1>1. "idle" \in Pcs /\ "idle" \notin LockedPcs
  BY PcSets
<1>2. LockInv
  BY <1>1, NoneIsNothing DEF LockInv
<1>3. LocalInv
  BY CallSets DEF LocalInv
<1>4. entries \in [Slots -> Entry] /\ held \in [Slots -> SUBSET Resources]
  BY ZeroEntryType
<1>5. /\ driver \in [Devices -> {"bound", "detached", "none"}]
      /\ fdDevice \in [Tokens -> Devices \cup {None}]
  OBVIOUS
<1>6. /\ holders \in [Tokens -> SUBSET Threads]
      /\ claimDevice \in [Threads -> [Tokens -> Devices \cup {None}]]
  OBVIOUS
<1>7. setup \in [Threads -> [before: {"bound", "detached", "none", "unknown"},
                             declined: BOOLEAN]]
  OBVIOUS
<1>8. TypeOK
  BY <1>1, <1>4, <1>5, <1>6, <1>7 DEF TypeOK
<1> QED BY <1>2, <1>3, <1>8

(***************************************************************************)
(* laser_entry_t and the table keep their types (laser_internal.h), and    *)
(* every call its token and entry pointer: refs never goes below zero.     *)
(***************************************************************************)
THEOREM TypeCorrect == Spec => []TypeOK
<1>1. TypeOK /\ LocalInv /\ [Next]_vars => (TypeOK /\ LocalInv)'
  BY TypeStep, LocalStep
<1> QED BY InitTyped, <1>1, PTL DEF Spec

----------------------------------------------------------------------------
(* The table and its slots. *)

(***************************************************************************)
(* One call at a time is past g_registry_lock.                             *)
(***************************************************************************)
LEMMA OneInside ==
    ASSUME TypeOK, LockInv, NEW t \in Threads, pc[t] \in LockedPcs
    PROVE  \A u \in Threads \ {t} : pc[u] \notin LockedPcs
  BY DEF LockInv

BusyPcs == RegisterPcs \cup TeardownPcs \cup {"count"}

LEMMA BusySets ==
    /\ RegisterPcs \cup TeardownPcs \cup {"count"} = BusyPcs
    /\ BusyPcs \subseteq LockedPcs
    /\ RegisterPcs \cap TeardownPcs = {} /\ "count" \notin RegisterPcs \cup TeardownPcs
    /\ {"acq_find", "rel_find", "reserve", "acq_fail", "idle"} \cap BusyPcs = {}
<1>1. RegisterPcs \cap TeardownPcs = {} /\ "count" \notin RegisterPcs \cup TeardownPcs
  BY DEF RegisterPcs, TeardownPcs, SetupPcs, UndoPcs
<1>2. {"acq_find", "rel_find", "reserve", "acq_fail", "idle"} \cap BusyPcs = {}
  BY DEF BusyPcs, RegisterPcs, TeardownPcs, SetupPcs, UndoPcs
<1>3. BusyPcs \subseteq LockedPcs
  BY PcSets DEF BusyPcs
<1> QED BY <1>1, <1>2, <1>3 DEF BusyPcs

(***************************************************************************)
(* A step of the only call past the lock: what is left to show.            *)
(***************************************************************************)
LEMMA OnlyWorker ==
    ASSUME NEW t \in Threads,
           \A u \in Threads \ {t} : pc'[u] \notin LockedPcs,
           TableInv',
           pc'[t] \in RegisterPcs => BeingBuilt(t)',
           pc'[t] \in TeardownPcs => BeingClosed(t)',
           pc'[t] = "count" => slot'[t] \in Lookup(tok[t])',
           \A s \in Slots :
             /\ entries'[s].in_use /\ ~(slot'[t] = s /\ pc'[t] \in TeardownPcs)
                  => ~entries'[s].cancelled /\ held'[s] = Resources
             /\ ~entries'[s].in_use /\ ~(slot'[t] = s /\ pc'[t] \in RegisterPcs)
                  => held'[s] = {}
    PROVE  SlotsInv'
<1>1. \A u \in Threads \ {t} : pc'[u] \notin RegisterPcs \cup TeardownPcs \cup {"count"}
  BY BusySets
<1>2. RegisterInv' /\ TeardownInv' /\ CountInv'
  BY <1>1 DEF RegisterInv, TeardownInv, CountInv
<1>3. QuietInv'
  BY <1>1 DEF QuietInv, TornDown, UnderConstruction
<1> QED BY <1>2, <1>3 DEF SlotsInv

(***************************************************************************)
(* A step that leaves the table and the resources alone, of a call that    *)
(* has no slot in hand before or after it.                                 *)
(***************************************************************************)
LEMMA SlotsUntouched ==
    ASSUME SlotsInv, NEW t \in Threads, UNCHANGED <<entries, held>>,
           \A u \in Threads \ {t} : pc'[u] = pc[u] /\ tok'[u] = tok[u] /\ slot'[u] = slot[u],
           pc[t] \notin BusyPcs, pc'[t] \notin BusyPcs
    PROVE  SlotsInv'
<1> USE BusySets DEF SlotsInv
<1>1. TableInv'
  BY DEF TableInv
<1>2. RegisterInv' /\ TeardownInv'
  BY DEF RegisterInv, TeardownInv, BeingBuilt, BeingClosed, Lookup
<1>3. CountInv'
  BY DEF CountInv, Lookup
<1>4. QuietInv'
  <2>1. \A s \in Slots : (TornDown(s)' <=> TornDown(s)) /\ (UnderConstruction(s)' <=> UnderConstruction(s))
    BY DEF TornDown, UnderConstruction
  <2> QED BY <2>1 DEF QuietInv
<1> QED BY <1>1, <1>2, <1>3, <1>4

(***************************************************************************)
(* What the only call past the lock knows of every slot.                   *)
(***************************************************************************)
LEMMA WorkerKnows ==
    ASSUME TypeOK, LockInv, SlotsInv, NEW t \in Threads, pc[t] \in LockedPcs
    PROVE  \A s \in Slots :
             /\ entries[s].in_use /\ ~(slot[t] = s /\ pc[t] \in TeardownPcs)
                  => ~entries[s].cancelled /\ held[s] = Resources
             /\ ~entries[s].in_use /\ ~(slot[t] = s /\ pc[t] \in RegisterPcs)
                  => held[s] = {}
  BY OneInside, BusySets DEF SlotsInv, QuietInv, TornDown, UnderConstruction

\* The fields the invariant of the slots is about are as they were.
SameEntries ==
    \A r \in Slots :
        /\ entries'[r].in_use = entries[r].in_use
        /\ entries'[r].token = entries[r].token
        /\ entries'[r].refs = entries[r].refs
        /\ entries'[r].cancelled = entries[r].cancelled

LEMMA RegisterMoves ==
    ASSUME TypeOK, LockInv, LocalInv, SlotsInv, NEW t \in Threads, pc[t] \in RegisterPcs,
           NEW l \in RegisterPcs, Goto(t, l), UNCHANGED local, SameEntries,
           held' = [held EXCEPT ![slot[t]] = HeldAt[l]]
    PROVE  SlotsInv'
<1> USE BusySets
<1>1. slot[t] \in Slots
  BY DEF LocalInv, SlotPcs
<1>2. pc'[t] = l /\ \A u \in Threads \ {t} : pc'[u] \notin LockedPcs
  BY PcSets, GotoType, OneInside
<1>3. BeingBuilt(t)
  BY DEF SlotsInv, RegisterInv
<1>4. Lookup(tok[t])' = Lookup(tok[t])
  BY DEF Lookup, SameEntries, local
<1>5. BeingBuilt(t)'
  BY <1>1, <1>2, <1>3, <1>4 DEF BeingBuilt, SameEntries, local, TypeOK
<1>6. TableInv'
  BY DEF SlotsInv, TableInv, SameEntries
<1>7. \A s \in Slots :
         /\ entries'[s].in_use => ~entries'[s].cancelled /\ held'[s] = Resources
         /\ ~entries'[s].in_use /\ slot'[t] # s => held'[s] = {}
  BY <1>1, <1>3, WorkerKnows DEF SameEntries, BeingBuilt, local, TypeOK
<1> QED BY <1>2, <1>5, <1>6, <1>7, OnlyWorker

LEMMA TeardownMoves ==
    ASSUME TypeOK, LockInv, LocalInv, SlotsInv, NEW t \in Threads, pc[t] \in TeardownPcs,
           NEW l \in TeardownPcs, Goto(t, l), UNCHANGED local, SameEntries,
           held' = [held EXCEPT ![slot[t]] = HeldAt[l]]
    PROVE  SlotsInv'
<1> USE BusySets
<1>1. slot[t] \in Slots
  BY DEF LocalInv, SlotPcs
<1>2. pc'[t] = l /\ \A u \in Threads \ {t} : pc'[u] \notin LockedPcs
  BY PcSets, GotoType, OneInside
<1>3. BeingClosed(t)
  BY DEF SlotsInv, TeardownInv
<1>4. BeingClosed(t)'
  BY <1>1, <1>2, <1>3 DEF BeingClosed, SameEntries, local, TypeOK
<1>5. TableInv'
  BY DEF SlotsInv, TableInv, SameEntries
<1>6. \A s \in Slots :
         /\ entries'[s].in_use /\ slot'[t] # s => ~entries'[s].cancelled /\ held'[s] = Resources
         /\ ~entries'[s].in_use => held'[s] = {}
  BY <1>1, <1>3, WorkerKnows DEF SameEntries, BeingClosed, local, TypeOK
<1> QED BY <1>2, <1>4, <1>5, <1>6, OnlyWorker

(***************************************************************************)
(* The ladder of resources, rung by rung.                                  *)
(***************************************************************************)
LEMMA SetupHeld ==
    ASSUME NEW l \in SetupPcs
    PROVE  /\ HeldAt[Setup[l].then] = HeldAt[l] \cup {Setup[l].gets}
           /\ HeldAt[Setup[l].undo] = HeldAt[l]
<1>1. CASE l = "init_io_lock"
  BY <1>1 DEF Setup, HeldAt
<1>2. CASE l = "init_css_mtx"
  BY <1>2 DEF Setup, HeldAt
<1>3. CASE l = "init_css_cv"
  BY <1>3 DEF Setup, HeldAt
<1>4. CASE l = "init_ctx"
  BY <1>4 DEF Setup, HeldAt
<1> QED BY <1>1, <1>2, <1>3, <1>4 DEF SetupPcs

LEMMA UndoHeld ==
    ASSUME NEW l \in UndoPcs
    PROVE  /\ HeldAt[Undo[l].then] = HeldAt[l] \ {Undo[l].frees}
           /\ Undo[l].frees \in HeldAt[l]
<1> USE DEF Undo, HeldAt, Resources
<1>1. CASE l = "err_iface"
  BY <1>1
<1>2. CASE l = "err_ctx"
  BY <1>2
<1>3. CASE l = "err_css_cond"
  BY <1>3
<1>4. CASE l = "err_css_mutex"
  BY <1>4
<1>5. CASE l = "err_io_mutex"
  BY <1>5
<1> QED BY <1>1, <1>2, <1>3, <1>4, <1>5 DEF UndoPcs

LEMMA RegisterHeld ==
    /\ HeldAt["init_io_lock"] = {} /\ HeldAt["err_slot"] = {}
    /\ HeldAt["find_endpoints"] = HeldAt["wrap"] \cup {"handle"}
    /\ HeldAt["err_ctx"] = HeldAt["wrap"]
    /\ HeldAt["detach"] = HeldAt["find_endpoints"]
    /\ HeldAt["err_handle"] = HeldAt["find_endpoints"]
    /\ HeldAt["claim"] = HeldAt["find_endpoints"]
    /\ HeldAt["probe"] = HeldAt["claim"] \cup {"iface"}
    /\ HeldAt["settle"] = HeldAt["probe"] /\ HeldAt["err_iface"] = HeldAt["probe"]
    /\ HeldAt["publish"] = HeldAt["probe"] /\ HeldAt["publish"] = Resources
    /\ HeldAt["err_ctx"] = HeldAt["err_handle"] \ {"handle"}
    /\ "handle" \in HeldAt["err_handle"]
  BY DEF HeldAt, Resources

LEMMA TeardownHeld ==
    /\ HeldAt["drain"] = Resources /\ HeldAt["close"] = Resources
    /\ HeldAt["destroy"] = Resources \ {"iface", "handle", "ctx"}
    /\ HeldAt["free_slot"] = HeldAt["destroy"] \ {"css_cv", "css_mtx", "io_lock"}
    /\ HeldAt["free_slot"] = {}
<1>1. HeldAt["drain"] = Resources /\ HeldAt["close"] = Resources
  BY DEF HeldAt
<1>2. HeldAt["destroy"] = {"io_lock", "css_mtx", "css_cv"} /\ HeldAt["free_slot"] = {}
  BY DEF HeldAt
<1>3. {"io_lock", "css_mtx", "css_cv"} = Resources \ {"iface", "handle", "ctx"}
  BY DEF Resources
<1> QED BY <1>1, <1>2, <1>3

(***************************************************************************)
(* Opening, closing and detaching touch none of these fields.              *)
(***************************************************************************)
LEMMA SameButHandle ==
    ASSUME TypeOK, NEW s \in Slots, NEW d, entries' = [entries EXCEPT ![s].handle = d]
    PROVE  SameEntries
<1>1. entries[s] \in Entry /\ entries'[s] = [entries[s] EXCEPT !.handle = d]
  BY DEF TypeOK
<1>2. \A r \in Slots \ {s} : entries'[r] = entries[r]
  BY DEF TypeOK
<1> QED BY <1>1, <1>2 DEF SameEntries, Entry

LEMMA SameButDetached ==
    ASSUME TypeOK, NEW s \in Slots, NEW b,
           entries' = [entries EXCEPT ![s].kernel_driver_detached = b]
    PROVE  SameEntries
<1>1. entries[s] \in Entry /\ entries'[s] = [entries[s] EXCEPT !.kernel_driver_detached = b]
  BY DEF TypeOK
<1>2. \A r \in Slots \ {s} : entries'[r] = entries[r]
  BY DEF TypeOK
<1> QED BY <1>1, <1>2 DEF SameEntries, Entry

LEMMA RegisterSlots ==
    ASSUME TypeOK, LockInv, LocalInv, SlotsInv, NEW t \in Threads, Register(t)
    PROVE  SlotsInv'
<1> USE PcSets, CallSets
<1>1. CASE Reserve(t)
  <2>1. PICK s \in Slots, id \in {fdDevice[tok[t]], None} :
           /\ FirstFree(s)
           /\ entries' = [entries EXCEPT ![s] = [ZeroEntry EXCEPT !.token = tok[t], !.reg_id = id]]
           /\ slot' = [slot EXCEPT ![t] = s]
    BY <1>1 DEF Reserve
  <2>2. /\ ~entries'[s].in_use /\ entries'[s].token = tok[t]
        /\ entries'[s].refs = 0 /\ ~entries'[s].cancelled
    BY <2>1 DEF ZeroEntry, TypeOK
  <2>3. /\ \A r \in Slots \ {s} : entries'[r] = entries[r]
        /\ ~entries[s].in_use
    BY <2>1 DEF TypeOK, FirstFree
  <2>4. /\ pc[t] = "reserve" /\ pc'[t] = "init_io_lock" /\ slot'[t] = s /\ tok' = tok
        /\ held' = held /\ \A u \in Threads \ {t} : pc'[u] \notin LockedPcs
    BY <1>1, <2>1, GotoType, OneInside DEF Reserve, TypeOK
  <2>5. held[s] = {}
    BY <2>3, <2>4, WorkerKnows, BusySets
  <2>6. Lookup(tok[t])' = {}
    BY <1>1, <2>2, <2>3, <2>4 DEF Reserve, Lookup
  <2>7. BeingBuilt(t)'
    BY <2>2, <2>4, <2>5, <2>6, RegisterHeld DEF BeingBuilt
  <2>8. TableInv'
    BY <2>2, <2>3 DEF SlotsInv, TableInv
  <2>9. \A r \in Slots :
           /\ entries'[r].in_use => ~entries'[r].cancelled /\ held'[r] = Resources
           /\ ~entries'[r].in_use => held'[r] = {}
    BY <2>2, <2>3, <2>4, <2>5, WorkerKnows, BusySets
  <2> QED BY <2>4, <2>7, <2>8, <2>9, OnlyWorker, BusySets
<1>2. CASE ReserveFails(t)
  <2>1. pc[t] = "reserve" /\ pc'[t] = "acq_fail" /\ \A u \in Threads \ {t} : pc'[u] = pc[u]
    BY <1>2, GotoType DEF ReserveFails
  <2> QED BY <1>2, <2>1, SlotsUntouched, BusySets DEF ReserveFails, local
<1>3. CASE SetupStep(t)
  <2>1. pc[t] \in RegisterPcs /\ slot[t] \in Slots /\ held[slot[t]] = HeldAt[pc[t]]
    BY <1>3 DEF SetupStep, LocalInv, SlotsInv, RegisterInv, BeingBuilt
  <2>2. PICK l \in RegisterPcs : Goto(t, l) /\ held' = [held EXCEPT ![slot[t]] = HeldAt[l]]
    <3>1. CASE /\ held' = [held EXCEPT ![slot[t]] = @ \cup {Setup[pc[t]].gets}]
               /\ Goto(t, Setup[pc[t]].then)
      BY <1>3, <2>1, <3>1, SetupTargets, SetupHeld DEF SetupStep
    <3>2. CASE Goto(t, Setup[pc[t]].undo) /\ UNCHANGED held
      BY <1>3, <2>1, <3>2, SetupTargets, SetupHeld DEF SetupStep, TypeOK
    <3> QED BY <1>3, <3>1, <3>2 DEF SetupStep
  <2> QED BY <1>3, <2>1, <2>2, RegisterMoves DEF SetupStep, SameEntries
<1>4. CASE Wrap(t)
  <2>1. pc[t] = "wrap" /\ slot[t] \in Slots /\ held[slot[t]] = HeldAt["wrap"]
    BY <1>4 DEF Wrap, LocalInv, SlotsInv, RegisterInv, BeingBuilt
  <2>2. PICK l \in RegisterPcs : Goto(t, l) /\ held' = [held EXCEPT ![slot[t]] = HeldAt[l]]
    <3>1. CASE /\ Goto(t, "find_endpoints")
               /\ held' = [held EXCEPT ![slot[t]] = @ \cup {"handle"}]
      BY <2>1, <3>1, RegisterHeld
    <3>2. CASE Goto(t, "err_ctx") /\ UNCHANGED held
      <4>1. held' = [held EXCEPT ![slot[t]] = HeldAt["err_ctx"]]
        BY <2>1, <3>2, RegisterHeld DEF TypeOK
      <4> QED BY <3>2, <4>1
    <3> QED BY <1>4, <3>1, <3>2 DEF Wrap
  <2>3. SameEntries
    BY <1>4, <2>1, SameButHandle DEF Wrap, SameEntries
  <2> QED BY <1>4, <2>1, <2>2, <2>3, RegisterMoves DEF Wrap
<1>5. CASE FindEndpoints(t) \/ Settle(t) \/ Probe(t)
  <2>1. pc[t] \in RegisterPcs /\ slot[t] \in Slots /\ held[slot[t]] = HeldAt[pc[t]]
    BY <1>5 DEF FindEndpoints, Settle, Probe, LocalInv, SlotsInv, RegisterInv, BeingBuilt
  <2>2. PICK l \in RegisterPcs : Goto(t, l) /\ HeldAt[l] = HeldAt[pc[t]]
    <3>1. CASE FindEndpoints(t)
      <4>1. pc[t] = "find_endpoints" /\ (Goto(t, "detach") \/ Goto(t, "err_handle"))
        BY <3>1 DEF FindEndpoints
      <4> QED BY <4>1, RegisterHeld
    <3>2. CASE Settle(t)
      <4>1. pc[t] = "settle" /\ Goto(t, "publish")
        BY <3>2 DEF Settle
      <4> QED BY <4>1, RegisterHeld
    <3>3. CASE Probe(t)
      <4>1. pc[t] = "probe" /\ (Goto(t, "settle") \/ Goto(t, "err_iface"))
        BY <3>3 DEF Probe
      <4> QED BY <4>1, RegisterHeld
    <3> QED BY <1>5, <3>1, <3>2, <3>3
  <2>3. held' = [held EXCEPT ![slot[t]] = HeldAt[l]]
    BY <1>5, <2>1, <2>2 DEF FindEndpoints, Settle, Probe, TypeOK
  <2> QED BY <1>5, <2>1, <2>2, <2>3, RegisterMoves DEF FindEndpoints, Settle, Probe, SameEntries
<1>6. CASE DetachKernelDriver(t)
  <2>1. pc[t] = "detach" /\ slot[t] \in Slots /\ held[slot[t]] = HeldAt["detach"]
    BY <1>6 DEF DetachKernelDriver, LocalInv, SlotsInv, RegisterInv, BeingBuilt
  <2>2. held' = [held EXCEPT ![slot[t]] = HeldAt["claim"]]
    BY <1>6, <2>1, RegisterHeld DEF DetachKernelDriver, TypeOK
  <2>3. SameEntries
    BY <1>6, <2>1, SameButDetached DEF DetachKernelDriver, SameEntries
  <2> QED BY <1>6, <2>1, <2>2, <2>3, RegisterMoves DEF DetachKernelDriver
<1>7. CASE ClaimInterface(t)
  <2>1. pc[t] = "claim" /\ slot[t] \in Slots /\ held[slot[t]] = HeldAt["claim"]
    BY <1>7 DEF ClaimInterface, LocalInv, SlotsInv, RegisterInv, BeingBuilt
  <2>2. PICK l \in RegisterPcs : Goto(t, l) /\ held' = [held EXCEPT ![slot[t]] = HeldAt[l]]
    <3>1. CASE Goto(t, "probe") /\ held' = [held EXCEPT ![slot[t]] = @ \cup {"iface"}]
      BY <2>1, <3>1, RegisterHeld
    <3>2. CASE Goto(t, "err_handle") /\ UNCHANGED held
      <4>1. held' = [held EXCEPT ![slot[t]] = HeldAt["err_handle"]]
        BY <2>1, <3>2, RegisterHeld DEF TypeOK
      <4> QED BY <3>2, <4>1
    <3> QED BY <1>7, <3>1, <3>2 DEF ClaimInterface
  <2> QED BY <1>7, <2>1, <2>2, RegisterMoves DEF ClaimInterface, SameEntries
<1>8. CASE Publish(t)
  <2>1. /\ pc[t] = "publish" /\ pc'[t] = "count" /\ slot' = slot /\ tok' = tok /\ held' = held
        /\ \A u \in Threads \ {t} : pc'[u] \notin LockedPcs
    BY <1>8, GotoType, OneInside DEF Publish, local
  <2>2. slot[t] \in Slots /\ tok[t] \in Tokens /\ BeingBuilt(t)
    BY <2>1 DEF LocalInv, SlotsInv, RegisterInv
  <2>3. held[slot[t]] = Resources
    BY <2>1, <2>2, RegisterHeld DEF BeingBuilt
  <2>4. entries' = [entries EXCEPT ![slot[t]] = [entries[slot[t]] EXCEPT !.in_use = TRUE]]
    BY <1>8 DEF Publish
  <2>5. /\ entries'[slot[t]].in_use /\ entries'[slot[t]].token = tok[t]
        /\ ~entries'[slot[t]].cancelled
        /\ \A r \in Slots \ {slot[t]} : entries'[r] = entries[r]
    BY <2>2, <2>4 DEF BeingBuilt, TypeOK, Entry
  <2>6. slot'[t] \in Lookup(tok[t])'
    BY <2>1, <2>2, <2>5 DEF Lookup
  <2>7. TableInv'
    <3>1. \A r \in Slots \ {slot[t]} : entries[r].in_use => entries[r].token # tok[t]
      BY <2>2 DEF BeingBuilt, Lookup
    <3> QED BY <2>2, <2>5, <3>1 DEF SlotsInv, TableInv
  <2>8. \A r \in Slots :
           /\ entries'[r].in_use => ~entries'[r].cancelled /\ held'[r] = Resources
           /\ ~entries'[r].in_use => held'[r] = {}
    <3>1. ASSUME NEW r \in Slots \ {slot[t]}
          PROVE  /\ entries[r].in_use => ~entries[r].cancelled /\ held[r] = Resources
                 /\ ~entries[r].in_use => held[r] = {}
      BY <2>1, WorkerKnows
    <3> QED BY <2>1, <2>2, <2>3, <2>5, <3>1
  <2> QED BY <2>1, <2>6, <2>7, <2>8, OnlyWorker, BusySets
<1>9. CASE UndoStep(t)
  <2>1. pc[t] \in RegisterPcs /\ slot[t] \in Slots /\ held[slot[t]] = HeldAt[pc[t]]
    BY <1>9 DEF UndoStep, LocalInv, SlotsInv, RegisterInv, BeingBuilt
  <2>2. held' = [held EXCEPT ![slot[t]] = HeldAt[Undo[pc[t]].then]]
    BY <1>9, <2>1, UndoHeld DEF UndoStep
  <2> QED BY <1>9, <2>1, <2>2, UndoTargets, RegisterMoves DEF UndoStep, SameEntries
<1>10. CASE UndoHandle(t)
  <2>1. pc[t] = "err_handle" /\ slot[t] \in Slots /\ held[slot[t]] = HeldAt["err_handle"]
    BY <1>10 DEF UndoHandle, LocalInv, SlotsInv, RegisterInv, BeingBuilt
  <2>2. held' = [held EXCEPT ![slot[t]] = HeldAt["err_ctx"]]
    BY <1>10, <2>1, RegisterHeld DEF UndoHandle
  <2>3. SameEntries
    BY <1>10, <2>1 DEF UndoHandle, SameEntries, TypeOK, Entry
  <2> QED BY <1>10, <2>1, <2>2, <2>3, RegisterMoves DEF UndoHandle
<1>11. CASE UndoSlot(t)
  <2>1. /\ pc[t] = "err_slot" /\ pc'[t] = "acq_fail" /\ held' = held
        /\ \A u \in Threads \ {t} : pc'[u] \notin LockedPcs
    BY <1>11, GotoType, OneInside DEF UndoSlot
  <2>2. slot[t] \in Slots /\ held[slot[t]] = {}
    BY <2>1, RegisterHeld DEF LocalInv, SlotsInv, RegisterInv, BeingBuilt
  <2>3. /\ entries'[slot[t]] = ZeroEntry /\ ~ZeroEntry.in_use
        /\ \A r \in Slots \ {slot[t]} : entries'[r] = entries[r]
    BY <1>11, <2>2 DEF UndoSlot, ReleaseSlot, ZeroEntry, TypeOK
  <2>4. TableInv'
    BY <2>2, <2>3 DEF SlotsInv, TableInv
  <2>5. \A r \in Slots :
           /\ entries'[r].in_use => ~entries'[r].cancelled /\ held'[r] = Resources
           /\ ~entries'[r].in_use => held'[r] = {}
    BY <2>1, <2>2, <2>3, WorkerKnows, BusySets
  <2> QED BY <2>1, <2>4, <2>5, OnlyWorker, BusySets
<1> QED BY <1>1, <1>2, <1>3, <1>4, <1>5, <1>6, <1>7, <1>8, <1>9, <1>10, <1>11 DEF Register

(***************************************************************************)
(* A call that returns leaves no slot half done.                           *)
(***************************************************************************)
LEMMA ReturnsClean ==
    ASSUME TypeOK, LockInv, NEW t \in Threads, UnlockReturn(t), pc[t] \in LockedPcs,
           TableInv',
           \A s \in Slots :
             /\ entries'[s].in_use => ~entries'[s].cancelled /\ held'[s] = Resources
             /\ ~entries'[s].in_use => held'[s] = {}
    PROVE  SlotsInv'
<1>1. pc'[t] = "idle" /\ \A u \in Threads \ {t} : pc'[u] \notin LockedPcs
  BY ReturnType, OneInside DEF UnlockReturn
<1> QED BY <1>1, BusySets, OnlyWorker

LEMMA AcquireSlots ==
    ASSUME TypeOK, LockInv, LocalInv, SlotsInv, NEW t \in Threads, Acquire(t)
    PROVE  SlotsInv'
<1> USE PcSets, BusySets
<1>1. CASE AcquireRefused(t) \/ AcquireFailed(t)
  <2>1. pc[t] \in {"acq_find", "acq_fail"} /\ Return(t) /\ UNCHANGED <<entries, held>>
    BY <1>1 DEF AcquireRefused, AcquireFailed, UnlockReturn
  <2>2. pc'[t] = "idle"
        /\ \A u \in Threads \ {t} : pc'[u] = pc[u] /\ tok'[u] = tok[u] /\ slot'[u] = slot[u]
    BY <2>1, ReturnType
  <2> QED BY <2>1, <2>2, SlotsUntouched
<1>2. CASE AcquireFound(t)
  <2>1. /\ pc[t] = "acq_find" /\ pc'[t] = "count" /\ UNCHANGED <<entries, held, tok>>
        /\ \A u \in Threads \ {t} : pc'[u] \notin LockedPcs
    BY <1>2, GotoType, OneInside DEF AcquireFound
  <2>2. PICK s \in Lookup(tok[t]) : slot' = [slot EXCEPT ![t] = s]
    BY <1>2 DEF AcquireFound
  <2>3. slot'[t] \in Lookup(tok[t])'
    BY <2>1, <2>2 DEF TypeOK, Lookup
  <2>4. TableInv'
    BY <2>1 DEF SlotsInv, TableInv
  <2>5. \A r \in Slots :
           /\ entries'[r].in_use => ~entries'[r].cancelled /\ held'[r] = Resources
           /\ ~entries'[r].in_use => held'[r] = {}
    BY <2>1, WorkerKnows
  <2> QED BY <2>1, <2>3, <2>4, <2>5, OnlyWorker
<1>3. CASE AcquireAbsent(t)
  <2>1. pc[t] = "acq_find" /\ pc'[t] = "reserve" /\ \A u \in Threads \ {t} : pc'[u] = pc[u]
    BY <1>3, GotoType DEF AcquireAbsent
  <2> QED BY <1>3, <2>1, SlotsUntouched DEF AcquireAbsent, local
<1>4. CASE CountClaim(t)
  <2>1. pc[t] = "count" /\ UnlockReturn(t) /\ held' = held /\ slot[t] \in Slots
    BY <1>4 DEF CountClaim, LocalInv, SlotPcs
  <2>2. \A r \in Slots : /\ entries'[r].in_use = entries[r].in_use
                         /\ entries'[r].token = entries[r].token
                         /\ entries'[r].cancelled = entries[r].cancelled
    <3>1. entries[slot[t]] \in Entry
          /\ entries'[slot[t]] = [entries[slot[t]] EXCEPT !.refs = entries[slot[t]].refs + 1]
      BY <1>4, <2>1 DEF CountClaim, TypeOK
    <3>2. \A r \in Slots \ {slot[t]} : entries'[r] = entries[r]
      BY <1>4, <2>1 DEF CountClaim, TypeOK
    <3> QED BY <3>1, <3>2 DEF Entry
  <2>3. TableInv'
    BY <2>2 DEF SlotsInv, TableInv
  <2>4. \A r \in Slots :
           /\ entries'[r].in_use => ~entries'[r].cancelled /\ held'[r] = Resources
           /\ ~entries'[r].in_use => held'[r] = {}
    BY <2>1, <2>2, WorkerKnows
  <2> QED BY <2>1, <2>3, <2>4, ReturnsClean
<1> QED BY <1>1, <1>2, <1>3, <1>4 DEF Acquire

LEMMA ReleaseSlots ==
    ASSUME TypeOK, LockInv, LocalInv, SlotsInv, NEW t \in Threads, Release(t)
    PROVE  SlotsInv'
<1> USE PcSets, BusySets
<1>1. CASE ReleaseIgnored(t)
  <2>1. pc[t] = "rel_find" /\ Return(t) /\ UNCHANGED <<entries, held>>
    BY <1>1 DEF ReleaseIgnored, UnlockReturn
  <2>2. pc'[t] = "idle"
        /\ \A u \in Threads \ {t} : pc'[u] = pc[u] /\ tok'[u] = tok[u] /\ slot'[u] = slot[u]
    BY <2>1, ReturnType
  <2> QED BY <2>1, <2>2, SlotsUntouched
<1>2. CASE ReleaseDrop(t)
  <2>1. pc[t] = "rel_find" /\ UnlockReturn(t) /\ held' = held
    BY <1>2 DEF ReleaseDrop
  <2>2. PICK s \in Slots : entries' = [entries EXCEPT ![s].refs = @ - 1]
    BY <1>2 DEF ReleaseDrop, Lookup
  <2>3. \A r \in Slots : /\ entries'[r].in_use = entries[r].in_use
                         /\ entries'[r].token = entries[r].token
                         /\ entries'[r].cancelled = entries[r].cancelled
    <3>1. entries[s] \in Entry /\ entries'[s] = [entries[s] EXCEPT !.refs = entries[s].refs - 1]
      BY <2>2 DEF TypeOK
    <3>2. \A r \in Slots \ {s} : entries'[r] = entries[r]
      BY <2>2 DEF TypeOK
    <3> QED BY <3>1, <3>2 DEF Entry
  <2>4. TableInv'
    BY <2>3 DEF SlotsInv, TableInv
  <2>5. \A r \in Slots :
           /\ entries'[r].in_use => ~entries'[r].cancelled /\ held'[r] = Resources
           /\ ~entries'[r].in_use => held'[r] = {}
    BY <2>1, <2>3, WorkerKnows
  <2> QED BY <2>1, <2>4, <2>5, ReturnsClean
<1>3. CASE ReleaseLast(t)
  <2>1. /\ pc[t] = "rel_find" /\ pc'[t] = "drain" /\ held' = held
        /\ \A u \in Threads \ {t} : pc'[u] \notin LockedPcs
    BY <1>3, GotoType, OneInside DEF ReleaseLast
  <2>2. PICK s \in Lookup(tok[t]) :
           /\ entries' = [entries EXCEPT ![s].refs = 0, ![s].cancelled = TRUE]
           /\ slot' = [slot EXCEPT ![t] = s]
    BY <1>3 DEF ReleaseLast
  <2>3. s \in Slots /\ entries[s].in_use /\ slot'[t] = s
    BY <2>2 DEF Lookup, TypeOK
  <2>4. /\ entries'[s].in_use /\ entries'[s].token = entries[s].token
        /\ entries'[s].refs = 0 /\ entries'[s].cancelled
        /\ \A r \in Slots \ {s} : entries'[r] = entries[r]
    <3>1. entries[s] \in Entry
          /\ entries'[s] = [[entries[s] EXCEPT !.refs = 0] EXCEPT !.cancelled = TRUE]
      BY <2>2, <2>3 DEF TypeOK
    <3>2. \A r \in Slots \ {s} : entries'[r] = entries[r]
      BY <2>2, <2>3 DEF TypeOK
    <3> QED BY <2>3, <3>1, <3>2 DEF Entry
  <2>5. BeingClosed(t)'
    <3>1. held[s] = Resources
      BY <2>1, <2>3, WorkerKnows
    <3> QED BY <2>1, <2>3, <2>4, <3>1, TeardownHeld DEF BeingClosed
  <2>6. TableInv'
    BY <2>3, <2>4 DEF SlotsInv, TableInv
  <2>7. \A r \in Slots :
           /\ entries'[r].in_use /\ slot'[t] # r => ~entries'[r].cancelled /\ held'[r] = Resources
           /\ ~entries'[r].in_use => held'[r] = {}
    BY <2>1, <2>3, <2>4, WorkerKnows
  <2> QED BY <2>1, <2>5, <2>6, <2>7, OnlyWorker
<1>4. CASE Drain(t)
  <2>1. pc[t] = "drain" /\ slot[t] \in Slots /\ held[slot[t]] = HeldAt["drain"]
    BY <1>4 DEF Drain, LocalInv, SlotPcs, SlotsInv, TeardownInv, BeingClosed
  <2>2. held' = [held EXCEPT ![slot[t]] = HeldAt["close"]]
    BY <1>4, <2>1, TeardownHeld DEF Drain, TypeOK
  <2> QED BY <1>4, <2>1, <2>2, TeardownMoves DEF Drain, SameEntries
<1>5. CASE CloseDevice(t)
  <2>1. pc[t] = "close" /\ slot[t] \in Slots /\ held[slot[t]] = HeldAt["close"]
    BY <1>5 DEF CloseDevice, LocalInv, SlotPcs, SlotsInv, TeardownInv, BeingClosed
  <2>2. held' = [held EXCEPT ![slot[t]] = HeldAt["destroy"]]
    BY <1>5, <2>1, TeardownHeld DEF CloseDevice
  <2>3. SameEntries
    BY <1>5, <2>1, SameButHandle DEF CloseDevice
  <2> QED BY <1>5, <2>1, <2>2, <2>3, TeardownMoves DEF CloseDevice
<1>6. CASE DestroyLocks(t)
  <2>1. pc[t] = "destroy" /\ slot[t] \in Slots /\ held[slot[t]] = HeldAt["destroy"]
    BY <1>6 DEF DestroyLocks, LocalInv, SlotPcs, SlotsInv, TeardownInv, BeingClosed
  <2>2. held' = [held EXCEPT ![slot[t]] = HeldAt["free_slot"]]
    BY <1>6, <2>1, TeardownHeld DEF DestroyLocks
  <2> QED BY <1>6, <2>1, <2>2, TeardownMoves DEF DestroyLocks, SameEntries
<1>7. CASE FreeSlot(t)
  <2>1. pc[t] = "free_slot" /\ UnlockReturn(t) /\ held' = held
    BY <1>7 DEF FreeSlot
  <2>2. slot[t] \in Slots /\ held[slot[t]] = {}
    BY <2>1, TeardownHeld DEF LocalInv, SlotPcs, SlotsInv, TeardownInv, BeingClosed
  <2>3. /\ entries'[slot[t]] = ZeroEntry /\ ~ZeroEntry.in_use
        /\ \A r \in Slots \ {slot[t]} : entries'[r] = entries[r]
    BY <1>7, <2>2 DEF FreeSlot, ReleaseSlot, ZeroEntry, TypeOK
  <2>4. TableInv'
    BY <2>2, <2>3 DEF SlotsInv, TableInv
  <2>5. \A r \in Slots :
           /\ entries'[r].in_use => ~entries'[r].cancelled /\ held'[r] = Resources
           /\ ~entries'[r].in_use => held'[r] = {}
    BY <2>1, <2>2, <2>3, WorkerKnows
  <2> QED BY <2>1, <2>4, <2>5, ReturnsClean
<1> QED BY <1>1, <1>2, <1>3, <1>4, <1>5, <1>6, <1>7 DEF Release

(***************************************************************************)
(* The rest of the system never touches the table.                         *)
(***************************************************************************)
LEMMA OthersSlots ==
    ASSUME TypeOK, LockInv, LocalInv, SlotsInv, NEW t \in Threads,
           Call(t) \/ LockRegistry(t) \/ Command(t)
    PROVE  SlotsInv'
<1> USE PcSets, BusySets
<1>1. UNCHANGED <<entries, held>> /\ pc[t] \notin LockedPcs
  BY DEF Call, AcquireCall, ReleaseCall, CommandCall, StrayReleaseCall, LockRegistry, Command,
     CommandCheck, CommandLock, CommandCancelled, CommandSend, CommandDone
<1>2. CASE Return(t)
  BY <1>1, <1>2, ReturnType, SlotsUntouched
<1>3. ASSUME NEW l \in {"acq_lock", "rel_lock", "acq_find", "rel_find"} \cup CommandPcs,
             Goto(t, l), 
             \A u \in Threads \ {t} : tok'[u] = tok[u] /\ slot'[u] = slot[u]
      PROVE  SlotsInv'
  <2>1. pc'[t] = l /\ \A u \in Threads \ {t} : pc'[u] = pc[u]
    BY <1>3, GotoType
  <2>2. l \notin BusyPcs
    BY <1>3
  <2> QED BY <1>1, <1>3, <2>1, <2>2, SlotsUntouched
<1>4. CASE Call(t)
  <2>1. \E l \in {"acq_lock", "rel_lock", "cmd_check"} : Goto(t, l)
    BY <1>4 DEF Call, AcquireCall, ReleaseCall, CommandCall, StrayReleaseCall
  <2>2. \A u \in Threads \ {t} : tok'[u] = tok[u] /\ slot'[u] = slot[u]
    BY <1>4 DEF Call, AcquireCall, ReleaseCall, CommandCall, StrayReleaseCall, TypeOK
  <2> QED BY <1>3, <2>1, <2>2
<1>5. CASE LockRegistry(t)
  BY <1>3, <1>5 DEF LockRegistry, local
<1>6. CASE Command(t) /\ ~Return(t)
  BY <1>3, <1>6 DEF Command, CommandCheck, CommandLock, CommandCancelled, CommandSend,
     CommandDone, local
<1> QED BY <1>2, <1>4, <1>5, <1>6

LEMMA SlotsStep == TypeOK /\ LockInv /\ LocalInv /\ SlotsInv /\ [Next]_vars => SlotsInv'
<1> SUFFICES ASSUME TypeOK, LockInv, LocalInv, SlotsInv, [Next]_vars PROVE SlotsInv'
  OBVIOUS
<1>1. CASE UNCHANGED vars \/ \E k \in Tokens, d \in Devices \cup {None} : Recycle(k, d)
  <2>1. UNCHANGED <<entries, held, pc, tok, slot>>
    BY <1>1 DEF vars, Recycle, local
  <2> QED BY <2>1 DEF SlotsInv, TableInv, RegisterInv, TeardownInv, CountInv, QuietInv,
          BeingBuilt, BeingClosed, Lookup, TornDown, UnderConstruction
<1> QED BY <1>1, RegisterSlots, AcquireSlots, ReleaseSlots, OthersSlots DEF Next, Step

TableCore == TypeOK /\ LockInv /\ LocalInv /\ SlotsInv

LEMMA TableCoreHolds == Spec => []TableCore
<1>1. Init => TableCore
  <2> SUFFICES ASSUME Init PROVE SlotsInv
    BY InitTyped DEF TableCore
  <2>1. \A s \in Slots : ~entries[s].in_use /\ held[s] = {}
    BY DEF Init, ZeroEntry
  <2>2. \A t \in Threads : pc[t] \notin BusyPcs
    BY BusySets DEF Init
  <2> QED BY <2>1, <2>2, BusySets DEF SlotsInv, TableInv, RegisterInv, TeardownInv, CountInv,
          QuietInv
<1>2. TableCore /\ [Next]_vars => TableCore'
  BY TypeStep, LockStep, LocalStep, SlotsStep DEF TableCore
<1> QED BY <1>1, <1>2, PTL DEF Spec

(***************************************************************************)
(* Two registrations never race to one token, whatever the size of the     *)
(* table (laser_register() and reserve_slot(), under g_registry_lock).     *)
(***************************************************************************)
THEOREM OneEntry == Spec => []OneEntryPerToken
<1>1. TableCore => OneEntryPerToken
  BY DEF TableCore, SlotsInv, TableInv, OneEntryPerToken
<1> QED BY <1>1, TableCoreHolds, PTL

(***************************************************************************)
(* The unwind ladder of laser_register() frees what the registration       *)
(* acquired, no more and no less, from whichever step it fails; teardown   *)
(* leaves nothing behind.                                                  *)
(***************************************************************************)
THEOREM UnwindExact == Spec => []UnwindIsExact
<1>1. TableCore => UnwindIsExact
  <2> SUFFICES ASSUME TableCore PROVE UnwindIsExact
    OBVIOUS
  <2>1. ASSUME NEW t \in Threads, pc[t] \in UndoPcs
        PROVE  Undo[pc[t]].frees \in held[slot[t]]
    BY <2>1, PcSets, UndoHeld DEF TableCore, SlotsInv, RegisterInv, BeingBuilt
  <2>2. ASSUME NEW t \in Threads, pc[t] = "err_handle" PROVE "handle" \in held[slot[t]]
    BY <2>2, PcSets, RegisterHeld DEF TableCore, SlotsInv, RegisterInv, BeingBuilt
  <2>3. \A s \in Slots : ~entries[s].in_use /\ ~UnderConstruction(s) => held[s] = {}
    BY DEF TableCore, SlotsInv, QuietInv
  <2> QED BY <2>1, <2>2, <2>3 DEF UnwindIsExact
<1> QED BY <1>1, TableCoreHolds, PTL

----------------------------------------------------------------------------
(* The kernel driver of a device that was declined. *)

OpenPcs == {"find_endpoints", "detach", "claim", "probe", "settle", "publish",
            "err_iface", "err_handle"}
BackPcs == {"err_ctx", "err_css_cond", "err_css_mutex", "err_io_mutex", "err_slot", "acq_fail"}
DecidedPcs == {"err_iface", "err_handle"} \cup BackPcs

\* As long as the handle is open, a driver that is detached was so before, or
\* the entry knows that it has to be given back.
HandInv(t) ==
    /\ setup[t].declined => pc[t] \in DecidedPcs
    /\ pc[t] \in OpenPcs =>
          LET e == entries[slot[t]] IN
          /\ e.handle \in Devices /\ e.handle = fdDevice[tok[t]]
          /\ \/ setup[t].before = "detached"
             \/ driver[e.handle] # "detached"
             \/ e.kernel_driver_detached
    /\ pc[t] \in BackPcs /\ setup[t].declined /\ setup[t].before # "detached"
          => driver[fdDevice[tok[t]]] # "detached"

DriverInv == \A t \in Threads : HandInv(t)

LEMMA DriverSets ==
    /\ OpenPcs \subseteq RegisterPcs /\ BackPcs \subseteq RegisterPcs \cup {"acq_fail"}
    /\ OpenPcs \cap BackPcs = {} /\ DecidedPcs \subseteq OpenPcs \cup BackPcs
    /\ OpenPcs \cup BackPcs \subseteq LockedPcs
    /\ (TeardownPcs \cup CommandPcs
          \cup {"idle", "acq_lock", "rel_lock", "acq_find", "rel_find", "reserve", "count"})
         \cap (OpenPcs \cup BackPcs) = {}
    /\ (SetupPcs \cup {"wrap"}) \cap (OpenPcs \cup BackPcs) = {}
<1>1. (TeardownPcs \cup CommandPcs
          \cup {"idle", "acq_lock", "rel_lock", "acq_find", "rel_find", "reserve", "count"})
         \cap (OpenPcs \cup BackPcs) = {}
  BY DEF OpenPcs, BackPcs, TeardownPcs, CommandPcs
<1>2. (SetupPcs \cup {"wrap"}) \cap (OpenPcs \cup BackPcs) = {} /\ OpenPcs \cap BackPcs = {}
  BY DEF OpenPcs, BackPcs, SetupPcs
<1>3. OpenPcs \subseteq RegisterPcs /\ BackPcs \subseteq RegisterPcs \cup {"acq_fail"}
  BY DEF OpenPcs, BackPcs, RegisterPcs, UndoPcs
<1>4. DecidedPcs \subseteq OpenPcs \cup BackPcs
  BY DEF DecidedPcs, OpenPcs
<1> QED BY <1>1, <1>2, <1>3, <1>4, PcSets

\* A step of t is nothing to u: only the call past the lock opens, detaches
\* or hands back.
LEMMA HandOther ==
    ASSUME TypeOK, LockInv, NEW t \in Threads, NEW u \in Threads \ {t}, HandInv(u),
           pc'[u] = pc[u], tok'[u] = tok[u], slot'[u] = slot[u], setup'[u] = setup[u],
           UNCHANGED fdDevice, pc[t] \notin LockedPcs => UNCHANGED <<entries, driver>>
    PROVE  HandInv(u)'
<1>1. CASE pc[u] \in LockedPcs
  <2>1. UNCHANGED <<entries, driver>>
    BY <1>1, OneInside
  <2> QED BY <2>1 DEF HandInv
<1>2. CASE pc[u] \notin LockedPcs
  <2>1. pc[u] \notin OpenPcs \cup BackPcs
    BY <1>2, DriverSets
  <2> QED BY <2>1 DEF HandInv
<1> QED BY <1>1, <1>2

\* A call that has declined nothing, and has no handle open after the step.
LEMMA HandUndeclared ==
    ASSUME NEW t \in Threads, HandInv(t), pc[t] \notin DecidedPcs, UNCHANGED setup,
           pc'[t] \notin OpenPcs
    PROVE  HandInv(t)'
  BY DEF HandInv

LEMMA HandReturns ==
    ASSUME TypeOK, NEW t \in Threads, Return(t)
    PROVE  /\ HandInv(t)'
           /\ \A u \in Threads \ {t} : /\ pc'[u] = pc[u] /\ tok'[u] = tok[u]
                                       /\ slot'[u] = slot[u] /\ setup'[u] = setup[u]
<1>1. setup'[t] = NoSetup /\ \A u \in Threads \ {t} : setup'[u] = setup[u]
  BY DEF Return, TypeOK
<1> QED BY <1>1, ReturnType, DriverSets DEF HandInv, NoSetup

LEMMA HandRegisters ==
    ASSUME TypeOK, LockInv, LocalInv, SlotsInv, NEW t \in Threads, HandInv(t), Register(t)
    PROVE  HandInv(t)'
<1> USE PcSets
<1>1. ASSUME NEW l \in Pcs, Goto(t, l) PROVE pc'[t] = l
  BY <1>1, GotoType
<1>2. CASE Reserve(t) \/ ReserveFails(t) \/ Publish(t)
  <2>1. /\ UNCHANGED setup /\ pc[t] \in {"reserve", "publish"}
        /\ \E l \in {"init_io_lock", "acq_fail", "count"} : Goto(t, l)
    BY <1>2 DEF Reserve, ReserveFails, Publish
  <2>2. pc'[t] \in {"init_io_lock", "acq_fail", "count"}
    BY <1>1, <2>1, CallSets
  <2>3. pc[t] \notin DecidedPcs /\ pc'[t] \notin OpenPcs
    BY <2>1, <2>2 DEF DecidedPcs, BackPcs, OpenPcs
  <2> QED BY <2>1, <2>3, HandUndeclared
<1>3. CASE SetupStep(t)
  <2>1. /\ UNCHANGED setup /\ pc[t] \in SetupPcs
        /\ Goto(t, Setup[pc[t]].then) \/ Goto(t, Setup[pc[t]].undo)
    BY <1>3 DEF SetupStep
  <2>2. pc'[t] \in {Setup[pc[t]].then, Setup[pc[t]].undo}
    BY <1>1, <2>1, SetupTargets
  <2>3. pc'[t] \notin OpenPcs
    BY <2>1, <2>2 DEF SetupPcs, Setup, OpenPcs
  <2> QED BY <2>1, <2>3, DriverSets, HandUndeclared
<1>4. CASE Wrap(t)
  <2>1. /\ pc[t] = "wrap" /\ UNCHANGED <<tok, slot, fdDevice, driver>>
        /\ tok[t] \in Tokens /\ slot[t] \in Slots
    BY <1>4, CallSets DEF Wrap, local, LocalInv, RegisterPcs, world
  <2>2. CASE Goto(t, "err_ctx") /\ UNCHANGED setup
    <3>1. pc'[t] = "err_ctx"
      BY <1>1, <2>2, CallSets
    <3>2. pc[t] \notin DecidedPcs /\ pc'[t] \notin OpenPcs
      BY <2>1, <3>1 DEF DecidedPcs, BackPcs, OpenPcs
    <3> QED BY <2>2, <3>2, HandUndeclared
  <2>3. CASE ~(Goto(t, "err_ctx") /\ UNCHANGED setup)
    <3> DEFINE d == fdDevice[tok[t]]
    <3>1. /\ d # None /\ entries' = [entries EXCEPT ![slot[t]].handle = d]
          /\ setup' = [setup EXCEPT ![t].before = driver[d]] /\ Goto(t, "find_endpoints")
      BY <1>4, <2>3 DEF Wrap
    <3>2. pc'[t] = "find_endpoints"
      BY <1>1, <3>1
    <3>3. d \in Devices /\ entries[slot[t]] \in Entry
      BY <2>1, <3>1 DEF TypeOK
    <3>4. entries'[slot[t]].handle = d
      BY <2>1, <3>1, <3>3 DEF Entry, TypeOK
    <3>5. setup'[t].before = driver[d] /\ setup'[t].declined = setup[t].declined
      BY <3>1 DEF TypeOK
    <3>6. ~setup[t].declined
      BY <2>1 DEF HandInv, DecidedPcs, BackPcs
    <3>7. "find_endpoints" \in OpenPcs \ BackPcs
      BY DEF OpenPcs, BackPcs
    <3> HIDE DEF d
    <3>8. entries'[slot'[t]].handle = d /\ fdDevice'[tok'[t]] = d /\ driver' = driver
      BY <2>1, <3>4 DEF d
    <3> QED BY <3>2, <3>3, <3>5, <3>6, <3>7, <3>8 DEF HandInv
  <2> QED BY <2>2, <2>3
<1>5. CASE FindEndpoints(t) \/ ClaimInterface(t) \/ Settle(t)
  <2>1. /\ UNCHANGED <<setup, entries, driver, fdDevice, tok, slot>>
        /\ pc[t] \in {"find_endpoints", "claim", "settle"}
        /\ \E l \in {"detach", "err_handle", "probe", "publish"} : Goto(t, l)
    BY <1>5 DEF FindEndpoints, ClaimInterface, Settle, local, world
  <2>2. pc'[t] \in {"detach", "err_handle", "probe", "publish"}
    BY <1>1, <2>1
  <2>3. /\ pc[t] \in OpenPcs /\ pc[t] \notin DecidedPcs
        /\ pc'[t] \notin BackPcs
    BY <2>1, <2>2 DEF OpenPcs, BackPcs, DecidedPcs
  <2> QED BY <2>1, <2>3 DEF HandInv
<1>6. CASE Probe(t)
  <2>1. /\ UNCHANGED <<entries, driver, fdDevice, tok, slot>> /\ pc[t] = "probe"
        /\ \/ Goto(t, "settle") /\ UNCHANGED setup
           \/ Goto(t, "err_iface") /\ setup' = [setup EXCEPT ![t].declined = TRUE]
    BY <1>6 DEF Probe, local, world
  <2>2. /\ pc'[t] = "settle" \/ pc'[t] = "err_iface"
        /\ setup' = setup \/ pc'[t] = "err_iface"
    BY <1>1, <2>1, CallSets
  <2>3. setup'[t].before = setup[t].before
    BY <2>1 DEF TypeOK
  <2>4. /\ pc[t] \in OpenPcs /\ pc[t] \notin DecidedPcs /\ pc'[t] \notin BackPcs
        /\ "err_iface" \in DecidedPcs
    BY <2>1, <2>2 DEF OpenPcs, BackPcs, DecidedPcs
  <2> QED BY <2>1, <2>2, <2>3, <2>4 DEF HandInv
<1>7. CASE DetachKernelDriver(t)
  <2> DEFINE s == slot[t]
             d == entries[s].handle
  <2>1. /\ pc[t] = "detach" /\ UNCHANGED <<tok, slot, fdDevice, setup>> /\ s \in Slots
        /\ Goto(t, "claim")
    BY <1>7, CallSets DEF DetachKernelDriver, local, LocalInv, RegisterPcs
  <2>2. /\ pc'[t] = "claim" /\ "claim" \in OpenPcs /\ "claim" \notin DecidedPcs \cup BackPcs
        /\ "detach" \in OpenPcs /\ "detach" \notin DecidedPcs
    BY <1>1, <2>1 DEF OpenPcs, BackPcs, DecidedPcs
  <2>3. CASE entries' = [entries EXCEPT ![s].kernel_driver_detached = TRUE]
    <3>1. entries[s] \in Entry
      BY <2>1 DEF TypeOK
    <3>2. entries'[s].kernel_driver_detached /\ entries'[s].handle = entries[s].handle
      BY <2>1, <2>3, <3>1 DEF Entry, TypeOK
    <3> QED BY <2>1, <2>2, <3>2 DEF HandInv
  <2>4. CASE UNCHANGED <<driver, entries>>
    BY <2>1, <2>2, <2>4 DEF HandInv
  <2> QED BY <1>7, <2>3, <2>4 DEF DetachKernelDriver
<1>8. CASE UndoStep(t)
  <2>1. /\ UNCHANGED <<setup, entries, driver, fdDevice, tok, slot>>
        /\ pc[t] \in UndoPcs /\ Goto(t, Undo[pc[t]].then)
    BY <1>8 DEF UndoStep, local, world
  <2>2. pc'[t] = Undo[pc[t]].then
    BY <1>1, <2>1, UndoTargets
  <2>3. CASE pc[t] = "err_iface"
    <3>1. /\ pc'[t] = "err_handle" /\ pc[t] \in OpenPcs
          /\ "err_handle" \in DecidedPcs /\ "err_handle" \notin BackPcs
      BY <2>2, <2>3 DEF Undo, OpenPcs, BackPcs, DecidedPcs
    <3> QED BY <2>1, <3>1 DEF HandInv
  <2>4. CASE pc[t] # "err_iface"
    <3>1. pc[t] \in BackPcs /\ pc'[t] \in BackPcs
      BY <2>1, <2>2, <2>4 DEF UndoPcs, Undo, BackPcs
    <3>2. pc'[t] \notin OpenPcs /\ pc'[t] \in DecidedPcs
      BY <3>1, DriverSets DEF DecidedPcs
    <3> QED BY <2>1, <3>1, <3>2 DEF HandInv
  <2> QED BY <2>3, <2>4
<1>9. CASE UndoHandle(t)
  <2> DEFINE s == slot[t]
             d == entries[s].handle
  <2>1. /\ pc[t] = "err_handle" /\ UNCHANGED <<tok, slot, fdDevice, setup>>
        /\ Goto(t, "err_ctx")
    BY <1>9 DEF UndoHandle, local
  <2>2. /\ pc'[t] = "err_ctx" /\ "err_ctx" \in BackPcs \cap DecidedPcs
        /\ "err_ctx" \notin OpenPcs /\ "err_handle" \in OpenPcs
    BY <1>1, <2>1, CallSets DEF OpenPcs, BackPcs, DecidedPcs
  <2>3. "iface" \notin held[s]
    BY <2>1 DEF SlotsInv, RegisterInv, BeingBuilt, RegisterPcs, HeldAt
  <2>4. d \in Devices /\ d = fdDevice[tok[t]]
    BY <2>1, <2>2 DEF HandInv
  <2>5. setup[t].before # "detached" => driver'[d] # "detached"
    <3>1. CASE entries[s].kernel_driver_detached
      <4>1. \E outcome \in {"bound", "none"} : driver' = [driver EXCEPT ![d] = outcome]
        BY <1>9, <2>3, <3>1 DEF UndoHandle
      <4> QED BY <2>4, <4>1 DEF TypeOK
    <3>2. CASE ~entries[s].kernel_driver_detached
      <4>1. driver' = driver
        BY <1>9, <3>2 DEF UndoHandle
      <4> QED BY <2>1, <2>2, <3>2, <4>1 DEF HandInv
    <3> QED BY <3>1, <3>2
  <2> QED BY <2>1, <2>2, <2>4, <2>5 DEF HandInv
<1>10. CASE UndoSlot(t)
  <2>1. /\ UNCHANGED <<setup, driver, fdDevice, tok>> /\ pc[t] = "err_slot"
        /\ Goto(t, "acq_fail")
    BY <1>10 DEF UndoSlot, local, world
  <2>2. /\ pc'[t] = "acq_fail" /\ pc[t] \in BackPcs /\ "acq_fail" \in BackPcs \cap DecidedPcs
        /\ "acq_fail" \notin OpenPcs
    BY <1>1, <2>1 DEF OpenPcs, BackPcs, DecidedPcs
  <2> QED BY <2>1, <2>2 DEF HandInv
<1> QED BY <1>2, <1>3, <1>4, <1>5, <1>6, <1>7, <1>8, <1>9, <1>10 DEF Register

LEMMA HandElsewhere ==
    ASSUME TypeOK, NEW t \in Threads, HandInv(t),
           Call(t) \/ LockRegistry(t) \/ Acquire(t) \/ Release(t) \/ Command(t)
    PROVE  HandInv(t)'
<1> USE PcSets
<1> DEFINE Moved == {"acq_lock", "rel_lock", "acq_find", "rel_find", "count", "reserve"}
                        \cup TeardownPcs \cup CommandPcs
<1>1. CASE Return(t)
  BY <1>1, HandReturns
<1>2. CASE ~Return(t)
  <2>1. /\ UNCHANGED setup /\ pc[t] \in {"idle"} \cup Moved
        /\ \E l \in Moved : Goto(t, l)
    BY <1>2 DEF Call, AcquireCall, ReleaseCall, CommandCall, StrayReleaseCall, LockRegistry,
       Acquire, AcquireRefused, AcquireFound, AcquireAbsent, CountClaim, AcquireFailed,
       Release, ReleaseIgnored, ReleaseDrop, ReleaseLast, Drain, CloseDevice, DestroyLocks,
       FreeSlot, UnlockReturn, Command, CommandCheck, CommandLock, CommandCancelled,
       CommandSend, CommandDone, TeardownPcs, CommandPcs
  <2>2. pc'[t] \in Moved
    BY <2>1, GotoType
  <2>3. pc[t] \notin DecidedPcs /\ pc'[t] \notin OpenPcs
    BY <2>1, <2>2, DriverSets
  <2> QED BY <2>1, <2>3, HandUndeclared
<1> QED BY <1>1, <1>2

LEMMA DriverStep == TableCore /\ DriverInv /\ [Next]_vars => DriverInv'
<1> SUFFICES ASSUME TableCore, DriverInv, [Next]_vars PROVE DriverInv'
  OBVIOUS
<1>1. TypeOK /\ LockInv /\ LocalInv /\ SlotsInv
  BY DEF TableCore
<1>2. CASE UNCHANGED vars
  BY <1>2 DEF DriverInv, HandInv, vars, local
<1>3. ASSUME NEW k \in Tokens, NEW d \in Devices \cup {None}, Recycle(k, d) PROVE DriverInv'
  <2> SUFFICES ASSUME NEW t \in Threads PROVE HandInv(t)'
    BY DEF DriverInv
  <2>1. UNCHANGED <<entries, pc, tok, slot, driver, setup>>
    BY <1>3 DEF Recycle, local
  <2>2. HandInv(t)
    BY DEF DriverInv
  <2>3. CASE pc[t] \in OpenPcs \cup BackPcs
    <3>1. tok[t] # k /\ tok[t] \in Tokens
      BY <1>1, <1>3, <2>3, DriverSets, PcSets, CallSets DEF Recycle, LocalInv
    <3>2. fdDevice'[tok[t]] = fdDevice[tok[t]]
      BY <1>1, <1>3, <3>1 DEF Recycle, TypeOK
    <3> QED BY <2>1, <2>2, <3>2 DEF HandInv
  <2>4. CASE pc[t] \notin OpenPcs \cup BackPcs
    BY <2>1, <2>2, <2>4 DEF HandInv
  <2> QED BY <2>3, <2>4
<1>4. ASSUME NEW t \in Threads, Call(t) \/ Step(t) PROVE DriverInv'
  <2>1. HandInv(t)'
    BY <1>1, <1>4, HandRegisters, HandElsewhere DEF Step, DriverInv
  <2>2. UNCHANGED fdDevice
    BY <1>4 DEF Call, AcquireCall, ReleaseCall, CommandCall, StrayReleaseCall, Step,
       LockRegistry, Acquire, AcquireRefused, AcquireFound, AcquireAbsent, AcquireFailed,
       CountClaim, Register, Reserve, ReserveFails, SetupStep, Wrap, FindEndpoints,
       DetachKernelDriver, ClaimInterface, Probe, Settle, Publish, UndoStep, UndoHandle,
       UndoSlot, Release, ReleaseIgnored, ReleaseDrop, ReleaseLast, Drain, CloseDevice,
       DestroyLocks, FreeSlot, Command, CommandCheck, CommandLock, CommandCancelled,
       CommandSend, CommandDone, world
  <2>3. pc[t] \notin LockedPcs => UNCHANGED <<entries, driver>>
    <3>1. CASE Call(t) \/ LockRegistry(t) \/ Command(t)
      BY <3>1 DEF Call, AcquireCall, ReleaseCall, CommandCall, StrayReleaseCall, LockRegistry,
         Command, CommandCheck, CommandLock, CommandCancelled, CommandSend, CommandDone, world
    <3>2. CASE Acquire(t) \/ Register(t) \/ Release(t)
      BY <3>2, PcSets DEF Acquire, AcquireRefused, AcquireFound, AcquireAbsent, AcquireFailed,
         CountClaim, Register, Reserve, ReserveFails, SetupStep, Wrap, FindEndpoints,
         DetachKernelDriver, ClaimInterface, Probe, Settle, Publish, UndoStep, UndoHandle,
         UndoSlot, Release, ReleaseIgnored, ReleaseDrop, ReleaseLast, Drain, CloseDevice,
         DestroyLocks, FreeSlot
    <3> QED BY <1>4, <3>1, <3>2 DEF Step
  <2>4. \A u \in Threads \ {t} : /\ pc'[u] = pc[u] /\ tok'[u] = tok[u]
                                 /\ slot'[u] = slot[u] /\ setup'[u] = setup[u]
    <3>1. CASE Return(t)
      BY <1>1, <3>1, HandReturns
    <3>2. CASE ~Return(t)
      <4>1. /\ \A u \in Threads \ {t} : tok'[u] = tok[u]
            /\ \A u \in Threads \ {t} : slot'[u] = slot[u]
            /\ \A u \in Threads \ {t} : setup'[u] = setup[u]
            /\ \E l : Goto(t, l)
        <5> USE <1>1, <1>4, <3>2 DEF TypeOK, Call, AcquireCall, ReleaseCall, CommandCall,
           StrayReleaseCall, Step, LockRegistry, Acquire, AcquireRefused, AcquireFound,
           AcquireAbsent, AcquireFailed, CountClaim, Register, Reserve, ReserveFails, SetupStep,
           Wrap, FindEndpoints, DetachKernelDriver, ClaimInterface, Probe, Settle, Publish,
           UndoStep, UndoHandle, UndoSlot, Release, ReleaseIgnored, ReleaseDrop, ReleaseLast,
           Drain, CloseDevice, DestroyLocks, FreeSlot, Command, CommandCheck, CommandLock,
           CommandCancelled, CommandSend, CommandDone, UnlockReturn, local
        <5>1. \A u \in Threads \ {t} : tok'[u] = tok[u]
          OBVIOUS
        <5>2. \A u \in Threads \ {t} : slot'[u] = slot[u]
          OBVIOUS
        <5>3. \A u \in Threads \ {t} : setup'[u] = setup[u]
          OBVIOUS
        <5>4. \E l : Goto(t, l)
          OBVIOUS
        <5> QED BY ONLY <5>1, <5>2, <5>3, <5>4
      <4>2. \A u \in Threads \ {t} : pc'[u] = pc[u]
        BY <1>1, <4>1 DEF Goto, TypeOK
      <4> QED BY <4>1, <4>2
    <3> QED BY <3>1, <3>2
  <2>5. ASSUME NEW u \in Threads \ {t} PROVE HandInv(u)'
    <3>1. HandInv(u)
      BY DEF DriverInv
    <3> QED BY <1>1, <2>2, <2>3, <2>4, <3>1, HandOther
  <2> QED BY <2>1, <2>5 DEF DriverInv
<1> QED BY <1>2, <1>3, <1>4 DEF Next

(***************************************************************************)
(* A registration that detached a kernel driver and then declined the      *)
(* device gives the driver back before laser_acquire() returns, interface  *)
(* first: reattach_kernel_driver() on the err_handle rung of the ladder.   *)
(***************************************************************************)
THEOREM DeclinedIsHandedBack == Spec => []DetachedThenDeclinedIsHandedBack
<1>1. Init => DriverInv
  <2>1. Init => \A t \in Threads : ~setup[t].declined /\ pc[t] = "idle"
    BY DEF Init
  <2> QED BY <2>1, DriverSets DEF DriverInv, HandInv
<1>2. DriverInv => DetachedThenDeclinedIsHandedBack
  BY DEF DriverInv, HandInv, BackPcs, DetachedThenDeclinedIsHandedBack
<1> QED BY <1>1, <1>2, DriverStep, TableCoreHolds, PTL DEF Spec

----------------------------------------------------------------------------
(* Whoever holds g_registry_lock is one step nearer to dropping it with    *)
(* every step.                                                             *)

\* The most steps from each label of laser_acquire() and laser_release() to
\* the unlock: the way up, and the unwind ladder it may fall to.
StepsToUnlock ==
    [acq_find |-> 19, reserve |-> 18,
     init_io_lock |-> 17, init_css_mtx |-> 16, init_css_cv |-> 15, init_ctx |-> 14,
     wrap |-> 13, find_endpoints |-> 12, detach |-> 11, claim |-> 10, probe |-> 9,
     settle |-> 3, publish |-> 2, count |-> 1,
     err_iface |-> 8, err_handle |-> 7, err_ctx |-> 6, err_css_cond |-> 5,
     err_css_mutex |-> 4, err_io_mutex |-> 3, err_slot |-> 2, acq_fail |-> 1,
     rel_find |-> 5, drain |-> 4, close |-> 3, destroy |-> 2, free_slot |-> 1]

\* One step of the holder: nearer to the unlock, or the unlock itself.
Unlocking(t) ==
    \/ /\ g_registry_lock' = t /\ pc'[t] \in LockedPcs
       /\ StepsToUnlock[pc'[t]] < StepsToUnlock[pc[t]]
    \/ g_registry_lock' = None /\ pc'[t] = "idle"

\* A command on a cancelled entry is on its way out: it makes no attempt it
\* had not begun.
OnTheWayOut(t) ==
    \/ pc'[t] = "idle"
    \/ pc[t] \in {"cmd_queue", "cmd_xfer"} /\ pc'[t] = "cmd_attempt"

(***************************************************************************)
(* No step of another thread moves the holder of g_registry_lock, and each *)
(* of its own brings it nearer to the unlock; what it can wait for, in     *)
(* teardown_entry_locked(), is io_lock of an entry it has cancelled, and a *)
(* command on a cancelled entry does not go round again.                   *)
(***************************************************************************)
RegistryGoesOn ==
    [][\A t \in Threads :
          /\ g_registry_lock = t =>
                (g_registry_lock' = t /\ pc'[t] = pc[t]) \/ Unlocking(t)
          /\ pc[t] \in CommandPcs /\ entries[slot[t]].cancelled =>
                pc'[t] = pc[t] \/ OnTheWayOut(t)]_vars

LEMMA SetupGoesOn ==
    ASSUME NEW l \in SetupPcs
    PROVE  /\ StepsToUnlock[Setup[l].then] < StepsToUnlock[l]
           /\ StepsToUnlock[Setup[l].undo] < StepsToUnlock[l]
<1> USE DEF Setup, StepsToUnlock
<1>1. CASE l = "init_io_lock"
  BY <1>1
<1>2. CASE l = "init_css_mtx"
  BY <1>2
<1>3. CASE l = "init_css_cv"
  BY <1>3
<1>4. CASE l = "init_ctx"
  BY <1>4
<1> QED BY <1>1, <1>2, <1>3, <1>4 DEF SetupPcs

LEMMA UndoGoesOn ==
    ASSUME NEW l \in UndoPcs
    PROVE  StepsToUnlock[Undo[l].then] < StepsToUnlock[l]
<1> USE DEF Undo, StepsToUnlock
<1>1. CASE l = "err_iface"
  BY <1>1
<1>2. CASE l = "err_ctx"
  BY <1>2
<1>3. CASE l = "err_css_cond"
  BY <1>3
<1>4. CASE l = "err_css_mutex"
  BY <1>4
<1>5. CASE l = "err_io_mutex"
  BY <1>5
<1> QED BY <1>1, <1>2, <1>3, <1>4, <1>5 DEF UndoPcs

LEMMA ReturnUnlocks ==
    ASSUME TypeOK, NEW t \in Threads, UnlockReturn(t)
    PROVE  Unlocking(t)
  BY ReturnType DEF UnlockReturn, Unlocking

LEMMA MoveUnlocks ==
    ASSUME TypeOK, NEW t \in Threads, g_registry_lock = t, NEW l \in LockedPcs, Goto(t, l),
           UNCHANGED g_registry_lock, StepsToUnlock[l] < StepsToUnlock[pc[t]]
    PROVE  Unlocking(t)
  BY GotoType, PcSets DEF Unlocking

\* The steps of laser_acquire() and laser_register()...
LEMMA AcquireUnlocks ==
    ASSUME TypeOK, LockInv, NEW t \in Threads, Acquire(t) \/ Register(t)
    PROVE  Unlocking(t)
<1>1. pc[t] \in AcquirePcs
  BY PcSets DEF Acquire, AcquireRefused, AcquireFound, AcquireAbsent, CountClaim, AcquireFailed,
     Register, Reserve, ReserveFails, SetupStep, Wrap, FindEndpoints,
     DetachKernelDriver, ClaimInterface, Probe, Settle, Publish, UndoStep, UndoHandle, UndoSlot
<1>2. g_registry_lock = t
  BY <1>1, PcSets DEF LockInv
<1>3. ASSUME NEW l \in LockedPcs, Goto(t, l), UNCHANGED g_registry_lock,
             StepsToUnlock[l] < StepsToUnlock[pc[t]]
      PROVE  Unlocking(t)
  BY <1>2, <1>3, MoveUnlocks
<1>4. {"init_io_lock", "err_iface", "err_ctx"} \subseteq LockedPcs /\ AcquirePcs \subseteq LockedPcs
      /\ RegisterPcs \subseteq LockedPcs
  BY PcSets DEF SetupPcs, UndoPcs
<1>5. {"count", "reserve", "acq_fail", "find_endpoints", "detach", "err_handle", "claim", "probe",
       "settle", "publish"} \subseteq LockedPcs
  BY <1>4, PcSets
<1> USE DEF StepsToUnlock
<1>6. CASE AcquireRefused(t) \/ CountClaim(t) \/ AcquireFailed(t)
  BY <1>6, ReturnUnlocks DEF AcquireRefused, CountClaim, AcquireFailed
<1>7. CASE AcquireFound(t)
  BY <1>3, <1>5, <1>7 DEF AcquireFound
<1>8. CASE AcquireAbsent(t)
  BY <1>3, <1>5, <1>8 DEF AcquireAbsent
<1>9. CASE Reserve(t) \/ ReserveFails(t)
  BY <1>3, <1>4, <1>5, <1>9 DEF Reserve, ReserveFails
<1>10. CASE SetupStep(t)
  <2>1. PICK l \in {Setup[pc[t]].then, Setup[pc[t]].undo} : Goto(t, l)
    BY <1>10 DEF SetupStep
  <2>2. pc[t] \in SetupPcs /\ UNCHANGED g_registry_lock
    BY <1>10 DEF SetupStep
  <2>3. l \in LockedPcs /\ StepsToUnlock[l] < StepsToUnlock[pc[t]]
    BY <1>4, <2>1, <2>2, SetupTargets, SetupGoesOn
  <2> QED BY <1>3, <2>1, <2>2, <2>3
<1>11. CASE Wrap(t)
  <2>1. PICK l \in {"find_endpoints", "err_ctx"} : Goto(t, l)
    BY <1>11 DEF Wrap
  <2> QED BY <1>3, <1>4, <1>5, <1>11, <2>1 DEF Wrap
<1>12. CASE FindEndpoints(t)
  BY <1>3, <1>5, <1>12 DEF FindEndpoints
<1>13. CASE DetachKernelDriver(t)
  BY <1>3, <1>5, <1>13 DEF DetachKernelDriver
<1>14. CASE ClaimInterface(t)
  BY <1>3, <1>5, <1>14 DEF ClaimInterface
<1>15. CASE Probe(t)
  BY <1>3, <1>4, <1>5, <1>15 DEF Probe
<1>16. CASE Settle(t) \/ Publish(t)
  BY <1>3, <1>5, <1>16 DEF Settle, Publish
<1>17. CASE UndoStep(t)
  <2>1. pc[t] \in UndoPcs /\ Goto(t, Undo[pc[t]].then) /\ UNCHANGED g_registry_lock
    BY <1>17 DEF UndoStep
  <2> QED BY <1>3, <1>4, <2>1, UndoTargets, UndoGoesOn
<1>18. CASE UndoHandle(t)
  BY <1>3, <1>4, <1>18 DEF UndoHandle
<1>19. CASE UndoSlot(t)
  BY <1>3, <1>5, <1>19 DEF UndoSlot
<1> QED BY <1>6, <1>7, <1>8, <1>9, <1>10, <1>11, <1>12, <1>13, <1>14, <1>15, <1>16, <1>17,
           <1>18, <1>19 DEF Acquire, Register

\* ... and of laser_release().
LEMMA ReleaseUnlocks ==
    ASSUME TypeOK, LockInv, NEW t \in Threads, Release(t)
    PROVE  Unlocking(t)
<1>1. pc[t] \in ReleasePcs
  BY PcSets DEF Release, ReleaseIgnored, ReleaseDrop, ReleaseLast, Drain, CloseDevice,
     DestroyLocks, FreeSlot
<1>2. g_registry_lock = t /\ {"drain", "close", "destroy", "free_slot"} \subseteq LockedPcs
  BY <1>1, PcSets DEF LockInv
<1>3. ASSUME NEW l \in {"drain", "close", "destroy", "free_slot"}, Goto(t, l),
             UNCHANGED g_registry_lock, StepsToUnlock[l] < StepsToUnlock[pc[t]]
      PROVE  Unlocking(t)
  BY <1>2, <1>3, MoveUnlocks
<1>4. CASE ReleaseIgnored(t) \/ ReleaseDrop(t) \/ FreeSlot(t)
  BY <1>4, ReturnUnlocks DEF ReleaseIgnored, ReleaseDrop, FreeSlot
<1>5. CASE ReleaseLast(t)
  BY <1>3, <1>5 DEF ReleaseLast, StepsToUnlock
<1>6. CASE Drain(t) \/ CloseDevice(t) \/ DestroyLocks(t)
  BY <1>3, <1>6 DEF Drain, CloseDevice, DestroyLocks, StepsToUnlock
<1> QED BY <1>4, <1>5, <1>6 DEF Release

\* A command on its own entry.
LEMMA CommandGoesOut ==
    ASSUME TypeOK, NEW t \in Threads, Command(t), entries[slot[t]].cancelled
    PROVE  OnTheWayOut(t)
<1>1. ASSUME Return(t) PROVE OnTheWayOut(t)
  BY <1>1, ReturnType DEF OnTheWayOut
<1>2. ASSUME Goto(t, "cmd_attempt"), pc[t] \in {"cmd_queue", "cmd_xfer"} PROVE OnTheWayOut(t)
  <2>1. "cmd_attempt" \in Pcs
    BY PcSets
  <2> QED BY <1>2, <2>1, GotoType DEF OnTheWayOut
<1> QED BY <1>1, <1>2 DEF Command, CommandCheck, CommandLock, CommandCancelled, CommandSend,
           CommandDone

\* Whose step it was: the others stay where they are.
LEMMA OnlyOneMoves ==
    ASSUME TypeOK, LockInv, [Next]_vars
    PROVE  \/ pc' = pc /\ UNCHANGED g_registry_lock
           \/ \E t \in Threads :
                 /\ \A u \in Threads \ {t} : pc'[u] = pc[u]
                 /\ \/ Acquire(t) \/ Register(t) \/ Release(t)
                    \/ Command(t) /\ UNCHANGED g_registry_lock
                    \/ pc[t] = "idle" /\ UNCHANGED g_registry_lock
                    \/ LockRegistry(t)
<1>1. ASSUME NEW t \in Threads, Call(t)
      PROVE  /\ \A u \in Threads \ {t} : pc'[u] = pc[u]
             /\ pc[t] = "idle" /\ UNCHANGED g_registry_lock
  BY <1>1 DEF TypeOK, Call, AcquireCall, ReleaseCall, CommandCall, StrayReleaseCall, Goto
<1>2. ASSUME NEW t \in Threads, LockRegistry(t) PROVE \A u \in Threads \ {t} : pc'[u] = pc[u]
  BY <1>2 DEF TypeOK, LockRegistry, Goto
<1>3. ASSUME NEW t \in Threads, Acquire(t) PROVE \A u \in Threads \ {t} : pc'[u] = pc[u]
  BY <1>3 DEF TypeOK, Acquire, AcquireRefused, AcquireFound, AcquireAbsent, CountClaim,
     AcquireFailed, UnlockReturn, Return, Goto
<1>4. ASSUME NEW t \in Threads, Register(t) PROVE \A u \in Threads \ {t} : pc'[u] = pc[u]
  BY <1>4 DEF TypeOK, Register, Reserve, ReserveFails, SetupStep, Wrap, FindEndpoints,
     DetachKernelDriver, ClaimInterface, Probe, Settle, Publish, UndoStep, UndoHandle, UndoSlot,
     Goto
<1>5. ASSUME NEW t \in Threads, Release(t) PROVE \A u \in Threads \ {t} : pc'[u] = pc[u]
  BY <1>5 DEF TypeOK, Release, ReleaseIgnored, ReleaseDrop, ReleaseLast, Drain, CloseDevice,
     DestroyLocks, FreeSlot, UnlockReturn, Return, Goto
<1>6. ASSUME NEW t \in Threads, Command(t)
      PROVE  (\A u \in Threads \ {t} : pc'[u] = pc[u]) /\ UNCHANGED g_registry_lock
  BY <1>6 DEF TypeOK, Command, CommandCheck, CommandLock, CommandCancelled, CommandSend,
     CommandDone, Return, Goto
<1>7. CASE UNCHANGED vars \/ \E k \in Tokens, d \in Devices \cup {None} : Recycle(k, d)
  BY <1>7 DEF vars, Recycle
<1> QED BY <1>1, <1>2, <1>3, <1>4, <1>5, <1>6, <1>7 DEF Next, Step

(***************************************************************************)
(* laser_acquire() and laser_release() come nearer to g_registry_lock's    *)
(* unlock with every step, in a table of any size, and no command keeps a  *)
(* teardown waiting by trying again.                                       *)
(***************************************************************************)
THEOREM RegistryKeepsGoing == Spec => RegistryGoesOn
<1>1. ASSUME TableCore, [Next]_vars, NEW t \in Threads
      PROVE  /\ g_registry_lock = t =>
                   (g_registry_lock' = t /\ pc'[t] = pc[t]) \/ Unlocking(t)
             /\ pc[t] \in CommandPcs /\ entries[slot[t]].cancelled =>
                   pc'[t] = pc[t] \/ OnTheWayOut(t)
  <2> USE <1>1 DEF TableCore
  <2>1. CASE pc' = pc /\ UNCHANGED g_registry_lock
    BY <2>1
  <2>2. ASSUME NEW u \in Threads, \A v \in Threads \ {u} : pc'[v] = pc[v],
               \/ Acquire(u) \/ Register(u) \/ Release(u)
               \/ Command(u) /\ UNCHANGED g_registry_lock
               \/ pc[u] = "idle" /\ UNCHANGED g_registry_lock
               \/ LockRegistry(u)
        PROVE  /\ g_registry_lock = t =>
                     (g_registry_lock' = t /\ pc'[t] = pc[t]) \/ Unlocking(t)
               /\ pc[t] \in CommandPcs /\ entries[slot[t]].cancelled =>
                     pc'[t] = pc[t] \/ OnTheWayOut(t)
    <3>1. CASE Acquire(u) \/ Register(u) \/ Release(u)
      <4>1. pc[u] \in LockedPcs
        BY <3>1, PcSets DEF Acquire, AcquireRefused, AcquireFound, AcquireAbsent, CountClaim,
           AcquireFailed, Register, Reserve, ReserveFails, SetupStep, Wrap, FindEndpoints,
           DetachKernelDriver, ClaimInterface, Probe, Settle, Publish, UndoStep, UndoHandle,
           UndoSlot, Release, ReleaseIgnored, ReleaseDrop, ReleaseLast, Drain, CloseDevice,
           DestroyLocks, FreeSlot
      <4>2. g_registry_lock = u /\ pc[u] \notin CommandPcs
        BY <4>1, PcSets DEF LockInv
      <4>3. Unlocking(u)
        BY <3>1, AcquireUnlocks, ReleaseUnlocks
      <4> QED BY <2>2, <4>2, <4>3
    <3>2. CASE Command(u) /\ UNCHANGED g_registry_lock
      <4>1. pc[u] \in CommandPcs
        BY <3>2, PcSets DEF Command, CommandCheck, CommandLock, CommandCancelled, CommandSend,
           CommandDone
      <4>2. pc[u] \notin LockedPcs
        BY <4>1, PcSets
      <4>3. g_registry_lock # u
        BY <4>2 DEF LockInv
      <4> QED BY <2>2, <3>2, <4>3, CommandGoesOut
    <3>3. CASE pc[u] = "idle" /\ UNCHANGED g_registry_lock
      <4>1. pc[u] \notin CommandPcs \cup LockedPcs
        BY <3>3, PcSets
      <4>2. g_registry_lock # u
        BY <4>1 DEF LockInv
      <4> QED BY <2>2, <3>3, <4>1, <4>2
    <3>4. CASE LockRegistry(u)
      <4>1. g_registry_lock # t /\ pc[u] \notin CommandPcs
        BY <3>4, NoneIsNothing, PcSets DEF LockRegistry
      <4> QED BY <2>2, <4>1
    <3> QED BY <2>2, <3>1, <3>2, <3>3, <3>4
  <2> QED BY <2>1, <2>2, OnlyOneMoves
<1>2. TableCore /\ [Next]_vars =>
        [\A t \in Threads :
          /\ g_registry_lock = t =>
                (g_registry_lock' = t /\ pc'[t] = pc[t]) \/ Unlocking(t)
          /\ pc[t] \in CommandPcs /\ entries[slot[t]].cancelled =>
                pc'[t] = pc[t] \/ OnTheWayOut(t)]_vars
  BY <1>1
<1> QED BY <1>2, TableCoreHolds, PTL DEF Spec, RegistryGoesOn

----------------------------------------------------------------------------
(* The order of the two locks. *)

IoWaitPcs == {"probe", "settle", "drain", "cmd_queue"}
IoOwnerPcs == {"cmd_attempt", "cmd_xfer", "close"}

\* io_lock belongs to the call that locked it, until that call unlocks it or
\* the slot is zeroed.
OwnerInv ==
    \A s \in Slots : io_lock[s] # None =>
        slot[io_lock[s]] = s /\ pc[io_lock[s]] \in IoOwnerPcs

\* Thread t stands at a mutex that thread u holds.
WaitsFor(t, u) ==
    \/ pc[t] \in {"acq_lock", "rel_lock"} /\ g_registry_lock = u
    \/ pc[t] \in IoWaitPcs /\ io_lock[slot[t]] = u

(***************************************************************************)
(* g_registry_lock comes before io_lock, and there is nothing behind it: a *)
(* thread may wait for one that waits in its turn, but then for a command, *)
(* which holds io_lock and waits for nobody; and when the one in between   *)
(* is tearing down, that command's entry is cancelled.                     *)
(***************************************************************************)
LocksInOrder ==
    \A t, u, v \in Threads : WaitsFor(t, u) /\ WaitsFor(u, v) =>
        /\ pc[t] \in {"acq_lock", "rel_lock"}
        /\ pc[v] \in CommandPcs
        /\ pc[u] = "drain" => entries[slot[v]].cancelled
        /\ \A w \in Threads : ~WaitsFor(v, w)

LEMMA LockPcSets ==
    /\ IoOwnerPcs \cap IoWaitPcs = {} /\ IoOwnerPcs \ {"close"} \subseteq CommandPcs
    /\ {"acq_lock", "rel_lock"} \cap (IoOwnerPcs \cup IoWaitPcs \cup LockedPcs) = {}
    /\ "close" \in LockedPcs /\ "drain" \in TeardownPcs
    /\ IoOwnerPcs \cap (RegisterPcs \cup {"acq_find", "reserve", "count", "acq_fail", "idle"}) = {}
    /\ IoOwnerPcs \subseteq SlotPcs /\ IoWaitPcs \subseteq SlotPcs
  BY DEF IoOwnerPcs, IoWaitPcs, SlotPcs, CommandPcs, LockedPcs, AcquirePcs, ReleasePcs, RegisterPcs,
     SetupPcs, UndoPcs, TeardownPcs

\* A step of t takes no lock but a free one, and drops its own before it
\* moves on.
LEMMA OwnerKeeps ==
    ASSUME TypeOK, OwnerInv, NEW t \in Threads,
           \A u \in Threads \ {t} : pc'[u] = pc[u] /\ slot'[u] = slot[u],
           \A s \in Slots :
               \/ io_lock'[s] = io_lock[s] \/ io_lock'[s] = None
               \/ io_lock'[s] = t /\ slot'[t] = s /\ pc'[t] \in IoOwnerPcs,
           pc[t] \in IoOwnerPcs =>
               \/ slot'[t] = slot[t] /\ pc'[t] \in IoOwnerPcs
               \/ io_lock'[slot[t]] = None
    PROVE  OwnerInv'
<1> SUFFICES ASSUME NEW s \in Slots, io_lock'[s] # None
             PROVE  slot'[io_lock'[s]] = s /\ pc'[io_lock'[s]] \in IoOwnerPcs
  BY DEF OwnerInv
<1>1. CASE io_lock'[s] = io_lock[s]
  <2>1. io_lock[s] \in Threads /\ slot[io_lock[s]] = s /\ pc[io_lock[s]] \in IoOwnerPcs
    BY <1>1 DEF OwnerInv, TypeOK
  <2>2. CASE io_lock[s] = t
    BY <1>1, <2>1, <2>2
  <2> QED BY <1>1, <2>1, <2>2
<1> QED BY <1>1

LEMMA OwnerUntouched ==
    ASSUME TypeOK, OwnerInv, NEW t \in Threads, UNCHANGED io_lock, pc[t] \notin IoOwnerPcs,
           \A u \in Threads \ {t} : pc'[u] = pc[u] /\ slot'[u] = slot[u]
    PROVE  OwnerInv'
  BY OwnerKeeps

LEMMA OwnerCalls ==
    ASSUME TypeOK, OwnerInv, NEW t \in Threads, Call(t) \/ LockRegistry(t) \/ Acquire(t)
    PROVE  OwnerInv'
<1>1. UNCHANGED io_lock
  BY DEF Call, AcquireCall, ReleaseCall, CommandCall, StrayReleaseCall, LockRegistry, Acquire,
     AcquireRefused, AcquireFound, AcquireAbsent, CountClaim, AcquireFailed
<1>2. \A u \in Threads \ {t} : pc'[u] = pc[u] /\ slot'[u] = slot[u]
  BY DEF TypeOK, Call, AcquireCall, ReleaseCall, CommandCall, StrayReleaseCall, LockRegistry,
     Acquire, AcquireRefused, AcquireFound, AcquireAbsent, CountClaim, AcquireFailed, UnlockReturn,
     Return, Goto, local
<1>3. pc[t] \notin IoOwnerPcs
  BY LockPcSets DEF Call, AcquireCall, ReleaseCall, CommandCall, StrayReleaseCall, LockRegistry,
     Acquire, AcquireRefused, AcquireFound, AcquireAbsent, CountClaim, AcquireFailed
<1> QED BY <1>1, <1>2, <1>3, OwnerUntouched

LEMMA OwnerRegisters ==
    ASSUME TypeOK, OwnerInv, NEW t \in Threads, Register(t)
    PROVE  OwnerInv'
<1>1. \A u \in Threads \ {t} : pc'[u] = pc[u] /\ slot'[u] = slot[u]
  BY DEF TypeOK, Register, Reserve, ReserveFails, SetupStep, Wrap, FindEndpoints,
     DetachKernelDriver, ClaimInterface, Probe, Settle, Publish, UndoStep, UndoHandle, UndoSlot,
     Goto, local
<1>2. pc[t] \notin IoOwnerPcs
  BY LockPcSets DEF Register, Reserve, ReserveFails, SetupStep, Wrap, FindEndpoints,
     DetachKernelDriver, ClaimInterface, Probe, Settle, Publish, UndoStep, UndoHandle, UndoSlot,
     RegisterPcs
<1>3. CASE UNCHANGED io_lock
  BY <1>1, <1>2, <1>3, OwnerUntouched
<1>4. CASE Reserve(t) \/ UndoSlot(t)
  <2>1. PICK r : io_lock' = [io_lock EXCEPT ![r] = None]
    BY <1>4 DEF Reserve, UndoSlot, ReleaseSlot
  <2>2. \A s \in Slots : io_lock'[s] = io_lock[s] \/ io_lock'[s] = None
    BY <2>1 DEF TypeOK
  <2> QED BY <1>1, <1>2, <2>2, OwnerKeeps
<1> QED BY <1>3, <1>4 DEF Register, ReserveFails, SetupStep, Wrap, FindEndpoints,
        DetachKernelDriver, ClaimInterface, Probe, Settle, Publish, UndoStep, UndoHandle

LEMMA OwnerReleases ==
    ASSUME TypeOK, LocalInv, OwnerInv, NEW t \in Threads, Release(t)
    PROVE  OwnerInv'
<1>1. \A u \in Threads \ {t} : pc'[u] = pc[u] /\ slot'[u] = slot[u]
  BY DEF TypeOK, Release, ReleaseIgnored, ReleaseDrop, ReleaseLast, Drain, CloseDevice,
     DestroyLocks, FreeSlot, UnlockReturn, Return, Goto, local
<1>2. CASE ReleaseIgnored(t) \/ ReleaseDrop(t) \/ ReleaseLast(t) \/ DestroyLocks(t)
  BY <1>1, <1>2, OwnerUntouched DEF ReleaseIgnored, ReleaseDrop, ReleaseLast, DestroyLocks,
     IoOwnerPcs
<1>3. CASE Drain(t)
  <2>1. pc[t] = "drain" /\ pc'[t] = "close" /\ slot'[t] = slot[t]
    BY <1>3, GotoType, PcSets DEF Drain, local
  <2>2. io_lock' = [io_lock EXCEPT ![slot[t]] = t]
    BY <1>3 DEF Drain
  <2>3. \A s \in Slots : io_lock'[s] = io_lock[s] \/ (io_lock'[s] = t /\ slot'[t] = s)
    BY <2>1, <2>2 DEF TypeOK
  <2> QED BY <1>1, <2>1, <2>3, OwnerKeeps DEF IoOwnerPcs
<1>4. CASE CloseDevice(t) \/ FreeSlot(t)
  <2>1. slot[t] \in Slots /\ io_lock' = [io_lock EXCEPT ![slot[t]] = None]
    BY <1>4, PcSets DEF CloseDevice, FreeSlot, ReleaseSlot, LocalInv, SlotPcs, TeardownPcs
  <2>2. io_lock'[slot[t]] = None /\ \A s \in Slots : io_lock'[s] = io_lock[s] \/ io_lock'[s] = None
    BY <2>1 DEF TypeOK
  <2> QED BY <1>1, <2>2, OwnerKeeps
<1> QED BY <1>2, <1>3, <1>4 DEF Release

LEMMA OwnerCommands ==
    ASSUME TypeOK, LocalInv, OwnerInv, NEW t \in Threads, Command(t)
    PROVE  OwnerInv'
<1>1. \A u \in Threads \ {t} : pc'[u] = pc[u] /\ slot'[u] = slot[u]
  BY DEF TypeOK, Command, CommandCheck, CommandLock, CommandCancelled, CommandSend, CommandDone,
     Return, Goto, local
<1>2. slot[t] \in Slots
  BY DEF LocalInv, SlotPcs, CommandPcs, Command, CommandCheck, CommandLock, CommandCancelled,
     CommandSend, CommandDone
<1>3. CASE CommandCheck(t)
  BY <1>1, <1>3, OwnerUntouched DEF CommandCheck, IoOwnerPcs
<1>4. CASE CommandLock(t)
  <2>1. pc[t] = "cmd_queue" /\ pc'[t] = "cmd_attempt" /\ slot'[t] = slot[t]
    BY <1>4, GotoType, PcSets DEF CommandLock, local
  <2>2. io_lock' = [io_lock EXCEPT ![slot[t]] = t]
    BY <1>4 DEF CommandLock
  <2>3. \A s \in Slots : io_lock'[s] = io_lock[s] \/ (io_lock'[s] = t /\ slot'[t] = s)
    BY <2>1, <2>2 DEF TypeOK
  <2> QED BY <1>1, <2>1, <2>3, OwnerKeeps DEF IoOwnerPcs
<1>5. CASE io_lock' = [io_lock EXCEPT ![slot[t]] = None]
  <2>1. io_lock'[slot[t]] = None /\ \A s \in Slots : io_lock'[s] = io_lock[s] \/ io_lock'[s] = None
    BY <1>2, <1>5 DEF TypeOK
  <2> QED BY <1>1, <2>1, OwnerKeeps
<1>6. CASE UNCHANGED <<io_lock, slot>> /\ (Goto(t, "cmd_xfer") \/ Goto(t, "cmd_attempt"))
  <2>1. pc'[t] \in IoOwnerPcs
    BY <1>6, GotoType, PcSets DEF IoOwnerPcs
  <2> QED BY <1>1, <1>6, <2>1, OwnerKeeps
<1> QED BY <1>3, <1>4, <1>5, <1>6 DEF Command, CommandCancelled, CommandSend, CommandDone, local

LEMMA OwnerHolds == Spec => []OwnerInv
<1>1. Init => OwnerInv
  BY DEF Init, OwnerInv
<1>2. TableCore /\ OwnerInv /\ [Next]_vars => OwnerInv'
  <2> SUFFICES ASSUME TableCore, OwnerInv, [Next]_vars PROVE OwnerInv'
    OBVIOUS
  <2> USE DEF TableCore
  <2>1. CASE UNCHANGED vars \/ \E k \in Tokens, d \in Devices \cup {None} : Recycle(k, d)
    BY <2>1 DEF OwnerInv, vars, Recycle, local
  <2>2. ASSUME NEW t \in Threads, Call(t) \/ Step(t) PROVE OwnerInv'
    BY <2>2, OwnerCalls, OwnerRegisters, OwnerReleases, OwnerCommands DEF Step
  <2> QED BY <2>1, <2>2 DEF Next
<1> QED BY <1>1, <1>2, TableCoreHolds, PTL DEF Spec

(***************************************************************************)
(* No circle of threads waits for each other's mutexes, however many call, *)
(* whether or not the consumers keep to their contract (LateQueuers): a    *)
(* registration or a teardown holds g_registry_lock while it waits for     *)
(* io_lock, but a command holding io_lock never asks for g_registry_lock.  *)
(***************************************************************************)
THEOREM NoCircularWait == Spec => []LocksInOrder
<1>1. ASSUME TableCore, OwnerInv PROVE LocksInOrder
  <2> USE <1>1 DEF TableCore
  <2> SUFFICES ASSUME NEW t \in Threads, NEW u \in Threads, NEW v \in Threads,
                      WaitsFor(t, u), WaitsFor(u, v)
               PROVE  /\ pc[t] \in {"acq_lock", "rel_lock"}
                      /\ pc[v] \in CommandPcs
                      /\ pc[u] = "drain" => entries[slot[v]].cancelled
                      /\ \A w \in Threads : ~WaitsFor(v, w)
    BY DEF LocksInOrder
  <2>1. ASSUME NEW x \in Threads, NEW y \in Threads, pc[x] \in IoWaitPcs, io_lock[slot[x]] = y
        PROVE  slot[y] = slot[x] /\ pc[y] \in IoOwnerPcs
    BY <2>1, LockPcSets, NoneIsNothing DEF OwnerInv, LocalInv
  <2>2. ASSUME NEW y \in Threads, pc[y] \in IoOwnerPcs
        PROVE  \A w \in Threads : ~WaitsFor(y, w)
    BY <2>2, LockPcSets DEF WaitsFor
  <2>3. pc[t] \in {"acq_lock", "rel_lock"} /\ g_registry_lock = u
    BY <2>1, <2>2 DEF WaitsFor
  <2>4. pc[u] \in LockedPcs
    BY <2>3 DEF LockInv
  <2>5. pc[u] \in IoWaitPcs /\ io_lock[slot[u]] = v
    BY <2>4, LockPcSets DEF WaitsFor
  <2>6. slot[v] = slot[u] /\ pc[v] \in IoOwnerPcs
    BY <2>1, <2>5
  <2>7. pc[v] # "close"
    <3>1. SUFFICES ASSUME pc[v] = "close" PROVE FALSE
      OBVIOUS
    <3>2. g_registry_lock = v
      BY <3>1, LockPcSets DEF LockInv
    <3> QED BY <2>3, <2>5, <2>6, <3>2, LockPcSets
  <2>8. pc[u] = "drain" => entries[slot[v]].cancelled
    BY <2>6, LockPcSets DEF SlotsInv, TeardownInv, BeingClosed
  <2> QED BY <2>2, <2>3, <2>6, <2>7, <2>8, LockPcSets
<1> QED BY <1>1, TableCoreHolds, OwnerHolds, PTL

=============================================================================
