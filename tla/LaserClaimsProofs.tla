------------------------- MODULE LaserClaimsProofs -------------------------
(***************************************************************************)
(* What the registry promises those who hold a claim, for any number of    *)
(* threads, tokens, devices and slots: their device stays up, is their     *)
(* own, and no command runs on a closed handle.                            *)
(***************************************************************************)
EXTENDS LaserRegistryProofs

----------------------------------------------------------------------------
(* Claims and their count. *)

(***************************************************************************)
(* refs counts the claims granted and not yet given back: those held, and  *)
(* those whose release has not reached the table.                          *)
(***************************************************************************)
Releasing(k) == {t \in Threads : pc[t] \in ReleasingPcs /\ tok[t] = k}
Claimants(k) == holders[k] \cup Releasing(k)

ClaimInv ==
    \A t \in Threads :
        pc[t] \in AcquirePcs \cup ReleasingPcs \cup {"acq_lock"} /\ tok[t] \in Tokens
            => t \notin holders[tok[t]]

RefsInv ==
    /\ \A s \in Slots : entries[s].in_use =>
          entries[s].refs = Cardinality(Claimants(entries[s].token))
    /\ \A k \in Tokens : Claimants(k) # {} => Lookup(k) # {}

ClaimPcs == AcquirePcs \cup ReleasingPcs \cup {"acq_lock"}

LEMMA ClaimSets ==
    /\ ClaimPcs = AcquirePcs \cup {"rel_lock", "rel_find", "acq_lock"}
    /\ RegisterPcs \cup {"acq_find", "reserve", "acq_fail", "count"} \subseteq ClaimPcs
    /\ (TeardownPcs \cup CommandPcs \cup {"idle"}) \cap ClaimPcs = {}
    /\ ReleasingPcs = {"rel_lock", "rel_find"} /\ ReleasingPcs \subseteq ClaimPcs
    /\ (AcquirePcs \cup {"acq_lock"}) \cap ReleasingPcs = {}
<1>1. (TeardownPcs \cup CommandPcs \cup {"idle"}) \cap ClaimPcs = {}
  BY DEF ClaimPcs, ReleasingPcs, AcquirePcs, RegisterPcs, SetupPcs, UndoPcs, TeardownPcs,
     CommandPcs
<1>2. (AcquirePcs \cup {"acq_lock"}) \cap ReleasingPcs = {}
  BY DEF ReleasingPcs, AcquirePcs, RegisterPcs, SetupPcs, UndoPcs
<1>3. ReleasingPcs = {"rel_lock", "rel_find"}
  BY DEF ReleasingPcs
<1> QED BY <1>1, <1>2, <1>3, PcSets DEF ClaimPcs

(***************************************************************************)
(* A step of t takes claims only for t, so only t's own has to be shown.   *)
(***************************************************************************)
LEMMA ClaimOther ==
    ASSUME ClaimInv, NEW t \in Threads,
           \A u \in Threads \ {t} : pc'[u] = pc[u] /\ tok'[u] = tok[u],
           \A k \in Tokens : holders'[k] \subseteq holders[k] \cup {t},
           pc'[t] \in ClaimPcs /\ tok'[t] \in Tokens => t \notin holders'[tok'[t]]
    PROVE  ClaimInv'
  BY DEF ClaimInv, ClaimPcs

LEMMA ClaimStays ==
    ASSUME TypeOK, ClaimInv, NEW t \in Threads, NEW l \in Pcs, Goto(t, l), tok' = tok,
           UNCHANGED holders, l \in ClaimPcs => pc[t] \in ClaimPcs
    PROVE  ClaimInv'
<1>1. pc'[t] = l /\ \A u \in Threads \ {t} : pc'[u] = pc[u]
  BY GotoType
<1> QED BY <1>1, ClaimOther DEF ClaimInv, ClaimPcs

LEMMA ClaimReturns ==
    ASSUME TypeOK, ClaimInv, NEW t \in Threads, Return(t),
           \A k \in Tokens : holders'[k] \subseteq holders[k] \cup {t}
    PROVE  ClaimInv'
  BY ReturnType, ClaimSets, ClaimOther

LEMMA ClaimStep == TypeOK /\ LocalInv /\ ClaimInv /\ [Next]_vars => ClaimInv'
<1> SUFFICES ASSUME TypeOK, LocalInv, ClaimInv, [Next]_vars PROVE ClaimInv'
  OBVIOUS
<1> USE PcSets, ClaimSets
<1>1. ASSUME NEW t \in Threads, NEW k \in Tokens,
             AcquireCall(t, k) \/ ReleaseCall(t, k) \/ CommandCall(t, k)
      PROVE  ClaimInv'
  <2>1. /\ tok'[t] = k
        /\ \A u \in Threads \ {t} : pc'[u] = pc[u] /\ tok'[u] = tok[u]
    BY <1>1 DEF AcquireCall, ReleaseCall, CommandCall, Goto, TypeOK
  <2>2. CASE AcquireCall(t, k)
    BY <2>1, <2>2, ClaimOther DEF AcquireCall, claims
  <2>3. CASE ReleaseCall(t, k)
    <3>1. /\ holders'[k] = holders[k] \ {t}
          /\ \A j \in Tokens \ {k} : holders'[j] = holders[j]
      BY <2>3 DEF ReleaseCall, TypeOK
    <3> QED BY <2>1, <3>1, ClaimOther
  <2>4. CASE CommandCall(t, k)
    <3>1. pc'[t] = "cmd_check" /\ UNCHANGED holders
      BY <2>4, GotoType DEF CommandCall, claims
    <3> QED BY <2>1, <3>1, ClaimOther
  <2> QED BY <1>1, <2>2, <2>3, <2>4
<1>2. ASSUME NEW t \in Threads, NEW k \in StrayTokens, StrayReleaseCall(t, k) PROVE ClaimInv'
  <2>1. /\ tok'[t] = k /\ k \notin Tokens
        /\ \A u \in Threads \ {t} : pc'[u] = pc[u] /\ tok'[u] = tok[u]
    BY <1>2, StrayTokensDisjoint DEF StrayReleaseCall, Goto, TypeOK
  <2> QED BY <1>2, <2>1, ClaimOther DEF StrayReleaseCall, claims
<1>3. ASSUME NEW t \in Threads, Command(t) PROVE ClaimInv'
  <2>1. UNCHANGED holders
        /\ (Return(t) \/ (UNCHANGED local /\ \E l \in CommandPcs : Goto(t, l)))
    BY <1>3 DEF Command, CommandCheck, CommandLock, CommandCancelled, CommandSend, CommandDone,
       claims
  <2> QED BY <2>1, ClaimStays, ClaimReturns DEF local
<1>4. ASSUME NEW t \in Threads, LockRegistry(t) PROVE ClaimInv'
  <2>1. /\ pc[t] \in ClaimPcs /\ UNCHANGED <<tok, holders>>
        /\ \E l \in {"acq_find", "rel_find"} : Goto(t, l)
    BY <1>4 DEF LockRegistry, local, claims
  <2> QED BY <2>1, ClaimStays
<1>5. ASSUME NEW t \in Threads, Acquire(t) PROVE ClaimInv'
  <2>1. CASE CountClaim(t)
    BY <2>1, ClaimReturns DEF CountClaim, UnlockReturn, TypeOK
  <2>2. CASE AcquireFound(t) \/ AcquireAbsent(t)
    <3>1. /\ pc[t] \in ClaimPcs /\ UNCHANGED <<tok, holders>>
          /\ \E l \in {"count", "reserve"} : Goto(t, l)
      BY <2>2 DEF AcquireFound, AcquireAbsent, local, claims
    <3> QED BY <3>1, ClaimStays
  <2>3. CASE AcquireRefused(t) \/ AcquireFailed(t)
    BY <2>3, ClaimReturns DEF AcquireRefused, AcquireFailed, UnlockReturn, claims
  <2> QED BY <1>5, <2>1, <2>2, <2>3 DEF Acquire
<1>6. ASSUME NEW t \in Threads, Register(t) PROVE ClaimInv'
  <2>1. pc[t] \in ClaimPcs /\ UNCHANGED <<tok, holders>>
    BY <1>6 DEF Register, Reserve, ReserveFails, SetupStep, Wrap, FindEndpoints,
       DetachKernelDriver, ClaimInterface, Probe, Settle, Publish, UndoStep, UndoHandle,
       UndoSlot, local, claims
  <2>2. CASE SetupStep(t)
    BY <2>1, <2>2, SetupTargets, ClaimStays DEF SetupStep
  <2>3. CASE UndoStep(t)
    BY <2>1, <2>3, UndoTargets, ClaimStays DEF UndoStep
  <2>4. CASE ~SetupStep(t) /\ ~UndoStep(t)
    <3>1. \E l \in RegisterPcs \cup {"count", "acq_fail"} : Goto(t, l)
      BY <1>6, <2>4, CallSets DEF Register, Reserve, ReserveFails, Wrap, FindEndpoints,
         DetachKernelDriver, ClaimInterface, Probe, Settle, Publish, UndoHandle, UndoSlot
    <3> QED BY <2>1, <3>1, ClaimStays
  <2> QED BY <2>2, <2>3, <2>4
<1>7. ASSUME NEW t \in Threads, Release(t) PROVE ClaimInv'
  <2>1. UNCHANGED holders
    BY <1>7 DEF Release, ReleaseIgnored, ReleaseDrop, ReleaseLast, Drain, CloseDevice,
       DestroyLocks, FreeSlot, claims
  <2>2. CASE Return(t)
    BY <2>1, <2>2, ClaimReturns
  <2>3. CASE ~Return(t)
    <3>1. UNCHANGED tok /\ \E l \in TeardownPcs : Goto(t, l)
      BY <1>7, <2>3 DEF Release, ReleaseIgnored, ReleaseDrop, ReleaseLast, Drain, CloseDevice,
         DestroyLocks, FreeSlot, UnlockReturn, local
    <3> QED BY <2>1, <3>1, ClaimStays
  <2> QED BY <2>2, <2>3
<1>8. CASE UNCHANGED vars \/ \E k \in Tokens, d \in Devices \cup {None} : Recycle(k, d)
  BY <1>8 DEF ClaimInv, Recycle, vars, local, claims
<1> QED BY <1>1, <1>2, <1>3, <1>4, <1>5, <1>6, <1>7, <1>8 DEF Next, Call, Step

(***************************************************************************)
(* The published entries, and how many claims each of them counts.         *)
(***************************************************************************)
SameCounts ==
    \A s \in Slots :
        /\ entries'[s].in_use <=> entries[s].in_use
        /\ entries[s].in_use => /\ entries'[s].token = entries[s].token
                                /\ entries'[s].refs = entries[s].refs
                                /\ entries'[s].cancelled = entries[s].cancelled

LEMMA ClaimantsFinite ==
    ASSUME TypeOK, NEW k \in Tokens
    PROVE  /\ Claimants(k) \subseteq Threads /\ IsFiniteSet(Claimants(k))
           /\ Cardinality(Claimants(k)) \in Nat
<1>1. Claimants(k) \subseteq Threads
  BY DEF Claimants, Releasing, TypeOK
<1>2. IsFiniteSet(Claimants(k))
  BY <1>1, ThreadsFinite, FS_Subset
<1> QED BY <1>1, <1>2, FS_CardinalityType

\* RefsInv after a step, one token at a time.
LEMMA CountToken ==
    ASSUME TableInv',
           \A s \in Slots, k \in Tokens : entries'[s].in_use /\ entries'[s].token = k
               => entries'[s].refs = Cardinality(Claimants(k)'),
           \A k \in Tokens : Claimants(k)' # {} => Lookup(k)' # {}
    PROVE  RefsInv'
<1>1. \A s \in Slots : entries'[s].in_use => entries'[s].token \in Tokens
  BY DEF TableInv
<1> QED BY <1>1 DEF RefsInv, Claimants, Releasing

LEMMA CountsUntouched ==
    ASSUME TableInv, RefsInv, SameCounts,
           \A k \in Tokens : Claimants(k)' = Claimants(k)
    PROVE  RefsInv'
<1>1. TableInv'
  BY DEF SameCounts, TableInv
<1>2. \A s \in Slots, k \in Tokens : entries'[s].in_use /\ entries'[s].token = k
         => entries'[s].refs = Cardinality(Claimants(k)')
  <2> SUFFICES ASSUME NEW s \in Slots, NEW k \in Tokens,
                      entries'[s].in_use, entries'[s].token = k
               PROVE  entries'[s].refs = Cardinality(Claimants(k)')
    OBVIOUS
  <2>1. entries[s].in_use /\ entries[s].token = k /\ entries'[s].refs = entries[s].refs
    BY DEF SameCounts
  <2>2. entries[s].refs = Cardinality(Claimants(k))
    BY <2>1 DEF RefsInv
  <2>3. Claimants(k)' = Claimants(k)
    OBVIOUS
  <2> QED BY <2>1, <2>2, <2>3
<1>3. \A k \in Tokens : Claimants(k)' # {} => Lookup(k)' # {}
  <2> SUFFICES ASSUME NEW k \in Tokens, Claimants(k) # {} PROVE Lookup(k)' # {}
    OBVIOUS
  <2>1. PICK s \in Slots : entries[s].in_use /\ entries[s].token = k
    BY DEF RefsInv, Lookup
  <2>2. entries'[s].in_use /\ entries'[s].token = k
    BY <2>1 DEF SameCounts
  <2> QED BY <2>2 DEF Lookup
<1> QED BY <1>1, <1>2, <1>3, CountToken

\* A step that neither makes nor ends a release, and grants no claim.
LEMMA ClaimantsStay ==
    ASSUME TypeOK, NEW t \in Threads, UNCHANGED holders,
           \A u \in Threads \ {t} : pc'[u] = pc[u] /\ tok'[u] = tok[u],
           \/ pc[t] \notin ReleasingPcs /\ pc'[t] \notin ReleasingPcs
           \/ pc[t] \in ReleasingPcs /\ pc'[t] \in ReleasingPcs /\ tok'[t] = tok[t]
    PROVE  \A k \in Tokens : Claimants(k)' = Claimants(k)
<1> SUFFICES ASSUME NEW k \in Tokens PROVE Claimants(k)' = Claimants(k)
  OBVIOUS
<1>1. Releasing(k)' = Releasing(k)
  BY DEF Releasing
<1> QED BY <1>1 DEF Claimants

(***************************************************************************)
(* A step that counts anew the claims of one token, and of no other.       *)
(***************************************************************************)
LEMMA OneCount ==
    ASSUME TableInv', RefsInv, NEW s \in Slots, NEW k \in Tokens,
           entries[s].in_use => entries[s].token = k,
           entries'[s].in_use, entries'[s].token = k,
           entries'[s].refs = Cardinality(Claimants(k)'),
           \A r \in Slots \ {s} : entries'[r] = entries[r],
           \A j \in Tokens \ {k} : Claimants(j)' = Claimants(j)
    PROVE  RefsInv'
<1>1. \A r \in Slots, j \in Tokens : entries'[r].in_use /\ entries'[r].token = j
         => entries'[r].refs = Cardinality(Claimants(j)')
  <2> SUFFICES ASSUME NEW r \in Slots, NEW j \in Tokens, r # s,
                      entries'[r].in_use, entries'[r].token = j
               PROVE  entries'[r].refs = Cardinality(Claimants(j)')
    OBVIOUS
  <2>1. entries'[r] = entries[r] /\ entries[r].refs = Cardinality(Claimants(j))
    BY DEF RefsInv
  <2>2. j # k
    BY DEF TableInv
  <2> QED BY <2>1, <2>2
<1>2. \A j \in Tokens : Claimants(j)' # {} => Lookup(j)' # {}
  <2> SUFFICES ASSUME NEW j \in Tokens, Claimants(j)' # {} PROVE Lookup(j)' # {}
    OBVIOUS
  <2>1. CASE j = k
    BY <2>1 DEF Lookup
  <2>2. CASE j # k
    <3>1. PICK r \in Slots : entries[r].in_use /\ entries[r].token = j
      BY <2>2 DEF RefsInv, Lookup
    <3>2. entries'[r].in_use /\ entries'[r].token = j
      BY <2>2, <3>1
    <3> QED BY <3>2 DEF Lookup
  <2> QED BY <2>1, <2>2
<1> QED BY <1>1, <1>2, CountToken

\* laser_acquire() counts a claim.
LEMMA CountClaimRefs ==
    ASSUME TableCore, TableCore', ClaimInv, RefsInv, NEW t \in Threads, CountClaim(t)
    PROVE  RefsInv'
<1>1. pc[t] = "count" /\ slot[t] \in Slots /\ tok[t] \in Tokens
  BY DEF CountClaim, TableCore, LocalInv, SlotPcs, TokPcs, AcquirePcs
<1>2. PICK s \in Slots, k \in Tokens : slot[t] = s /\ tok[t] = k
  BY <1>1
<1>3. entries[s].in_use /\ entries[s].token = k /\ t \notin holders[k]
  BY <1>1, <1>2 DEF TableCore, SlotsInv, CountInv, Lookup, ClaimInv, AcquirePcs
<1>4. /\ entries'[s].in_use /\ entries'[s].token = k /\ entries'[s].refs = entries[s].refs + 1
      /\ \A r \in Slots \ {s} : entries'[r] = entries[r]
  <2>1. entries[s] \in Entry
        /\ entries'[s] = [entries[s] EXCEPT !.refs = entries[s].refs + 1]
    BY <1>2 DEF CountClaim, TableCore, TypeOK
  <2>2. \A r \in Slots \ {s} : entries'[r] = entries[r]
    BY <1>2 DEF CountClaim, TableCore, TypeOK
  <2> QED BY <1>3, <2>1, <2>2 DEF Entry
<1>5. /\ pc'[t] = "idle" /\ \A u \in Threads \ {t} : pc'[u] = pc[u] /\ tok'[u] = tok[u]
      /\ holders'[k] = holders[k] \cup {t}
      /\ \A j \in Tokens \ {k} : holders'[j] = holders[j]
  BY <1>2, ReturnType DEF CountClaim, UnlockReturn, TableCore, TypeOK
<1>6. \A j \in Tokens : Releasing(j)' = Releasing(j) /\ t \notin Releasing(j)
  BY <1>1, <1>5, ClaimSets DEF Releasing
<1>7. /\ Claimants(k)' = Claimants(k) \cup {t} /\ t \notin Claimants(k)
      /\ \A j \in Tokens \ {k} : Claimants(j)' = Claimants(j)
  BY <1>3, <1>5, <1>6 DEF Claimants
<1>8. Cardinality(Claimants(k) \cup {t}) = Cardinality(Claimants(k)) + 1
  BY <1>7, ClaimantsFinite, FS_AddElement DEF TableCore
<1>9. entries'[s].refs = Cardinality(Claimants(k)')
  BY <1>3, <1>4, <1>7, <1>8 DEF RefsInv
<1> QED BY <1>3, <1>4, <1>7, <1>9, OneCount DEF TableCore, SlotsInv

\* A published entry starts with no claim: nobody holds an unknown token.
LEMMA PublishRefs ==
    ASSUME TableCore, TableCore', RefsInv, NEW t \in Threads, Publish(t)
    PROVE  RefsInv'
<1>1. pc[t] = "publish" /\ slot[t] \in Slots /\ tok[t] \in Tokens
  BY DEF Publish, TableCore, LocalInv, SlotPcs, TokPcs, AcquirePcs, RegisterPcs
<1>2. PICK s \in Slots, k \in Tokens : slot[t] = s /\ tok[t] = k
  BY <1>1
<1>3. ~entries[s].in_use /\ entries[s].token = k /\ entries[s].refs = 0 /\ Lookup(k) = {}
  BY <1>1, <1>2 DEF TableCore, SlotsInv, RegisterInv, BeingBuilt, RegisterPcs
<1>4. Claimants(k) = {}
  BY <1>3 DEF RefsInv
<1>5. /\ entries'[s].in_use /\ entries'[s].token = k /\ entries'[s].refs = 0
      /\ \A r \in Slots \ {s} : entries'[r] = entries[r]
  <2>1. entries[s] \in Entry /\ entries'[s] = [entries[s] EXCEPT !.in_use = TRUE]
    BY <1>2 DEF Publish, TableCore, TypeOK
  <2>2. \A r \in Slots \ {s} : entries'[r] = entries[r]
    BY <1>2 DEF Publish, TableCore, TypeOK
  <2> QED BY <1>3, <2>1, <2>2 DEF Entry
<1>6. /\ pc'[t] = "count" /\ UNCHANGED <<tok, holders>>
      /\ \A u \in Threads \ {t} : pc'[u] = pc[u]
  BY GotoType, PcSets DEF Publish, TableCore, local, claims
<1>7. \A j \in Tokens : Claimants(j)' = Claimants(j)
  BY <1>1, <1>6, ClaimSets, ClaimantsStay DEF TableCore
<1>8. entries'[s].refs = Cardinality(Claimants(k)')
  BY <1>4, <1>5, <1>7, FS_EmptySet
<1> QED BY <1>3, <1>5, <1>7, <1>8, OneCount DEF TableCore, SlotsInv

\* laser_release() takes a claim off, the last one or another.
LEMMA DropRefs ==
    ASSUME TableCore, TableCore', ClaimInv, RefsInv, NEW t \in Threads,
           pc[t] = "rel_find", NEW s \in Lookup(tok[t]),
           entries'[s].in_use, entries'[s].token = entries[s].token,
           entries'[s].refs = entries[s].refs - 1,
           \A r \in Slots \ {s} : entries'[r] = entries[r],
           pc'[t] \notin ReleasingPcs, UNCHANGED holders,
           \A u \in Threads \ {t} : pc'[u] = pc[u] /\ tok'[u] = tok[u]
    PROVE  RefsInv'
<1>1. s \in Slots /\ entries[s].in_use /\ entries[s].token = tok[t] /\ tok[t] \in Tokens
  BY DEF Lookup, TableCore, SlotsInv, TableInv
<1>2. PICK k \in Tokens : tok[t] = k
  BY <1>1
<1>3. t \notin holders[k] /\ t \in Releasing(k)
  BY <1>2, ClaimSets DEF ClaimInv, ClaimPcs, Releasing
<1>4. /\ Releasing(k)' = Releasing(k) \ {t}
      /\ \A j \in Tokens \ {k} : Releasing(j)' = Releasing(j)
  BY <1>2, ClaimSets DEF Releasing
<1>5. /\ Claimants(k)' = Claimants(k) \ {t} /\ t \in Claimants(k)
      /\ \A j \in Tokens \ {k} : Claimants(j)' = Claimants(j)
  BY <1>3, <1>4 DEF Claimants
<1>6. Cardinality(Claimants(k) \ {t}) = Cardinality(Claimants(k)) - 1
  BY <1>5, ClaimantsFinite, FS_RemoveElement DEF TableCore
<1>7. entries'[s].refs = Cardinality(Claimants(k)')
  BY <1>1, <1>2, <1>5, <1>6 DEF RefsInv
<1> QED BY <1>1, <1>2, <1>5, <1>7, OneCount DEF TableCore, SlotsInv

\* A release that finds nothing to count: of a token nobody acquired.
LEMMA IgnoredRefs ==
    ASSUME TableCore, ClaimInv, RefsInv, NEW t \in Threads, ReleaseIgnored(t)
    PROVE  RefsInv'
<1>1. /\ pc[t] = "rel_find" /\ UNCHANGED <<entries, holders>>
      /\ \A s \in Lookup(tok[t]) : entries[s].refs = 0
  BY DEF ReleaseIgnored, claims
<1>2. pc'[t] = "idle" /\ \A u \in Threads \ {t} : pc'[u] = pc[u] /\ tok'[u] = tok[u]
  BY ReturnType DEF ReleaseIgnored, UnlockReturn, TableCore
<1>3. tok[t] \notin Tokens
  <2> SUFFICES ASSUME NEW k \in Tokens, tok[t] = k PROVE FALSE
    OBVIOUS
  <2>1. t \in Claimants(k)
    BY <1>1, ClaimSets DEF Claimants, Releasing
  <2>2. PICK s \in Lookup(k) : TRUE
    BY <2>1 DEF RefsInv
  <2>3. Cardinality(Claimants(k)) = 0
    BY <1>1, <2>2 DEF RefsInv, Lookup
  <2> QED BY <2>1, <2>3, ClaimantsFinite, FS_EmptySet DEF TableCore
<1>4. \A k \in Tokens : Claimants(k)' = Claimants(k)
  BY <1>1, <1>2, <1>3, ClaimSets DEF Claimants, Releasing
<1>5. SameCounts
  BY <1>1 DEF SameCounts
<1> QED BY <1>4, <1>5, CountsUntouched DEF TableCore, SlotsInv

\* A slot under construction is not published before a step nor after it.
LEMMA SameButOne ==
    ASSUME NEW s \in Slots, ~entries[s].in_use, ~entries'[s].in_use,
           \A r \in Slots \ {s} : entries'[r] = entries[r]
    PROVE  SameCounts
  BY DEF SameCounts

LEMMA RegisterCounts ==
    ASSUME TableCore, TableCore', NEW t \in Threads, Register(t), ~Publish(t)
    PROVE  SameCounts
<1> USE DEF TableCore
<1>1. CASE UNCHANGED entries
  BY <1>1 DEF SameCounts
<1>2. CASE Reserve(t)
  <2>1. PICK s \in Slots, id \in Devices \cup {None} :
           /\ ~entries[s].in_use
           /\ entries' = [entries EXCEPT ![s] =
                            [ZeroEntry EXCEPT !.token = tok[t], !.reg_id = id]]
    <3>1. pc[t] = "reserve" /\ tok[t] \in Tokens
      BY <1>2 DEF Reserve, LocalInv, TokPcs, AcquirePcs
    <3>2. fdDevice[tok[t]] \in Devices \cup {None}
      BY <3>1 DEF TypeOK
    <3>3. PICK s \in Slots, id \in {fdDevice[tok[t]], None} :
             /\ FirstFree(s)
             /\ entries' = [entries EXCEPT ![s] =
                              [ZeroEntry EXCEPT !.token = tok[t], !.reg_id = id]]
      BY <1>2 DEF Reserve
    <3>4. id \in Devices \cup {None} /\ ~entries[s].in_use
      BY <3>2, <3>3 DEF FirstFree
    <3> QED BY <3>3, <3>4
  <2>2. ~entries'[s].in_use /\ \A r \in Slots \ {s} : entries'[r] = entries[r]
    BY <2>1 DEF TypeOK, ZeroEntry
  <2> QED BY <2>1, <2>2, SameButOne
<1>3. CASE Wrap(t) \/ DetachKernelDriver(t) \/ UndoHandle(t) \/ UndoSlot(t)
  <2>1. /\ pc[t] \in RegisterPcs /\ slot[t] \in Slots
        /\ slot' = slot
    BY <1>3, CallSets DEF Wrap, DetachKernelDriver, UndoHandle, UndoSlot, LocalInv,
       RegisterPcs, local
  <2>2. ~entries[slot[t]].in_use
    BY <2>1 DEF SlotsInv, RegisterInv, BeingBuilt
  <2>3. \A r \in Slots \ {slot[t]} : entries'[r] = entries[r]
    BY <1>3, <2>1 DEF Wrap, DetachKernelDriver, UndoHandle, UndoSlot, ReleaseSlot, TypeOK
  <2>4. ~entries'[slot[t]].in_use
    <3>1. CASE UndoSlot(t)
      BY <2>1, <3>1 DEF UndoSlot, ReleaseSlot, TypeOK, ZeroEntry
    <3>2. CASE ~UndoSlot(t)
      <4>1. PICK m \in {"find_endpoints", "err_ctx", "claim"} : Goto(t, m)
        BY <1>3, <3>2 DEF Wrap, DetachKernelDriver, UndoHandle
      <4>2. m \in RegisterPcs
        BY PcSets, CallSets
      <4>3. pc'[t] \in RegisterPcs
        BY <4>1, <4>2, GotoType, PcSets
      <4> QED BY <2>1, <4>3 DEF SlotsInv, RegisterInv, BeingBuilt
    <3> QED BY <3>1, <3>2
  <2> QED BY <2>1, <2>2, <2>3, <2>4, SameButOne
<1> QED BY <1>1, <1>2, <1>3 DEF Register, ReserveFails, SetupStep, FindEndpoints,
        ClaimInterface, Probe, Settle, UndoStep

LEMMA RegisterRefs ==
    ASSUME TableCore, TableCore', RefsInv, NEW t \in Threads, Register(t)
    PROVE  RefsInv'
<1> USE DEF TableCore
<1>1. CASE Publish(t)
  BY <1>1, PublishRefs
<1>2. CASE ~Publish(t)
  <2>1. /\ pc[t] \in RegisterPcs \cup {"reserve"} /\ pc[t] \notin ReleasingPcs
        /\ UNCHANGED <<tok, holders>>
        /\ \E l \in RegisterPcs \cup {"acq_fail"} : Goto(t, l)
    <3>1. CASE SetupStep(t)
      BY <3>1, SetupTargets, PcSets, ClaimSets DEF SetupStep, local, claims
    <3>2. CASE UndoStep(t)
      BY <3>2, UndoTargets, PcSets, ClaimSets DEF UndoStep, local, claims
    <3>3. CASE ~SetupStep(t) /\ ~UndoStep(t)
      BY <1>2, <3>3, CallSets, PcSets, ClaimSets DEF Register, Reserve, ReserveFails, Wrap,
         FindEndpoints, DetachKernelDriver, ClaimInterface, Probe, Settle, UndoHandle,
         UndoSlot, local, claims
    <3> QED BY <3>1, <3>2, <3>3
  <2>2. PICK l \in RegisterPcs \cup {"acq_fail"} : Goto(t, l)
    BY <2>1
  <2>3. /\ pc'[t] = l /\ l \notin ReleasingPcs
        /\ \A u \in Threads \ {t} : pc'[u] = pc[u]
    BY <2>2, GotoType, PcSets, ClaimSets
  <2>4. \A k \in Tokens : Claimants(k)' = Claimants(k)
    BY <2>1, <2>3, ClaimantsStay
  <2>5. SameCounts
    BY <1>2, RegisterCounts
  <2> QED BY <2>4, <2>5, CountsUntouched DEF SlotsInv
<1> QED BY <1>1, <1>2

LEMMA ReleaseRefs ==
    ASSUME TableCore, TableCore', ClaimInv, RefsInv, NEW t \in Threads, Release(t)
    PROVE  RefsInv'
<1> USE DEF TableCore
<1>1. CASE ReleaseIgnored(t)
  BY <1>1, IgnoredRefs
<1>2. CASE ReleaseDrop(t)
  <2>1. PICK s \in Lookup(tok[t]) : entries' = [entries EXCEPT ![s].refs = @ - 1]
    BY <1>2 DEF ReleaseDrop
  <2>2. s \in Slots /\ entries[s].in_use
    BY <2>1 DEF Lookup
  <2>3. /\ entries'[s].in_use /\ entries'[s].token = entries[s].token
        /\ entries'[s].refs = entries[s].refs - 1
        /\ \A r \in Slots \ {s} : entries'[r] = entries[r]
    <3>1. entries[s] \in Entry /\ entries'[s] = [entries[s] EXCEPT !.refs = entries[s].refs - 1]
      BY <2>1, <2>2 DEF TypeOK
    <3>2. \A r \in Slots \ {s} : entries'[r] = entries[r]
      BY <2>1, <2>2 DEF TypeOK
    <3> QED BY <2>2, <3>1, <3>2 DEF Entry
  <2>4. /\ pc[t] = "rel_find" /\ pc'[t] = "idle" /\ UNCHANGED holders
        /\ \A u \in Threads \ {t} : pc'[u] = pc[u] /\ tok'[u] = tok[u]
    BY <1>2, ReturnType DEF ReleaseDrop, UnlockReturn, claims
  <2> QED BY <2>1, <2>3, <2>4, DropRefs, ClaimSets
<1>3. CASE ReleaseLast(t)
  <2>1. PICK s \in Lookup(tok[t]) :
           /\ entries[s].refs = 1
           /\ entries' = [entries EXCEPT ![s].refs = 0, ![s].cancelled = TRUE]
    BY <1>3 DEF ReleaseLast
  <2>2. s \in Slots /\ entries[s].in_use
    BY <2>1 DEF Lookup
  <2>3. /\ entries'[s].in_use /\ entries'[s].token = entries[s].token
        /\ entries'[s].refs = 0
        /\ \A r \in Slots \ {s} : entries'[r] = entries[r]
    <3>1. entries[s] \in Entry
          /\ entries'[s] = [[entries[s] EXCEPT !.refs = 0] EXCEPT !.cancelled = TRUE]
      BY <2>1, <2>2 DEF TypeOK
    <3>2. \A r \in Slots \ {s} : entries'[r] = entries[r]
      BY <2>1, <2>2 DEF TypeOK
    <3> QED BY <2>2, <3>1, <3>2 DEF Entry
  <2>4. /\ pc[t] = "rel_find" /\ pc'[t] = "drain" /\ UNCHANGED <<holders, tok>>
        /\ \A u \in Threads \ {t} : pc'[u] = pc[u]
    BY <1>3, GotoType, PcSets DEF ReleaseLast, claims
  <2>5. entries'[s].refs = entries[s].refs - 1
    BY <2>1, <2>3
  <2>6. pc'[t] \notin ReleasingPcs
    BY <2>4, ClaimSets
  <2>7. \A u \in Threads \ {t} : pc'[u] = pc[u] /\ tok'[u] = tok[u]
    BY <2>4
  <2> QED BY <2>1, <2>3, <2>4, <2>5, <2>6, <2>7, DropRefs
<1>4. CASE Drain(t) \/ CloseDevice(t) \/ DestroyLocks(t)
  <2>1. /\ pc[t] \in TeardownPcs /\ UNCHANGED <<tok, holders>>
        /\ \E l \in TeardownPcs : Goto(t, l)
    BY <1>4 DEF Drain, CloseDevice, DestroyLocks, TeardownPcs, local, claims
  <2>2. /\ pc'[t] \in TeardownPcs
        /\ \A u \in Threads \ {t} : pc'[u] = pc[u]
    BY <2>1, GotoType, PcSets
  <2>3. (pc[t] \notin ReleasingPcs) /\ (pc'[t] \notin ReleasingPcs)
    BY <2>1, <2>2, ClaimSets
  <2>4. SameCounts
    <3>1. slot[t] \in Slots
      BY <2>1, CallSets DEF LocalInv
    <3>2. CASE CloseDevice(t)
      <4>1. SameEntries
        BY <3>1, <3>2, SameButHandle DEF CloseDevice
      <4> QED BY <4>1 DEF SameEntries, SameCounts
    <3>3. CASE ~CloseDevice(t)
      BY <1>4, <3>3 DEF Drain, DestroyLocks, SameCounts
    <3> QED BY <3>2, <3>3
  <2> QED BY <2>1, <2>2, <2>3, <2>4, ClaimantsStay, CountsUntouched DEF SlotsInv
<1>5. CASE FreeSlot(t)
  <2>1. pc[t] = "free_slot" /\ slot[t] \in Slots /\ UNCHANGED holders
    BY <1>5, CallSets DEF FreeSlot, LocalInv, TeardownPcs, claims
  <2>2. PICK s \in Slots : slot[t] = s
    BY <2>1
  <2>3. entries[s].in_use /\ entries[s].refs = 0 /\ entries[s].token \in Tokens
    BY <2>1, <2>2 DEF SlotsInv, TableInv, TeardownInv, BeingClosed, TeardownPcs
  <2>4. ~entries'[s].in_use /\ \A r \in Slots \ {s} : entries'[r] = entries[r]
    BY <1>5, <2>2 DEF FreeSlot, ReleaseSlot, TypeOK, ZeroEntry
  <2>5. pc'[t] = "idle" /\ \A u \in Threads \ {t} : pc'[u] = pc[u] /\ tok'[u] = tok[u]
    BY <1>5, ReturnType DEF FreeSlot, UnlockReturn
  <2>6. \A k \in Tokens : Claimants(k)' = Claimants(k)
    BY <2>1, <2>5, ClaimSets, ClaimantsStay
  <2>7. Claimants(entries[s].token) = {}
    <3>1. Cardinality(Claimants(entries[s].token)) = 0
      BY <2>3 DEF RefsInv
    <3> QED BY <2>3, <3>1, ClaimantsFinite, FS_EmptySet
  <2>8. \A r \in Slots, k \in Tokens : entries'[r].in_use /\ entries'[r].token = k
           => entries'[r].refs = Cardinality(Claimants(k)')
    BY <2>4, <2>6 DEF RefsInv
  <2>9. \A k \in Tokens : Claimants(k)' # {} => Lookup(k)' # {}
    <3> SUFFICES ASSUME NEW k \in Tokens, Claimants(k) # {} PROVE Lookup(k)' # {}
      BY <2>6
    <3>1. PICK r \in Slots : entries[r].in_use /\ entries[r].token = k
      BY DEF RefsInv, Lookup
    <3>2. r # s
      BY <2>7, <3>1
    <3>3. entries'[r].in_use /\ entries'[r].token = k
      BY <2>4, <3>1, <3>2
    <3> QED BY <3>3 DEF Lookup
  <2> QED BY <2>8, <2>9, CountToken DEF SlotsInv
<1> QED BY <1>1, <1>2, <1>3, <1>4, <1>5 DEF Release

LEMMA OthersRefs ==
    ASSUME TableCore, RefsInv, NEW t \in Threads, Call(t) \/ LockRegistry(t) \/ Command(t)
    PROVE  RefsInv'
<1> USE DEF TableCore
<1>1. SameCounts
  BY DEF SameCounts, Call, AcquireCall, ReleaseCall, CommandCall, StrayReleaseCall, LockRegistry,
     Command, CommandCheck, CommandLock, CommandCancelled, CommandSend, CommandDone
<1>2. \A k \in Tokens : Claimants(k)' = Claimants(k)
  <2>1. ASSUME NEW k \in Tokens, AcquireCall(t, k) \/ CommandCall(t, k)
        PROVE  \A j \in Tokens : Claimants(j)' = Claimants(j)
    <3>1. /\ pc[t] = "idle" /\ UNCHANGED holders
          /\ \E l \in {"acq_lock", "cmd_check"} : Goto(t, l)
          /\ \A u \in Threads \ {t} : tok'[u] = tok[u]
      BY <2>1 DEF AcquireCall, CommandCall, claims, TypeOK
    <3>2. /\ pc'[t] \in {"acq_lock", "cmd_check"}
          /\ \A u \in Threads \ {t} : pc'[u] = pc[u]
      BY <3>1, GotoType, PcSets
    <3>3. (pc[t] \notin ReleasingPcs) /\ (pc'[t] \notin ReleasingPcs)
      BY <3>1, <3>2, ClaimSets
    <3> QED BY <3>1, <3>2, <3>3, ClaimantsStay
  <2>2. ASSUME NEW k \in Tokens, ReleaseCall(t, k)
        PROVE  \A j \in Tokens : Claimants(j)' = Claimants(j)
    <3>1. /\ pc[t] = "idle" /\ pc'[t] = "rel_lock" /\ tok'[t] = k /\ t \in holders[k]
          /\ \A u \in Threads \ {t} : pc'[u] = pc[u] /\ tok'[u] = tok[u]
      BY <2>2, GotoType, PcSets DEF ReleaseCall, TypeOK
    <3>2. /\ holders'[k] = holders[k] \ {t}
          /\ \A j \in Tokens \ {k} : holders'[j] = holders[j]
      BY <2>2 DEF ReleaseCall, TypeOK
    <3>3. /\ Releasing(k)' = Releasing(k) \cup {t}
          /\ \A j \in Tokens \ {k} : Releasing(j)' = Releasing(j)
      BY <3>1, ClaimSets DEF Releasing
    <3> QED BY <3>1, <3>2, <3>3 DEF Claimants
  <2>3. ASSUME NEW k \in StrayTokens, StrayReleaseCall(t, k)
        PROVE  \A j \in Tokens : Claimants(j)' = Claimants(j)
    <3>1. /\ pc[t] = "idle" /\ tok'[t] = k /\ k \notin Tokens /\ UNCHANGED holders
          /\ \A u \in Threads \ {t} : pc'[u] = pc[u] /\ tok'[u] = tok[u]
      BY <2>3, GotoType, PcSets, StrayTokensDisjoint DEF StrayReleaseCall, TypeOK, claims
    <3>2. \A j \in Tokens : Releasing(j)' = Releasing(j)
      BY <3>1, ClaimSets DEF Releasing
    <3> QED BY <3>1, <3>2 DEF Claimants
  <2>4. CASE LockRegistry(t)
    <3>1. UNCHANGED <<tok, holders>>
      BY <2>4 DEF LockRegistry, local, claims
    <3>2. \A u \in Threads \ {t} : pc'[u] = pc[u]
      BY <2>4 DEF LockRegistry, Goto, TypeOK
    <3>3. CASE pc[t] = "acq_lock"
      <4>1. pc'[t] = "acq_find"
        BY <2>4, <3>3, GotoType, PcSets DEF LockRegistry
      <4>2. (pc[t] \notin ReleasingPcs) /\ (pc'[t] \notin ReleasingPcs)
        BY <3>3, <4>1, ClaimSets
      <4> QED BY <3>1, <3>2, <4>2, ClaimantsStay
    <3>4. CASE pc[t] # "acq_lock"
      <4>1. pc[t] = "rel_lock" /\ pc'[t] = "rel_find"
        BY <2>4, <3>4, GotoType, PcSets DEF LockRegistry
      <4> QED BY <3>1, <3>2, <4>1, ClaimSets, ClaimantsStay
    <3> QED BY <3>3, <3>4
  <2>5. CASE Command(t)
    <3>1. /\ pc[t] \in CommandPcs /\ UNCHANGED holders
          /\ Return(t) \/ (UNCHANGED tok /\ \E l \in CommandPcs : Goto(t, l))
      BY <2>5 DEF Command, CommandCheck, CommandLock, CommandCancelled, CommandSend,
         CommandDone, CommandPcs, local, claims
    <3>2. /\ pc'[t] \in CommandPcs \cup {"idle"}
          /\ \A u \in Threads \ {t} : pc'[u] = pc[u] /\ tok'[u] = tok[u]
      BY <3>1, GotoType, ReturnType, PcSets
    <3>3. (pc[t] \notin ReleasingPcs) /\ (pc'[t] \notin ReleasingPcs)
      BY <3>1, <3>2, ClaimSets
    <3> QED BY <3>1, <3>2, <3>3, ClaimantsStay
  <2> QED BY <2>1, <2>2, <2>3, <2>4, <2>5 DEF Call
<1> QED BY <1>1, <1>2, CountsUntouched DEF SlotsInv

LEMMA AcquireRefs ==
    ASSUME TableCore, TableCore', ClaimInv, RefsInv, NEW t \in Threads, Acquire(t)
    PROVE  RefsInv'
<1> USE DEF TableCore
<1>1. CASE CountClaim(t)
  BY <1>1, CountClaimRefs
<1>2. CASE ~CountClaim(t)
  <2>1. pc[t] \in {"acq_find", "acq_fail"} /\ UNCHANGED <<entries, holders>>
        /\ (Return(t) \/ (UNCHANGED tok /\ \E l \in {"count", "reserve"} : Goto(t, l)))
    BY <1>2 DEF Acquire, AcquireRefused, AcquireFound, AcquireAbsent, AcquireFailed,
       UnlockReturn, local, claims
  <2>2. /\ pc'[t] \in {"count", "reserve", "idle"}
        /\ \A u \in Threads \ {t} : pc'[u] = pc[u] /\ tok'[u] = tok[u]
    BY <2>1, GotoType, ReturnType, PcSets
  <2>3. (pc[t] \notin ReleasingPcs) /\ (pc'[t] \notin ReleasingPcs)
    BY <2>1, <2>2, ClaimSets
  <2>4. SameCounts
    BY <2>1 DEF SameCounts
  <2> QED BY <2>1, <2>2, <2>3, <2>4, ClaimantsStay, CountsUntouched DEF SlotsInv
<1> QED BY <1>1, <1>2

LEMMA RefsStep == TableCore /\ TableCore' /\ ClaimInv /\ RefsInv /\ [Next]_vars => RefsInv'
<1> SUFFICES ASSUME TableCore, TableCore', ClaimInv, RefsInv, [Next]_vars PROVE RefsInv'
  OBVIOUS
<1>1. CASE UNCHANGED vars \/ \E k \in Tokens, d \in Devices \cup {None} : Recycle(k, d)
  BY <1>1 DEF RefsInv, Claimants, Releasing, Lookup, Recycle, vars, local, claims
<1> QED BY <1>1, RegisterRefs, AcquireRefs, ReleaseRefs, OthersRefs DEF Next, Step

ClaimCore == TableCore /\ ClaimInv /\ RefsInv

LEMMA ClaimCoreHolds == Spec => []ClaimCore
<1>1. Init => ClaimInv /\ RefsInv
  <2> SUFFICES ASSUME Init PROVE ClaimInv /\ RefsInv
    OBVIOUS
  <2>1. ClaimInv
    BY DEF Init, ClaimInv
  <2>2. \A s \in Slots : ~entries[s].in_use
    BY DEF Init, ZeroEntry
  <2>3. \A k \in Tokens : Claimants(k) = {}
    BY ClaimSets DEF Init, Claimants, Releasing
  <2> QED BY <2>1, <2>2, <2>3 DEF RefsInv
<1>2. TableCore /\ TableCore' /\ ClaimInv /\ RefsInv /\ [Next]_vars => (ClaimInv /\ RefsInv)'
  BY ClaimStep, RefsStep DEF TableCore
<1> QED BY <1>1, <1>2, TableCoreHolds, PTL DEF Spec, ClaimCore

(***************************************************************************)
(* The promise of laser_acquire(): from LASER_OK to laser_release() there  *)
(* is a published entry, not cancelled, with every resource, and refs that *)
(* covers all who hold a claim - whoever else acquires, releases or fails  *)
(* to register meanwhile.                                                  *)
(***************************************************************************)
THEOREM ClaimsKeepDevices == Spec => []HeldClaimKeepsDevice
<1>1. ClaimCore => HeldClaimKeepsDevice
  <2> SUFFICES ASSUME ClaimCore, NEW k \in Tokens, holders[k] # {}
               PROVE  \E s \in Lookup(k) : /\ ~entries[s].cancelled
                                           /\ entries[s].refs >= Cardinality(holders[k])
                                           /\ held[s] = Resources
    BY DEF HeldClaimKeepsDevice
  <2> USE DEF ClaimCore, TableCore
  <2>1. Claimants(k) # {} /\ holders[k] \subseteq Claimants(k)
    BY DEF Claimants
  <2>2. PICK s \in Lookup(k) : TRUE
    BY <2>1 DEF RefsInv
  <2>3. s \in Slots /\ entries[s].in_use /\ entries[s].token = k
    BY <2>2 DEF Lookup
  <2>4. entries[s].refs = Cardinality(Claimants(k))
    BY <2>3 DEF RefsInv
  <2>5. Cardinality(holders[k]) <= Cardinality(Claimants(k)) /\ Cardinality(Claimants(k)) # 0
    BY <2>1, ClaimantsFinite, FS_Subset, FS_EmptySet
  <2>6. Cardinality(Claimants(k)) \in Nat /\ Cardinality(holders[k]) \in Nat
    BY <2>1, ClaimantsFinite, FS_Subset, FS_CardinalityType
  <2>7. ~TornDown(s)
    BY <2>4, <2>5 DEF TornDown, SlotsInv, TeardownInv, BeingClosed
  <2>8. ~entries[s].cancelled /\ held[s] = Resources
    BY <2>3, <2>7 DEF SlotsInv, QuietInv
  <2> QED BY <2>4, <2>5, <2>6, <2>8
<1> QED BY <1>1, ClaimCoreHolds, PTL

----------------------------------------------------------------------------
(* Whose device a claim is on. *)

\* The identity a claim will be granted on, and has been.
IdentityInv ==
    \A t \in Threads : pc[t] \in RegisterPcs \cup {"count"} => FdStillOurs(slot[t], tok[t])

RegistryInv ==
    /\ TypeOK /\ LockInv /\ LocalInv /\ SlotsInv
    /\ ClaimInv /\ RefsInv
    /\ IdentityInv /\ ClaimIsOnOwnDevice

SameIdentities ==
    \A s \in Slots : /\ entries'[s].in_use = entries[s].in_use
                     /\ entries'[s].token = entries[s].token
                     /\ entries'[s].reg_id = entries[s].reg_id

LEMMA OtherFields ==
    ASSUME TypeOK, NEW s \in Slots,
           \/ \E x : entries' = [entries EXCEPT ![s].handle = x]
           \/ \E x : entries' = [entries EXCEPT ![s].kernel_driver_detached = x]
           \/ \E x : entries' = [entries EXCEPT ![s].refs = x]
           \/ \E x, y : entries' = [entries EXCEPT ![s].refs = x, ![s].cancelled = y]
           \/ \E x, y : entries' = [entries EXCEPT ![s].kernel_driver_detached = x,
                                                   ![s].handle = y]
    PROVE  SameIdentities
<1>1. \A r \in Slots \ {s} : entries'[r] = entries[r]
  BY DEF TypeOK
<1>2. entries[s] \in Entry
  BY DEF TypeOK
<1>3. CASE \E x : entries' = [entries EXCEPT ![s].handle = x]
  <2>1. PICK x : entries' = [entries EXCEPT ![s].handle = x]
    BY <1>3
  <2>2. entries'[s] = [entries[s] EXCEPT !.handle = x]
    BY <2>1 DEF TypeOK
  <2> QED BY <1>1, <1>2, <2>2 DEF Entry, SameIdentities
<1>4. CASE \E x : entries' = [entries EXCEPT ![s].kernel_driver_detached = x]
  <2>1. PICK x : entries' = [entries EXCEPT ![s].kernel_driver_detached = x]
    BY <1>4
  <2>2. entries'[s] = [entries[s] EXCEPT !.kernel_driver_detached = x]
    BY <2>1 DEF TypeOK
  <2> QED BY <1>1, <1>2, <2>2 DEF Entry, SameIdentities
<1>5. CASE \E x : entries' = [entries EXCEPT ![s].refs = x]
  <2>1. PICK x : entries' = [entries EXCEPT ![s].refs = x]
    BY <1>5
  <2>2. entries'[s] = [entries[s] EXCEPT !.refs = x]
    BY <2>1 DEF TypeOK
  <2> QED BY <1>1, <1>2, <2>2 DEF Entry, SameIdentities
<1>6. CASE \E x, y : entries' = [entries EXCEPT ![s].refs = x, ![s].cancelled = y]
  <2>1. PICK x, y : entries' = [entries EXCEPT ![s].refs = x, ![s].cancelled = y]
    BY <1>6
  <2>2. entries'[s] = [[entries[s] EXCEPT !.refs = x] EXCEPT !.cancelled = y]
    BY <2>1 DEF TypeOK
  <2> QED BY <1>1, <1>2, <2>2 DEF Entry, SameIdentities
<1>7. CASE \E x, y : entries' = [entries EXCEPT ![s].kernel_driver_detached = x, ![s].handle = y]
  <2>1. PICK x, y : entries' = [entries EXCEPT ![s].kernel_driver_detached = x, ![s].handle = y]
    BY <1>7
  <2>2. entries'[s] = [[entries[s] EXCEPT !.kernel_driver_detached = x] EXCEPT !.handle = y]
    BY <2>1 DEF TypeOK
  <2> QED BY <1>1, <1>2, <2>2 DEF Entry, SameIdentities
<1> QED BY <1>3, <1>4, <1>5, <1>6, <1>7

(***************************************************************************)
(* Only four steps change which token and which device an entry is for:    *)
(* reserving a slot, publishing it, and the two ways to free it.           *)
(***************************************************************************)
LEMMA IdentityKept ==
    ASSUME TypeOK, LocalInv, NEW t \in Threads, Step(t),
           ~Reserve(t), ~Publish(t), ~UndoSlot(t), ~FreeSlot(t)
    PROVE  SameIdentities
<1>1. CASE UNCHANGED entries
  BY <1>1 DEF SameIdentities
<1>2. CASE Wrap(t) \/ UndoHandle(t) \/ CloseDevice(t) \/ DetachKernelDriver(t) \/ CountClaim(t)
  <2>1. slot[t] \in Slots
    BY <1>2, CallSets DEF Wrap, UndoHandle, CloseDevice, DetachKernelDriver, CountClaim,
       LocalInv, RegisterPcs, TeardownPcs
  <2>2. CASE Wrap(t)
    BY <1>1, <2>1, <2>2, OtherFields DEF Wrap
  <2>3. CASE UndoHandle(t)
    BY <2>1, <2>3, OtherFields DEF UndoHandle
  <2>4. CASE CloseDevice(t)
    BY <2>1, <2>4, OtherFields DEF CloseDevice
  <2>5. CASE DetachKernelDriver(t)
    BY <1>1, <2>1, <2>5, OtherFields DEF DetachKernelDriver
  <2>6. CASE CountClaim(t)
    <3>1. \E x : entries' = [entries EXCEPT ![slot[t]].refs = x]
      BY <2>6 DEF CountClaim
    <3> QED BY <2>1, <3>1, OtherFields
  <2> QED BY <1>2, <2>2, <2>3, <2>4, <2>5, <2>6
<1>3. CASE ReleaseDrop(t)
  <2>1. PICK s \in Slots : entries' = [entries EXCEPT ![s].refs = @ - 1]
    BY <1>3 DEF ReleaseDrop, Lookup
  <2> QED BY <2>1, OtherFields
<1>4. CASE ReleaseLast(t)
  <2>1. PICK s \in Slots : entries' = [entries EXCEPT ![s].refs = 0, ![s].cancelled = TRUE]
    BY <1>4 DEF ReleaseLast, Lookup
  <2> QED BY <2>1, OtherFields
<1>5. CASE ~(\/ Wrap(t) \/ UndoHandle(t) \/ CloseDevice(t) \/ DetachKernelDriver(t)
             \/ CountClaim(t) \/ ReleaseDrop(t) \/ ReleaseLast(t))
  BY <1>1, <1>5 DEF Step, LockRegistry, Acquire, AcquireRefused, AcquireFound, AcquireAbsent,
     AcquireFailed, Register, ReserveFails, SetupStep, FindEndpoints, ClaimInterface, Probe,
     Settle, UndoStep, Release, ReleaseIgnored, Drain, DestroyLocks, Command, CommandCheck,
     CommandLock, CommandCancelled, CommandSend, CommandDone
<1> QED BY <1>2, <1>3, <1>4, <1>5

IdentityPcs == RegisterPcs \cup {"count"}

LEMMA IdentitySets ==
    /\ IdentityPcs \subseteq LockedPcs /\ IdentityPcs \subseteq SlotPcs \cap TokPcs
    /\ (TeardownPcs \cup CommandPcs
          \cup {"idle", "acq_lock", "rel_lock", "acq_find", "rel_find", "reserve", "acq_fail"})
         \cap IdentityPcs = {}
<1>1. (TeardownPcs \cup CommandPcs
          \cup {"idle", "acq_lock", "rel_lock", "acq_find", "rel_find", "reserve", "acq_fail"})
         \cap IdentityPcs = {}
  BY DEF IdentityPcs, RegisterPcs, SetupPcs, UndoPcs, TeardownPcs, CommandPcs
<1> QED BY <1>1, PcSets, CallSets DEF IdentityPcs

\* A step of t, which may have found or reserved an entry.
LEMMA IdentityOther ==
    ASSUME TypeOK, LocalInv, IdentityInv, NEW t \in Threads, UNCHANGED fdDevice,
           \A u \in Threads \ {t} : pc'[u] = pc[u] /\ tok'[u] = tok[u] /\ slot'[u] = slot[u],
           \A u \in Threads \ {t} : pc[u] \in IdentityPcs =>
               entries'[slot[u]].reg_id = entries[slot[u]].reg_id,
           pc'[t] \in IdentityPcs => FdStillOurs(slot[t], tok[t])'
    PROVE  IdentityInv'
<1> SUFFICES ASSUME NEW u \in Threads, pc'[u] \in IdentityPcs PROVE FdStillOurs(slot[u], tok[u])'
  BY DEF IdentityInv, IdentityPcs
<1>1. CASE u = t
  BY <1>1
<1>2. CASE u # t
  BY <1>2 DEF IdentityInv, IdentityPcs, FdStillOurs
<1> QED BY <1>1, <1>2

LEMMA IdentityStep ==
    TypeOK /\ LockInv /\ LocalInv /\ IdentityInv /\ [Next]_vars => IdentityInv'
<1> SUFFICES ASSUME TypeOK, LockInv, LocalInv, IdentityInv, [Next]_vars PROVE IdentityInv'
  OBVIOUS
<1> USE IdentitySets
<1>1. CASE UNCHANGED vars
  BY <1>1 DEF IdentityInv, FdStillOurs, vars, local
<1>2. ASSUME NEW k \in Tokens, NEW d \in Devices \cup {None}, Recycle(k, d) PROVE IdentityInv'
  <2> SUFFICES ASSUME NEW u \in Threads, pc'[u] \in IdentityPcs
               PROVE  FdStillOurs(slot[u], tok[u])'
    BY DEF IdentityInv, IdentityPcs
  <2>1. UNCHANGED <<entries, pc, tok, slot>> /\ tok[u] # k /\ tok[u] \in Tokens
    BY <1>2 DEF Recycle, local, LocalInv
  <2>2. fdDevice'[tok[u]] = fdDevice[tok[u]]
    BY <1>2, <2>1 DEF Recycle, TypeOK
  <2> QED BY <2>1, <2>2 DEF IdentityInv, IdentityPcs, FdStillOurs
<1>3. ASSUME NEW t \in Threads, Call(t) PROVE IdentityInv'
  <2>1. UNCHANGED <<entries, fdDevice>>
        /\ \A u \in Threads \ {t} : tok'[u] = tok[u] /\ slot'[u] = slot[u]
    BY <1>3 DEF Call, AcquireCall, ReleaseCall, CommandCall, StrayReleaseCall, world, TypeOK
  <2>2. \E l \in {"acq_lock", "rel_lock", "cmd_check"} : Goto(t, l)
    BY <1>3 DEF Call, AcquireCall, ReleaseCall, CommandCall, StrayReleaseCall
  <2>3. /\ pc'[t] \in {"acq_lock", "rel_lock"} \cup CommandPcs
        /\ \A u \in Threads \ {t} : pc'[u] = pc[u]
    BY <2>2, GotoType, PcSets
  <2> QED BY <2>1, <2>3, IdentityOther
<1>4. ASSUME NEW t \in Threads, Command(t) \/ LockRegistry(t) PROVE IdentityInv'
  <2>1. /\ UNCHANGED <<entries, fdDevice>>
        /\ Return(t) \/ (UNCHANGED local
              /\ \E l \in CommandPcs \cup {"acq_find", "rel_find"} : Goto(t, l))
    BY <1>4 DEF Command, CommandCheck, CommandLock, CommandCancelled, CommandSend, CommandDone,
       LockRegistry, world, CommandPcs
  <2>2. /\ pc'[t] \in CommandPcs \cup {"acq_find", "rel_find", "idle"}
        /\ \A u \in Threads \ {t} : pc'[u] = pc[u] /\ tok'[u] = tok[u] /\ slot'[u] = slot[u]
    BY <2>1, GotoType, ReturnType, PcSets DEF local
  <2> QED BY <2>1, <2>2, IdentityOther
<1>5. ASSUME NEW t \in Threads, Acquire(t) \/ Register(t) \/ Release(t) PROVE IdentityInv'
  <2>1. UNCHANGED fdDevice
    BY <1>5 DEF Acquire, AcquireRefused, AcquireFound, AcquireAbsent, AcquireFailed, CountClaim,
       Register, Reserve, ReserveFails, SetupStep, Wrap, FindEndpoints, DetachKernelDriver,
       ClaimInterface, Probe, Settle, Publish, UndoStep, UndoHandle, UndoSlot, Release,
       ReleaseIgnored, ReleaseDrop, ReleaseLast, Drain, CloseDevice, DestroyLocks, FreeSlot,
       world
  <2>2. pc[t] \in LockedPcs
    BY <1>5, PcSets DEF Acquire, AcquireRefused, AcquireFound, AcquireAbsent, AcquireFailed,
       CountClaim, Register, Reserve, ReserveFails, SetupStep, Wrap, FindEndpoints,
       DetachKernelDriver, ClaimInterface, Probe, Settle, Publish, UndoStep, UndoHandle,
       UndoSlot, Release, ReleaseIgnored, ReleaseDrop, ReleaseLast, Drain, CloseDevice,
       DestroyLocks, FreeSlot
  <2>3. \A u \in Threads \ {t} : pc[u] \notin IdentityPcs
    BY <2>2, OneInside
  <2>4. ASSUME NEW l \in Pcs, Goto(t, l),
               \A u \in Threads \ {t} : tok'[u] = tok[u] /\ slot'[u] = slot[u],
               l \in IdentityPcs => FdStillOurs(slot[t], tok[t])'
        PROVE  IdentityInv'
    <3>1. pc'[t] = l /\ \A u \in Threads \ {t} : pc'[u] = pc[u]
      BY <2>4, GotoType
    <3> QED BY <2>1, <2>3, <2>4, <3>1, IdentityOther
  <2>5. CASE Return(t)
    BY <2>1, <2>3, <2>5, ReturnType, IdentityOther
  <2>6. CASE Reserve(t)
    <3>1. /\ pc[t] = "reserve" /\ tok[t] \in Tokens /\ tok' = tok
          /\ Goto(t, "init_io_lock") /\ "init_io_lock" \in Pcs
      BY <2>6, PcSets, CallSets DEF Reserve, LocalInv
    <3>2. PICK s \in Slots, id \in {fdDevice[tok[t]], None} :
             /\ entries' = [entries EXCEPT ![s] =
                              [ZeroEntry EXCEPT !.token = tok[t], !.reg_id = id]]
             /\ slot' = [slot EXCEPT ![t] = s]
      BY <2>6 DEF Reserve
    <3>3. /\ slot'[t] = s /\ \A u \in Threads \ {t} : slot'[u] = slot[u]
          /\ entries'[s].reg_id = id
      BY <3>2 DEF TypeOK, ZeroEntry
    <3>4. FdStillOurs(slot[t], tok[t])'
      BY <2>1, <3>1, <3>2, <3>3 DEF FdStillOurs
    <3> QED BY <2>4, <3>1, <3>3, <3>4
  <2>7. CASE AcquireFound(t)
    <3>1. PICK s \in Slots : FdStillOurs(s, tok[t]) /\ slot' = [slot EXCEPT ![t] = s]
      BY <2>7 DEF AcquireFound, Lookup
    <3>2. slot'[t] = s /\ \A u \in Threads \ {t} : slot'[u] = slot[u]
      BY <3>1 DEF TypeOK
    <3>3. FdStillOurs(slot[t], tok[t])'
      BY <2>1, <2>7, <3>1, <3>2 DEF AcquireFound, FdStillOurs
    <3> QED BY <2>4, <2>7, <3>2, <3>3, PcSets DEF AcquireFound
  <2>8. CASE AcquireAbsent(t) \/ ReserveFails(t) \/ UndoSlot(t)
    <3>1. UNCHANGED local /\ \E l \in {"reserve", "acq_fail"} : Goto(t, l)
      BY <2>8 DEF AcquireAbsent, ReserveFails, UndoSlot
    <3> QED BY <2>4, <3>1, PcSets DEF local
  <2>9. CASE ReleaseLast(t) \/ Drain(t) \/ CloseDevice(t) \/ DestroyLocks(t)
    <3>1. /\ \E l \in TeardownPcs : Goto(t, l)
          /\ \A u \in Threads \ {t} : tok'[u] = tok[u] /\ slot'[u] = slot[u]
      BY <2>9 DEF ReleaseLast, Drain, CloseDevice, DestroyLocks, TeardownPcs, local, TypeOK
    <3> QED BY <2>4, <3>1, PcSets
  <2>10. CASE Register(t) /\ ~Reserve(t) /\ ~ReserveFails(t) /\ ~UndoSlot(t)
    <3>1. pc[t] \in RegisterPcs /\ UNCHANGED local
      BY <2>10 DEF Register, SetupStep, Wrap, FindEndpoints, DetachKernelDriver, ClaimInterface,
         Probe, Settle, Publish, UndoStep, UndoHandle, RegisterPcs
    <3>2. \E l \in Pcs : Goto(t, l)
      <4>1. CASE SetupStep(t)
        BY <4>1, SetupTargets, PcSets DEF SetupStep
      <4>2. CASE UndoStep(t)
        BY <4>2, UndoTargets, PcSets DEF UndoStep
      <4>3. CASE ~SetupStep(t) /\ ~UndoStep(t)
        <5>1. \E l \in RegisterPcs \cup {"count"} : Goto(t, l)
          BY <2>10, <4>3, CallSets DEF Register, Wrap, FindEndpoints, DetachKernelDriver,
             ClaimInterface, Probe, Settle, Publish, UndoHandle, RegisterPcs
        <5> QED BY <5>1, PcSets
      <4> QED BY <4>1, <4>2, <4>3
    <3>3. slot[t] \in Slots /\ FdStillOurs(slot[t], tok[t])
      BY <3>1, CallSets DEF LocalInv, IdentityInv
    <3>4. entries'[slot[t]].reg_id = entries[slot[t]].reg_id
      <4>1. CASE Publish(t)
        <5>1. entries[slot[t]] \in Entry
              /\ entries'[slot[t]] = [entries[slot[t]] EXCEPT !.in_use = TRUE]
          BY <3>3, <4>1 DEF Publish, TypeOK
        <5> QED BY <5>1 DEF Entry
      <4>2. CASE ~Publish(t)
        <5>1. ~FreeSlot(t)
          BY <3>1, IdentitySets DEF FreeSlot, TeardownPcs, IdentityPcs
        <5> QED BY <2>10, <3>3, <4>2, <5>1, IdentityKept DEF Step, SameIdentities
      <4> QED BY <4>1, <4>2
    <3>5. FdStillOurs(slot[t], tok[t])'
      BY <2>1, <3>1, <3>3, <3>4 DEF FdStillOurs, local
    <3> QED BY <2>4, <3>1, <3>2, <3>5 DEF local
  <2> QED BY <1>5, <2>5, <2>6, <2>7, <2>8, <2>9, <2>10 DEF Acquire, AcquireRefused,
          AcquireFailed, CountClaim, Release, ReleaseIgnored, ReleaseDrop, FreeSlot, UnlockReturn
<1> QED BY <1>1, <1>2, <1>3, <1>4, <1>5 DEF Next, Step

\* A step that takes no claim and publishes no entry.
LEMMA OwnStays ==
    ASSUME ClaimIsOnOwnDevice,
           \A k \in Tokens : holders'[k] \subseteq holders[k]
                /\ \A t \in holders'[k] : claimDevice'[t][k] = claimDevice[t][k],
           \A s \in Slots : entries'[s].in_use =>
               /\ entries[s].in_use /\ entries'[s].token = entries[s].token
               /\ entries'[s].reg_id = entries[s].reg_id
    PROVE  ClaimIsOnOwnDevice'
<1> SUFFICES ASSUME NEW k \in Tokens, NEW t \in holders'[k], NEW s \in Slots,
                    entries'[s].in_use, entries'[s].token = k, entries'[s].reg_id # None
             PROVE  claimDevice'[t][k] = entries'[s].reg_id
  BY DEF ClaimIsOnOwnDevice, Lookup
<1>1. s \in Lookup(k) /\ t \in holders[k] /\ entries[s].reg_id # None
  BY DEF Lookup
<1> QED BY <1>1 DEF ClaimIsOnOwnDevice

LEMMA CountClaimOwn ==
    ASSUME TableCore, IdentityInv, ClaimIsOnOwnDevice, NEW t \in Threads, CountClaim(t)
    PROVE  ClaimIsOnOwnDevice'
<1> USE DEF TableCore
<1>1. pc[t] = "count" /\ slot[t] \in Slots /\ tok[t] \in Tokens
  BY CallSets DEF CountClaim, LocalInv
<1>2. PICK q \in Slots, j \in Tokens : slot[t] = q /\ tok[t] = j
  BY <1>1
<1>3. q \in Lookup(j) /\ FdStillOurs(q, j)
  BY <1>1, <1>2 DEF SlotsInv, CountInv, IdentityInv
<1>4. SameIdentities
  <2>1. ~Reserve(t) /\ ~Publish(t) /\ ~UndoSlot(t) /\ ~FreeSlot(t)
    BY <1>1 DEF Reserve, Publish, UndoSlot, FreeSlot
  <2> QED BY <2>1, IdentityKept DEF Step, Acquire
<1>5. /\ holders'[j] = holders[j] \cup {t} /\ claimDevice'[t][j] = fdDevice[j]
      /\ \A k \in Tokens \ {j} : holders'[k] = holders[k]
      /\ \A u \in Threads, k \in Tokens : u # t \/ k # j => claimDevice'[u][k] = claimDevice[u][k]
  BY <1>2 DEF CountClaim, TypeOK
<1> SUFFICES ASSUME NEW k \in Tokens, NEW u \in holders'[k], NEW s \in Slots,
                    entries[s].in_use, entries[s].token = k, entries[s].reg_id # None
             PROVE  claimDevice'[u][k] = entries[s].reg_id
  BY <1>4 DEF ClaimIsOnOwnDevice, Lookup, SameIdentities
<1>6. u \in Threads
  BY <1>5 DEF TypeOK
<1>7. CASE u = t /\ k = j
  <2>1. s = q
    BY <1>3, <1>7 DEF Lookup, SlotsInv, TableInv
  <2> QED BY <1>3, <1>5, <1>7, <2>1 DEF FdStillOurs
<1>8. CASE u # t \/ k # j
  <2>1. u \in holders[k] /\ s \in Lookup(k)
    BY <1>5, <1>8 DEF Lookup
  <2> QED BY <1>5, <1>6, <1>8, <2>1 DEF ClaimIsOnOwnDevice
<1> QED BY <1>7, <1>8

LEMMA PublishOwn ==
    ASSUME TableCore, RefsInv, ClaimIsOnOwnDevice, NEW t \in Threads, Publish(t)
    PROVE  ClaimIsOnOwnDevice'
<1> USE DEF TableCore
<1>1. pc[t] = "publish" /\ slot[t] \in Slots /\ tok[t] \in Tokens /\ pc[t] \in RegisterPcs
  BY PcSets, CallSets DEF Publish, LocalInv
<1>2. PICK q \in Slots, j \in Tokens : slot[t] = q /\ tok[t] = j
  BY <1>1
<1>3. entries[q].token = j /\ Lookup(j) = {}
  BY <1>1, <1>2 DEF SlotsInv, RegisterInv, BeingBuilt
<1>4. holders[j] = {}
  BY <1>3 DEF RefsInv, Claimants
<1>5. /\ entries'[q].token = j
      /\ \A r \in Slots \ {q} : entries'[r] = entries[r]
  <2>1. entries[q] \in Entry /\ entries'[q] = [entries[q] EXCEPT !.in_use = TRUE]
    BY <1>2 DEF Publish, TypeOK
  <2>2. \A r \in Slots \ {q} : entries'[r] = entries[r]
    BY <1>2 DEF Publish, TypeOK
  <2> QED BY <1>3, <2>1, <2>2 DEF Entry
<1>6. UNCHANGED <<holders, claimDevice>>
  BY DEF Publish, claims
<1> SUFFICES ASSUME NEW k \in Tokens, NEW u \in holders[k], NEW s \in Slots,
                    entries'[s].in_use, entries'[s].token = k, entries'[s].reg_id # None
             PROVE  claimDevice[u][k] = entries'[s].reg_id
  BY <1>6 DEF ClaimIsOnOwnDevice, Lookup
<1>7. s # q
  BY <1>4, <1>5
<1>8. entries'[s] = entries[s] /\ s \in Lookup(k)
  BY <1>5, <1>7 DEF Lookup
<1> QED BY <1>8 DEF ClaimIsOnOwnDevice

LEMMA OwnStep ==
    TableCore /\ RefsInv /\ IdentityInv /\ ClaimIsOnOwnDevice /\ [Next]_vars
        => ClaimIsOnOwnDevice'
<1> SUFFICES ASSUME TableCore, RefsInv, IdentityInv, ClaimIsOnOwnDevice, [Next]_vars
             PROVE  ClaimIsOnOwnDevice'
  OBVIOUS
<1> USE DEF TableCore
<1>1. CASE UNCHANGED vars \/ \E k \in Tokens, d \in Devices \cup {None} : Recycle(k, d)
  BY <1>1 DEF ClaimIsOnOwnDevice, Lookup, vars, Recycle, claims
<1>2. ASSUME NEW t \in Threads, Call(t) PROVE ClaimIsOnOwnDevice'
  <2>1. UNCHANGED entries
    BY <1>2 DEF Call, AcquireCall, ReleaseCall, CommandCall, StrayReleaseCall
  <2>2. CASE UNCHANGED claims
    BY <2>1, <2>2, OwnStays DEF claims
  <2>3. ASSUME NEW k \in Tokens, ReleaseCall(t, k) PROVE ClaimIsOnOwnDevice'
    <3>1. /\ holders'[k] = holders[k] \ {t}
          /\ \A j \in Tokens \ {k} : holders'[j] = holders[j]
      BY <2>3 DEF ReleaseCall, TypeOK
    <3>2. \A u \in Threads, j \in Tokens :
             u # t \/ j # k => claimDevice'[u][j] = claimDevice[u][j]
      BY <2>3 DEF ReleaseCall, TypeOK
    <3>3. \A j \in Tokens : holders[j] \subseteq Threads
      BY DEF TypeOK
    <3> QED BY <2>1, <3>1, <3>2, <3>3, OwnStays
  <2> QED BY <1>2, <2>2, <2>3 DEF Call, AcquireCall, CommandCall, StrayReleaseCall
<1>3. ASSUME NEW t \in Threads, Step(t), ~CountClaim(t), ~Publish(t) PROVE ClaimIsOnOwnDevice'
  <2>1. UNCHANGED <<holders, claimDevice>>
    BY <1>3 DEF Step, LockRegistry, Acquire, AcquireRefused, AcquireFound, AcquireAbsent,
       AcquireFailed, Register, Reserve, ReserveFails, SetupStep, Wrap, FindEndpoints,
       DetachKernelDriver, ClaimInterface, Probe, Settle, UndoStep, UndoHandle, UndoSlot,
       Release, ReleaseIgnored, ReleaseDrop, ReleaseLast, Drain, CloseDevice, DestroyLocks,
       FreeSlot, Command, CommandCheck, CommandLock, CommandCancelled, CommandSend,
       CommandDone, claims
  <2>2. \A s \in Slots : entries'[s].in_use =>
           /\ entries[s].in_use /\ entries'[s].token = entries[s].token
           /\ entries'[s].reg_id = entries[s].reg_id
    <3>1. CASE Reserve(t) \/ UndoSlot(t) \/ FreeSlot(t)
      <4>1. \E q \in Slots : /\ ~entries'[q].in_use
                             /\ \A r \in Slots \ {q} : entries'[r] = entries[r]
        <5>1. CASE Reserve(t)
          <6>1. PICK s \in Slots, id \in {fdDevice[tok[t]], None} :
                   entries' = [entries EXCEPT ![s] =
                                 [ZeroEntry EXCEPT !.token = tok[t], !.reg_id = id]]
            BY <5>1 DEF Reserve
          <6> QED BY <6>1 DEF TypeOK, ZeroEntry
        <5>2. CASE UndoSlot(t) \/ FreeSlot(t)
          <6>1. slot[t] \in Slots
            BY <5>2, PcSets, CallSets DEF UndoSlot, FreeSlot, LocalInv
          <6>2. entries' = [entries EXCEPT ![slot[t]] = ZeroEntry]
            BY <5>2 DEF UndoSlot, FreeSlot, ReleaseSlot
          <6> QED BY <6>1, <6>2 DEF TypeOK, ZeroEntry
        <5> QED BY <3>1, <5>1, <5>2
      <4> QED BY <4>1
    <3>2. CASE ~Reserve(t) /\ ~UndoSlot(t) /\ ~FreeSlot(t)
      BY <1>3, <3>2, IdentityKept DEF SameIdentities
    <3> QED BY <3>1, <3>2
  <2> QED BY <2>1, <2>2, OwnStays
<1> QED BY <1>1, <1>2, <1>3, CountClaimOwn, PublishOwn DEF Next

LEMMA RegistryInvHolds == Spec => []RegistryInv
<1>1. Init => IdentityInv /\ ClaimIsOnOwnDevice
  BY IdentitySets DEF Init, IdentityInv, IdentityPcs, ClaimIsOnOwnDevice
<1>2. ClaimCore /\ IdentityInv /\ ClaimIsOnOwnDevice /\ [Next]_vars
         => (IdentityInv /\ ClaimIsOnOwnDevice)'
  BY IdentityStep, OwnStep DEF ClaimCore, TableCore
<1> QED BY <1>1, <1>2, ClaimCoreHolds, PTL DEF Spec, RegistryInv, ClaimCore, TableCore

(***************************************************************************)
(* A claim granted is on the device that the fd named when it was granted, *)
(* though an earlier claim may have leaked and the number been reused      *)
(* (fd_still_ours()).                                                      *)
(***************************************************************************)
THEOREM ClaimsOnOwnDevice == Spec => []ClaimIsOnOwnDevice
  BY RegistryInvHolds, PTL DEF RegistryInv

----------------------------------------------------------------------------
(* Commands and teardown. *)

(***************************************************************************)
(* Commands, for consumers that keep the last release away from a thread   *)
(* that has yet to obtain io_lock.                                         *)
(***************************************************************************)
WaitingPcs == {"cmd_check", "cmd_queue"}
RunningPcs == {"cmd_attempt", "cmd_xfer"}

CommandAt(t) ==
    /\ pc[t] \in CommandPcs => slot[t] \in Lookup(tok[t])
    /\ pc[t] \in WaitingPcs => holders[tok[t]] # {}
    /\ pc[t] \in RunningPcs => io_lock[slot[t]] = t /\ held[slot[t]] = Resources
    /\ pc[t] = "close" => io_lock[slot[t]] = t

CommandInv == \A t \in Threads : CommandAt(t)

LEMMA CommandSets ==
    /\ WaitingPcs \cup RunningPcs = CommandPcs /\ WaitingPcs \cap RunningPcs = {}
    /\ (LockedPcs \cup {"idle", "acq_lock", "rel_lock"}) \cap CommandPcs = {}
    /\ WaitingPcs = {"cmd_check", "cmd_queue"} /\ RunningPcs = {"cmd_attempt", "cmd_xfer"}
    /\ "close" \in LockedPcs /\ "close" \notin RegisterPcs
<1>1. WaitingPcs \cap RunningPcs = {}
  BY DEF WaitingPcs, RunningPcs
<1>2. (LockedPcs \cup {"idle", "acq_lock", "rel_lock"}) \cap CommandPcs = {}
  BY DEF LockedPcs, AcquirePcs, RegisterPcs, SetupPcs, UndoPcs, ReleasePcs, TeardownPcs,
     CommandPcs
<1>3. "close" \in LockedPcs /\ "close" \notin RegisterPcs
  BY DEF LockedPcs, ReleasePcs, TeardownPcs, RegisterPcs, SetupPcs, UndoPcs
<1> QED BY <1>1, <1>2, <1>3 DEF WaitingPcs, RunningPcs, CommandPcs

\* A claim held, or a thread waiting for io_lock, keeps the entry as it is.
LEMMA HolderKeeps ==
    ASSUME ClaimCore, NEW k \in Tokens, holders[k] # {}, NEW s \in Lookup(k)
    PROVE  ~TornDown(s) /\ entries[s].refs # 0 /\ held[s] = Resources
<1> USE DEF ClaimCore, TableCore
<1>1. Claimants(k) # {}
  BY DEF Claimants
<1>2. s \in Slots /\ entries[s].in_use /\ entries[s].token = k
  BY DEF Lookup
<1>3. entries[s].refs = Cardinality(Claimants(k))
  BY <1>2 DEF RefsInv
<1>4. entries[s].refs # 0
  BY <1>1, <1>3, ClaimantsFinite, FS_EmptySet
<1>5. ~TornDown(s)
  BY <1>4 DEF TornDown, SlotsInv, TeardownInv, BeingClosed
<1> QED BY <1>2, <1>4, <1>5 DEF SlotsInv, QuietInv

\* A step of t, seen by the commands of the other threads.
LEMMA CommandOther ==
    ASSUME TypeOK, CommandInv, NEW t \in Threads,
           \A u \in Threads \ {t} : pc'[u] = pc[u] /\ tok'[u] = tok[u] /\ slot'[u] = slot[u],
           \A u \in Threads \ {t} : pc[u] \in CommandPcs =>
               /\ entries'[slot[u]].in_use = entries[slot[u]].in_use
               /\ entries'[slot[u]].token = entries[slot[u]].token,
           \A u \in Threads \ {t} : pc[u] \in RunningPcs \cup {"close"} =>
               io_lock'[slot[u]] = io_lock[slot[u]],
           \A u \in Threads \ {t} : pc[u] \in RunningPcs => held'[slot[u]] = held[slot[u]],
           \A u \in Threads \ {t} : pc[u] \in WaitingPcs => holders'[tok[u]] # {},
           CommandAt(t)'
    PROVE  CommandInv'
<1> SUFFICES ASSUME NEW u \in Threads \ {t} PROVE CommandAt(u)'
  BY DEF CommandInv
<1>1. CommandAt(u)
  BY DEF CommandInv
<1>2. pc'[u] \in CommandPcs => (slot[u] \in Lookup(tok[u]))'
  BY <1>1 DEF CommandAt, Lookup
<1>3. pc'[u] \in WaitingPcs => holders'[tok'[u]] # {}
  OBVIOUS
<1>4. /\ pc'[u] \in RunningPcs => io_lock'[slot'[u]] = u /\ held'[slot'[u]] = Resources
      /\ pc'[u] = "close" => io_lock'[slot'[u]] = u
  BY <1>1 DEF CommandAt
<1> QED BY <1>2, <1>3, <1>4 DEF CommandAt

\* The steps that move neither a lock nor a resource, nor the table.
LEMMA CommandUntouched ==
    ASSUME TypeOK, LocalInv, CommandInv, NEW t \in Threads, SameIdentities,
           UNCHANGED <<held, io_lock>>,
           \A u \in Threads \ {t} : pc'[u] = pc[u] /\ tok'[u] = tok[u] /\ slot'[u] = slot[u],
           \A k \in Tokens : holders[k] \subseteq holders'[k],
           CommandAt(t)'
    PROVE  CommandInv'
<1>1. \A u \in Threads : pc[u] \in CommandPcs => slot[u] \in Slots /\ tok[u] \in Tokens
  BY CallSets DEF LocalInv
<1>2. \A u \in Threads : pc[u] \in WaitingPcs => holders[tok[u]] # {} /\ tok[u] \in Tokens
  BY <1>1, CommandSets DEF CommandInv, CommandAt
<1>3. \A u \in Threads \ {t} : pc[u] \in WaitingPcs => holders'[tok[u]] # {}
  BY <1>2
<1> QED BY <1>1, <1>3, CommandOther DEF SameIdentities

LEMMA OutsideCommands ==
    ASSUME NEW t \in Threads,
           pc'[t] \in (LockedPcs \ {"close"}) \cup {"idle", "acq_lock", "rel_lock"}
    PROVE  CommandAt(t)'
  BY CommandSets DEF CommandAt

\* The consumers' contract at work: MayDropLast keeps the last holder of a
\* token from releasing it while a thread waits.
LEMMA CommandCalls ==
    ASSUME ClaimCore, CommandInv, ~LateQueuers, NEW t \in Threads, Call(t)
    PROVE  CommandInv'
<1> USE DEF ClaimCore, TableCore
<1>1. UNCHANGED <<entries, held, io_lock>> /\ SameIdentities
  BY DEF Call, AcquireCall, ReleaseCall, CommandCall, StrayReleaseCall, SameIdentities
<1>2. \A u \in Threads \ {t} : tok'[u] = tok[u] /\ slot'[u] = slot[u]
  BY DEF Call, AcquireCall, ReleaseCall, CommandCall, StrayReleaseCall, TypeOK
<1>3. \A u \in Threads \ {t} : pc'[u] = pc[u]
  BY DEF Call, AcquireCall, ReleaseCall, CommandCall, StrayReleaseCall, Goto, TypeOK
<1>4. ASSUME NEW k \in Tokens, ReleaseCall(t, k) PROVE CommandInv'
  <2>1. pc'[t] = "rel_lock"
    BY <1>4, GotoType, PcSets DEF ReleaseCall
  <2>2. /\ holders'[k] = holders[k] \ {t}
        /\ \A j \in Tokens \ {k} : holders'[j] = holders[j]
        /\ holders[k] # {t} \/ MayDropLast(k)
    BY <1>4 DEF ReleaseCall, TypeOK
  <2>3. ASSUME NEW u \in Threads \ {t}, pc[u] \in WaitingPcs PROVE holders'[tok[u]] # {}
    <3>1. tok[u] \in Tokens /\ holders[tok[u]] # {}
      BY <2>3, CallSets, CommandSets DEF CommandInv, CommandAt, LocalInv
    <3>2. CASE tok[u] = k
      <4>1. holders[k] # {t}
        BY <2>2, <2>3, <3>2, CommandSets DEF MayDropLast
      <4> QED BY <2>2, <3>1, <3>2, <4>1
    <3> QED BY <2>2, <3>1, <3>2
  <2>4. CommandAt(t)'
    BY <2>1, OutsideCommands
  <2> QED BY <1>1, <1>2, <1>3, <2>3, <2>4, CommandOther
<1>5. ASSUME NEW k \in Tokens, CommandCall(t, k) PROVE CommandInv'
  <2>1. /\ pc'[t] = "cmd_check" /\ tok'[t] = k /\ slot'[t] \in Lookup(k)
        /\ holders[k] # {} /\ UNCHANGED holders
    BY <1>5, GotoType, PcSets DEF CommandCall, Lookup, TypeOK, claims
  <2>2. CommandAt(t)'
    BY <1>1, <2>1, CommandSets DEF CommandAt, Lookup
  <2> QED BY <1>1, <1>2, <1>3, <2>1, <2>2, CommandUntouched
<1>6. ASSUME NEW k \in Tokens, AcquireCall(t, k) PROVE CommandInv'
  <2>1. pc'[t] = "acq_lock" /\ UNCHANGED holders
    BY <1>6, GotoType, PcSets DEF AcquireCall, claims
  <2>2. CommandAt(t)'
    BY <2>1, OutsideCommands
  <2> QED BY <1>1, <1>2, <1>3, <2>1, <2>2, CommandUntouched
<1>7. ASSUME NEW k \in StrayTokens, StrayReleaseCall(t, k) PROVE CommandInv'
  <2>1. pc'[t] = "rel_lock" /\ UNCHANGED holders
    BY <1>7, GotoType, PcSets DEF StrayReleaseCall, claims
  <2>2. CommandAt(t)'
    BY <2>1, OutsideCommands
  <2> QED BY <1>1, <1>2, <1>3, <2>1, <2>2, CommandUntouched
<1> QED BY <1>4, <1>5, <1>6, <1>7 DEF Call

LEMMA CommandSteps ==
    ASSUME ClaimCore, CommandInv, NEW t \in Threads, Command(t)
    PROVE  CommandInv'
<1> USE DEF ClaimCore, TableCore
<1>1. UNCHANGED <<entries, held, holders>> /\ pc[t] \in CommandPcs /\ SameIdentities
  BY CommandSets DEF Command, CommandCheck, CommandLock, CommandCancelled, CommandSend,
     CommandDone, claims, SameIdentities
<1>2. /\ slot[t] \in Slots /\ tok[t] \in Tokens
      /\ slot[t] \in Lookup(tok[t]) /\ CommandAt(t)
  BY <1>1, CallSets DEF LocalInv, CommandInv, CommandAt
<1>3. CASE UNCHANGED io_lock
  <2>1. Return(t) \/ (UNCHANGED local /\ \E l \in CommandPcs : Goto(t, l))
    BY DEF Command, CommandCheck, CommandLock, CommandCancelled, CommandSend, CommandDone,
       CommandPcs
  <2>2. \A u \in Threads \ {t} : pc'[u] = pc[u] /\ tok'[u] = tok[u] /\ slot'[u] = slot[u]
    BY <2>1, GotoType, ReturnType, PcSets DEF local
  <2>3. CommandAt(t)'
    <3>1. CASE Return(t)
      BY <3>1, ReturnType, OutsideCommands
    <3>2. CASE ~Return(t)
      <4>1. UNCHANGED <<tok, slot>>
            /\ \/ pc[t] = "cmd_check" /\ Goto(t, "cmd_queue")
               \/ pc[t] = "cmd_attempt" /\ Goto(t, "cmd_xfer")
               \/ pc[t] = "cmd_xfer" /\ Goto(t, "cmd_attempt")
               \/ CommandLock(t)
        BY <3>2 DEF Command, CommandCheck, CommandCancelled, CommandSend, CommandDone, local,
           CommandLock
      <4>2. CASE CommandLock(t)
        BY <1>2, <1>3, <4>2, NoneIsNothing DEF CommandLock, TypeOK
      <4>3. CASE pc[t] = "cmd_check" /\ Goto(t, "cmd_queue")
        <5>1. pc'[t] = "cmd_queue"
          BY <4>3, GotoType, PcSets
        <5> QED BY <1>1, <1>2, <4>1, <4>3, <5>1, CommandSets DEF CommandAt, Lookup
      <4>4. CASE (pc[t] = "cmd_attempt" /\ Goto(t, "cmd_xfer"))
                 \/ (pc[t] = "cmd_xfer" /\ Goto(t, "cmd_attempt"))
        <5>1. pc[t] \in RunningPcs /\ pc'[t] \in RunningPcs
          BY <4>4, GotoType, PcSets, CommandSets
        <5>2. pc'[t] \notin WaitingPcs /\ pc'[t] # "close"
          BY <5>1, CommandSets
        <5> QED BY <1>1, <1>2, <1>3, <4>1, <5>1, <5>2 DEF CommandAt, Lookup
      <4> QED BY <4>1, <4>2, <4>3, <4>4
    <3> QED BY <3>1, <3>2
  <2> QED BY <1>1, <1>3, <2>2, <2>3, CommandUntouched
<1>4. CASE CommandLock(t)
  <2>1. /\ pc[t] = "cmd_queue" /\ pc'[t] = "cmd_attempt" /\ UNCHANGED <<tok, slot>>
        /\ \A u \in Threads \ {t} : pc'[u] = pc[u]
    BY <1>4, GotoType, PcSets DEF CommandLock, local
  <2>2. /\ io_lock[slot[t]] = None /\ io_lock'[slot[t]] = t
        /\ \A r \in Slots \ {slot[t]} : io_lock'[r] = io_lock[r]
    BY <1>2, <1>4 DEF CommandLock, TypeOK
  <2>3. held[slot[t]] = Resources
    BY <1>2, <2>1, HolderKeeps, CommandSets DEF CommandAt
  <2>4. CommandAt(t)'
    BY <1>1, <1>2, <2>1, <2>2, <2>3, CommandSets DEF CommandAt, Lookup
  <2>5. \A u \in Threads \ {t} : pc[u] \in RunningPcs \cup {"close"} =>
           io_lock'[slot[u]] = io_lock[slot[u]]
    <3>1. \A u \in Threads : pc[u] \in RunningPcs \cup {"close"} =>
             io_lock[slot[u]] = u /\ slot[u] \in Slots
      BY CallSets, CommandSets, PcSets DEF CommandInv, CommandAt, LocalInv
    <3> QED BY <2>2, <3>1, NoneIsNothing
  <2>6. \A u \in Threads \ {t} : pc[u] \in WaitingPcs => holders'[tok[u]] # {}
    BY <1>1 DEF CommandInv, CommandAt
  <2> QED BY <1>1, <2>1, <2>4, <2>5, <2>6, CommandOther
<1>5. CASE Return(t) /\ io_lock' = [io_lock EXCEPT ![slot[t]] = None] /\ pc[t] \in RunningPcs
  <2>1. /\ pc'[t] = "idle"
        /\ \A u \in Threads \ {t} : pc'[u] = pc[u] /\ tok'[u] = tok[u] /\ slot'[u] = slot[u]
    BY <1>5, ReturnType
  <2>2. io_lock[slot[t]] = t /\ \A r \in Slots \ {slot[t]} : io_lock'[r] = io_lock[r]
    BY <1>2, <1>5 DEF CommandAt, TypeOK
  <2>3. \A u \in Threads \ {t} : pc[u] \in RunningPcs \cup {"close"} =>
           io_lock'[slot[u]] = io_lock[slot[u]]
    <3>1. \A u \in Threads : pc[u] \in RunningPcs \cup {"close"} =>
             io_lock[slot[u]] = u /\ slot[u] \in Slots
      BY CallSets, CommandSets, PcSets DEF CommandInv, CommandAt, LocalInv
    <3> QED BY <2>2, <3>1
  <2>4. CommandAt(t)'
    BY <2>1, OutsideCommands
  <2>5. \A u \in Threads \ {t} : pc[u] \in WaitingPcs => holders'[tok[u]] # {}
    BY <1>1 DEF CommandInv, CommandAt
  <2> QED BY <1>1, <2>1, <2>3, <2>4, <2>5, CommandOther
<1> QED BY <1>3, <1>4, <1>5, CommandSets DEF Command, CommandCheck, CommandCancelled, CommandSend,
        CommandDone

\* A command's entry is published, so it is not the slot a registration works on.
LEMMA CommandAcquires ==
    ASSUME ClaimCore, CommandInv, NEW t \in Threads,
           LockRegistry(t) \/ Acquire(t) \/ Register(t)
    PROVE  CommandInv'
<1> USE DEF ClaimCore, TableCore
<1>1. \A k \in Tokens : holders[k] \subseteq holders'[k]
  <2>1. CASE CountClaim(t)
    <3>1. tok[t] \in Tokens
      BY <2>1, CallSets DEF CountClaim, LocalInv
    <3> QED BY <2>1, <3>1 DEF CountClaim, TypeOK
  <2>2. CASE ~CountClaim(t)
    <3>1. UNCHANGED holders
      BY <2>2 DEF LockRegistry, Acquire, AcquireRefused, AcquireFound, AcquireAbsent,
         AcquireFailed, Register, Reserve, ReserveFails, SetupStep, Wrap, FindEndpoints,
         DetachKernelDriver, ClaimInterface, Probe, Settle, Publish, UndoStep, UndoHandle,
         UndoSlot, claims
    <3> QED BY <3>1
  <2> QED BY <2>1, <2>2
<1>2. ASSUME NEW l \in (LockedPcs \ {"close"}), Goto(t, l)
      PROVE  CommandAt(t)' /\ \A u \in Threads \ {t} : pc'[u] = pc[u]
  BY <1>2, GotoType, PcSets, OutsideCommands
<1>3. CASE LockRegistry(t) \/ Acquire(t)
  <2>1. UNCHANGED <<held, io_lock>> /\ ~Reserve(t) /\ ~Publish(t) /\ ~UndoSlot(t) /\ ~FreeSlot(t)
    BY <1>3 DEF LockRegistry, Acquire, AcquireRefused, AcquireFound, AcquireAbsent,
       AcquireFailed, CountClaim, Reserve, Publish, UndoSlot, FreeSlot
  <2>2. SameIdentities
    BY <1>3, <2>1, IdentityKept DEF Step
  <2>3. CASE Return(t)
    BY <1>1, <2>1, <2>2, <2>3, ReturnType, OutsideCommands, CommandUntouched
  <2>4. CASE ~Return(t)
    <3>1. /\ \E l \in {"acq_find", "rel_find", "count", "reserve"} : Goto(t, l)
          /\ \A u \in Threads \ {t} : tok'[u] = tok[u] /\ slot'[u] = slot[u]
      BY <1>3, <2>4 DEF LockRegistry, Acquire, AcquireRefused, AcquireFound, AcquireAbsent,
         AcquireFailed, CountClaim, UnlockReturn, local, TypeOK
    <3>2. {"acq_find", "rel_find", "count", "reserve"} \subseteq LockedPcs \ {"close"}
      BY PcSets
    <3> QED BY <1>1, <1>2, <2>1, <2>2, <3>1, <3>2, CommandUntouched
  <2> QED BY <2>3, <2>4
<1>4. CASE Register(t)
  <2>1. PICK l \in RegisterPcs \cup {"count", "acq_fail"} : Goto(t, l)
    <3>1. CASE SetupStep(t)
      BY <3>1, SetupTargets DEF SetupStep
    <3>2. CASE UndoStep(t)
      BY <3>2, UndoTargets DEF UndoStep
    <3>3. CASE ~SetupStep(t) /\ ~UndoStep(t)
      BY <1>4, <3>3, CallSets DEF Register, Reserve, ReserveFails, Wrap, FindEndpoints,
         DetachKernelDriver, ClaimInterface, Probe, Settle, Publish, UndoHandle, UndoSlot,
         RegisterPcs
    <3> QED BY <3>1, <3>2, <3>3
  <2>2. l \in LockedPcs \ {"close"}
    BY PcSets, CommandSets
  <2>3. pc[t] \in RegisterPcs \cup {"reserve"}
    BY <1>4 DEF Register, Reserve, ReserveFails, SetupStep, Wrap, FindEndpoints,
       DetachKernelDriver, ClaimInterface, Probe, Settle, Publish, UndoStep, UndoHandle,
       UndoSlot, RegisterPcs
  <2>4. /\ CommandAt(t)' /\ \A u \in Threads \ {t} : pc'[u] = pc[u]
        /\ \A u \in Threads \ {t} : pc[u] # "close"
    BY <1>2, <2>1, <2>2, <2>3, OneInside, PcSets, CommandSets
  <2>5. \A u \in Threads \ {t} : tok'[u] = tok[u] /\ slot'[u] = slot[u]
    BY <1>4 DEF Register, Reserve, ReserveFails, SetupStep, Wrap, FindEndpoints,
       DetachKernelDriver, ClaimInterface, Probe, Settle, Publish, UndoStep, UndoHandle,
       UndoSlot, local, TypeOK
  <2>6. \A u \in Threads : pc[u] \in CommandPcs =>
           slot[u] \in Slots /\ entries[slot[u]].in_use /\ tok[u] \in Tokens
    BY CallSets DEF CommandInv, CommandAt, Lookup, LocalInv
  <2>7. PICK s \in Slots : /\ ~entries[s].in_use
                           /\ \A r \in Slots \ {s} : /\ entries'[r] = entries[r]
                                                     /\ io_lock'[r] = io_lock[r]
                                                     /\ held'[r] = held[r]
        \/ UNCHANGED <<entries, held, io_lock>>
    <3>1. CASE Reserve(t)
      BY <3>1 DEF Reserve, FirstFree, TypeOK
    <3>2. CASE ReserveFails(t)
      <4>1. UNCHANGED <<entries, held, io_lock>> /\ 1 \in Slots
        BY <3>2, MaxDevicesNat DEF ReserveFails, Slots
      <4> QED BY <4>1
    <3>3. CASE ~Reserve(t) /\ ~ReserveFails(t)
      <4>1. pc[t] \in RegisterPcs
        BY <1>4, <2>3, <3>3 DEF Register, SetupStep, Wrap, FindEndpoints, DetachKernelDriver,
           ClaimInterface, Probe, Settle, Publish, UndoStep, UndoHandle, UndoSlot, RegisterPcs
      <4>2. slot[t] \in Slots /\ ~entries[slot[t]].in_use
        BY <4>1, CallSets DEF LocalInv, SlotsInv, RegisterInv, BeingBuilt
      <4>3. \A r \in Slots \ {slot[t]} : entries'[r] = entries[r]
        BY <1>4, <3>3, <4>2 DEF Register, SetupStep, Wrap, FindEndpoints,
           DetachKernelDriver, ClaimInterface, Probe, Settle, Publish, UndoStep, UndoHandle,
           UndoSlot, ReleaseSlot, TypeOK
      <4>4. \A r \in Slots \ {slot[t]} : io_lock'[r] = io_lock[r] /\ held'[r] = held[r]
        BY <1>4, <3>3, <4>2 DEF Register, SetupStep, Wrap, FindEndpoints,
           DetachKernelDriver, ClaimInterface, Probe, Settle, Publish, UndoStep, UndoHandle,
           UndoSlot, ReleaseSlot, TypeOK
      <4> QED BY <4>2, <4>3, <4>4
    <3> QED BY <3>1, <3>2, <3>3
  <2>8. \A u \in Threads : pc[u] \in CommandPcs =>
           /\ entries'[slot[u]] = entries[slot[u]]
           /\ io_lock'[slot[u]] = io_lock[slot[u]] /\ held'[slot[u]] = held[slot[u]]
    BY <2>6, <2>7
  <2>9. \A u \in Threads \ {t} : pc[u] \in WaitingPcs => holders'[tok[u]] # {}
    BY <1>1, <2>6, CommandSets DEF CommandInv, CommandAt
  <2> QED BY <2>4, <2>5, <2>8, <2>9, CommandSets, CommandOther
<1> QED BY <1>3, <1>4

\* Teardown: it drains io_lock before it closes, and closes when nobody is
\* left to lock it again.
LEMMA CommandReleases ==
    ASSUME ClaimCore, CommandInv, NEW t \in Threads, Release(t)
    PROVE  CommandInv'
<1> USE DEF ClaimCore, TableCore
<1>1. UNCHANGED holders
  BY DEF Release, ReleaseIgnored, ReleaseDrop, ReleaseLast, Drain, CloseDevice, DestroyLocks,
     FreeSlot, claims
<1>2. CASE ReleaseIgnored(t) \/ ReleaseDrop(t) \/ ReleaseLast(t)
  <2>1. UNCHANGED <<held, io_lock>> /\ SameIdentities
    <3>1. ~Reserve(t) /\ ~Publish(t) /\ ~UndoSlot(t) /\ ~FreeSlot(t)
      BY <1>2 DEF ReleaseIgnored, ReleaseDrop, ReleaseLast, Reserve, Publish, UndoSlot, FreeSlot
    <3> QED BY <1>2, <3>1, IdentityKept DEF Step, Release, ReleaseIgnored, ReleaseDrop, ReleaseLast
  <2>2. CASE Return(t)
    BY <1>1, <2>1, <2>2, ReturnType, OutsideCommands, CommandUntouched
  <2>3. CASE ReleaseLast(t)
    <3>1. pc'[t] = "drain" /\ \A u \in Threads \ {t} : pc'[u] = pc[u]
      BY <2>3, GotoType, PcSets DEF ReleaseLast
    <3>2. \A u \in Threads \ {t} : tok'[u] = tok[u] /\ slot'[u] = slot[u]
      BY <2>3 DEF ReleaseLast, TypeOK
    <3>3. CommandAt(t)'
      BY <3>1, OutsideCommands, PcSets
    <3> QED BY <1>1, <2>1, <3>1, <3>2, <3>3, CommandUntouched
  <2> QED BY <1>2, <2>2, <2>3 DEF ReleaseIgnored, ReleaseDrop, UnlockReturn
<1>3. CASE Drain(t) \/ CloseDevice(t) \/ DestroyLocks(t) \/ FreeSlot(t)
  <2>1. pc[t] \in TeardownPcs /\ slot[t] \in Slots /\ BeingClosed(t) /\ CommandAt(t)
    BY <1>3, CallSets DEF Drain, CloseDevice, DestroyLocks, FreeSlot, TeardownPcs, LocalInv,
       SlotsInv, TeardownInv, CommandInv
  <2>2. PICK s \in Slots : slot[t] = s
    BY <2>1
  <2>3. \A u \in Threads \ {t} : pc[u] # "close"
    BY <2>1, OneInside, PcSets, CommandSets
  <2>4. \A u \in Threads : pc[u] \in CommandPcs =>
           slot[u] \in Lookup(tok[u]) /\ slot[u] \in Slots /\ tok[u] \in Tokens
    BY CallSets DEF CommandInv, CommandAt, LocalInv
  <2>5. \A u \in Threads : pc[u] \in WaitingPcs => slot[u] # s /\ holders[tok[u]] # {}
    <3> SUFFICES ASSUME NEW u \in Threads, pc[u] \in WaitingPcs
                 PROVE  slot[u] # s /\ holders[tok[u]] # {}
      OBVIOUS
    <3>1. holders[tok[u]] # {} /\ tok[u] \in Tokens /\ slot[u] \in Lookup(tok[u])
      BY <2>4, CommandSets DEF CommandInv, CommandAt
    <3>2. ~TornDown(slot[u])
      BY <3>1, HolderKeeps
    <3> QED BY <2>1, <2>2, <3>1, <3>2 DEF TornDown
  <2>6. \A u \in Threads \ {t} : pc[u] \in RunningPcs => slot[u] # s
    <3> SUFFICES ASSUME NEW u \in Threads \ {t}, pc[u] \in RunningPcs, slot[u] = s PROVE FALSE
      OBVIOUS
    <3>1. io_lock[s] = u /\ held[s] = Resources
      BY DEF CommandInv, CommandAt
    <3>2. CASE Drain(t)
      BY <2>2, <3>1, <3>2, NoneIsNothing DEF Drain
    <3>3. CASE CloseDevice(t)
      BY <2>1, <2>2, <3>1, <3>3 DEF CloseDevice, CommandAt
    <3>4. CASE DestroyLocks(t) \/ FreeSlot(t)
      <4>1. held[s] \in {{"io_lock", "css_mtx", "css_cv"}, {}}
        <5>1. pc[t] \in {"destroy", "free_slot"} /\ held[s] = HeldAt[pc[t]]
          BY <2>1, <2>2, <3>4 DEF DestroyLocks, FreeSlot, BeingClosed
        <5> QED BY <5>1 DEF HeldAt
      <4> QED BY <3>1, <4>1 DEF Resources
    <3> QED BY <1>3, <3>2, <3>3, <3>4
  <2>7. \A r \in Slots \ {s} : /\ entries'[r] = entries[r]
                               /\ io_lock'[r] = io_lock[r] /\ held'[r] = held[r]
    BY <1>3, <2>2 DEF Drain, CloseDevice, DestroyLocks, FreeSlot, ReleaseSlot, TypeOK
  <2>8. \A u \in Threads \ {t} : pc'[u] = pc[u] /\ tok'[u] = tok[u] /\ slot'[u] = slot[u]
    <3>1. CASE FreeSlot(t)
      BY <3>1, ReturnType DEF FreeSlot, UnlockReturn
    <3>2. CASE ~FreeSlot(t)
      BY <1>3, <3>2 DEF Drain, CloseDevice, DestroyLocks, local, Goto, TypeOK
    <3> QED BY <3>1, <3>2
  <2>9. CommandAt(t)'
    <3>1. CASE Drain(t)
      <4>1. pc'[t] = "close" /\ UNCHANGED slot /\ io_lock'[s] = t
        BY <2>2, <3>1, GotoType, PcSets DEF Drain, local, TypeOK
      <4> QED BY <2>2, <4>1, CommandSets DEF CommandAt
    <3>2. CASE ~Drain(t)
      <4>1. pc'[t] \in {"destroy", "free_slot", "idle"}
        BY <1>3, <3>2, GotoType, ReturnType, PcSets DEF CloseDevice, DestroyLocks, FreeSlot,
           UnlockReturn
      <4> QED BY <4>1, OutsideCommands, PcSets
    <3> QED BY <3>1, <3>2
  <2>10. \A u \in Threads \ {t} : pc[u] \in CommandPcs =>
            /\ entries'[slot[u]] = entries[slot[u]]
            /\ io_lock'[slot[u]] = io_lock[slot[u]] /\ held'[slot[u]] = held[slot[u]]
    BY <2>4, <2>5, <2>6, <2>7, CommandSets
  <2>11. \A u \in Threads \ {t} : pc[u] \in WaitingPcs => holders'[tok[u]] # {}
    BY <1>1, <2>5
  <2> QED BY <2>3, <2>8, <2>9, <2>10, <2>11, CommandSets, CommandOther
<1> QED BY <1>2, <1>3 DEF Release

LEMMA CommandStep == ClaimCore /\ CommandInv /\ ~LateQueuers /\ [Next]_vars => CommandInv'
<1> SUFFICES ASSUME ClaimCore, CommandInv, ~LateQueuers, [Next]_vars PROVE CommandInv'
  OBVIOUS
<1>1. CASE UNCHANGED vars \/ \E k \in Tokens, d \in Devices \cup {None} : Recycle(k, d)
  <2>1. UNCHANGED <<entries, held, io_lock, pc, tok, slot, holders>>
    BY <1>1 DEF vars, Recycle, local, claims
  <2> QED BY <2>1 DEF CommandInv, CommandAt, Lookup
<1> QED BY <1>1, CommandCalls, CommandSteps, CommandAcquires, CommandReleases DEF Next, Step

(***************************************************************************)
(* No transaction runs on a closed handle, nor on an entry that is still   *)
(* being set up, for consumers that start no last release while a thread   *)
(* is between laser_lookup() and io_lock (teardown_entry_locked()).        *)
(***************************************************************************)
THEOREM TransfersOnOpenHandles == ASSUME ~LateQueuers PROVE Spec => []NoTransferOnClosedHandle
<1>1. Init => CommandInv
  BY CommandSets DEF Init, CommandInv, CommandAt
<1>2. ClaimCore /\ CommandInv /\ [Next]_vars => CommandInv'
  BY CommandStep
<1>3. CommandInv => NoTransferOnClosedHandle
  BY CommandSets DEF CommandInv, CommandAt, NoTransferOnClosedHandle
<1> QED BY <1>1, <1>2, <1>3, ClaimCoreHolds, PTL DEF Spec

============================================================================
