--------------------------- MODULE LaserRegistry ---------------------------
(***************************************************************************)
(* The device registry of registry.c: a fixed table of entries keyed by    *)
(* the caller's file descriptor, counted claims, one-time device setup     *)
(* with its unwind ladder, and teardown against commands still running on  *)
(* other threads.                                                          *)
(*                                                                         *)
(* laser_acquire() and laser_release() run under g_registry_lock; every    *)
(* other entry point only looks the token up under g_table_lock and keeps  *)
(* the pointer.  A step is what happens between two points where another   *)
(* thread can observe a difference; a lookup is one step, being one        *)
(* critical section of g_table_lock.                                       *)
(***************************************************************************)
EXTENDS Naturals, FiniteSets

CONSTANTS
    Threads,        \* the calling threads, one claim per token at most each
    Tokens,         \* the fds that consumers acquire
    StrayTokens,    \* fds nobody acquires, on which laser_release() is called
    Devices,        \* what an fd can name: the (st_dev, st_ino) of fstat()
    MaxDevices,     \* LASER_MAX_DEVICES
    LateQueuers,    \* TRUE: a last release may find a thread queued on io_lock
    None            \* no thread, token, device or slot: a zeroed field

ASSUME ThreadsFinite == IsFiniteSet(Threads)
ASSUME NoneIsNothing == None \notin Threads \cup Tokens \cup StrayTokens \cup Devices
ASSUME MaxDevicesNat == MaxDevices \in Nat \ {0}
ASSUME StrayTokensDisjoint == Tokens \cap StrayTokens = {}

Slots == 1 .. MaxDevices

(***************************************************************************)
(* What a registration acquires, in order, and its unwind ladder gives     *)
(* back in reverse.  (css_mtx and css_cv stand for themselves: their use   *)
(* is the subject of module CssSession.)                                   *)
(***************************************************************************)
Resources == {"io_lock", "css_mtx", "css_cv", "ctx", "handle", "iface"}

VARIABLES
    entries,        \* g_entries
    held,           \* per slot, the resources its registration holds
    g_registry_lock,\* the thread holding it, or None
    io_lock,        \* per slot, the thread holding it, or None
    pc, tok, slot,  \* per thread: where it is, its token, its entry pointer
    fdDevice,       \* per token, the device the fd names, None when closed
    driver,         \* per device, its kernel driver
    holders,        \* per token, the consumers whose laser_acquire() said OK
    claimDevice,    \* history: the device the fd named when a claim was taken
    setup           \* history, per thread: the registration it is running

vars == <<entries, held, g_registry_lock, io_lock, pc, tok, slot, fdDevice,
          driver, holders, claimDevice, setup>>

local  == <<tok, slot>>
world  == <<fdDevice, driver>>
claims == <<holders, claimDevice>>

(***************************************************************************)
(* reg_id stands for (reg_dev, reg_ino); None is their zero, "unknown".    *)
(* handle is the device a libusb handle addresses.                         *)
(***************************************************************************)
Entry == [in_use: BOOLEAN, token: Tokens \cup {None}, refs: Nat,
          cancelled: BOOLEAN, reg_id: Devices \cup {None},
          handle: Devices \cup {None}, kernel_driver_detached: BOOLEAN]

ZeroEntry == [in_use |-> FALSE, token |-> None, refs |-> 0,
              cancelled |-> FALSE, reg_id |-> None, handle |-> None,
              kernel_driver_detached |-> FALSE]

----------------------------------------------------------------------------
(* The setup steps that only acquire a resource, and the ladder's rungs    *)
(* that only free one: [gets, then, undo] and [frees, then].               *)

Setup ==
    [init_io_lock |-> [gets |-> "io_lock", then |-> "init_css_mtx", undo |-> "err_slot"],
     init_css_mtx |-> [gets |-> "css_mtx", then |-> "init_css_cv",  undo |-> "err_io_mutex"],
     init_css_cv  |-> [gets |-> "css_cv",  then |-> "init_ctx",     undo |-> "err_css_mutex"],
     init_ctx     |-> [gets |-> "ctx",     then |-> "wrap",         undo |-> "err_css_cond"]]

Undo ==
    [err_iface     |-> [frees |-> "iface",   then |-> "err_handle"],
     err_ctx       |-> [frees |-> "ctx",     then |-> "err_css_cond"],
     err_css_cond  |-> [frees |-> "css_cv",  then |-> "err_css_mutex"],
     err_css_mutex |-> [frees |-> "css_mtx", then |-> "err_io_mutex"],
     err_io_mutex  |-> [frees |-> "io_lock", then |-> "err_slot"]]

SetupPcs == {"init_io_lock", "init_css_mtx", "init_css_cv", "init_ctx"}
UndoPcs == {"err_iface", "err_ctx", "err_css_cond", "err_css_mutex", "err_io_mutex"}

RegisterPcs == SetupPcs \cup UndoPcs \cup
    {"wrap", "find_endpoints", "detach", "claim", "probe", "settle", "publish",
     "err_handle", "err_slot"}
AcquirePcs == RegisterPcs \cup {"acq_find", "reserve", "count", "acq_fail"}
TeardownPcs == {"drain", "close", "destroy", "free_slot"}
ReleasePcs == TeardownPcs \cup {"rel_find"}
LockedPcs == AcquirePcs \cup ReleasePcs
CommandPcs == {"cmd_check", "cmd_queue", "cmd_attempt", "cmd_xfer"}
Pcs == LockedPcs \cup CommandPcs \cup {"idle", "acq_lock", "rel_lock"}

TypeOK ==
    /\ entries \in [Slots -> Entry]
    /\ held \in [Slots -> SUBSET Resources]
    /\ g_registry_lock \in Threads \cup {None}
    /\ io_lock \in [Slots -> Threads \cup {None}]
    /\ pc \in [Threads -> Pcs]
    /\ tok \in [Threads -> Tokens \cup StrayTokens \cup {None}]
    /\ slot \in [Threads -> Slots \cup {None}]
    /\ fdDevice \in [Tokens -> Devices \cup {None}]
    /\ driver \in [Devices -> {"bound", "detached", "none"}]
    /\ holders \in [Tokens -> SUBSET Threads]
    /\ claimDevice \in [Threads -> [Tokens -> Devices \cup {None}]]
    /\ setup \in [Threads -> [before: {"bound", "detached", "none", "unknown"},
                              declined: BOOLEAN]]

(***************************************************************************)
(* An empty table; each fd closed or naming a device of its own; each      *)
(* device with its kernel driver bound, or with none (an Android kernel    *)
(* without usb-storage).                                                   *)
(***************************************************************************)
OwnDevice(f) == \A a, b \in Tokens : f[a] = f[b] /\ f[a] # None => a = b

Init ==
    /\ entries = [s \in Slots |-> ZeroEntry]
    /\ held = [s \in Slots |-> {}]
    /\ g_registry_lock = None
    /\ io_lock = [s \in Slots |-> None]
    /\ pc = [t \in Threads |-> "idle"]
    /\ tok = [t \in Threads |-> None]
    /\ slot = [t \in Threads |-> None]
    /\ fdDevice \in [Tokens -> Devices \cup {None}] /\ OwnDevice(fdDevice)
    /\ driver \in [Devices -> {"bound", "none"}]
    /\ holders = [k \in Tokens |-> {}]
    /\ claimDevice = [t \in Threads |-> [k \in Tokens |-> None]]
    /\ setup = [t \in Threads |-> [before |-> "unknown", declined |-> FALSE]]

----------------------------------------------------------------------------
(* Shared by the actions below. *)

Goto(t, label) == pc' = [pc EXCEPT ![t] = label]

\* Mutant: the scans of g_entries stop at the first free slot.
LookupUpToHole(k) == {s \in Slots : /\ entries[s].in_use /\ entries[s].token = k
                                    /\ \A r \in Slots : r < s => entries[r].in_use}

\* What laser_lookup(k) may return: a published slot of that token.
Lookup(k) == {s \in Slots : entries[s].in_use /\ entries[s].token = k}

\* Mutant: the token's number alone identifies the device.
FdAssumedOurs(s, k) == TRUE

FdStillOurs(s, k) ==
    \/ entries[s].reg_id = None
    \/ fdDevice[k] # None /\ fdDevice[k] = entries[s].reg_id

ReleaseSlot(s) ==
    /\ entries' = [entries EXCEPT ![s] = ZeroEntry]
    /\ io_lock' = [io_lock EXCEPT ![s] = None]

\* The locals of a call die with it.
NoSetup == [before |-> "unknown", declined |-> FALSE]

Return(t) ==
    /\ Goto(t, "idle")
    /\ tok' = [tok EXCEPT ![t] = None]
    /\ slot' = [slot EXCEPT ![t] = None]
    /\ setup' = [setup EXCEPT ![t] = NoSetup]

UnlockReturn(t) == g_registry_lock' = None /\ Return(t)

----------------------------------------------------------------------------
(* laser_acquire() and laser_release(): the call, and g_registry_lock.     *)

AcquireCall(t, k) ==
    /\ pc[t] = "idle" /\ t \notin holders[k]
    /\ Goto(t, "acq_lock")
    /\ tok' = [tok EXCEPT ![t] = k]
    /\ UNCHANGED <<entries, held, g_registry_lock, io_lock, slot, world, claims, setup>>

(***************************************************************************)
(* A consumer releases what it holds.  The contract (the comment on        *)
(* laser_lookup) keeps the last release away from a thread between its     *)
(* lookup and its transaction.  LateQueuers lets it meet a thread queued   *)
(* on io_lock, which an operation "still running" (laser.h) may well be.   *)
(***************************************************************************)
MayDropLast(k) == \A u \in Threads : tok[u] = k =>
    pc[u] # "cmd_check" /\ (LateQueuers \/ pc[u] # "cmd_queue")

ReleaseCall(t, k) ==
    /\ pc[t] = "idle" /\ t \in holders[k]
    /\ holders[k] # {t} \/ MayDropLast(k)
    /\ holders' = [holders EXCEPT ![k] = @ \ {t}]
    /\ claimDevice' = [claimDevice EXCEPT ![t][k] = None]
    /\ Goto(t, "rel_lock")
    /\ tok' = [tok EXCEPT ![t] = k]
    /\ UNCHANGED <<entries, held, g_registry_lock, io_lock, slot, world, setup>>

StrayReleaseCall(t, k) ==
    /\ pc[t] = "idle"
    /\ Goto(t, "rel_lock")
    /\ tok' = [tok EXCEPT ![t] = k]
    /\ UNCHANGED <<entries, held, g_registry_lock, io_lock, slot, world, claims, setup>>

LockRegistry(t) ==
    /\ pc[t] \in {"acq_lock", "rel_lock"} /\ g_registry_lock = None
    /\ g_registry_lock' = t
    /\ Goto(t, IF pc[t] = "acq_lock" THEN "acq_find" ELSE "rel_find")
    /\ UNCHANGED <<entries, held, io_lock, local, world, claims, setup>>

----------------------------------------------------------------------------
(* laser_acquire(), under g_registry_lock. *)

AcquireRefused(t) ==
    /\ pc[t] = "acq_find"
    /\ \E s \in Lookup(tok[t]) : ~FdStillOurs(s, tok[t])
    /\ UnlockReturn(t)
    /\ UNCHANGED <<entries, held, io_lock, world, claims>>

AcquireFound(t) ==
    /\ pc[t] = "acq_find"
    /\ \E s \in Lookup(tok[t]) :
          /\ FdStillOurs(s, tok[t])
          /\ slot' = [slot EXCEPT ![t] = s]
    /\ Goto(t, "count")
    /\ UNCHANGED <<entries, held, g_registry_lock, io_lock, tok, world, claims, setup>>

AcquireAbsent(t) ==
    /\ pc[t] = "acq_find" /\ Lookup(tok[t]) = {}
    /\ Goto(t, "reserve")
    /\ UNCHANGED <<entries, held, g_registry_lock, io_lock, local, world, claims, setup>>

CountClaim(t) ==
    /\ pc[t] = "count"
    /\ entries' = [entries EXCEPT ![slot[t]].refs = @ + 1]
    /\ holders' = [holders EXCEPT ![tok[t]] = @ \cup {t}]
    /\ claimDevice' = [claimDevice EXCEPT ![t][tok[t]] = fdDevice[tok[t]]]
    /\ UnlockReturn(t)
    /\ UNCHANGED <<held, io_lock, world>>

\* laser_register() failed and the second lookup finds nothing.
AcquireFailed(t) ==
    /\ pc[t] = "acq_fail"
    /\ UnlockReturn(t)
    /\ UNCHANGED <<entries, held, io_lock, world, claims>>

----------------------------------------------------------------------------
(* laser_register(): reserve_slot() with the fstat() that follows it.      *)

FirstFree(s) == /\ ~entries[s].in_use
                /\ \A r \in Slots : r < s => entries[r].in_use

\* Mutant: the fd itself recorded as the identity of its device.
ReserveByFd(t) ==
    /\ pc[t] = "reserve" /\ Lookup(tok[t]) = {}
    /\ \E s \in Slots :
          /\ FirstFree(s)
          /\ entries' = [entries EXCEPT ![s] = [ZeroEntry EXCEPT !.token = tok[t], !.reg_id = tok[t]]]
          /\ io_lock' = [io_lock EXCEPT ![s] = None]
          /\ slot' = [slot EXCEPT ![t] = s]
    /\ Goto(t, "init_io_lock")
    /\ UNCHANGED <<held, g_registry_lock, tok, world, claims, setup>>

Reserve(t) ==
    /\ pc[t] = "reserve" /\ Lookup(tok[t]) = {}
    /\ \E s \in Slots, id \in {fdDevice[tok[t]], None} :
          /\ FirstFree(s)
          /\ entries' = [entries EXCEPT ![s] = [ZeroEntry EXCEPT !.token = tok[t], !.reg_id = id]]
          /\ io_lock' = [io_lock EXCEPT ![s] = None]
          /\ slot' = [slot EXCEPT ![t] = s]
    /\ Goto(t, "init_io_lock")
    /\ UNCHANGED <<held, g_registry_lock, tok, world, claims, setup>>

ReserveFails(t) ==
    /\ pc[t] = "reserve"
    /\ Lookup(tok[t]) # {} \/ \A s \in Slots : entries[s].in_use
    /\ Goto(t, "acq_fail")
    /\ UNCHANGED <<entries, held, g_registry_lock, io_lock, local, world, claims, setup>>

SetupStep(t) ==
    /\ pc[t] \in SetupPcs
    /\ LET step == Setup[pc[t]] IN
          \/ /\ held' = [held EXCEPT ![slot[t]] = @ \cup {step.gets}]
             /\ Goto(t, step.then)
          \/ Goto(t, step.undo) /\ UNCHANGED held
    /\ UNCHANGED <<entries, g_registry_lock, io_lock, local, world, claims, setup>>

\* libusb_wrap_sys_device(): the handle is on whatever the fd names now.
Wrap(t) ==
    /\ pc[t] = "wrap"
    /\ LET d == fdDevice[tok[t]] IN
          \/ /\ d # None
             /\ entries' = [entries EXCEPT ![slot[t]].handle = d]
             /\ held' = [held EXCEPT ![slot[t]] = @ \cup {"handle"}]
             /\ setup' = [setup EXCEPT ![t].before = driver[d]]
             /\ Goto(t, "find_endpoints")
          \/ Goto(t, "err_ctx") /\ UNCHANGED <<entries, held, setup>>
    /\ UNCHANGED <<g_registry_lock, io_lock, local, world, claims>>

FindEndpoints(t) ==
    /\ pc[t] = "find_endpoints"
    /\ \E label \in {"detach", "err_handle"} : Goto(t, label)
    /\ UNCHANGED <<entries, held, g_registry_lock, io_lock, local, world, claims, setup>>

\* A failed query or detach is not fatal: the claim that follows tells.
DetachKernelDriver(t) ==
    /\ pc[t] = "detach"
    /\ LET d == entries[slot[t]].handle IN
          \/ /\ driver[d] = "bound"
             /\ driver' = [driver EXCEPT ![d] = "detached"]
             /\ entries' = [entries EXCEPT ![slot[t]].kernel_driver_detached = TRUE]
          \/ UNCHANGED <<driver, entries>>
    /\ Goto(t, "claim")
    /\ UNCHANGED <<held, g_registry_lock, io_lock, local, fdDevice, claims, setup>>

\* Mutant: a failed claim unwinds from one rung too high.
ClaimInterfaceUnwindingTooMuch(t) ==
    /\ pc[t] = "claim"
    /\ \/ /\ driver[entries[slot[t]].handle] # "bound"
          /\ held' = [held EXCEPT ![slot[t]] = @ \cup {"iface"}]
          /\ Goto(t, "probe")
       \/ Goto(t, "err_iface") /\ UNCHANGED held
    /\ UNCHANGED <<entries, g_registry_lock, io_lock, local, world, claims, setup>>

\* libusb_claim_interface() answers BUSY while a kernel driver is bound.
ClaimInterface(t) ==
    /\ pc[t] = "claim"
    /\ \/ /\ driver[entries[slot[t]].handle] # "bound"
          /\ held' = [held EXCEPT ![slot[t]] = @ \cup {"iface"}]
          /\ Goto(t, "probe")
       \/ Goto(t, "err_handle") /\ UNCHANGED held
    /\ UNCHANGED <<entries, g_registry_lock, io_lock, local, world, claims, setup>>

\* Mutant: a decline unwinds from one rung too low.
ProbeUnwindingTooLittle(t) ==
    /\ pc[t] = "probe" /\ io_lock[slot[t]] = None
    /\ \/ Goto(t, "settle") /\ UNCHANGED setup
       \/ Goto(t, "err_handle") /\ setup' = [setup EXCEPT ![t].declined = TRUE]
    /\ UNCHANGED <<entries, held, g_registry_lock, io_lock, local, world, claims>>

\* laser_probe_lun(), under io_lock: OPTICAL, or declined (not optical,
\* gone, or no answer).
Probe(t) ==
    /\ pc[t] = "probe" /\ io_lock[slot[t]] = None
    /\ \/ Goto(t, "settle") /\ UNCHANGED setup
       \/ Goto(t, "err_iface") /\ setup' = [setup EXCEPT ![t].declined = TRUE]
    /\ UNCHANGED <<entries, held, g_registry_lock, io_lock, local, world, claims>>

\* The tray unlock and laser_wait_until_ready(): both under io_lock, both
\* best effort, so registration goes on whatever they find.
Settle(t) ==
    /\ pc[t] = "settle" /\ io_lock[slot[t]] = None
    /\ Goto(t, "publish")
    /\ UNCHANGED <<entries, held, g_registry_lock, io_lock, local, world, claims, setup>>

Publish(t) ==
    /\ pc[t] = "publish"
    /\ entries' = [entries EXCEPT ![slot[t]].in_use = TRUE]
    /\ Goto(t, "count")
    /\ UNCHANGED <<held, g_registry_lock, io_lock, local, world, claims, setup>>

----------------------------------------------------------------------------
(* The unwind ladder. *)

UndoStep(t) ==
    /\ pc[t] \in UndoPcs
    /\ held' = [held EXCEPT ![slot[t]] = @ \ {Undo[pc[t]].frees}]
    /\ Goto(t, Undo[pc[t]].then)
    /\ UNCHANGED <<entries, g_registry_lock, io_lock, local, world, claims, setup>>

\* reattach_kernel_driver() then libusb_close().  usbfs will not bind a
\* driver to an interface still claimed through the handle.
UndoHandle(t) ==
    /\ pc[t] = "err_handle"
    /\ LET s == slot[t] d == entries[s].handle IN
          /\ IF entries[s].kernel_driver_detached /\ "iface" \notin held[s]
             THEN \E outcome \in {"bound", "none"} :
                     driver' = [driver EXCEPT ![d] = outcome]
             ELSE UNCHANGED driver
          /\ entries' = [entries EXCEPT ![s].kernel_driver_detached = FALSE, ![s].handle = None]
          /\ held' = [held EXCEPT ![s] = @ \ {"handle"}]
    /\ Goto(t, "err_ctx")
    /\ UNCHANGED <<g_registry_lock, io_lock, local, fdDevice, claims, setup>>

UndoSlot(t) ==
    /\ pc[t] = "err_slot"
    /\ ReleaseSlot(slot[t])
    /\ Goto(t, "acq_fail")
    /\ UNCHANGED <<held, g_registry_lock, local, world, claims, setup>>

----------------------------------------------------------------------------
(* laser_release(), under g_registry_lock. *)

ReleaseIgnored(t) ==
    /\ pc[t] = "rel_find"
    /\ \A s \in Lookup(tok[t]) : entries[s].refs = 0
    /\ UnlockReturn(t)
    /\ UNCHANGED <<entries, held, io_lock, world, claims>>

ReleaseDrop(t) ==
    /\ pc[t] = "rel_find"
    /\ \E s \in Lookup(tok[t]) :
          /\ entries[s].refs > 1
          /\ entries' = [entries EXCEPT ![s].refs = @ - 1]
    /\ UnlockReturn(t)
    /\ UNCHANGED <<held, io_lock, world, claims>>

\* Mutant: any release closes the device.
ReleaseAnyTearsDown(t) ==
    /\ pc[t] = "rel_find"
    /\ \E s \in Lookup(tok[t]) :
          /\ entries[s].refs >= 1
          /\ entries' = [entries EXCEPT ![s].refs = @ - 1, ![s].cancelled = TRUE]
          /\ slot' = [slot EXCEPT ![t] = s]
    /\ Goto(t, "drain")
    /\ UNCHANGED <<held, g_registry_lock, io_lock, tok, world, claims, setup>>

\* Mutant: acquirers need not wait for the drain.
ReleaseLastUnlocking(t) ==
    /\ pc[t] = "rel_find"
    /\ \E s \in Lookup(tok[t]) :
          /\ entries[s].refs = 1
          /\ entries' = [entries EXCEPT ![s].refs = 0, ![s].cancelled = TRUE]
          /\ slot' = [slot EXCEPT ![t] = s]
    /\ g_registry_lock' = None
    /\ Goto(t, "drain")
    /\ UNCHANGED <<held, io_lock, tok, world, claims, setup>>

\* refs reaches 0 and laser_set_cancelled() raises the flag: refs is read
\* only under g_registry_lock, so no thread can see one without the other.
ReleaseLast(t) ==
    /\ pc[t] = "rel_find"
    /\ \E s \in Lookup(tok[t]) :
          /\ entries[s].refs = 1
          /\ entries' = [entries EXCEPT ![s].refs = 0, ![s].cancelled = TRUE]
          /\ slot' = [slot EXCEPT ![t] = s]
    /\ Goto(t, "drain")
    /\ UNCHANGED <<held, g_registry_lock, io_lock, tok, world, claims, setup>>

----------------------------------------------------------------------------
(* teardown_entry_locked(). *)

\* Mutant: teardown does not wait for the transaction in progress.
DrainNothing(t) ==
    /\ pc[t] = "drain"
    /\ io_lock' = [io_lock EXCEPT ![slot[t]] = t]
    /\ Goto(t, "close")
    /\ UNCHANGED <<entries, held, g_registry_lock, local, world, claims, setup>>

Drain(t) ==
    /\ pc[t] = "drain" /\ io_lock[slot[t]] = None
    /\ io_lock' = [io_lock EXCEPT ![slot[t]] = t]
    /\ Goto(t, "close")
    /\ UNCHANGED <<entries, held, g_registry_lock, local, world, claims, setup>>

\* Interface released, handle and context closed, io_lock dropped.  The
\* kernel driver is deliberately not given back.
CloseDevice(t) ==
    /\ pc[t] = "close"
    /\ held' = [held EXCEPT ![slot[t]] = @ \ {"iface", "handle", "ctx"}]
    /\ entries' = [entries EXCEPT ![slot[t]].handle = None]
    /\ io_lock' = [io_lock EXCEPT ![slot[t]] = None]
    /\ Goto(t, "destroy")
    /\ UNCHANGED <<g_registry_lock, local, world, claims, setup>>

DestroyLocks(t) ==
    /\ pc[t] = "destroy"
    /\ held' = [held EXCEPT ![slot[t]] = @ \ {"css_cv", "css_mtx", "io_lock"}]
    /\ Goto(t, "free_slot")
    /\ UNCHANGED <<entries, g_registry_lock, io_lock, local, world, claims, setup>>

FreeSlot(t) ==
    /\ pc[t] = "free_slot"
    /\ ReleaseSlot(slot[t])
    /\ UnlockReturn(t)
    /\ UNCHANGED <<held, world, claims>>

----------------------------------------------------------------------------
(* laser_scsi_cdb(), seen from the registry: a lookup, the check before    *)
(* io_lock, attempts under io_lock with the cancellation honoured between  *)
(* them.  Called by any thread while some consumer holds the token.        *)

CommandCall(t, k) ==
    /\ pc[t] = "idle" /\ holders[k] # {}
    /\ \E s \in Lookup(k) : slot' = [slot EXCEPT ![t] = s]
    /\ tok' = [tok EXCEPT ![t] = k]
    /\ Goto(t, "cmd_check")
    /\ UNCHANGED <<entries, held, g_registry_lock, io_lock, world, claims, setup>>

CommandCheck(t) ==
    /\ pc[t] = "cmd_check"
    /\ IF entries[slot[t]].cancelled
       THEN Return(t)
       ELSE Goto(t, "cmd_queue") /\ UNCHANGED <<local, setup>>
    /\ UNCHANGED <<entries, held, g_registry_lock, io_lock, world, claims>>

\* A zeroed mutex is an unlocked one: past release_slot() this still locks.
CommandLock(t) ==
    /\ pc[t] = "cmd_queue" /\ io_lock[slot[t]] = None
    /\ io_lock' = [io_lock EXCEPT ![slot[t]] = t]
    /\ Goto(t, "cmd_attempt")
    /\ UNCHANGED <<entries, held, g_registry_lock, local, world, claims, setup>>

CommandCancelled(t) ==
    /\ pc[t] = "cmd_attempt" /\ entries[slot[t]].cancelled
    /\ io_lock' = [io_lock EXCEPT ![slot[t]] = None]
    /\ Return(t)
    /\ UNCHANGED <<entries, held, g_registry_lock, world, claims>>

\* Mutant: the flag is not looked at between attempts.
CommandSendAnyway(t) ==
    /\ pc[t] = "cmd_attempt"
    /\ Goto(t, "cmd_xfer")
    /\ UNCHANGED <<entries, held, g_registry_lock, io_lock, local, world, claims, setup>>

CommandSend(t) ==
    /\ pc[t] = "cmd_attempt" /\ ~entries[slot[t]].cancelled
    /\ Goto(t, "cmd_xfer")
    /\ UNCHANGED <<entries, held, g_registry_lock, io_lock, local, world, claims, setup>>

\* The transaction ends: the command is over, or is tried again.
CommandDone(t) ==
    /\ pc[t] = "cmd_xfer"
    /\ \/ Goto(t, "cmd_attempt") /\ UNCHANGED <<io_lock, local, setup>>
       \/ Return(t) /\ io_lock' = [io_lock EXCEPT ![slot[t]] = None]
    /\ UNCHANGED <<entries, held, g_registry_lock, world, claims>>

----------------------------------------------------------------------------
(* The application closes an fd, or the system reuses its number for       *)
(* another device.  A claim may have been leaked: nothing here looks at    *)
(* holders, only at calls in progress on that fd.                          *)
Recycle(k, d) ==
    /\ \A t \in Threads : pc[t] = "idle" \/ tok[t] # k
    /\ d # fdDevice[k]
    /\ fdDevice' = [fdDevice EXCEPT ![k] = d] /\ OwnDevice(fdDevice')
    /\ UNCHANGED <<entries, held, g_registry_lock, io_lock, pc, local, driver, claims, setup>>

Acquire(t) ==
    \/ AcquireRefused(t) \/ AcquireFound(t) \/ AcquireAbsent(t)
    \/ CountClaim(t) \/ AcquireFailed(t)

Register(t) ==
    \/ Reserve(t) \/ ReserveFails(t) \/ SetupStep(t) \/ Wrap(t)
    \/ FindEndpoints(t) \/ DetachKernelDriver(t) \/ ClaimInterface(t)
    \/ Probe(t) \/ Settle(t) \/ Publish(t)
    \/ UndoStep(t) \/ UndoHandle(t) \/ UndoSlot(t)

Release(t) ==
    \/ ReleaseIgnored(t) \/ ReleaseDrop(t) \/ ReleaseLast(t)
    \/ Drain(t) \/ CloseDevice(t) \/ DestroyLocks(t) \/ FreeSlot(t)

Command(t) ==
    \/ CommandCheck(t) \/ CommandLock(t) \/ CommandCancelled(t)
    \/ CommandSend(t) \/ CommandDone(t)

Call(t) ==
    \/ \E k \in Tokens : AcquireCall(t, k) \/ ReleaseCall(t, k) \/ CommandCall(t, k)
    \/ \E k \in StrayTokens : StrayReleaseCall(t, k)

Step(t) == LockRegistry(t) \/ Acquire(t) \/ Register(t) \/ Release(t) \/ Command(t)

Next ==
    \/ \E t \in Threads : Call(t) \/ Step(t)
    \/ \E k \in Tokens, d \in Devices \cup {None} : Recycle(k, d)

Spec == Init /\ [][Next]_vars

(***************************************************************************)
(* A thread inside the library keeps running: every libusb call carries a  *)
(* timeout.  Nothing is assumed of the mutexes' fairness, nor that a       *)
(* consumer ever calls again.                                              *)
(***************************************************************************)
FairSpec == Spec /\ \A t \in Threads : WF_vars(Step(t))

----------------------------------------------------------------------------
(* Properties. *)

(***************************************************************************)
(* The promise of laser_acquire(): a consumer told LASER_OK finds, until   *)
(* it calls laser_release(), a published entry that is not cancelled, is   *)
(* counted for it and holds every resource - whatever the other consumers  *)
(* acquire, release or fail to register meanwhile (laser.h, laser_release: *)
(* torn down only when the last claim is released).                        *)
(***************************************************************************)
HeldClaimKeepsDevice ==
    \A k \in Tokens : holders[k] # {} =>
        \E s \in Lookup(k) :
            /\ ~entries[s].cancelled
            /\ entries[s].refs >= Cardinality(holders[k])
            /\ held[s] = Resources

(***************************************************************************)
(* Two registrations never race to one token (laser_register runs under    *)
(* g_registry_lock; reserve_slot refuses a token in use).                  *)
(***************************************************************************)
OneEntryPerToken ==
    \A r, s \in Slots :
        entries[r].in_use /\ entries[s].in_use /\ entries[r].token = entries[s].token => r = s

(***************************************************************************)
(* No transaction runs on a closed handle, nor on an entry still being set *)
(* up: teardown drains io_lock first, and a thread that gets io_lock later *)
(* sees the cancellation (teardown_entry_locked's comment).                *)
(***************************************************************************)
NoTransferOnClosedHandle ==
    \A t \in Threads : pc[t] = "cmd_xfer" => held[slot[t]] = Resources

(***************************************************************************)
(* The ladder frees exactly what its registration acquired: a rung frees   *)
(* only a resource held at that point, and a slot that is neither          *)
(* published nor under construction holds nothing.                         *)
(***************************************************************************)
UnderConstruction(s) == \E t \in Threads : slot[t] = s /\ pc[t] \in RegisterPcs

UnwindIsExact ==
    /\ \A t \in Threads :
          /\ pc[t] \in UndoPcs => Undo[pc[t]].frees \in held[slot[t]]
          /\ pc[t] = "err_handle" => "handle" \in held[slot[t]]
    /\ \A s \in Slots : ~entries[s].in_use /\ ~UnderConstruction(s) => held[s] = {}

(***************************************************************************)
(* A consumer never shares an entry with a device that is not its own: the *)
(* claim it was granted is on the device its fd named at that moment, even *)
(* if an earlier claim leaked and the fd number was reused (fd_still_ours; *)
(* an identity fstat() could not record is trusted).                       *)
(***************************************************************************)
ClaimIsOnOwnDevice ==
    \A k \in Tokens : \A t \in holders[k] : \A s \in Lookup(k) :
        entries[s].reg_id # None => claimDevice[t][k] = entries[s].reg_id

(***************************************************************************)
(* A registration that took the device from its kernel driver and then     *)
(* declined it has handed it back by the time laser_acquire() returns,     *)
(* interface released first (the attach can fail; it must have been        *)
(* possible when tried).  A driver detached by an earlier registration is  *)
(* not given back: teardown keeps it away on purpose, and the new          *)
(* registration finds nothing to detach.                                   *)
(***************************************************************************)
DetachedThenDeclinedIsHandedBack ==
    \A t \in Threads :
        pc[t] = "acq_fail" /\ setup[t].declined /\ setup[t].before # "detached"
            => driver[fdDevice[tok[t]]] # "detached"

(***************************************************************************)
(* Whoever holds g_registry_lock gives it back: a registration ends, and a *)
(* teardown gets io_lock although the command holding it keeps failing and *)
(* retrying (the cancellation stops its retries).                          *)
(***************************************************************************)
RegistryLockIsFreed ==
    \A t \in Threads : g_registry_lock = t ~> g_registry_lock # t

============================================================================
