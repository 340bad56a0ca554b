---------------------------- MODULE ScsiCommand ----------------------------
(***************************************************************************)
(* laser_scsi_cdb() of scsi.c on one registered token: the checks made     *)
(* before io_lock, then the retry loop - which answers of the drive are    *)
(* retried, free of charge or against the attempt budget, and which end    *)
(* the command - against a drive that loads, spins down, loses and swaps   *)
(* its disc, and leaves the bus.                                           *)
(*                                                                         *)
(* One attempt is one step: laser_bot_send_locked() and, after a FAIL      *)
(* status, the REQUEST SENSE that explains it.  The drive, the user and    *)
(* the other threads move between attempts.                                *)
(***************************************************************************)
EXTENDS Naturals, FiniteSets

CONSTANTS
    Threads,         \* callers of laser_scsi_cdb()
    Kinds,           \* the kinds of command they issue, of "read", "key", "out"
    MaxRetries,      \* LASER_MAX_RETRIES
    WaitPolls,       \* LASER_BECOMING_READY_MAX_WALL_MS / LASER_RETRY_DELAY_MS
    MaxEvents,       \* bound: things that happen to the drive and its disc
    None             \* no thread, no disc known

ASSUME MaxRetriesPositive == MaxRetries \in Nat \ {0}
ASSUME WaitPollsPositive == WaitPolls \in Nat \ {0}
ASSUME MaxEventsNat == MaxEvents \in Nat
ASSUME KindsKnown == Kinds \subseteq {"read", "key", "out"}
ASSUME NoneIsNothing == None \notin Threads \cup Nat

VARIABLES
    cancelled, device_gone, not_ready,  \* fields of the entry
    io_lock,                            \* the thread holding it, or None
    css_open,                           \* is a CSS session open (by anyone)?
    pc,                                 \* per thread
    kind,                               \* per thread, the command it issues
    run,                                \* locals and history of the retry loop
    drive,                              \* the drive's own state
    events,                             \* what has happened to it so far
    knownDisc,                          \* history: the disc consumers know of
    swallowed                           \* history: 06/28/00s they never heard
                                        \* of, "free" retries or "lost" senses

vars == <<cancelled, device_gone, not_ready, io_lock, css_open, pc, kind, run,
          drive, events, knownDisc, swallowed>>
flags == <<cancelled, device_gone, not_ready>>
heard == <<knownDisc, swallowed>>
outside == <<css_open, drive, events, heard>>

----------------------------------------------------------------------------
(* laser_cdb_changes_css_state(): "key".  A data-out command that changes  *)
(* no key state ("out") is not safe to send twice either.                  *)
ChangesCssState(k) == k = "key"
Idempotent(k) == ~ChangesCssState(k) /\ k # "out"

(* The sense data of a failed attempt, by the branch it takes: 02/3A,      *)
(* 06/28/00, 02/04, any other UNIT ATTENTION, the refusals, the rest.      *)
(* "none" is an attempt that left no sense to look at.                     *)
Refusal == [cp_scrambled   |-> "SCRAMBLED",
            cp_no_key      |-> "NO_KEY",
            cp_region      |-> "REGION",
            cp_other       |-> "REFUSED",
            illegal        |-> "REFUSED"]
Refusals == DOMAIN Refusal
Senses == Refusals \cup {"none", "no_medium", "changed", "becoming", "attention", "other"}

Results == {"OK", "IO", "MEDIA_GONE", "NO_DEVICE", "CANCELLED"} \cup
           {Refusal[s] : s \in Refusals}

ASSUME NoneIsNoResult == None \notin Results \cup Kinds

(* attempt is the number of the attempt to come; waited counts the polls   *)
(* since becoming_ready_since.  The last five fields are history: CBWs the *)
(* drive received, free retries after 06/28/00, whether it was ever seen   *)
(* becoming ready, not_ready as the command found it, and the disc it was  *)
(* executed on.                                                            *)
NewRun(stale) ==
    [result |-> None, attempt |-> 1, cbw_never_sent |-> 0,
     becoming_ready |-> FALSE, waited |-> 0, last_sense |-> "none",
     delivered |-> 0, free |-> 0, spun |-> FALSE,
     stale |-> stale, disc |-> None]

Run == [result: Results \cup {None}, attempt: 1 .. MaxRetries,
        cbw_never_sent: 0 .. MaxRetries,
        becoming_ready: BOOLEAN, waited: 0 .. WaitPolls, last_sense: Senses,
        delivered: Nat, free: Nat, spun: BOOLEAN,
        stale: BOOLEAN, disc: Nat \cup {None}]

(* "loading" a disc just inserted, "waking" with the disc it had: 02/04    *)
(* either way.                                                             *)
DriveStates == {"ready", "loading", "waking", "empty"}

TypeOK ==
    /\ cancelled \in BOOLEAN /\ device_gone \in BOOLEAN /\ not_ready \in BOOLEAN
    /\ io_lock \in Threads \cup {None}
    /\ css_open \in BOOLEAN
    /\ pc \in [Threads -> {"idle", "check", "queue", "loop"}]
    /\ kind \in [Threads -> Kinds \cup {None}]
    /\ run \in Run
    /\ drive \in [state: DriveStates, plugged: BOOLEAN,
                  attention: SUBSET {"changed", "attention"}, disc: Nat]
    /\ events \in 0 .. MaxEvents
    /\ knownDisc \in Nat \cup {None}
    /\ swallowed \subseteq {"free", "lost"}

(* Registration has just ended: not_ready tells how its wait did.          *)
Init ==
    /\ cancelled = FALSE /\ device_gone = FALSE
    /\ drive \in [state: DriveStates, plugged: {TRUE},
                  attention: {{}}, disc: {0}]
    /\ not_ready = (drive.state # "ready")
    /\ io_lock = None /\ css_open = FALSE
    /\ pc = [t \in Threads |-> "idle"]
    /\ kind = [t \in Threads |-> None]
    /\ run = NewRun(FALSE)
    /\ events = 0 /\ knownDisc = None /\ swallowed = {}

----------------------------------------------------------------------------
(* laser_scsi_cdb() before its loop.                                       *)

Goto(t, label) == pc' = [pc EXCEPT ![t] = label]

\* A state-changing key command is refused at once with no session open.
Call(t, k) ==
    /\ pc[t] = "idle" /\ (ChangesCssState(k) => css_open)
    /\ kind' = [kind EXCEPT ![t] = k]
    /\ Goto(t, "check")
    /\ UNCHANGED <<flags, io_lock, run, outside>>

\* CANCELLED or NO_DEVICE without queueing.
Refuse(t) ==
    /\ pc[t] = "check" /\ (cancelled \/ device_gone)
    /\ kind' = [kind EXCEPT ![t] = None]
    /\ Goto(t, "idle")
    /\ UNCHANGED <<flags, io_lock, run, outside>>

Queue(t) ==
    /\ pc[t] = "check" /\ ~cancelled /\ ~device_gone
    /\ Goto(t, "queue")
    /\ UNCHANGED <<flags, io_lock, kind, run, outside>>

Lock(t) ==
    /\ pc[t] = "queue" /\ io_lock = None
    /\ io_lock' = t
    /\ run' = NewRun(not_ready)
    /\ Goto(t, "loop")
    /\ UNCHANGED <<flags, kind, outside>>

----------------------------------------------------------------------------
(* The retry loop.  Running(t) is the top of the loop with an attempt      *)
(* left; the operators that follow say where a failed attempt leads.       *)

Running(t) == pc[t] = "loop" /\ run.result = None

Over(r, result) == [r EXCEPT !.result = result]

(* The verdict after the loop, over a result that is neither OK nor        *)
(* CANCELLED: a CBW that left on no attempt means the device is gone.      *)
\* Mutant: one CBW that never left condemns the device.
VerdictOfOne(r, attempts_made) == r.result # "OK" /\ r.cbw_never_sent > 0

Verdict(r, attempts_made) ==
    r.result # "OK" /\ r.cbw_never_sent = attempts_made

\* The loop ends here with this result.
Finish(r, result) ==
    IF Verdict(Over(r, result), r.attempt)
    THEN /\ run' = Over(r, "NO_DEVICE")
         /\ device_gone' = TRUE
    ELSE /\ run' = Over(r, result)
         /\ device_gone' = (device_gone \/ result = "NO_DEVICE")

\* Mutant: one attempt too many.
SpendAttemptTooMany(r) ==
    IF r.attempt <= MaxRetries
    THEN run' = [r EXCEPT !.attempt = @ + 1] /\ UNCHANGED device_gone
    ELSE Finish(r, "IO")

\* The attempt is spent: the next one, or out of the loop with ERR_IO.
SpendAttempt(r) ==
    IF r.attempt < MaxRetries
    THEN run' = [r EXCEPT !.attempt = @ + 1] /\ UNCHANGED device_gone
    ELSE Finish(r, "IO")

\* 06/28/00 with the drive known to be coming up: retried free of charge.
RetryFreely(r) ==
    /\ run' = [r EXCEPT !.becoming_ready = FALSE, !.free = @ + 1]
    /\ not_ready' = FALSE
    /\ UNCHANGED device_gone

\* Mutant: polling for as long as the drive says it is becoming ready.
AwaitReadyForever(r) ==
    /\ run' = [r EXCEPT !.becoming_ready = TRUE, !.spun = TRUE]
    /\ UNCHANGED device_gone

(* 02/04: the wait is free of charge until its ceiling, one poll or more   *)
(* of it at a time.  A later 02/04 restarts it only if becoming_ready was  *)
(* cleared in between.                                                     *)
AwaitReady(r) ==
    LET waited == IF r.becoming_ready THEN r.waited ELSE 0
        s == [r EXCEPT !.becoming_ready = TRUE, !.spun = TRUE, !.waited = waited]
    IN IF waited < WaitPolls
       THEN /\ \E w \in waited + 1 .. WaitPolls : run' = [s EXCEPT !.waited = w]
            /\ UNCHANGED device_gone
       ELSE SpendAttempt(s)

(* One failed attempt whose CBW the drive received: the branches of the    *)
(* loop body, in their order, each on the sense it is for.                 *)
NoMedium(r) ==
    /\ r.last_sense = "no_medium"
    /\ Finish(r, "MEDIA_GONE") /\ UNCHANGED not_ready

\* Mutant: a possible disc change retried like any UNIT ATTENTION.
MayHaveChangedRetried(r) ==
    /\ r.last_sense = "changed"
    /\ SpendAttempt(r) /\ UNCHANGED not_ready

MayHaveChanged(r) ==
    /\ r.last_sense = "changed"
    /\ IF r.becoming_ready \/ not_ready
       THEN RetryFreely(r)
       ELSE Finish(r, "MEDIA_GONE") /\ UNCHANGED not_ready

\* Mutant: what is not retried fails before its sense is classified.
RefusedUnlessNotRepeatable(t, r) ==
    /\ r.last_sense \in Refusals
    /\ Finish(r, IF Idempotent(kind[t]) THEN Refusal[r.last_sense] ELSE "IO")
    /\ UNCHANGED not_ready

Refused(t, r) ==
    /\ r.last_sense \in Refusals
    /\ Finish(r, Refusal[r.last_sense]) /\ UNCHANGED not_ready

\* Mutant: every command is as safe to repeat as a read.
UnexplainedRetried(t, r) ==
    /\ r.last_sense \in {"none", "becoming", "attention", "other"}
    /\ IF r.last_sense = "becoming" THEN AwaitReady(r) ELSE SpendAttempt(r)
    /\ UNCHANGED not_ready

Unexplained(t, r) ==
    /\ r.last_sense \in {"none", "becoming", "attention", "other"}
    /\ IF ~Idempotent(kind[t]) THEN Finish(r, "IO")
       ELSE IF r.last_sense = "becoming" THEN AwaitReady(r)
       ELSE SpendAttempt(r)
    /\ UNCHANGED not_ready

AfterFailure(t, r) ==
    NoMedium(r) \/ MayHaveChanged(r) \/ Refused(t, r) \/ Unexplained(t, r)

\* MEDIA_GONE tells the consumers; a free retry keeps it from them.
Hear(free) ==
    /\ knownDisc' = IF run'.result = "MEDIA_GONE" THEN None ELSE knownDisc
    /\ swallowed' = IF run'.result = "MEDIA_GONE" THEN {}
                    ELSE IF free THEN swallowed \cup {"free"} ELSE swallowed

\* Mutant: a return from inside the loop, io_lock still held.
LoopCancelledReturning(t) ==
    /\ Running(t) /\ cancelled
    /\ run' = NewRun(FALSE)
    /\ kind' = [kind EXCEPT ![t] = None]
    /\ Goto(t, "idle")
    /\ UNCHANGED <<flags, io_lock, outside>>

LoopCancelled(t) ==
    /\ Running(t) /\ cancelled
    /\ run' = Over(run, "CANCELLED")
    /\ UNCHANGED <<flags, io_lock, pc, kind, outside>>

Attempting(t) == Running(t) /\ ~cancelled
Received == [run EXCEPT !.delivered = @ + 1, !.last_sense = "none"]

\* BOT_FAIL_NOT_SENT: a bad moment of the bus, or a device already gone
\* that libusb does not call gone.  Safe to repeat for every command.
AttemptNotSent(t) ==
    /\ Attempting(t)
    /\ SpendAttempt([run EXCEPT !.cbw_never_sent = @ + 1, !.last_sense = "none"])
    /\ UNCHANGED <<cancelled, not_ready, io_lock, pc, kind, outside>>

AttemptNoDevice(t) ==
    /\ Attempting(t) /\ ~drive.plugged
    /\ Finish(run, "NO_DEVICE")
    /\ UNCHANGED <<cancelled, not_ready, io_lock, pc, kind, outside>>

\* BOT_FAIL_PHASE_ERROR, or a failure whose sense could not be read: no
\* sense to classify.  A Reset Recovery can raise an attention of its own;
\* a lost REQUEST SENSE answer can take one with it.
AttemptUnexplained(t) ==
    /\ Attempting(t) /\ drive.plugged
    /\ AfterFailure(t, Received)
    /\ \E a \in SUBSET drive.attention :
          /\ drive' = [drive EXCEPT !.attention = a]
          /\ swallowed' = IF "changed" \in drive.attention \ a
                          THEN swallowed \cup {"lost"} ELSE swallowed
    /\ UNCHANGED <<cancelled, io_lock, pc, kind, css_open, events, knownDisc>>

\* The drive reports a pending UNIT ATTENTION instead of executing.
AttemptAttention(t) ==
    /\ Attempting(t) /\ drive.plugged
    /\ \E a \in drive.attention :
          /\ AfterFailure(t, [Received EXCEPT !.last_sense = a])
          /\ drive' = [drive EXCEPT !.attention = @ \ {a}]
    /\ Hear(run'.free > run.free)
    /\ UNCHANGED <<cancelled, io_lock, pc, kind, css_open, events>>

AttemptNotReady(t) ==
    /\ Attempting(t) /\ drive.plugged /\ drive.attention = {} /\ drive.state # "ready"
    /\ AfterFailure(t, [Received EXCEPT !.last_sense =
                           IF drive.state = "empty" THEN "no_medium" ELSE "becoming"])
    /\ Hear(FALSE)
    /\ UNCHANGED <<cancelled, io_lock, pc, kind, css_open, drive, events>>

\* A ready drive refuses the command, or fails it (03/xx...).
AttemptRefused(t) ==
    /\ Attempting(t) /\ drive.plugged /\ drive.attention = {} /\ drive.state = "ready"
    /\ \E s \in Refusals \cup {"other"} : AfterFailure(t, [Received EXCEPT !.last_sense = s])
    /\ UNCHANGED <<cancelled, io_lock, pc, kind, outside>>

AttemptOK(t) ==
    /\ Attempting(t) /\ drive.plugged /\ drive.attention = {} /\ drive.state = "ready"
    /\ run' = [Over(Received, "OK") EXCEPT !.disc = drive.disc]
    /\ UNCHANGED <<flags, io_lock, pc, kind, outside>>

\* io_lock dropped; a successful read has told its consumer of the disc.
Unlock(t) ==
    /\ pc[t] = "loop" /\ run.result # None
    /\ io_lock' = None
    /\ IF run.result = "OK" /\ kind[t] = "read"
       THEN knownDisc' = run.disc /\ swallowed' = {}
       ELSE UNCHANGED heard
    /\ run' = NewRun(FALSE)
    /\ kind' = [kind EXCEPT ![t] = None]
    /\ Goto(t, "idle")
    /\ UNCHANGED <<flags, css_open, drive, events>>

----------------------------------------------------------------------------
(* laser_disc_identify() up to its probes: nothing when the token is       *)
(* already not_ready; else laser_token_settle(), whose                     *)
(* laser_wait_until_ready() holds io_lock throughout, consumes the         *)
(* attentions it meets and leaves not_ready raised if it runs out.  The    *)
(* consumer then reads a disc it takes for new.                            *)
SettleBeforeIdentify ==
    /\ io_lock = None /\ ~not_ready /\ ~device_gone /\ ~cancelled /\ drive.plugged
    /\ IF drive.state = "ready"
       THEN /\ drive' = [drive EXCEPT !.attention = {}]
            /\ UNCHANGED not_ready
       ELSE /\ \E a \in SUBSET drive.attention : drive' = [drive EXCEPT !.attention = a]
            /\ not_ready' = TRUE
    /\ knownDisc' = None /\ swallowed' = {}
    /\ UNCHANGED <<cancelled, device_gone, io_lock, css_open, pc, kind, run, events>>

\* laser_release() of the last claim, from another thread.
LastRelease ==
    /\ ~cancelled /\ cancelled' = TRUE
    /\ UNCHANGED <<device_gone, not_ready, io_lock, pc, kind, run, outside>>

\* laser_css_session_begin() or _end() of some consumer.
ToggleSession ==
    /\ css_open' = ~css_open
    /\ UNCHANGED <<flags, io_lock, pc, kind, run, drive, events, heard>>

----------------------------------------------------------------------------
(* The drive.  A new disc coming up raises 06/28/00; a drive that wakes    *)
(* with the disc it had may do so or not.                                  *)

DriveEvent(next) ==
    /\ drive.plugged /\ events < MaxEvents
    /\ events' = events + 1
    /\ drive' = next
    /\ UNCHANGED <<flags, io_lock, css_open, pc, kind, run, heard>>

Eject  == drive.state # "empty" /\ DriveEvent([drive EXCEPT !.state = "empty"])
Insert == /\ drive.state = "empty"
          /\ DriveEvent([drive EXCEPT !.state = "loading", !.disc = @ + 1])
SpinDown == drive.state = "ready" /\ DriveEvent([drive EXCEPT !.state = "waking"])
RaiseAttention == DriveEvent([drive EXCEPT !.attention = @ \cup {"attention"}])
Unplug == DriveEvent([drive EXCEPT !.plugged = FALSE])

Loaded ==
    /\ drive.plugged /\ drive.state \in {"loading", "waking"}
    /\ \E a \in {{}, {"changed"}} :
          /\ drive.state = "loading" => a # {}
          /\ drive' = [drive EXCEPT !.state = "ready", !.attention = @ \cup a]
    /\ UNCHANGED <<flags, io_lock, css_open, pc, kind, run, events, heard>>

Loop(t) ==
    \/ LoopCancelled(t) \/ AttemptNotSent(t) \/ AttemptNoDevice(t)
    \/ AttemptUnexplained(t) \/ AttemptAttention(t) \/ AttemptNotReady(t)
    \/ AttemptRefused(t) \/ AttemptOK(t) \/ Unlock(t)

Step(t) == Refuse(t) \/ Queue(t) \/ Lock(t) \/ Loop(t)

Environment ==
    \/ LastRelease \/ ToggleSession \/ SettleBeforeIdentify
    \/ Eject \/ Insert \/ SpinDown \/ RaiseAttention \/ Unplug \/ Loaded

Next ==
    \/ \E t \in Threads : Step(t) \/ \E k \in Kinds : Call(t, k)
    \/ Environment

Spec == Init /\ [][Next]_vars

\* Every transaction ends within its USB timeouts, so a loop keeps going
\* round.  The drive need not ever load, nor anybody call.
FairSpec == Spec /\ \A t \in Threads : WF_vars(Loop(t))

----------------------------------------------------------------------------
(* Properties. *)

Ended(result) == run.result = result

(***************************************************************************)
(* A command that is not safe to repeat reaches the drive at most once,    *)
(* but for the free retry after 06/28/00 that a stale not_ready allows.    *)
(***************************************************************************)
NotRepeated ==
    \A t \in Threads : pc[t] = "loop" /\ ~Idempotent(kind[t]) =>
        run.delivered <= IF run.stale THEN 2 ELSE 1

(***************************************************************************)
(* The free rounds cannot stretch a command at will: each free retry after *)
(* 06/28/00 needs an event of the drive of its own, so what is delivered   *)
(* is bounded by the budget, the polls of one wait, and those events.      *)
(***************************************************************************)
DeliveriesAreBounded ==
    run.delivered <= MaxRetries + run.free + WaitPolls * (run.free + 1)

(***************************************************************************)
(* A refusal reaches the caller as what the drive said, for a command that *)
(* is not retried as for a read: the sense is classified before the        *)
(* non-idempotent case gives up with a bare ERR_IO, and the verdict on     *)
(* unsent CBWs never covers it.                                            *)
(***************************************************************************)
RefusalIsExplained ==
    /\ run.result # None /\ run.last_sense \in Refusals
        => run.result \in {Refusal[run.last_sense], "CANCELLED"}
    /\ run.result \in {Refusal[s] : s \in Refusals} => run.last_sense \in Refusals

(***************************************************************************)
(* A disc swapped since the consumers last heard of one is reported before *)
(* anything is read from the new disc, whichever commands of whichever     *)
(* threads meet the drive in between - unless one of them retried the      *)
(* 06/28/00 free of charge, or lost its sense on the bus.                  *)
(***************************************************************************)
StrangeDiscRead ==
    \E t \in Threads :
        /\ pc[t] = "loop" /\ kind[t] = "read" /\ Ended("OK")
        /\ knownDisc \notin {None, run.disc}

SwapIsReported == StrangeDiscRead => swallowed # {}

(***************************************************************************)
(* laser.h, LASER_ERR_MEDIA_GONE: a disc "gone or has been swapped: sense  *)
(* MEDIUM NOT PRESENT or MEDIUM MAY HAVE CHANGED. Never retried            *)
(* internally." - so no read returns the data of another disc first (a     *)
(* sense lost on the bus excepted: nothing was reported to the host).      *)
(***************************************************************************)
SwapIsAlwaysReported == StrangeDiscRead => "lost" \in swallowed

(***************************************************************************)
(* A device that answered this command is not declared gone by the count   *)
(* of unsent CBWs, unless what it answered was a free round.               *)
(***************************************************************************)
DeclaredGone == Ended("NO_DEVICE") /\ drive.plugged

AnsweringDeviceIsNotGone ==
    DeclaredGone => run.delivered = 0 \/ run.spun \/ run.free > 0

(***************************************************************************)
(* Whoever gets io_lock gives it back, the media events being finite.      *)
(***************************************************************************)
IoLockIsFreed == \A t \in Threads : io_lock = t ~> io_lock # t

============================================================================
