------------------------------- MODULE SpinUp -------------------------------
(***************************************************************************)
(* The drive as START STOP UNIT and TEST UNIT READY see it, and the wait   *)
(* for its medium: spin_up_locked(), laser_wait_until_ready() and the      *)
(* first half of laser_token_settle(), scsi.c.  The user's hand and the    *)
(* mechanism move between any two commands.                                *)
(*                                                                         *)
(* Time is counted in units of LASER_SPINUP_DELAY_MS.  A command answered  *)
(* takes none worth counting, one the drive is silent on its time-outs;    *)
(* START STOP UNIT without IMMED may block either way.                     *)
(***************************************************************************)
EXTENDS Naturals, FiniteSets

CONSTANTS
    Threads,            \* consumers of the token
    Registrar,          \* the thread in laser_register()
    Drives,             \* <<machine, disc>>: devices plugged in, a disc in them
    Discs,              \* the discs that may be put in later
    SpinUpMax,          \* LASER_SPINUP_MAX_WALL_MS
    BecomingMax,        \* LASER_BECOMING_READY_MAX_WALL_MS
    NoMediumMax,        \* LASER_NO_MEDIUM_MAX_WALL_MS
    TimeOut,            \* the phase time-outs of a command unanswered
    MaxUnitAttentions,  \* LASER_SPINUP_MAX_UNIT_ATTENTIONS
    MaxEvents,          \* bound: what the user and the bus do
    None

ASSUME CeilingsOrdered ==
    /\ {SpinUpMax, BecomingMax, NoMediumMax, TimeOut, MaxUnitAttentions, MaxEvents} \subseteq Nat
    /\ NoMediumMax <= SpinUpMax /\ SpinUpMax <= BecomingMax
ASSUME RegistrarIsNoConsumer == {Registrar, None, "free", "lost"} \cap Threads = {}

VARIABLES
    machine,        \* what is plugged in: interfaces, units, firmware
    drive,          \* its mechanism, its disc, what it has to report
    not_ready,      \* fields of the entry
    cancelled,
    device_gone,
    wait,           \* the wait in progress, which holds io_lock, or None
    events,         \* what the user and the bus have done so far
    heard           \* history: <<d, who>> consumed the report of disc d

unit == <<machine, drive, not_ready, cancelled, device_gone, wait, events, heard>>

IoFree == wait = None

-----------------------------------------------------------------------------
(* The mechanism.  "parked": a disc that no one has asked it to load, and   *)
(* that it answers 02/3A about; "loading" one it has not announced yet,    *)
(* "waking" one it has.                                                    *)

Machines == {d[1] : d \in Drives}
Contents == {d[2] : d \in Drives} \cup Discs \cup {None}

Mechanisms == {"ready", "loading", "waking", "parked", "empty", "open"}
Attentions == {"changed", "reset"}
Shapes == {"immed", "plain", "loej"}

\* What firmware says to a shape of START STOP UNIT it does not take.
Refusals(firmware) ==
    CASE firmware = "full"       -> [s \in {} |-> "own"]
      [] firmware = "no_opcode"  -> [s \in Shapes |-> "opcode"]
      [] firmware = "no_immed"   -> [s \in {"immed", "loej"} |-> "field"]
      [] firmware = "no_loej"    -> [s \in {"loej"} |-> "field"]
      [] firmware = "loads_only" -> [s \in {"immed", "plain"} |-> "own"]
Firmwares == {"full", "no_opcode", "no_immed", "no_loej", "loads_only"}

ASSUME FirmwaresKnown == \A m \in Machines : m.firmware \in Firmwares

Takes(firmware, shape) == shape \notin DOMAIN Refusals(firmware)

\* A disc comes into a closed drive: its number tells it from earlier ones.
Inserted(disc) ==
    [drive EXCEPT !.disc = @ + 1, !.content = disc,
                  !.mech = IF disc = None THEN "empty" ELSE "loading"]

\* The report of a change is consumed by who: "free" is a free retry, "lost" one
\* whose sense data never came back.  Of interest only for a disc put in since
\* the device is registered.
Swaps == (1 .. MaxEvents + 1) \X (Threads \cup {"free", "lost"})
Consumed(attention, who) ==
    IF attention = "changed" THEN heard \cup ({<<drive.disc, who>>} \cap Swaps) ELSE heard

\* An attention is the answer; or the bus loses its sense data.
Reported(who, sense) ==
    /\ drive.plugged
    /\ \E a \in drive.attention :
          /\ drive' = [drive EXCEPT !.attention = @ \ {a}]
          /\ \/ sense = "attention" /\ heard' = Consumed(a, who) /\ UNCHANGED events
             \/ /\ sense = "none" /\ heard' = Consumed(a, "lost")
                /\ events < MaxEvents /\ events' = events + 1

(* START STOP UNIT in one shape: the sense that comes of it, and the drive
   afterwards.  LOEJ closes an open tray over whatever lies in it. *)
StartStopUnit(shape, sense) ==
    \/ ~drive.plugged /\ sense = "none" /\ UNCHANGED <<drive, events, heard>>
    \/ Reported(wait.by, sense)
    \/ /\ drive.plugged /\ drive.attention = {} /\ ~Takes(machine.firmware, shape)
       /\ sense = Refusals(machine.firmware)[shape]
       /\ UNCHANGED <<drive, events, heard>>
    \/ /\ drive.plugged /\ drive.attention = {} /\ Takes(machine.firmware, shape)
       /\ CASE drive.mech = "ready" -> sense = "pass" /\ UNCHANGED drive
            [] drive.mech = "empty" -> sense \in {"pass", "own"} /\ UNCHANGED drive
            [] drive.mech \in {"loading", "waking"} ->
                  sense \in {"pass", "becoming"} /\ UNCHANGED drive
            [] drive.mech = "parked" ->
                  sense = "pass" /\ drive' = [drive EXCEPT !.mech = "waking"]
            [] drive.mech = "open" /\ shape = "loej" ->
                  /\ sense = "pass"
                  /\ \E disc \in Discs \cup {None} : drive' = Inserted(disc)
            [] drive.mech = "open" /\ shape # "loej" -> sense = "own" /\ UNCHANGED drive
       /\ UNCHANGED <<events, heard>>
    \/ /\ drive.plugged /\ events < MaxEvents /\ events' = events + 1
       /\ sense = "none" /\ UNCHANGED <<drive, heard>>

(* TEST UNIT READY and the REQUEST SENSE after a failure. *)
TestUnitReady(who, sense) ==
    \/ ~drive.plugged /\ sense = "gone" /\ UNCHANGED <<drive, events, heard>>
    \/ Reported(who, sense)
    \/ /\ drive.plugged /\ drive.attention = {}
       /\ sense = CASE drive.mech = "ready"                -> "pass"
                    [] drive.mech \in {"loading", "waking"} -> "becoming"
                    [] drive.mech \in {"parked", "empty"}   -> "no_medium"
                    [] drive.mech = "open"                 -> "tray_open"
       /\ UNCHANGED <<drive, events, heard>>
    \/ /\ drive.plugged /\ events < MaxEvents /\ events' = events + 1
       /\ sense = "none" /\ UNCHANGED <<drive, heard>>

-----------------------------------------------------------------------------
(* laser_wait_until_ready(), under io_lock from end to end. *)

CommandTime(shape, sense) ==
    IF sense = "none" THEN {TimeOut} ELSE IF shape = "plain" THEN {0, TimeOut} ELSE {0}
Sleep == 1

\* asked is no_medium_since; met and since are history: the attentions that
\* answered START STOP UNIT, and events when the wait began.
NewWait(who, queued) ==
    [by |-> who, pc |-> "start", elapsed |-> queued, asked |-> 0,
     becoming |-> FALSE, uas |-> 0, met |-> 0, since |-> events]

WaitRecord ==
    [by : Threads \cup {Registrar}, pc : {"start", "again", "plain", "loej", "poll"},
     elapsed : Nat, asked : Nat, becoming : BOOLEAN,
     uas : 0 .. MaxUnitAttentions, met : 0 .. 4, since : 0 .. MaxEvents]

ASSUME NoneIsNoWait == None \notin WaitRecord

\* The clock of the whole wait starts before io_lock is taken: queued is the
\* time spent behind the waits of other consumers.
BeginWait(who) ==
    /\ IoFree
    /\ \E queued \in (IF who = Registrar THEN {0} ELSE {0, SpinUpMax}) :
          wait' = NewWait(who, queued)
    /\ UNCHANGED <<machine, drive, not_ready, cancelled, device_gone, events, heard>>

\* Mutant: a field refused gets LOEJ like everything else.
NextShapeMutant(at, sense) ==
    CASE at \in {"plain", "loej"} \/ sense \in {"pass", "opcode", "becoming"} -> "poll"
      [] at = "start" /\ sense = "attention"                                  -> "again"
      [] OTHER                                                                -> "loej"
(* The ladder of spin_up_locked(): where the answer to one shape leads. *)
NextShape(at, sense) ==
    CASE at \in {"plain", "loej"} \/ sense \in {"pass", "opcode", "becoming"} -> "poll"
      [] at = "start" /\ sense = "attention"                                  -> "again"
      [] at \in {"start", "again"} /\ sense = "field"                         -> "plain"
      [] OTHER                                                                -> "loej"

ShapeAt(pc) == CASE pc \in {"start", "again"} -> "immed"
                 [] pc = "plain"              -> "plain"
                 [] pc = "loej"               -> "loej"

\* Below the last rung the clock of the missing medium is started.
AfterRung(sense, took) ==
    LET next == NextShape(wait.pc, sense)
        now  == wait.elapsed + took
    IN  [wait EXCEPT !.pc = next, !.elapsed = now,
                     !.asked = IF next = "poll" THEN now ELSE @,
                     !.met = IF sense = "attention" THEN @ + 1 ELSE @]

SpinUpSenses == {"pass", "attention", "opcode", "field", "becoming", "own", "none"}

\* One rung.  Below the last one not_ready is raised.
SpinUpStep ==
    /\ wait # None /\ wait.pc # "poll"
    /\ \E sense \in SpinUpSenses, took \in {0, TimeOut} :
          /\ took \in CommandTime(ShapeAt(wait.pc), sense)
          /\ StartStopUnit(ShapeAt(wait.pc), sense)
          /\ wait' = AfterRung(sense, took)
          /\ not_ready' = (not_ready \/ NextShape(wait.pc, sense) = "poll")
    /\ UNCHANGED <<machine, cancelled, device_gone>>

\* Out of the wait, and into io_lock being free.
WaitEnds == wait' = None

GoRound(now, slept) == wait' = [wait EXCEPT !.elapsed = now + slept]

\* Mutant: a missing medium is polled for without a ceiling.
NoMediumYetMutant(now) == GoRound(now, Sleep)
\* 02/3A with the tray closed: under its own ceiling alone.
NoMediumYet(now) ==
    IF now - wait.asked >= NoMediumMax THEN WaitEnds ELSE GoRound(now, Sleep)

\* Everything else: under the ceiling of the whole wait, raised for good by
\* the first "becoming ready".
NotReadyYet(now, w) ==
    IF now >= (IF w.becoming THEN BecomingMax ELSE SpinUpMax)
    THEN WaitEnds
    ELSE wait' = [w EXCEPT !.elapsed = now + Sleep]

\* A UNIT ATTENTION is polled again at once, past the ceilings, so many times.
UnitAttention(now, w) ==
    IF w.uas <= MaxUnitAttentions
    THEN wait' = [w EXCEPT !.elapsed = now]
    ELSE NotReadyYet(now, [w EXCEPT !.uas = MaxUnitAttentions])

\* One poll: a TEST UNIT READY, its sense, and the sleep if it goes round.
Poll ==
    /\ wait # None /\ wait.pc = "poll"
    /\ \E sense \in {"pass", "gone", "attention", "becoming", "no_medium", "tray_open", "none"},
          took \in {0, TimeOut} :
          /\ took \in CommandTime("poll", sense)
          /\ TestUnitReady(wait.by, sense)
          /\ LET now == wait.elapsed + took
             IN  CASE sense \in {"pass", "gone", "tray_open"} -> WaitEnds
                   [] sense = "no_medium" -> NoMediumYet(now)
                   [] sense = "attention" -> UnitAttention(now, [wait EXCEPT !.uas = @ + 1])
                   [] sense = "becoming"  -> NotReadyYet(now, [wait EXCEPT !.becoming = TRUE])
                   [] sense = "none"      -> NotReadyYet(now, wait)
          /\ not_ready' = (sense # "pass")
    /\ UNCHANGED <<machine, cancelled, device_gone>>

WaitStep == SpinUpStep \/ Poll

-----------------------------------------------------------------------------
(* The user and the mechanism. *)

Event(d) ==
    /\ drive.plugged /\ events < MaxEvents
    /\ events' = events + 1
    /\ drive' = d
    /\ UNCHANGED <<machine, not_ready, cancelled, device_gone, wait, heard>>

Opens  == drive.mech # "open" /\ Event([drive EXCEPT !.mech = "open", !.content = None])
Parks  == drive.mech = "ready" /\ Event([drive EXCEPT !.mech = "parked"])
Resets == Event([drive EXCEPT !.attention = @ \cup {"reset"}])
Unplugs == Event([drive EXCEPT !.plugged = FALSE, !.attention = {}])

\* The tray closed again by hand, over a disc or nothing.
Closes ==
    /\ drive.plugged /\ drive.mech = "open"
    /\ \E disc \in Discs \cup {None} : drive' = Inserted(disc)
    /\ UNCHANGED <<machine, not_ready, cancelled, device_gone, wait, events, heard>>

\* A new disc is announced; one already announced may be, again.
Loads ==
    /\ drive.plugged /\ drive.mech \in {"loading", "waking"}
    /\ \E a \in {{}, {"changed"}} :
          /\ drive.mech = "loading" => a # {}
          /\ drive' = [drive EXCEPT !.mech = "ready", !.attention = @ \cup a]
    /\ UNCHANGED <<machine, not_ready, cancelled, device_gone, wait, events, heard>>

\* laser_release() of the last claim.  It then queues on io_lock.
LastRelease ==
    /\ ~cancelled /\ cancelled' = TRUE
    /\ UNCHANGED <<machine, drive, not_ready, device_gone, wait, events, heard>>

Environment == Opens \/ Parks \/ Resets \/ Unplugs \/ Closes \/ Loads

-----------------------------------------------------------------------------
UnitTypeOK ==
    /\ machine \in Machines
    /\ drive \in [plugged : BOOLEAN, mech : Mechanisms, content : Contents,
                  disc : 0 .. MaxEvents + 1, attention : SUBSET Attentions]
    /\ not_ready \in BOOLEAN /\ cancelled \in BOOLEAN /\ device_gone \in BOOLEAN
    /\ wait = None \/ wait \in WaitRecord
    /\ events \in 0 .. MaxEvents
    /\ heard \subseteq Swaps

=============================================================================
