---------------------------- MODULE BotTransport ----------------------------
(***************************************************************************)
(* laser_bot_send_locked() of bot.c: one Bulk-Only transaction after the   *)
(* other - CBW, data phase, CSW - against a device that answers late,      *)
(* short, or not at all, stalls, sends a CSW nobody collected, and may not *)
(* implement the Mass Storage Reset.  Transactions are sequential: the     *)
(* caller holds io_lock.                                                   *)
(*                                                                         *)
(* Data is counted in units of the 13 bytes of a CSW, so that a CSW read   *)
(* as data counts as one unit of it; no command of the library asks for    *)
(* exactly 13 bytes.  What the host has not yet read waits in inPipe,      *)
(* oldest first: a CSW left there by one command is what the next command  *)
(* reads, as data or as its status.                                        *)
(***************************************************************************)
EXTENDS Integers, Sequences

CONSTANTS
    Lens,        \* the data lengths commands ask for
    MaxTags,     \* bound: transactions (dCBWTag is 32 bits, and never wraps
                 \* in the life of a registration)
    None         \* no code returned yet

ASSUME LensOk == Lens \subseteq Nat \ {1} /\ \E n \in Lens : \A m \in Lens : m <= n
ASSUME MaxTagsNat == MaxTags \in Nat
ASSUME NoneIsNoCode == None \notin {"OK", "FAILED", "NOT_SENT", "NO_DEVICE", "PHASE_ERROR"}

VARIABLES
    tag,      \* entry->tag
    host,     \* the transaction in progress
    rc,       \* what the last one returned, with *csw_status and *actual_len
    device,   \* the device's BOT state machine
    obeys,    \* does it implement the Mass Storage Reset?  (It never changes.)
    cbw,      \* the CBW in the device's Bulk-Out buffer, if any
    inPipe,   \* packets on their way to the host
    halted,   \* is the Bulk-In endpoint stalled, once inPipe is read?
    executed  \* history: per tag, the units of data its execution sent

vars == <<tag, host, rc, device, obeys, cbw, inPipe, halted, executed>>
dev == <<device, obeys, cbw, inPipe, halted>>

----------------------------------------------------------------------------
MaxLen == CHOOSE n \in Lens : \A m \in Lens : m <= n
Directions == {"in", "out"}
Codes == {"OK", "FAILED", "NOT_SENT", "NO_DEVICE", "PHASE_ERROR"}

Packet == [kind: {"data", "short"}, tag: Nat]
          \cup [kind: {"csw"}, tag: Nat, status: {"pass", "fail", "phase"}, residue: Nat]

Cbw == [tag: Nat, len: 0 .. MaxLen, dir: Directions]

(* got counts the units the data phase moved, of which own are this        *)
(* command's.                                                              *)
Host == [pc: {"idle", "cbw", "data", "csw", "csw_again"}, len: 0 .. MaxLen,
         dir: Directions, got: 0 .. MaxLen + 1, own: 0 .. MaxLen + 1]

IdleHost == [pc |-> "idle", len |-> 0, dir |-> "in", got |-> 0, own |-> 0]
NoRc == [code |-> None, status |-> None, residue |-> 0, actual |-> 0, own |-> 0]

(* "invalid": holding part of a CBW, it stalls until a reset.              *)
Device == [mode: {"ready", "data", "status", "invalid"}, tag: Nat,
           len: 0 .. MaxLen, dir: Directions, sent: 0 .. MaxLen + 1]

ReadyDevice == [mode |-> "ready", tag |-> 0, len |-> 0, dir |-> "in", sent |-> 0]

TypeOK ==
    /\ tag \in 0 .. MaxTags
    /\ host \in Host
    /\ rc \in [code: Codes \cup {None}, status: {None, "pass", "fail", "phase"},
               residue: Nat, actual: 0 .. MaxLen + 1, own: 0 .. MaxLen + 1]
    /\ device \in Device /\ obeys \in BOOLEAN
    /\ cbw \in Seq(Cbw) /\ Len(cbw) <= 1
    /\ inPipe \in Seq(Packet)
    /\ halted \in BOOLEAN
    /\ executed \in [1 .. MaxTags -> 0 .. MaxLen + 2]

Init ==
    /\ tag = 0 /\ host = IdleHost /\ rc = NoRc
    /\ device = ReadyDevice /\ obeys \in BOOLEAN /\ cbw = <<>> /\ inPipe = <<>> /\ halted = FALSE
    /\ executed = [k \in 1 .. MaxTags |-> 0]

----------------------------------------------------------------------------
(* Shared steps of the host. *)

(* laser_mass_storage_reset(): best effort.  Both halts are cleared; the   *)
(* device is back at its start with its buffers empty if it obeys.         *)
ResetRecovery ==
    /\ halted' = FALSE /\ UNCHANGED obeys
    /\ \/ /\ device' = ReadyDevice /\ cbw' = <<>> /\ inPipe' = <<>>
       \/ ~obeys /\ UNCHANGED <<device, cbw, inPipe>>

Return(code, status, residue, actual) ==
    /\ host' = IdleHost
    /\ rc' = [code |-> code, status |-> status, residue |-> residue,
              actual |-> actual, own |-> host.own]
    /\ UNCHANGED <<tag, executed>>

ReturnBare(code) == Return(code, None, 0, 0)
PhaseError == ResetRecovery /\ ReturnBare("PHASE_ERROR")

Goto(label) == host' = [host EXCEPT !.pc = label]

----------------------------------------------------------------------------
(* The CBW. *)

Start(len, dir) ==
    /\ host.pc = "idle" /\ rc.code # "NO_DEVICE" /\ tag < MaxTags
    /\ tag' = tag + 1
    /\ host' = [IdleHost EXCEPT !.pc = "cbw", !.len = len, !.dir = dir]
    /\ rc' = NoRc
    /\ UNCHANGED <<dev, executed>>

\* All 31 bytes went out, in time or not: into the buffer of a device that
\* may still be busy with an earlier command.
CbwSent ==
    /\ host.pc = "cbw" /\ cbw = <<>>
    /\ cbw' = <<[tag |-> tag, len |-> host.len, dir |-> host.dir]>>
    /\ Goto(IF host.len > 0 THEN "data" ELSE "csw")
    /\ UNCHANGED <<tag, rc, obeys, device, inPipe, halted, executed>>

\* Nothing went out, and no stall: an error, or a timeout on NAKs.
CbwNotSent ==
    /\ host.pc = "cbw"
    /\ ReturnBare("NOT_SENT")
    /\ UNCHANGED dev

\* Mutant: the reset left out, as before the fix bot.c:180-184 recounts.
CbwRejectedNoReset ==
    /\ host.pc = "cbw"
    /\ ReturnBare("NOT_SENT")
    /\ device' = IF device.mode = "ready" /\ cbw = <<>>
                 THEN [device EXCEPT !.mode = "invalid"] ELSE device
    /\ UNCHANGED <<obeys, cbw, inPipe, halted>>

\* Part of it, or a stalled Bulk-Out: Reset Recovery, the device first
\* left with an invalid CBW it will not execute.
CbwRejected ==
    /\ host.pc = "cbw"
    /\ ReturnBare("NOT_SENT")
    /\ halted' = FALSE /\ UNCHANGED obeys
    /\ \/ device' = ReadyDevice /\ cbw' = <<>> /\ inPipe' = <<>>
       \/ /\ ~obeys
          /\ device' = IF device.mode = "ready" /\ cbw = <<>>
                       THEN [device EXCEPT !.mode = "invalid"] ELSE device
          /\ UNCHANGED <<cbw, inPipe>>

----------------------------------------------------------------------------
(* The data phase. *)

Oldest == Head(inPipe)
Arrived(kinds) == inPipe # <<>> /\ Oldest.kind \in kinds
Took == inPipe' = Tail(inPipe) /\ UNCHANGED <<device, obeys, cbw, halted>>

\* One more unit, whoever it comes from; a full buffer ends the phase.
DataIn ==
    /\ host.pc = "data" /\ host.dir = "in" /\ Arrived({"data"})
    /\ Took
    /\ host' = [host EXCEPT
          !.got = @ + 1,
          !.own = IF Oldest.tag = tag THEN @ + 1 ELSE @,
          !.pc = IF host.got + 1 = host.len THEN "csw" ELSE "data"]
    /\ UNCHANGED <<tag, rc, executed>>

\* A short packet ends the phase, be it the device's way of sending less
\* or the 13 bytes of a CSW.
DataInShort ==
    /\ host.pc = "data" /\ host.dir = "in" /\ Arrived({"short", "csw"})
    /\ Took
    /\ host' = [host EXCEPT !.pc = "csw", !.got = IF Oldest.kind = "csw" THEN @ + 1 ELSE @]
    /\ UNCHANGED <<tag, rc, executed>>

\* Mutant: the command is failed at the stall, its CSW left in the pipe.
DataStalledReturning ==
    /\ host.pc = "data" /\ host.dir = "in" /\ inPipe = <<>> /\ halted
    /\ halted' = FALSE
    /\ Return("FAILED", None, 0, host.got)
    /\ UNCHANGED <<device, obeys, cbw, inPipe>>

\* The stall with which a device ends its data phase: clear it, go on.
DataStalled ==
    /\ host.pc = "data" /\ host.dir = "in" /\ inPipe = <<>> /\ halted
    /\ halted' = FALSE
    /\ Goto("csw")
    /\ UNCHANGED <<tag, rc, obeys, device, cbw, inPipe, executed>>

\* Mutants: no data moved is taken for a command never sent; no reset.
DataFailedAsNotSent == host.pc = "data" /\ ResetRecovery /\ ReturnBare("NOT_SENT")
DataFailedNoReset == host.pc = "data" /\ ReturnBare("PHASE_ERROR") /\ UNCHANGED dev

\* A timeout with the data incomplete, or any other error.
DataFailed ==
    /\ host.pc = "data"
    /\ PhaseError

\* Data-out: the device takes it all, or stalls its Bulk-Out part way.
DataOut ==
    /\ host.pc = "data" /\ host.dir = "out"
    /\ device.mode = "data" /\ device.dir = "out" /\ device.tag = tag
    /\ \E n \in 0 .. host.len : host' = [host EXCEPT !.pc = "csw", !.got = n, !.own = n]
    /\ device' = [device EXCEPT !.mode = "status"]
    /\ UNCHANGED <<tag, rc, obeys, cbw, inPipe, halted, executed>>

----------------------------------------------------------------------------
(* The CSW. *)

InCsw == host.pc \in {"csw", "csw_again"}

\* A stalled status phase gets one more chance.
CswStalled ==
    /\ host.pc = "csw" /\ inPipe = <<>> /\ halted
    /\ halted' = FALSE
    /\ Goto("csw_again")
    /\ UNCHANGED <<tag, rc, obeys, device, cbw, inPipe, executed>>

\* Nothing in time, a second stall, an error, or not 13 bytes.
CswFailed == InCsw /\ PhaseError

\* Mutant: the signature is checked, the tag is not.
AnyCsw(p) == p.kind = "csw"

\* 13 bytes of something else than this command's CSW.
OwnCsw(p) == p.kind = "csw" /\ p.tag = tag

CswMismatch ==
    /\ InCsw /\ inPipe # <<>> /\ ~OwnCsw(Oldest)
    /\ PhaseError

CswPhaseError ==
    /\ InCsw /\ inPipe # <<>> /\ OwnCsw(Oldest) /\ Oldest.status = "phase"
    /\ ResetRecovery
    /\ Return("PHASE_ERROR", "phase", 0, 0)

\* A residue above the length asked for: the CSW cannot be trusted.
CswMeaningless ==
    /\ InCsw /\ inPipe # <<>> /\ OwnCsw(Oldest) /\ Oldest.status # "phase"
    /\ Oldest.residue > host.len
    /\ Took
    /\ Return("FAILED", Oldest.status, Oldest.residue, host.got)

(* *actual_len: the wire count, unless the device sent short and its       *)
(* residue says that even less counts.                                     *)
Actual(len, got, residue) ==
    IF residue = 0 \/ got = len THEN got
    ELSE IF len - residue < got THEN len - residue ELSE got

\* Mutant: dCSWDataResidue is used without being checked against the length.
CswGoodAnyResidue ==
    /\ InCsw /\ inPipe # <<>> /\ OwnCsw(Oldest) /\ Oldest.status # "phase"
    /\ Took
    /\ Return(IF Oldest.status = "pass" THEN "OK" ELSE "FAILED", Oldest.status,
              Oldest.residue, Actual(host.len, host.got, Oldest.residue))

CswGood ==
    /\ InCsw /\ inPipe # <<>> /\ OwnCsw(Oldest) /\ Oldest.status # "phase"
    /\ Oldest.residue <= host.len
    /\ Took
    /\ Return(IF Oldest.status = "pass" THEN "OK" ELSE "FAILED", Oldest.status,
              Oldest.residue, Actual(host.len, host.got, Oldest.residue))

DeviceGone ==
    /\ host.pc # "idle"
    /\ ReturnBare("NO_DEVICE")
    /\ UNCHANGED dev

----------------------------------------------------------------------------
(* The device.  Its residue is honest, or too large to be meaningful; its  *)
(* speed is anything, so that each of these may come after the host has    *)
(* given up on it.                                                         *)

Quiet == UNCHANGED <<tag, host, rc, obeys>>
Emit(p) == inPipe' = Append(inPipe, p)

\* A device holding part of a CBW takes the next one for the rest of it.
TakeCbw ==
    /\ cbw # <<>> /\ cbw' = <<>>
    /\ \/ /\ device.mode = "ready"
          /\ device' = [mode |-> IF cbw[1].len > 0 THEN "data" ELSE "status",
                        tag |-> cbw[1].tag, len |-> cbw[1].len,
                        dir |-> cbw[1].dir, sent |-> 0]
          /\ executed' = [executed EXCEPT ![cbw[1].tag] = 1]
       \/ device.mode = "invalid" /\ UNCHANGED <<device, executed>>
    /\ Quiet /\ UNCHANGED <<inPipe, halted>>

\* As much as was asked for, or a unit too many.
SendData ==
    /\ device.mode = "data" /\ device.dir = "in" /\ ~halted
    /\ device.sent <= device.len
    /\ Emit([kind |-> "data", tag |-> device.tag])
    /\ device' = [device EXCEPT !.sent = @ + 1]
    /\ executed' = [executed EXCEPT ![device.tag] = @ + 1]
    /\ Quiet /\ UNCHANGED <<cbw, halted>>

\* The data phase ends: with a stall, with a short packet, or bare.
EndData ==
    /\ device.mode = "data" /\ ~halted
    /\ device' = [device EXCEPT !.mode = "status"]
    /\ \/ device.dir = "in" /\ halted' = TRUE /\ UNCHANGED inPipe
       \/ device.dir = "in" /\ Emit([kind |-> "short", tag |-> device.tag]) /\ UNCHANGED halted
       \/ UNCHANGED <<inPipe, halted>>
    /\ Quiet /\ UNCHANGED <<cbw, executed>>

StallStatus ==
    /\ device.mode = "status" /\ ~halted
    /\ halted' = TRUE
    /\ Quiet /\ UNCHANGED <<device, cbw, inPipe, executed>>

Residue == IF device.dir = "out" \/ device.sent >= device.len THEN 0
           ELSE device.len - device.sent

SendCsw ==
    /\ device.mode = "status" /\ ~halted
    /\ \E status \in {"pass", "fail", "phase"}, residue \in {Residue, MaxLen + 1} :
          Emit([kind |-> "csw", tag |-> device.tag, status |-> status, residue |-> residue])
    /\ device' = ReadyDevice
    /\ Quiet /\ UNCHANGED <<cbw, halted, executed>>

HostStep ==
    \/ CbwSent \/ CbwNotSent \/ CbwRejected
    \/ DataIn \/ DataInShort \/ DataStalled \/ DataFailed \/ DataOut
    \/ CswStalled \/ CswFailed \/ CswMismatch \/ CswPhaseError
    \/ CswMeaningless \/ CswGood \/ DeviceGone

DeviceStep == TakeCbw \/ SendData \/ EndData \/ StallStatus \/ SendCsw

Next ==
    \/ \E len \in Lens, dir \in Directions : Start(len, dir)
    \/ HostStep \/ DeviceStep

Spec == Init /\ [][Next]_vars

----------------------------------------------------------------------------
(* Properties. *)

(***************************************************************************)
(* Returning 0 means that the device executed this very CBW and said PASS  *)
(* of it, and - when it also reports having moved everything - that every  *)
(* unit *actual_len counts was sent by that execution.  This holds even    *)
(* for a device that ignores resets and has the data and CSWs of earlier   *)
(* commands queued on its Bulk-In pipe (bot.c:301-312).                    *)
(***************************************************************************)
SuccessIsOwn ==
    rc.code = "OK" =>
        /\ executed[tag] > 0 /\ rc.status = "pass"
        /\ rc.residue = 0 => rc.actual <= rc.own

(***************************************************************************)
(* With a device that obeys resets, a residue that contradicts the wire    *)
(* count can be disbelieved (bot.c:338-371) without another command's data *)
(* ever being passed off as this one's.                                    *)
(***************************************************************************)
DataIsOwn == obeys /\ rc.code \in {"OK", "FAILED"} => rc.actual <= rc.own

(***************************************************************************)
(* BOT_FAIL_NOT_SENT is "the only failure after which replaying a command  *)
(* that changes CSS state is provably harmless": the device never executes *)
(* it, then or later.                                                      *)
(***************************************************************************)
NotSentIsNeverExecuted == rc.code = "NOT_SENT" => executed[tag] = 0

(***************************************************************************)
(* A status obtained - success or failure - leaves nothing behind: the     *)
(* device waits for the next CBW with empty buffers, whatever was queued   *)
(* when the command started.                                               *)
(***************************************************************************)
InStep == device.mode = "ready" /\ cbw = <<>> /\ inPipe = <<>> /\ ~halted

StatusLeavesPipesClean ==
    host.pc = "idle" /\ rc.code \in {"OK", "FAILED"} => InStep

(***************************************************************************)
(* On a device that implements the reset, host and device are in step      *)
(* between any two transactions: every way of losing step - a partial CBW, *)
(* a data phase cut short, a stall, a stray or late CSW, a phase error -   *)
(* ends in a Reset Recovery before the return.                             *)
(***************************************************************************)
InStepBetweenCommands ==
    obeys /\ host.pc = "idle" /\ rc.code # "NO_DEVICE" => InStep

============================================================================
