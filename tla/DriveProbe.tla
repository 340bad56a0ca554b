----------------------------- MODULE DriveProbe -----------------------------
(***************************************************************************)
(* Registration as the device sees it: which interface and endpoints are   *)
(* taken (laser_find_bulk_endpoints(), usb.c), which logical unit is the   *)
(* optical drive, if any (laser_probe_lun(), scsi.c), the tray unlocked,   *)
(* the wait for the medium, and the entry published (laser_register(),     *)
(* registry.c).  What registration does to the table and what it acquires  *)
(* on the way is the subject of LaserRegistry.                             *)
(***************************************************************************)
EXTENDS SpinUp, FiniteSetsExt

CONSTANTS
    MaxLunProbed,       \* LASER_MAX_LUN_PROBED
    InquiryAttempts     \* LASER_INQUIRY_MAX_ATTEMPTS

ASSUME ProbeBounds == MaxLunProbed \in Nat /\ InquiryAttempts \in Nat \ {0}

VARIABLE setup          \* the registration in progress, its locals, its end

-----------------------------------------------------------------------------
(* An interface is [bot, ins, outs]: whether its first alternate setting   *)
(* is of the Bulk-Only class and protocol (FALSE if it has none), and the  *)
(* number of its bulk endpoints of each direction, of which the first is   *)
(* taken.  A unit answers INQUIRY with its device type, or None.    *)

ASSUME MachinesTyped ==
    \A m \in Machines :
        /\ DOMAIN m.interfaces \subseteq Nat /\ DOMAIN m.units \subseteq Nat
        /\ \A u \in DOMAIN m.units : m.units[u] \in 0 .. 31 \cup {None}
        /\ m.max_lun \in Nat \cup {None} /\ m.settling \in Nat
ASSUME NoneIsNoNumber == None \notin Nat

CdDvd == 5
DirectAccess == 0

Usable(iface) == iface.bot /\ iface.ins > 0 /\ iface.outs > 0

Least(a, b) == IF a < b THEN a ELSE b

\* The first usable interface, both endpoints from it, or None.
ChosenInterface(interfaces) ==
    LET usable == {i \in DOMAIN interfaces : Usable(interfaces[i])}
    IN  IF usable = {} THEN None ELSE Min(usable)

\* Mutant: the descriptor believed.
HighestLunMutant == IF machine.max_lun = None THEN 0 ELSE machine.max_lun
\* GET MAX LUN, stalled by a device of one unit.
HighestLun == IF machine.max_lun = None THEN 0 ELSE Least(machine.max_lun, MaxLunProbed)

AttemptsOn(lun) == IF lun = 0 THEN InquiryAttempts ELSE 1

-----------------------------------------------------------------------------
\* quiet is history: every command of the probe went through.
InitSetup == setup = [pc |-> "endpoints", iface |-> None, lun |-> 0, attempt |-> 1,
                      lun0_pdt |-> None, quiet |-> TRUE]

Decline(s) == setup' = [s EXCEPT !.pc = "declined"]

ChooseInterface ==
    /\ setup.pc = "endpoints"
    /\ IF ChosenInterface(machine.interfaces) = None
       THEN Decline(setup)
       ELSE setup' = [setup EXCEPT !.iface = ChosenInterface(machine.interfaces),
                                   !.pc = "probe"]
    /\ UNCHANGED unit

\* Mutant: the unit the loop stopped at is kept.
BackToLunZeroMutant(s) == s
BackToLunZero(s) == [s EXCEPT !.lun = 0]

\* laser_probe_lun() after its loop: only a direct-access device, or one
\* whose first unit never answered, is turned away.
NoUnitIsOptical(s) ==
    IF s.lun0_pdt \in {None, DirectAccess}
    THEN Decline(BackToLunZero(s))
    ELSE setup' = [BackToLunZero(s) EXCEPT !.pc = "unlock"]

\* On to the next unit, if there is one.
NextUnit(s) ==
    IF s.lun < HighestLun
    THEN setup' = [s EXCEPT !.lun = @ + 1, !.attempt = 1]
    ELSE NoUnitIsOptical(s)

InquiryAnswered(pdt) ==
    LET s == [setup EXCEPT !.lun0_pdt = IF setup.lun = 0 THEN pdt ELSE @]
    IN  IF pdt = CdDvd THEN setup' = [s EXCEPT !.pc = "unlock"] ELSE NextUnit(s)

\* After a delay again, up to the attempts this unit gets.
InquiryUnanswered(s) ==
    IF s.attempt < AttemptsOn(s.lun)
    THEN setup' = [s EXCEPT !.attempt = @ + 1]
    ELSE NextUnit(s)

\* A bridge still settling answers nothing for its first INQUIRYs.
Answer == IF setup.lun \notin DOMAIN machine.units THEN None
          ELSE IF setup.lun = 0 /\ setup.attempt <= machine.settling THEN None
          ELSE machine.units[setup.lun]

Inquiry ==
    /\ setup.pc = "probe"
    /\ \/ /\ ~drive.plugged
          /\ Decline(BackToLunZero(setup))
          /\ UNCHANGED events
       \/ /\ drive.plugged
          /\ IF Answer = None THEN InquiryUnanswered(setup) ELSE InquiryAnswered(Answer)
          /\ UNCHANGED events
       \/ /\ drive.plugged /\ events < MaxEvents /\ events' = events + 1
          /\ InquiryUnanswered([setup EXCEPT !.quiet = FALSE])
    /\ UNCHANGED <<machine, drive, not_ready, cancelled, device_gone, wait, heard>>

\* laser_allow_medium_removal(), if a kernel driver was detached.  One
\* command, whatever comes of it: it may meet an attention.
AllowMediumRemoval ==
    /\ setup.pc = "unlock"
    /\ \/ UNCHANGED <<drive, heard>>
       \/ /\ drive.plugged
          /\ \E a \in drive.attention :
                /\ drive' = [drive EXCEPT !.attention = @ \ {a}]
                /\ heard' = Consumed(a, Registrar)
    /\ setup' = [setup EXCEPT !.pc = "settle"]
    /\ UNCHANGED <<machine, not_ready, cancelled, device_gone, wait, events>>

SettleAtSetup ==
    /\ setup.pc = "settle"
    /\ BeginWait(Registrar)
    /\ setup' = [setup EXCEPT !.pc = "settling"]

Publish ==
    /\ setup.pc = "settling" /\ IoFree
    /\ setup' = [setup EXCEPT !.pc = "published", !.attempt = 1, !.lun0_pdt = None, !.quiet = TRUE]
    /\ UNCHANGED unit

SetupStep == ChooseInterface \/ Inquiry \/ AllowMediumRemoval \/ SettleAtSetup \/ Publish

Published == setup.pc = "published"

-----------------------------------------------------------------------------
SetupTypeOK ==
    setup \in [pc : {"endpoints", "probe", "unlock", "settle", "settling", "published", "declined"},
               iface : {None} \cup DOMAIN machine.interfaces,
               lun : 0 .. MaxLunProbed, attempt : 1 .. InquiryAttempts,
               lun0_pdt : {None} \cup 0 .. 31, quiet : BOOLEAN]

(* The reference: the units that answer, as the device is built. *)
Answering == {u \in DOMAIN machine.units :
                 /\ machine.units[u] # None
                 /\ u <= (IF machine.max_lun = None THEN 0 ELSE machine.max_lun)
                 /\ u <= MaxLunProbed
                 /\ u = 0 => machine.settling < InquiryAttempts}
Optical == {u \in Answering : machine.units[u] = CdDvd}
IsKept == Optical # {} \/ (0 \in Answering /\ machine.units[0] # DirectAccess)

\* The unit kept is the optical one, on the first interface that has both
\* endpoints, and a device is turned away only if it has none and is not an
\* oddity that may be a drive all the same - whichever commands the settling
\* bridge let fall, and unless it was unplugged or a unit was asked in vain.
DriveIsFound ==
    /\ setup.pc \in {"unlock", "settle", "settling"} =>
          /\ machine.interfaces[setup.iface].bot
          /\ machine.interfaces[setup.iface].ins > 0
          /\ machine.interfaces[setup.iface].outs > 0
          /\ setup.quiet => setup.lun = (IF Optical = {} THEN 0 ELSE Min(Optical))
          /\ setup.lun # 0 => machine.units[setup.lun] = CdDvd
    /\ setup.pc = "declined" /\ setup.quiet /\ drive.plugged =>
          \/ \A i \in DOMAIN machine.interfaces : ~Usable(machine.interfaces[i])
          \/ ~IsKept

=============================================================================
