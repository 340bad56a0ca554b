-------------------------- MODULE DriveStackProofs --------------------------
(***************************************************************************)
(* The drive, its registration and its waits, for any devices and discs,   *)
(* any number of consumers and any ceilings.                               *)
(***************************************************************************)
EXTENDS DriveStack, WellFoundedInduction, TLAPS

-----------------------------------------------------------------------------
(* The inductive invariant. *)

DriveRecord == [plugged : BOOLEAN, mech : Mechanisms, content : Contents,
                disc : 0 .. MaxEvents + 1, attention : SUBSET Attentions]

\* A disc lies in a drive that is closed and not empty; each one put in has
\* had the tray opened for it.
MechInv ==
    /\ drive.content # None <=> drive.mech \notin {"open", "empty"}
    /\ drive.disc <= events + 1
    /\ drive.mech = "open" => drive.disc <= events

\* The attentions a wait may have met at each rung.
Met == [start |-> {0}, again |-> {1}, plain |-> 0 .. 2, loej |-> 0 .. 2, poll |-> 0 .. 3]

WaitInv ==
    wait # None => /\ wait.met \in Met[wait.pc] /\ wait.since <= events
                   /\ wait.asked <= wait.elapsed

\* Up to the last rung, a disc still parked has met nothing but attentions,
\* and refusals that leave a shape to try; below it, all have been tried.
ParkedAt(w) ==
    CASE w.pc = "start" -> TRUE
      [] w.pc = "again" -> \E a \in Attentions : drive.attention \subseteq {a}
      [] w.pc = "plain" -> drive.attention = {} /\ Takes(machine.firmware, "plain")
      [] w.pc = "loej"  -> /\ drive.attention = {}
                           /\ w.met = 2 \/ Takes(machine.firmware, "loej")
      [] w.pc = "poll"  -> \/ machine.firmware = "no_opcode"
                           \/ ~Takes(machine.firmware, "loej") /\ w.met = 2

ParkedInv ==
    wait # None /\ wait.since = events /\ drive.plugged /\ drive.mech = "parked"
        => ParkedAt(wait)

UnitInv == UnitTypeOK /\ MechInv /\ WaitInv /\ ParkedInv /\ WaitIsBounded

\* No wait, and no consumer, before registration has come that far.
StageInv ==
    setup.pc \notin {"settling", "published"} => wait = None

-----------------------------------------------------------------------------
(* The unit. *)

LEMMA UnitTyped ==
  ASSUME UnitTypeOK
  PROVE  /\ machine \in Machines /\ machine.firmware \in Firmwares
         /\ drive \in DriveRecord /\ drive.disc \in Nat /\ drive.attention \subseteq Attentions
         /\ drive.plugged \in BOOLEAN /\ drive.mech \in Mechanisms /\ drive.content \in Contents
         /\ events \in Nat /\ events <= MaxEvents /\ MaxEvents \in Nat
         /\ heard \subseteq Swaps
BY FirmwaresKnown, CeilingsOrdered DEF UnitTypeOK, DriveRecord

LEMMA WaitTyped ==
  ASSUME UnitTypeOK, wait # None
  PROVE  /\ wait \in WaitRecord /\ wait.by \in Threads \cup {Registrar}
         /\ wait.pc \in {"start", "again", "plain", "loej", "poll"}
         /\ wait.elapsed \in Nat /\ wait.asked \in Nat /\ wait.becoming \in BOOLEAN
         /\ wait.uas \in Nat /\ wait.uas <= MaxUnitAttentions /\ wait.met \in Nat
         /\ wait.since \in Nat /\ wait.since <= MaxEvents
BY CeilingsOrdered DEF UnitTypeOK, WaitRecord

\* Only attentions were consumed, or nothing happened to the drive.
Lessened ==
    /\ drive' \in DriveRecord
    /\ drive'.plugged = drive.plugged /\ drive'.mech = drive.mech
    /\ drive'.content = drive.content /\ drive'.disc = drive.disc
    /\ drive'.attention \subseteq drive.attention

LEMMA AttentionLessens ==
  ASSUME UnitTypeOK, NEW left, left \subseteq drive.attention,
         drive' = [drive EXCEPT !.attention = left]
  PROVE  Lessened /\ drive'.attention = left
BY UnitTyped DEF DriveRecord, Lessened

LEMMA SameDriveLessens ==
  ASSUME UnitTypeOK, UNCHANGED drive
  PROVE  Lessened
BY UnitTyped DEF Lessened

LEMMA ConsumedIsSwap ==
  ASSUME UnitTypeOK, NEW a, NEW who
  PROVE  Consumed(a, who) \subseteq Swaps
BY UnitTyped DEF Consumed

\* A disc put into an open drive.
LEMMA InsertedIs ==
  ASSUME UnitTypeOK, MechInv, drive.mech = "open", NEW disc \in Discs \cup {None},
         drive' = Inserted(disc), UNCHANGED events
  PROVE  /\ drive' \in DriveRecord /\ MechInv'
         /\ drive'.mech \in {"empty", "loading"} /\ drive'.plugged = drive.plugged
<1>1. drive.disc + 1 \in 0 .. MaxEvents + 1 /\ drive.disc + 1 <= events + 1
  BY UnitTyped DEF MechInv
<1>2. disc \in Contents
  BY DEF Contents
<1>3. drive' \in DriveRecord
  BY <1>1, <1>2, UnitTyped DEF Inserted, DriveRecord, Mechanisms
<1>4. /\ drive'.mech = (IF disc = None THEN "empty" ELSE "loading")
      /\ drive'.content = disc /\ drive'.disc = drive.disc + 1 /\ drive'.plugged = drive.plugged
  BY UnitTyped DEF Inserted, DriveRecord
<1>5. MechInv'
  BY <1>1, <1>4 DEF MechInv
<1> QED  BY <1>3, <1>4, <1>5

LEMMA LessenedKeepsMech ==
  ASSUME UnitTypeOK, MechInv, Lessened, events' \in {events, events + 1}
  PROVE  MechInv'
<1>1. drive'.disc = drive.disc /\ drive'.mech = drive.mech /\ drive'.content = drive.content
  BY DEF Lessened
<1>2. events' >= events /\ events' \in Nat
  BY UnitTyped
<1> QED  BY <1>1, <1>2, UnitTyped DEF MechInv

\* An attention that answers a command, or that is lost with its sense data.
LEMMA ReportedIs ==
  ASSUME UnitTypeOK, NEW who, NEW sense, Reported(who, sense)
  PROVE  /\ drive.plugged /\ Lessened /\ heard' \subseteq Swaps
         /\ \E a \in drive.attention : drive'.attention = drive.attention \ {a}
         /\ \/ sense = "attention" /\ UNCHANGED events
            \/ sense = "none" /\ events < MaxEvents /\ events' = events + 1
<1>1. PICK a \in drive.attention :
         /\ drive' = [drive EXCEPT !.attention = @ \ {a}]
         /\ \/ sense = "attention" /\ heard' = Consumed(a, who) /\ UNCHANGED events
            \/ /\ sense = "none" /\ heard' = Consumed(a, "lost")
               /\ events < MaxEvents /\ events' = events + 1
  BY DEF Reported
<1>2. drive' = [drive EXCEPT !.attention = drive.attention \ {a}]
  BY <1>1
<1>3. Lessened /\ drive'.attention = drive.attention \ {a}
  BY <1>2, AttentionLessens
<1>4. heard' \subseteq Swaps
  BY <1>1, ConsumedIsSwap
<1> QED  BY <1>1, <1>3, <1>4 DEF Reported

\* TEST UNIT READY changes the drive by an attention at most.
LEMMA TestUnitReadyIs ==
  ASSUME UnitTypeOK, NEW who, NEW sense, TestUnitReady(who, sense)
  PROVE  /\ Lessened /\ heard' \subseteq Swaps
         /\ UNCHANGED events \/ (events < MaxEvents /\ events' = events + 1 /\ sense = "none")
         /\ sense = "none" => drive.plugged
<1>1. CASE ~Reported(who, sense)
  <2>1. UNCHANGED <<drive, heard>>
    BY <1>1 DEF TestUnitReady
  <2> QED  BY <1>1, <2>1, UnitTyped, SameDriveLessens DEF TestUnitReady
<1>2. CASE Reported(who, sense)
  BY <1>2, ReportedIs
<1>3. sense = "gone" \/ drive.plugged
  BY DEF TestUnitReady, Reported
<1>4. sense = "none" => drive.plugged
  BY <1>3
<1> QED  BY <1>1, <1>2, <1>4 DEF TestUnitReady

-----------------------------------------------------------------------------
(* START STOP UNIT. *)

\* A shape taken: a disc that was parked is on its way.
Taken(shape, sense) ==
    /\ drive.plugged /\ drive.attention = {} /\ Takes(machine.firmware, shape)
    /\ CASE drive.mech = "ready" -> sense = "pass" /\ UNCHANGED drive
         [] drive.mech = "empty" -> sense \in {"pass", "own"} /\ UNCHANGED drive
         [] drive.mech \in {"loading", "waking"} ->
               sense \in {"pass", "becoming"} /\ UNCHANGED drive
         [] drive.mech = "parked" ->
               sense = "pass" /\ drive' = [drive EXCEPT !.mech = "waking"]
         [] drive.mech = "open" /\ shape = "loej" ->
               /\ sense = "pass"
               /\ \E disc \in Discs \cup {None} : drive' = Inserted(disc)
         [] drive.mech = "open" /\ shape # "loej" -> sense = "own" /\ UNCHANGED drive
    /\ UNCHANGED <<events, heard>>

LEMMA TakenIs ==
  ASSUME UnitTypeOK, MechInv, NEW shape, NEW sense, Taken(shape, sense)
  PROVE  /\ drive' \in DriveRecord /\ MechInv' /\ heard' \subseteq Swaps
         /\ UNCHANGED events /\ drive'.mech # "parked"
         /\ sense \in {"pass", "own", "becoming"}
<1>1. CASE UNCHANGED drive /\ drive.mech # "parked"
  <2>1. MechInv' /\ drive' \in DriveRecord
    BY <1>1, UnitTyped DEF Taken, MechInv
  <2>2. sense \in {"pass", "own", "becoming"}
    BY <1>1, UnitTyped DEF Taken, Mechanisms
  <2> QED  BY <1>1, <2>1, <2>2, UnitTyped DEF Taken
<1>2. CASE drive.mech = "parked"
  <2>1. sense = "pass" /\ drive' = [drive EXCEPT !.mech = "waking"]
    BY <1>2 DEF Taken
  <2>2. /\ drive' \in DriveRecord /\ drive'.mech = "waking"
        /\ drive'.content = drive.content /\ drive'.disc = drive.disc
    BY <2>1, UnitTyped DEF DriveRecord, Mechanisms
  <2>3. drive.content # None
    BY <1>2 DEF MechInv
  <2>4. MechInv'
    BY <2>2, <2>3, UnitTyped DEF MechInv, Taken
  <2> QED  BY <2>1, <2>2, <2>4, UnitTyped DEF Taken
<1>3. CASE drive.mech = "open" /\ shape = "loej"
  <2>1. sense = "pass" /\ \E disc \in Discs \cup {None} : drive' = Inserted(disc)
    BY <1>3 DEF Taken
  <2>2. UNCHANGED <<events, heard>>
    BY DEF Taken
  <2>3. PICK disc \in Discs \cup {None} : drive' = Inserted(disc)
    BY <2>1
  <2>4. /\ drive' \in DriveRecord /\ MechInv' /\ drive'.mech \in {"empty", "loading"}
    BY <1>3, <2>2, <2>3, InsertedIs
  <2>5. heard' \subseteq Swaps
    BY <2>2, UnitTyped
  <2> QED  BY <2>1, <2>2, <2>4, <2>5
<1>4. CASE drive.mech \in {"ready", "empty", "loading", "waking"}
  <2>1. UNCHANGED drive
    BY <1>4 DEF Taken
  <2> QED  BY <1>1, <1>4, <2>1
<1>5. CASE drive.mech = "open" /\ shape # "loej"
  <2>1. UNCHANGED drive
    BY <1>5 DEF Taken
  <2> QED  BY <1>1, <1>5, <2>1
<1> QED  BY <1>2, <1>3, <1>4, <1>5, UnitTyped DEF Mechanisms

\* What leaves a disc parked: an attention, or a refusal.
StillParked(shape, sense) ==
    /\ drive.plugged /\ drive.mech = "parked"
    /\ \/ sense = "attention" /\ \E a \in drive.attention : drive'.attention = drive.attention \ {a}
       \/ /\ drive'.attention = {} /\ drive.attention = {}
          /\ shape \in DOMAIN Refusals(machine.firmware)
          /\ sense = Refusals(machine.firmware)[shape]

LEMMA StartStopUnitIs ==
  ASSUME UnitTypeOK, MechInv, NEW shape, NEW sense, StartStopUnit(shape, sense)
  PROVE  /\ drive' \in DriveRecord /\ MechInv' /\ heard' \subseteq Swaps
         /\ UNCHANGED events \/ (events < MaxEvents /\ events' = events + 1)
         /\ UNCHANGED events /\ drive'.plugged /\ drive'.mech = "parked"
               => StillParked(shape, sense)
<1>1. CASE ~drive.plugged /\ UNCHANGED <<drive, events, heard>>
  BY <1>1, UnitTyped, SameDriveLessens, LessenedKeepsMech
<1>2. CASE Reported(wait.by, sense)
  <2>1. /\ Lessened /\ heard' \subseteq Swaps
        /\ \E a \in drive.attention : drive'.attention = drive.attention \ {a}
        /\ \/ sense = "attention" /\ UNCHANGED events
           \/ events < MaxEvents /\ events' = events + 1
    BY <1>2, ReportedIs
  <2>2. MechInv'
    BY <2>1, LessenedKeepsMech
  <2>3. drive' \in DriveRecord /\ drive'.mech = drive.mech
    BY <2>1 DEF Lessened
  <2>4. UNCHANGED events => sense = "attention"
    BY <2>1, UnitTyped
  <2>5. drive.plugged
    BY <1>2 DEF Reported
  <2> QED  BY <2>1, <2>2, <2>3, <2>4, <2>5 DEF StillParked
<1>3. CASE /\ drive.plugged /\ drive.attention = {} /\ ~Takes(machine.firmware, shape)
           /\ sense = Refusals(machine.firmware)[shape]
           /\ UNCHANGED <<drive, events, heard>>
  <2>1. MechInv'
    BY <1>3, SameDriveLessens, LessenedKeepsMech
  <2> QED  BY <1>3, <2>1, UnitTyped DEF StillParked, Takes
<1>4. CASE Taken(shape, sense)
  BY <1>4, TakenIs
<1>5. CASE /\ events < MaxEvents /\ events' = events + 1 /\ UNCHANGED <<drive, heard>>
  BY <1>5, UnitTyped, SameDriveLessens, LessenedKeepsMech
<1> QED  BY <1>1, <1>2, <1>3, <1>4, <1>5 DEF StartStopUnit, Taken

-----------------------------------------------------------------------------
(* The wait. *)

LEMMA NextShapeIs ==
  ASSUME NEW at \in {"start", "again", "plain", "loej"}, NEW sense \in SpinUpSenses
  PROVE  /\ NextShape(at, sense) \in {"again", "plain", "loej", "poll"}
         /\ NextShape(at, sense) = "again" <=> at = "start" /\ sense = "attention"
         /\ NextShape(at, sense) = "plain" <=> at \in {"start", "again"} /\ sense = "field"
         /\ NextShape(at, sense) = "loej" <=>
               \/ at \in {"start", "again"} /\ sense \in {"own", "none"}
               \/ at = "again" /\ sense = "attention"
BY DEF NextShape, SpinUpSenses

LEMMA RungIs ==
  ASSUME UnitTypeOK, WaitInv, wait # None, wait.pc # "poll",
         NEW sense \in SpinUpSenses, NEW took \in Nat,
         wait' = AfterRung(sense, took)
  PROVE  /\ wait' \in WaitRecord /\ wait'.pc = NextShape(wait.pc, sense)
         /\ wait'.met = (IF sense = "attention" THEN wait.met + 1 ELSE wait.met)
         /\ wait'.since = wait.since /\ wait'.asked <= wait'.elapsed
         /\ wait'.pc = "poll" => wait'.asked = wait'.elapsed
         /\ wait'.met \in Met[wait'.pc]
<1> DEFINE next == NextShape(wait.pc, sense)
           now == wait.elapsed + took
           met == IF sense = "attention" THEN wait.met + 1 ELSE wait.met
           asked == IF next = "poll" THEN now ELSE wait.asked
<1>0. wait' = [wait EXCEPT !.pc = next, !.elapsed = now, !.asked = asked, !.met = met]
  BY DEF AfterRung
<1>1. now \in Nat /\ asked \in Nat /\ wait.asked <= wait.elapsed /\ wait.elapsed <= now /\ asked <= now
  BY WaitTyped DEF WaitInv
<1>2. wait.pc \in {"start", "again", "plain", "loej"}
  BY WaitTyped
<1>3. next \in {"again", "plain", "loej", "poll"}
  BY <1>2, NextShapeIs
<1>4. wait.met \in Met[wait.pc]
  BY DEF WaitInv
<1>5. met \in Met[next] /\ met \in 0 .. 4
  <2>1. CASE wait.pc = "start"
    <3>1. wait.met = 0
      BY <1>4, <2>1 DEF Met
    <3> QED  BY <2>1, <3>1, <1>2, NextShapeIs, SMTT(30) DEF Met
  <2>2. CASE wait.pc = "again"
    <3>1. wait.met = 1
      BY <1>4, <2>2 DEF Met
    <3> QED  BY <2>2, <3>1, <1>2, NextShapeIs, SMTT(30) DEF Met
  <2>3. CASE wait.pc \in {"plain", "loej"}
    <3>1. wait.met \in 0 .. 2
      BY <1>4, <2>3 DEF Met
    <3>2. next = "poll"
      BY <2>3, <1>2, NextShapeIs
    <3> QED  BY <3>1, <3>2 DEF Met
  <2> QED  BY <1>2, <2>1, <2>2, <2>3
<1>6. wait \in WaitRecord
  BY WaitTyped
<1> HIDE DEF next, now, met, asked
<1>7. /\ wait' \in WaitRecord /\ wait'.pc = next /\ wait'.elapsed = now /\ wait'.asked = asked
      /\ wait'.met = met /\ wait'.since = wait.since
  BY <1>0, <1>1, <1>3, <1>5, <1>6 DEF WaitRecord
<1>8. next = "poll" => asked = now
  BY DEF asked
<1> QED  BY <1>1, <1>5, <1>7, <1>8 DEF next, met

LEMMA RungKeepsParked ==
  ASSUME UnitTypeOK, WaitInv, ParkedInv, wait # None, wait.pc # "poll", UNCHANGED machine,
         NEW sense \in SpinUpSenses, StillParked(ShapeAt(wait.pc), sense),
         wait.since = events,
         wait'.pc = NextShape(wait.pc, sense),
         wait'.met = (IF sense = "attention" THEN wait.met + 1 ELSE wait.met)
  PROVE  ParkedAt(wait)'
<1>1. ParkedAt(wait)
  BY DEF ParkedInv, StillParked
<1>2. wait.pc \in {"start", "again", "plain", "loej"} /\ wait.met \in Met[wait.pc]
  BY WaitTyped DEF WaitInv
<1>3. CASE sense = "attention" /\ \E a \in drive.attention : drive'.attention = drive.attention \ {a}
  <2>1. PICK a \in drive.attention : drive'.attention = drive.attention \ {a}
    BY <1>3
  <2>2. CASE wait.pc = "start"
    <3>1. \E b \in Attentions : drive'.attention \subseteq {b}
      BY <2>1, UnitTyped DEF Attentions
    <3>2. wait'.pc = "again"
      BY <1>3, <2>2, NextShapeIs
    <3> QED  BY <3>1, <3>2 DEF ParkedAt
  <2>3. CASE wait.pc = "again"
    <3>1. drive'.attention = {}
      BY <1>1, <2>1, <2>3 DEF ParkedAt
    <3>2. wait'.pc = "loej"
      BY <1>3, <2>3, NextShapeIs
    <3>3. wait'.met = 2
      BY <1>2, <1>3, <2>3 DEF Met
    <3> QED  BY <3>1, <3>2, <3>3 DEF ParkedAt
  <2>4. wait.pc \notin {"plain", "loej"}
    BY <1>1, <2>1 DEF ParkedAt
  <2> QED  BY <1>2, <2>2, <2>3, <2>4
<1>4. CASE /\ drive'.attention = {} /\ drive.attention = {}
           /\ ShapeAt(wait.pc) \in DOMAIN Refusals(machine.firmware)
           /\ sense = Refusals(machine.firmware)[ShapeAt(wait.pc)]
  <2> DEFINE fw == machine.firmware
  <2>1. fw \in Firmwares /\ machine'.firmware = fw
    BY UnitTyped
  <2>2. CASE wait.pc \in {"start", "again"}
    <3>1. ShapeAt(wait.pc) = "immed"
      BY <2>2 DEF ShapeAt
    <3>2. \/ fw = "no_opcode" /\ sense = "opcode"
          \/ fw = "no_immed" /\ sense = "field"
          \/ fw = "loads_only" /\ sense = "own"
      BY <1>4, <2>1, <3>1 DEF Refusals, Firmwares, Shapes
    <3>3. CASE fw = "no_opcode" /\ sense = "opcode"
      <4>1. wait'.pc = "poll"
        BY <2>2, <3>3 DEF NextShape
      <4> QED  BY <2>1, <3>3, <4>1 DEF ParkedAt
    <3>4. CASE fw = "no_immed" /\ sense = "field"
      <4>1. wait'.pc = "plain"
        BY <2>2, <3>4, NextShapeIs
      <4>2. Takes(fw, "plain")
        BY <3>4 DEF Takes, Refusals
      <4> QED  BY <1>4, <2>1, <4>1, <4>2 DEF ParkedAt
    <3>5. CASE fw = "loads_only" /\ sense = "own"
      <4>1. wait'.pc = "loej"
        BY <2>2, <3>5, NextShapeIs
      <4>2. Takes(fw, "loej")
        BY <3>5 DEF Takes, Refusals
      <4> QED  BY <1>4, <2>1, <4>1, <4>2 DEF ParkedAt
    <3> QED  BY <3>2, <3>3, <3>4, <3>5
  <2>3. wait.pc # "plain"
    BY <1>1, <1>4 DEF ParkedAt, ShapeAt, Takes
  <2>4. CASE wait.pc = "loej"
    <3>1. ~Takes(fw, "loej") /\ wait.met = 2
      BY <1>1, <1>4, <2>4 DEF ParkedAt, ShapeAt, Takes
    <3>2. sense # "attention"
      BY <1>4, <2>1, <2>4 DEF ShapeAt, Refusals, Firmwares, Shapes
    <3>3. wait'.pc = "poll"
      BY <2>4 DEF NextShape
    <3> QED  BY <2>1, <3>1, <3>2, <3>3 DEF ParkedAt
  <2> QED  BY <1>2, <2>2, <2>3, <2>4
<1> QED  BY <1>3, <1>4 DEF StillParked

LEMMA SpinUpStepKeeps ==
  ASSUME UnitInv, SpinUpStep
  PROVE  UnitInv'
<1> USE DEF UnitInv
<1>1. PICK sense \in SpinUpSenses, took \in {0, TimeOut} :
         /\ StartStopUnit(ShapeAt(wait.pc), sense)
         /\ wait' = AfterRung(sense, took)
         /\ not_ready' = (not_ready \/ NextShape(wait.pc, sense) = "poll")
  BY DEF SpinUpStep
<1>2. wait # None /\ wait.pc # "poll" /\ UNCHANGED <<machine, cancelled, device_gone>>
  BY DEF SpinUpStep
<1>3. took \in Nat
  BY CeilingsOrdered
<1>4. /\ drive' \in DriveRecord /\ MechInv' /\ heard' \subseteq Swaps
      /\ UNCHANGED events \/ (events < MaxEvents /\ events' = events + 1)
      /\ UNCHANGED events /\ drive'.plugged /\ drive'.mech = "parked"
            => StillParked(ShapeAt(wait.pc), sense)
  BY <1>1, StartStopUnitIs
<1>5. events' \in 0 .. MaxEvents /\ events <= events'
  BY <1>4, UnitTyped
<1>6. /\ wait' \in WaitRecord /\ wait'.pc = NextShape(wait.pc, sense)
      /\ wait'.met = (IF sense = "attention" THEN wait.met + 1 ELSE wait.met)
      /\ wait'.since = wait.since /\ wait'.asked <= wait'.elapsed
      /\ wait'.pc = "poll" => wait'.asked = wait'.elapsed
      /\ wait'.met \in Met[wait'.pc]
  BY <1>1, <1>2, <1>3, RungIs
<1>7. UnitTypeOK'
  <2>1. not_ready' \in BOOLEAN
    BY <1>1 DEF UnitTypeOK
  <2> QED  BY <1>2, <1>4, <1>5, <1>6, <2>1 DEF UnitTypeOK, DriveRecord, WaitRecord
<1>8. WaitInv'
  <2>1. wait.since <= events'
    BY <1>2, <1>5, UnitTyped, WaitTyped DEF WaitInv
  <2> QED  BY <1>6, <2>1 DEF WaitInv
<1>9. ParkedInv'
  <2>1. SUFFICES ASSUME wait'.since = events', drive'.plugged, drive'.mech = "parked"
                 PROVE  ParkedAt(wait)'
    BY DEF ParkedInv
  <2>2. UNCHANGED events /\ wait.since = events
    BY <1>2, <1>4, <1>6, <2>1, UnitTyped, WaitTyped DEF WaitInv
  <2>3. StillParked(ShapeAt(wait.pc), sense)
    BY <1>4, <2>1, <2>2
  <2> QED  BY <1>2, <1>6, <2>2, <2>3, RungKeepsParked
<1>10. WaitIsBounded'
  BY <1>6, CeilingsOrdered DEF WaitIsBounded, WaitRecord
<1> QED  BY <1>7, <1>8, <1>9, <1>10, <1>4

PollSenses == {"pass", "gone", "attention", "becoming", "no_medium", "tray_open", "none"}

\* One poll under each ceiling.
NextPoll(sense, now) ==
    CASE sense \in {"pass", "gone", "tray_open"} -> WaitEnds
      [] sense = "no_medium" -> NoMediumYet(now)
      [] sense = "attention" -> UnitAttention(now, [wait EXCEPT !.uas = @ + 1])
      [] sense = "becoming"  -> NotReadyYet(now, [wait EXCEPT !.becoming = TRUE])
      [] sense = "none"      -> NotReadyYet(now, wait)

\* The wait goes on: only its clocks and its count of attentions may differ.
GoesOn ==
    /\ wait' \in WaitRecord
    /\ wait'.pc = wait.pc /\ wait'.met = wait.met /\ wait'.since = wait.since
    /\ wait'.asked = wait.asked /\ wait.elapsed <= wait'.elapsed /\ wait'.by = wait.by

LEMMA NotReadyYetIs ==
  ASSUME UnitTypeOK, wait # None, NEW now \in Nat, wait.elapsed <= now,
         NEW b \in BOOLEAN, NEW u \in 0 .. MaxUnitAttentions,
         NotReadyYet(now, [wait EXCEPT !.becoming = b, !.uas = u])
  PROVE  \/ wait' = None
         \/ GoesOn /\ wait'.elapsed <= (IF wait'.becoming THEN BecomingMax ELSE SpinUpMax)
<1> DEFINE w == [wait EXCEPT !.becoming = b, !.uas = u]
           ceiling == IF b THEN BecomingMax ELSE SpinUpMax
<1>1. wait \in WaitRecord /\ wait.elapsed \in Nat /\ ceiling \in Nat
  BY WaitTyped, CeilingsOrdered
<1>2. w.becoming = b
  BY <1>1 DEF WaitRecord
<1>3. CASE now >= ceiling
  BY <1>2, <1>3 DEF NotReadyYet, WaitEnds
<1>4. CASE now < ceiling
  <2>1. wait' = [wait EXCEPT !.becoming = b, !.uas = u, !.elapsed = now + Sleep]
    BY <1>1, <1>2, <1>4 DEF NotReadyYet, WaitRecord
  <2>2. now + Sleep \in Nat /\ now + Sleep <= ceiling /\ wait.elapsed <= now + Sleep
    BY <1>1, <1>4 DEF Sleep
  <2> DEFINE later == now + Sleep
  <2>3. wait' = [wait EXCEPT !.becoming = b, !.uas = u, !.elapsed = later]
    BY <2>1
  <2>4. later \in Nat
    BY <2>2
  <2> HIDE DEF later
  <2>5. /\ wait' \in WaitRecord /\ wait'.pc = wait.pc /\ wait'.met = wait.met
        /\ wait'.since = wait.since /\ wait'.asked = wait.asked
        /\ wait'.elapsed = later /\ wait'.becoming = b /\ wait'.by = wait.by
    BY <1>1, <2>3, <2>4 DEF WaitRecord
  <2> QED  BY <2>2, <2>5 DEF GoesOn, later
<1> QED  BY <1>1, <1>3, <1>4

LEMMA NextPollIs ==
  ASSUME UnitTypeOK, WaitIsBounded, wait # None, wait.pc = "poll",
         NEW sense \in PollSenses, NEW took \in Nat, sense # "none" => took = 0,
         NextPoll(sense, wait.elapsed + took)
  PROVE  wait' = None \/ (GoesOn /\ WaitIsBounded')
<1> DEFINE now == wait.elapsed + took
<1>1. /\ wait \in WaitRecord /\ wait.elapsed \in Nat /\ wait.asked \in Nat
      /\ now \in Nat /\ wait.elapsed <= now
      /\ wait.becoming \in BOOLEAN /\ wait.uas \in 0 .. MaxUnitAttentions
  BY WaitTyped DEF WaitRecord
<1>2. NextPoll(sense, now)
  OBVIOUS
<1> HIDE DEF now
<1>3. ASSUME NEW b \in BOOLEAN, NEW u \in 0 .. MaxUnitAttentions,
             NotReadyYet(now, [wait EXCEPT !.becoming = b, !.uas = u])
      PROVE  wait' = None \/ (GoesOn /\ WaitIsBounded')
  BY <1>1, <1>3, NotReadyYetIs DEF WaitIsBounded
<1>4. CASE sense \in {"pass", "gone", "tray_open"}
  BY <1>2, <1>4 DEF NextPoll, WaitEnds
<1>5. CASE sense = "no_medium"
  <2>1. NoMediumYet(now)
    BY <1>2, <1>5 DEF NextPoll
  <2>2. CASE now - wait.asked >= NoMediumMax
    BY <2>1, <2>2 DEF NoMediumYet, WaitEnds
  <2>3. CASE ~(now - wait.asked >= NoMediumMax)
    <3> DEFINE later == now + Sleep
    <3>1. wait' = [wait EXCEPT !.elapsed = later]
      BY <2>1, <2>3 DEF NoMediumYet, GoRound
    <3>2. later \in Nat /\ wait.elapsed <= later /\ later <= wait.asked + NoMediumMax
      BY <1>1, <2>3, CeilingsOrdered DEF Sleep
    <3> HIDE DEF later
    <3>3. GoesOn /\ wait'.elapsed = later
      BY <1>1, <3>1, <3>2 DEF GoesOn, WaitRecord
    <3> QED  BY <3>2, <3>3 DEF GoesOn, WaitIsBounded
  <2> QED  BY <2>2, <2>3
<1>6. CASE sense = "attention"
  <2>1. UnitAttention(now, [wait EXCEPT !.uas = @ + 1])
    BY <1>2, <1>6 DEF NextPoll
  <2> DEFINE uas == wait.uas + 1
  <2>2. UnitAttention(now, [wait EXCEPT !.uas = uas]) /\ [wait EXCEPT !.uas = uas].uas = uas
    BY <1>1, <2>1 DEF WaitRecord
  <2>3. uas \in Nat
    BY <1>1, CeilingsOrdered
  <2>4. now = wait.elapsed
    BY <1>1, <1>6 DEF now
  <2> HIDE DEF uas
  <2>5. CASE uas <= MaxUnitAttentions
    <3>1. wait' = [wait EXCEPT !.uas = uas, !.elapsed = now]
      BY <1>1, <2>2, <2>5 DEF UnitAttention, WaitRecord
    <3>2. /\ wait' \in WaitRecord /\ wait'.pc = wait.pc /\ wait'.met = wait.met
          /\ wait'.since = wait.since /\ wait'.asked = wait.asked
          /\ wait'.elapsed = wait.elapsed /\ wait'.becoming = wait.becoming /\ wait'.by = wait.by
      <4>1. uas \in 0 .. MaxUnitAttentions
        BY <2>3, <2>5, CeilingsOrdered
      <4>2. wait' = [wait EXCEPT !.uas = uas, !.elapsed = wait.elapsed]
        BY <2>4, <3>1
      <4> QED  BY <1>1, <4>1, <4>2 DEF WaitRecord
    <3>3. WaitIsBounded'
      BY <3>2 DEF WaitIsBounded
    <3> QED  BY <1>1, <3>2, <3>3 DEF GoesOn
  <2>6. CASE ~(uas <= MaxUnitAttentions)
    <3>1. NotReadyYet(now, [wait EXCEPT !.becoming = wait.becoming, !.uas = MaxUnitAttentions])
      BY <1>1, <2>2, <2>6 DEF UnitAttention, WaitRecord
    <3>2. MaxUnitAttentions \in 0 .. MaxUnitAttentions
      BY CeilingsOrdered
    <3> QED  BY <1>1, <1>3, <3>1, <3>2
  <2> QED  BY <2>5, <2>6
<1>7. CASE sense = "becoming"
  <2>1. NotReadyYet(now, [wait EXCEPT !.becoming = TRUE, !.uas = wait.uas])
    BY <1>1, <1>2, <1>7 DEF NextPoll, WaitRecord
  <2> QED  BY <1>1, <1>3, <2>1
<1>8. CASE sense = "none"
  <2>1. NotReadyYet(now, [wait EXCEPT !.becoming = wait.becoming, !.uas = wait.uas])
    BY <1>1, <1>2, <1>8 DEF NextPoll, WaitRecord
  <2> QED  BY <1>1, <1>3, <2>1
<1> QED  BY <1>4, <1>5, <1>6, <1>7, <1>8 DEF PollSenses

LEMMA PollKeeps ==
  ASSUME UnitInv, Poll
  PROVE  UnitInv'
<1> USE DEF UnitInv
<1>1. PICK sense \in PollSenses, took \in {0, TimeOut} :
         /\ took \in CommandTime("poll", sense)
         /\ TestUnitReady(wait.by, sense)
         /\ NextPoll(sense, wait.elapsed + took)
         /\ not_ready' = (sense # "pass")
  BY DEF Poll, PollSenses, NextPoll
<1>2. wait # None /\ wait.pc = "poll" /\ UNCHANGED <<machine, cancelled, device_gone>>
  BY DEF Poll
<1>3. took \in Nat /\ (sense # "none" => took = 0)
  BY <1>1, CeilingsOrdered DEF CommandTime
<1>4. wait' = None \/ (GoesOn /\ WaitIsBounded')
  BY <1>1, <1>2, <1>3, NextPollIs
<1>5. /\ Lessened /\ heard' \subseteq Swaps
      /\ UNCHANGED events \/ (events < MaxEvents /\ events' = events + 1)
  BY <1>1, TestUnitReadyIs
<1>6. MechInv'
  BY <1>5, LessenedKeepsMech
<1>7. events' \in 0 .. MaxEvents /\ events <= events'
  BY <1>5, UnitTyped
<1>8. UnitTypeOK'
  BY <1>1, <1>2, <1>4, <1>5, <1>7 DEF UnitTypeOK, GoesOn, Lessened, DriveRecord, WaitRecord
<1>9. CASE wait' = None
  BY <1>6, <1>8, <1>9 DEF WaitInv, ParkedInv, WaitIsBounded
<1>10. CASE GoesOn /\ WaitIsBounded'
  <2>1. wait'.met \in Met[wait'.pc]
    BY <1>2, <1>10 DEF WaitInv, GoesOn
  <2>2. wait'.since <= events' /\ wait'.asked <= wait'.elapsed
    <3>1. /\ wait.since <= events /\ wait.asked <= wait.elapsed
          /\ wait'.since = wait.since /\ wait'.asked = wait.asked /\ wait.elapsed <= wait'.elapsed
      BY <1>2, <1>10 DEF WaitInv, GoesOn
    <3>2. wait'.elapsed \in Nat
      BY <1>10 DEF GoesOn, WaitRecord
    <3> QED  BY <1>2, <1>7, <3>1, <3>2, UnitTyped, WaitTyped
  <2>3. WaitInv'
    BY <2>1, <2>2 DEF WaitInv
  <2>4. ParkedInv'
    <3>1. SUFFICES ASSUME wait'.since = events', drive'.plugged, drive'.mech = "parked"
                   PROVE  ParkedAt(wait)'
      BY DEF ParkedInv
    <3>2. wait.since = events
      BY <1>2, <1>5, <1>10, <3>1, UnitTyped, WaitTyped DEF WaitInv, GoesOn
    <3>3. ParkedAt(wait)
      BY <1>2, <1>5, <3>1, <3>2 DEF ParkedInv, Lessened
    <3> QED  BY <1>2, <1>10, <3>3 DEF ParkedAt, GoesOn
  <2> QED  BY <1>6, <1>8, <1>10, <2>3, <2>4
<1> QED  BY <1>4, <1>9, <1>10

LEMMA BeginWaitKeeps ==
  ASSUME UnitInv, NEW who \in Threads \cup {Registrar}, BeginWait(who)
  PROVE  UnitInv'
<1> USE DEF UnitInv
<1>1. PICK queued \in {0, SpinUpMax} : wait' = NewWait(who, queued)
  BY DEF BeginWait
<1>2. UNCHANGED <<machine, drive, not_ready, cancelled, device_gone, events, heard>>
  BY DEF BeginWait
<1>3. queued \in Nat /\ queued >= 0 /\ MaxUnitAttentions \in Nat
  BY CeilingsOrdered
<1>4. 0 \in 0 .. MaxUnitAttentions /\ 0 \in 0 .. 4 /\ events \in 0 .. MaxEvents
  BY <1>3 DEF UnitTypeOK
<1>5. wait' \in WaitRecord /\ wait'.pc = "start" /\ wait'.met = 0 /\ wait'.since = events
      /\ wait'.asked = 0 /\ wait'.elapsed = queued
  BY <1>1, <1>3, <1>4 DEF NewWait, WaitRecord
<1>7. UnitTypeOK'
  BY <1>2, <1>5 DEF UnitTypeOK, WaitRecord
<1>8. MechInv'
  BY <1>2 DEF MechInv
<1>9. WaitInv'
  <2>1. events <= events
    BY <1>4
  <2> QED  BY <1>2, <1>3, <1>5, <2>1 DEF WaitInv, Met
<1>10. ParkedInv'
  BY <1>5 DEF ParkedInv, ParkedAt
<1>11. WaitIsBounded'
  BY <1>5 DEF WaitIsBounded
<1> QED  BY <1>7, <1>8, <1>9, <1>10, <1>11

\* Whatever leaves the wait alone, and does not park a disc it believes in.
LEMMA WaitAloneKeeps ==
  ASSUME UnitInv, UNCHANGED <<machine, wait>>,
         not_ready' \in BOOLEAN, cancelled' \in BOOLEAN, device_gone' \in BOOLEAN,
         drive' \in DriveRecord, MechInv', heard' \subseteq Swaps,
         UNCHANGED events \/ (events < MaxEvents /\ events' = events + 1),
         wait = None \/ UNCHANGED drive \/ events' # events \/ drive'.mech # "parked"
  PROVE  UnitInv'
<1> USE DEF UnitInv
<1>1. events' \in 0 .. MaxEvents /\ events <= events'
  BY UnitTyped
<1>2. UnitTypeOK'
  BY <1>1 DEF UnitTypeOK, DriveRecord
<1>3. WaitIsBounded'
  BY DEF WaitIsBounded
<1>4. CASE wait = None
  BY <1>2, <1>3, <1>4 DEF WaitInv, ParkedInv
<1>5. CASE wait # None
  <2>1. wait.since <= events /\ wait.since \in Nat
    BY <1>5, WaitTyped DEF WaitInv
  <2>2. wait.since <= events'
    BY <1>1, <2>1, UnitTyped
  <2>3. WaitInv'
    BY <2>2 DEF WaitInv
  <2>4. ParkedInv'
    <3>1. SUFFICES ASSUME wait.since = events', drive'.plugged, drive'.mech = "parked"
                   PROVE  ParkedAt(wait)'
      BY DEF ParkedInv
    <3>2. UNCHANGED events
      BY <2>1, <3>1, UnitTyped
    <3>3. UNCHANGED drive
      BY <1>5, <3>1, <3>2
    <3>4. ParkedAt(wait)
      BY <1>5, <3>1, <3>2, <3>3 DEF ParkedInv
    <3> QED  BY <3>3, <3>4 DEF ParkedAt
  <2> QED  BY <1>2, <1>3, <2>3, <2>4
<1> QED  BY <1>4, <1>5

-----------------------------------------------------------------------------
(* The user, the mechanism, and the commands of the consumers. *)

\* A device once unplugged is not plugged in again.
PlugOnly == drive'.plugged => drive.plugged

LEMMA EventKeeps ==
  ASSUME UnitInv, NEW d \in DriveRecord, Event(d), d.disc = drive.disc,
         d.content # None <=> d.mech \notin {"open", "empty"}
  PROVE  UnitInv' /\ PlugOnly
<1>1. /\ drive' = d /\ events < MaxEvents /\ events' = events + 1 /\ drive.plugged
      /\ UNCHANGED <<machine, not_ready, cancelled, device_gone, wait, heard>>
  BY DEF Event
<1>2. events \in Nat /\ events' # events /\ drive.disc <= events + 1 /\ drive.disc \in Nat
  BY <1>1, UnitTyped DEF UnitInv, MechInv
<1>3. MechInv'
  BY <1>1, <1>2 DEF MechInv
<1>4. heard' \subseteq Swaps /\ not_ready' \in BOOLEAN /\ cancelled' \in BOOLEAN /\ device_gone' \in BOOLEAN
  BY <1>1 DEF UnitInv, UnitTypeOK
<1>5. UnitInv'
  BY <1>1, <1>2, <1>3, <1>4, WaitAloneKeeps
<1> QED  BY <1>1, <1>5 DEF PlugOnly

LEMMA EnvironmentKeeps ==
  ASSUME UnitInv, Environment
  PROVE  UnitInv' /\ PlugOnly
<1> USE DEF UnitInv
<1>0. /\ drive \in DriveRecord /\ drive.attention \subseteq Attentions
      /\ drive.content # None <=> drive.mech \notin {"open", "empty"}
  BY UnitTyped DEF MechInv
<1>1. CASE Opens
  <2> DEFINE d == [drive EXCEPT !.mech = "open", !.content = None]
  <2>1. d \in DriveRecord /\ d.disc = drive.disc /\ d.mech = "open" /\ d.content = None
    BY <1>0 DEF DriveRecord, Mechanisms, Contents
  <2> QED  BY <1>1, <2>1, EventKeeps DEF Opens
<1>2. CASE Parks
  <2> DEFINE d == [drive EXCEPT !.mech = "parked"]
  <2>1. d \in DriveRecord /\ d.disc = drive.disc /\ d.mech = "parked" /\ d.content = drive.content
    BY <1>0 DEF DriveRecord, Mechanisms
  <2> QED  BY <1>0, <1>2, <2>1, EventKeeps DEF Parks
<1>3. CASE Resets
  <2> DEFINE d == [drive EXCEPT !.attention = @ \cup {"reset"}]
  <2>1. d \in DriveRecord /\ d.disc = drive.disc /\ d.mech = drive.mech /\ d.content = drive.content
    BY <1>0 DEF DriveRecord, Attentions
  <2> QED  BY <1>0, <1>3, <2>1, EventKeeps DEF Resets
<1>4. CASE Unplugs
  <2> DEFINE d == [drive EXCEPT !.plugged = FALSE, !.attention = {}]
  <2>1. d \in DriveRecord /\ d.disc = drive.disc /\ d.mech = drive.mech /\ d.content = drive.content
    BY <1>0 DEF DriveRecord
  <2> QED  BY <1>0, <1>4, <2>1, EventKeeps DEF Unplugs
<1>5. CASE Closes
  <2>1. PICK disc \in Discs \cup {None} : drive' = Inserted(disc)
    BY <1>5 DEF Closes
  <2>2. /\ drive.mech = "open"
        /\ UNCHANGED <<machine, not_ready, cancelled, device_gone, wait, events, heard>>
    BY <1>5 DEF Closes
  <2>3. /\ drive' \in DriveRecord /\ MechInv'
        /\ drive'.mech \in {"empty", "loading"} /\ drive'.plugged = drive.plugged
    BY <2>1, <2>2, InsertedIs
  <2> QED  BY <2>2, <2>3, WaitAloneKeeps DEF PlugOnly, UnitTypeOK
<1>6. CASE Loads
  <2>1. PICK a \in {{}, {"changed"}} :
           drive' = [drive EXCEPT !.mech = "ready", !.attention = @ \cup a]
    BY <1>6 DEF Loads
  <2>2. /\ drive.mech \in {"loading", "waking"}
        /\ UNCHANGED <<machine, not_ready, cancelled, device_gone, wait, events, heard>>
    BY <1>6 DEF Loads
  <2>3. /\ drive' \in DriveRecord /\ drive'.mech = "ready" /\ drive'.content = drive.content
        /\ drive'.disc = drive.disc /\ drive'.plugged = drive.plugged
    BY <1>0, <2>1 DEF DriveRecord, Mechanisms, Attentions
  <2>4. MechInv'
    BY <1>0, <2>2, <2>3 DEF MechInv
  <2> QED  BY <2>2, <2>3, <2>4, WaitAloneKeeps DEF PlugOnly, UnitTypeOK
<1> QED  BY <1>1, <1>2, <1>3, <1>4, <1>5, <1>6 DEF Environment

LEMMA LastReleaseKeeps ==
  ASSUME UnitInv, LastRelease
  PROVE  UnitInv' /\ PlugOnly
<1>1. /\ cancelled' = TRUE
      /\ UNCHANGED <<machine, drive, not_ready, device_gone, wait, events, heard>>
  BY DEF LastRelease
<1>2. MechInv' /\ drive' \in DriveRecord
  BY <1>1, UnitTyped DEF MechInv, UnitInv
<1> QED  BY <1>1, <1>2, WaitAloneKeeps DEF PlugOnly, UnitInv, UnitTypeOK

\* A disc that a command read is up to speed.
\* A command that goes on past what the drive reports: the attentions it took
\* are gone, and the drive may have come up.
LEMMA GetsPastIs ==
  ASSUME UnitTypeOK, NEW left, left \subseteq drive.attention, NEW up \in BOOLEAN,
         GetsPast(left, up)
  PROVE  /\ drive' \in DriveRecord /\ drive'.plugged = drive.plugged
         /\ drive'.mech = (IF up THEN "ready" ELSE drive.mech)
         /\ drive'.content = drive.content /\ drive'.disc = drive.disc
         /\ drive'.attention = left /\ not_ready' \in BOOLEAN
         /\ heard' \subseteq Swaps /\ heard \subseteq heard'
         /\ ~up /\ drive.attention = {} => not_ready' = not_ready
<1>1. PICK announced \in Announcements(up) :
         LET taken == ({"changed"} \cap (drive.attention \ left)) \cup announced
         IN  \E lost \in SUBSET taken :
                LET free == taken \ lost
                    whos == (IF free # {} THEN {"free"} ELSE {})
                               \cup (IF lost # {} THEN {"lost"} ELSE {})
                IN  /\ "changed" \in free => not_ready
                    /\ not_ready' = (not_ready /\ free = {})
                    /\ heard' = heard \cup (({drive.disc} \X whos) \cap Swaps)
                    /\ drive' = [drive EXCEPT !.mech = IF up THEN "ready" ELSE @,
                                              !.attention = left]
  BY DEF GetsPast
<1> DEFINE taken == ({"changed"} \cap (drive.attention \ left)) \cup announced
<1>2. PICK lost \in SUBSET taken :
         /\ not_ready' = (not_ready /\ taken \ lost = {})
         /\ \E whos : heard' = heard \cup (({drive.disc} \X whos) \cap Swaps)
         /\ drive' = [drive EXCEPT !.mech = IF up THEN "ready" ELSE @, !.attention = left]
  BY <1>1
<1>3. heard' \subseteq Swaps /\ heard \subseteq heard'
  BY <1>2, UnitTyped
<1>4. drive' = [drive EXCEPT !.mech = IF up THEN "ready" ELSE drive.mech, !.attention = left]
  BY <1>2
<1>5. /\ drive' \in DriveRecord /\ drive'.plugged = drive.plugged
      /\ drive'.mech = (IF up THEN "ready" ELSE drive.mech)
      /\ drive'.content = drive.content /\ drive'.disc = drive.disc
      /\ drive'.attention = left
  BY <1>4, UnitTyped DEF DriveRecord, Mechanisms
<1>6. not_ready \in BOOLEAN /\ not_ready' \in BOOLEAN
  BY <1>2 DEF UnitTypeOK
<1>7. ASSUME ~up, drive.attention = {}
      PROVE  not_ready' = not_ready
  <2>1. announced = {}
    BY <1>7 DEF Announcements
  <2>2. taken \ lost = {}
    BY <1>7, <2>1
  <2> QED  BY <1>2, <1>6, <2>2
<1> QED  BY <1>3, <1>5, <1>6, <1>7

\* The drive it leaves is one a disc can lie in, or nothing.
LEMMA GetsPastKeeps ==
  ASSUME UnitTypeOK, MechInv, NEW left, left \subseteq drive.attention, NEW up \in BOOLEAN,
         up => ComesUp, GetsPast(left, up), events' \in {events, events + 1}
  PROVE  MechInv'
<1>1. /\ drive'.mech = (IF up THEN "ready" ELSE drive.mech)
      /\ drive'.content = drive.content /\ drive'.disc = drive.disc
  BY GetsPastIs
<1>2. /\ drive'.mech = "open" <=> drive.mech = "open"
      /\ drive'.mech = "empty" <=> drive.mech = "empty"
  BY <1>1 DEF ComesUp
<1>3. events' >= events /\ events' \in Nat
  BY UnitTyped
<1> QED  BY <1>1, <1>2, <1>3, UnitTyped DEF MechInv

\* The commands of the identification that go on past what is reported.
LEMMA PastIs ==
  ASSUME NEW st, NoDisc(st) \/ Answers(st) \/ Fails(st)
  PROVE  /\ Reachable /\ UNCHANGED device_gone
         /\ UNCHANGED events \/ (events < MaxEvents /\ events' = events + 1)
         /\ \E left \in SUBSET drive.attention, up \in BOOLEAN :
               (up => ComesUp) /\ GetsPast(left, up)
<1>1. {} \in SUBSET drive.attention /\ FALSE \in BOOLEAN /\ TRUE \in BOOLEAN
  OBVIOUS
<1>2. CASE NoDisc(st)
  BY <1>1, <1>2 DEF NoDisc
<1>3. CASE Answers(st)
  BY <1>1, <1>3 DEF Answers
<1>4. CASE Fails(st)
  <2>1. CASE GetsPast({}, FALSE) /\ UNCHANGED events
    BY <1>1, <1>4, <2>1 DEF Fails
  <2>2. CASE /\ events < MaxEvents /\ events' = events + 1
             /\ \E left \in SUBSET drive.attention, up \in BOOLEAN :
                   (up => ComesUp) /\ GetsPast(left, up)
    BY <1>4, <2>2 DEF Fails
  <2> QED  BY <1>4, <2>1, <2>2 DEF Fails
<1> QED  BY <1>2, <1>3, <1>4

LEMMA CdbKeeps ==
  ASSUME UnitInv, NEW t \in Threads, NEW st, Cdb(t, st)
  PROVE  UnitInv' /\ PlugOnly
<1> USE DEF UnitInv
<1>1. UNCHANGED <<machine, cancelled, wait>>
  BY DEF Cdb
<1>2. /\ drive \in DriveRecord /\ cancelled \in BOOLEAN /\ not_ready \in BOOLEAN
      /\ device_gone \in BOOLEAN /\ heard \subseteq Swaps
  BY UnitTyped DEF UnitTypeOK
<1>3. CASE Unanswered(st)
  <2>1. /\ UNCHANGED <<drive, not_ready, events, heard>>
        /\ device_gone' \in {device_gone, TRUE}
    BY <1>3 DEF Unanswered
  <2>2. MechInv'
    BY <2>1 DEF MechInv
  <2> QED  BY <1>1, <1>2, <2>1, <2>2, WaitAloneKeeps DEF PlugOnly
<1>4. CASE Swapped(t, st)
  <2>1. PICK left \in SUBSET (drive.attention \ {"changed"}) :
           drive' = [drive EXCEPT !.attention = left]
    BY <1>4 DEF Swapped
  <2>2. wait = None /\ UNCHANGED <<not_ready, device_gone, events>> /\ heard' = Consumed("changed", t)
    BY <1>4 DEF Swapped, Reachable, IoFree
  <2>3. Lessened
    BY <2>1, AttentionLessens
  <2>4. MechInv' /\ heard' \subseteq Swaps
    BY <2>2, <2>3, LessenedKeepsMech, ConsumedIsSwap
  <2> QED  BY <1>1, <1>2, <2>2, <2>3, <2>4, WaitAloneKeeps DEF PlugOnly, Lessened
<1>5. CASE NoDisc(st) \/ Answers(st) \/ Fails(st)
  <2>1. /\ wait = None /\ UNCHANGED device_gone
        /\ UNCHANGED events \/ (events < MaxEvents /\ events' = events + 1)
    BY <1>5, PastIs DEF Reachable, IoFree
  <2>2. PICK left \in SUBSET drive.attention, up \in BOOLEAN :
           (up => ComesUp) /\ GetsPast(left, up)
    BY <1>5, PastIs
  <2>3. /\ drive' \in DriveRecord /\ drive'.plugged = drive.plugged
        /\ not_ready' \in BOOLEAN /\ heard' \subseteq Swaps
    BY <2>2, GetsPastIs
  <2>4. MechInv'
    BY <2>1, <2>2, GetsPastKeeps
  <2> QED  BY <1>1, <1>2, <2>1, <2>3, <2>4, WaitAloneKeeps DEF PlugOnly
<1> QED  BY <1>3, <1>4, <1>5 DEF Cdb

LEMMA SettleAsksKeeps ==
  ASSUME UnitInv, NEW t \in Threads, SettleAsks(t)
  PROVE  UnitInv' /\ PlugOnly
<1>1. PICK sense \in PollSenses : TestUnitReady(t, sense)
  BY DEF SettleAsks, PollSenses
<1>2. wait = None /\ UNCHANGED <<machine, not_ready, cancelled, device_gone, wait>>
  BY DEF SettleAsks, IoFree
<1>3. /\ Lessened /\ heard' \subseteq Swaps
      /\ UNCHANGED events \/ (events < MaxEvents /\ events' = events + 1)
  BY <1>1, TestUnitReadyIs DEF UnitInv
<1>4. MechInv'
  BY <1>3, LessenedKeepsMech DEF UnitInv
<1> QED  BY <1>2, <1>3, <1>4, WaitAloneKeeps DEF PlugOnly, Lessened, UnitInv, UnitTypeOK

LEMMA SameUnitKeeps ==
  ASSUME UnitInv, UNCHANGED unit
  PROVE  UnitInv' /\ PlugOnly
<1>1. UNCHANGED <<machine, drive, not_ready, cancelled, device_gone, wait, events, heard>>
  BY DEF unit
<1>2. /\ drive' \in DriveRecord /\ heard' \subseteq Swaps
      /\ not_ready' \in BOOLEAN /\ cancelled' \in BOOLEAN /\ device_gone' \in BOOLEAN
  BY <1>1 DEF UnitInv, UnitTypeOK, DriveRecord
<1>3. MechInv'
  BY <1>1 DEF UnitInv, MechInv
<1> QED  BY <1>1, <1>2, <1>3, WaitAloneKeeps DEF PlugOnly

-----------------------------------------------------------------------------
(* The least of a set of numbers. *)

LEMMA LeastExists ==
  ASSUME NEW S, S \subseteq Nat, S # {}
  PROVE  Min(S) \in S /\ \A x \in S : Min(S) <= x
<1>1. PICK x \in S : \A y \in S : ~(<<y, x>> \in OpToRel(<, Nat))
  BY NatLessThanWellFounded, WFMin
<1>2. \A y \in S : x <= y
  <2> TAKE y \in S
  <2>1. x \in Nat /\ y \in Nat
    OBVIOUS
  <2>2. ~(y < x)
    BY <1>1, <2>1 DEF OpToRel
  <2> QED  BY <2>1, <2>2
<1> QED  BY <1>1, <1>2 DEF Min

LEMMA LeastIs ==
  ASSUME NEW S, S \subseteq Nat, NEW x \in S, \A y \in S : x <= y
  PROVE  Min(S) = x
<1>1. Min(S) \in S /\ Min(S) <= x
  BY LeastExists
<1>2. x <= Min(S) /\ x \in Nat /\ Min(S) \in Nat
  BY <1>1
<1> QED  BY <1>1, <1>2

-----------------------------------------------------------------------------
(* The registration. *)

SetupRecord ==
    [pc : {"endpoints", "probe", "unlock", "settle", "settling", "published", "declined"},
     iface : {None} \cup DOMAIN machine.interfaces,
     lun : 0 .. MaxLunProbed, attempt : 1 .. InquiryAttempts,
     lun0_pdt : {None} \cup 0 .. 31, quiet : BOOLEAN]

IfaceInv ==
    /\ setup.iface # None => Usable(machine.interfaces[setup.iface])
    /\ setup.pc \in {"probe", "unlock", "settle", "settling"} => setup.iface # None

\* What a probe without losses knows of the units it has passed.
Knows(s, passed) ==
    s.quiet => /\ passed > 0 => s.lun0_pdt = IF 0 \in Answering THEN machine.units[0] ELSE None
               /\ \A u \in Optical : u >= passed

ProbeInv ==
    setup.pc = "probe" =>
        /\ setup.lun <= HighestLun /\ setup.attempt <= AttemptsOn(setup.lun)
        /\ setup.lun = 0 => setup.lun0_pdt = None
        /\ Knows(setup, setup.lun)

EndpointsInv ==
    setup.pc = "endpoints" => setup.lun = 0 /\ setup.attempt = 1 /\ setup.lun0_pdt = None

SetupInv == SetupTypeOK /\ IfaceInv /\ EndpointsInv /\ ProbeInv /\ DriveIsFound

LEMMA MachineTyped ==
  ASSUME machine \in Machines
  PROVE  /\ DOMAIN machine.interfaces \subseteq Nat /\ DOMAIN machine.units \subseteq Nat
         /\ \A u \in DOMAIN machine.units : machine.units[u] \in 0 .. 31 \cup {None}
         /\ machine.max_lun \in Nat \cup {None} /\ machine.settling \in Nat
         /\ HighestLun \in Nat /\ HighestLun <= MaxLunProbed
         /\ Answering \subseteq Nat /\ Optical \subseteq Answering
         /\ \A u \in Answering : u <= HighestLun
<1>1. /\ DOMAIN machine.interfaces \subseteq Nat /\ DOMAIN machine.units \subseteq Nat
      /\ \A u \in DOMAIN machine.units : machine.units[u] \in 0 .. 31 \cup {None}
      /\ machine.max_lun \in Nat \cup {None} /\ machine.settling \in Nat
  BY MachinesTyped
<1>2. HighestLun \in Nat /\ HighestLun <= MaxLunProbed
  BY <1>1, ProbeBounds, NoneIsNoNumber DEF HighestLun, Least
<1>3. Answering \subseteq Nat /\ Optical \subseteq Answering
  BY <1>1 DEF Answering, Optical
<1>4. \A u \in Answering : u <= HighestLun
  <2> TAKE u \in Answering
  <2>1. /\ u \in Nat /\ u <= MaxLunProbed
        /\ u <= (IF machine.max_lun = None THEN 0 ELSE machine.max_lun)
    BY <1>3 DEF Answering
  <2> QED  BY <1>1, <2>1, ProbeBounds DEF HighestLun, Least
<1> QED  BY <1>1, <1>2, <1>3, <1>4

\* A usable interface is found if there is one.
LEMMA ChosenInterfaceIs ==
  ASSUME machine \in Machines
  PROVE  LET i == ChosenInterface(machine.interfaces)
         IN  \/ i = None /\ \A j \in DOMAIN machine.interfaces : ~Usable(machine.interfaces[j])
             \/ i # None /\ i \in DOMAIN machine.interfaces /\ Usable(machine.interfaces[i])
<1> DEFINE usable == {i \in DOMAIN machine.interfaces : Usable(machine.interfaces[i])}
<1>1. CASE usable = {}
  BY <1>1 DEF ChosenInterface
<1>2. CASE usable # {}
  <2>1. usable \subseteq Nat
    BY MachineTyped
  <2>2. Min(usable) \in usable
    BY <1>2, <2>1, LeastExists
  <2>3. Min(usable) \in Nat
    BY <2>1, <2>2
  <2>4. ChosenInterface(machine.interfaces) = Min(usable)
    BY <1>2 DEF ChosenInterface
  <2> QED  BY <2>2, <2>3, <2>4, NoneIsNoNumber
<1> QED  BY <1>1, <1>2

\* The reference depends on the machine only.
LEMMA SameMachine ==
  ASSUME UNCHANGED machine
  PROVE  UNCHANGED <<Answering, Optical, HighestLun, IsKept, SetupRecord>>
BY DEF Answering, Optical, HighestLun, IsKept, SetupRecord

\* A device turned away, its first unit known and no unit optical.
LEMMA NotKept ==
  ASSUME machine \in Machines, Optical = {}, NEW pdt \in {None, DirectAccess},
         pdt = IF 0 \in Answering THEN machine.units[0] ELSE None
  PROVE  ~IsKept
<1>1. 0 \in Answering => machine.units[0] # None
  BY DEF Answering
<1> QED  BY <1>1 DEF IsKept

\* The loop beyond a unit that is not an optical drive.
LEMMA NextUnitKeeps ==
  ASSUME machine \in Machines, UNCHANGED machine, PlugOnly,
         NEW s \in SetupRecord, s.pc = "probe", s.iface # None, Usable(machine.interfaces[s.iface]),
         s.lun <= HighestLun, Knows(s, s.lun + 1), NextUnit(s)
  PROVE  SetupInv' /\ setup'.pc \in {"probe", "unlock", "declined"}
<1>1. /\ s.lun \in Nat /\ s.lun <= MaxLunProbed /\ 1 \in 1 .. InquiryAttempts
      /\ 0 \in 0 .. MaxLunProbed
      /\ s.lun0_pdt \in {None} \cup 0 .. 31 /\ s.quiet \in BOOLEAN
      /\ HighestLun \in Nat /\ HighestLun <= MaxLunProbed
  BY ProbeBounds, MachineTyped DEF SetupRecord
<1>2. UNCHANGED <<Answering, Optical, HighestLun, IsKept, SetupRecord>>
  BY SameMachine
<1>3. CASE s.lun < HighestLun
  <2> DEFINE lun == s.lun + 1
  <2>1. lun \in 0 .. MaxLunProbed /\ lun <= HighestLun /\ lun > 0
    BY <1>1, <1>3, ProbeBounds
  <2>2. setup' = [s EXCEPT !.lun = lun, !.attempt = 1]
    BY <1>3 DEF NextUnit
  <2> HIDE DEF lun
  <2>4. /\ setup' \in SetupRecord /\ setup'.pc = s.pc /\ setup'.iface = s.iface
        /\ setup'.lun = lun /\ setup'.attempt = 1 /\ setup'.lun0_pdt = s.lun0_pdt
        /\ setup'.quiet = s.quiet
    BY <1>1, <2>1, <2>2 DEF SetupRecord
  <2>5. Knows(setup, setup.lun)'
    BY <1>2, <2>4 DEF Knows, lun
  <2>6. ProbeInv'
    BY <1>2, <2>1, <2>4, <2>5 DEF ProbeInv, AttemptsOn
  <2>7. SetupTypeOK'
    BY <1>2, <2>4 DEF SetupTypeOK, SetupRecord
  <2>8. IfaceInv' /\ EndpointsInv' /\ DriveIsFound'
    BY <2>4 DEF IfaceInv, EndpointsInv, DriveIsFound
  <2> QED  BY <2>4, <2>6, <2>7, <2>8 DEF SetupInv
<1>4. CASE ~(s.lun < HighestLun)
  <2>1. NoUnitIsOptical(s)
    BY <1>4 DEF NextUnit
  <2>2. s.quiet => Optical = {}
    <3>1. s.quiet => \A u \in Optical : u >= s.lun + 1 /\ u <= HighestLun /\ u \in Nat
      BY MachineTyped DEF Knows
    <3> QED  BY <1>1, <1>4, <3>1
  <2>3. s.quiet => s.lun0_pdt = IF 0 \in Answering THEN machine.units[0] ELSE None
    BY <1>1 DEF Knows
  <2>4. CASE s.lun0_pdt \in {None, DirectAccess}
    <3>1. setup' = [s EXCEPT !.lun = 0, !.pc = "declined"]
      BY <2>1, <2>4 DEF NoUnitIsOptical, Decline, BackToLunZero
    <3>2. /\ setup' \in SetupRecord /\ setup'.pc = "declined" /\ setup'.iface = s.iface
          /\ setup'.quiet = s.quiet
      BY <1>1, <3>1 DEF SetupRecord
    <3>3. setup'.quiet => ~IsKept'
      BY <1>2, <2>2, <2>3, <2>4, <3>2, NotKept
    <3>4. DriveIsFound'
      BY <3>2, <3>3 DEF DriveIsFound
    <3>5. SetupTypeOK'
      BY <1>2, <3>2 DEF SetupTypeOK, SetupRecord
    <3>6. IfaceInv' /\ EndpointsInv' /\ ProbeInv'
      BY <3>2 DEF IfaceInv, EndpointsInv, ProbeInv
    <3> QED  BY <3>2, <3>4, <3>5, <3>6 DEF SetupInv
  <2>5. CASE s.lun0_pdt \notin {None, DirectAccess}
    <3>1. setup' = [s EXCEPT !.lun = 0, !.pc = "unlock"]
      BY <2>1, <2>5 DEF NoUnitIsOptical, BackToLunZero
    <3>2. /\ setup' \in SetupRecord /\ setup'.pc = "unlock" /\ setup'.iface = s.iface
          /\ setup'.quiet = s.quiet /\ setup'.lun = 0
      BY <1>1, <3>1 DEF SetupRecord
    <3>3. DriveIsFound'
      BY <1>2, <2>2, <3>2 DEF DriveIsFound, Usable
    <3>4. SetupTypeOK'
      BY <1>2, <3>2 DEF SetupTypeOK, SetupRecord
    <3>5. IfaceInv' /\ EndpointsInv' /\ ProbeInv'
      BY <3>2 DEF IfaceInv, EndpointsInv, ProbeInv
    <3> QED  BY <3>2, <3>3, <3>4, <3>5 DEF SetupInv
  <2> QED  BY <2>4, <2>5
<1> QED  BY <1>3, <1>4

LEMMA InquiryUnansweredKeeps ==
  ASSUME machine \in Machines, UNCHANGED machine, PlugOnly,
         NEW s \in SetupRecord, s.pc = "probe", s.iface # None, Usable(machine.interfaces[s.iface]),
         s.lun <= HighestLun, s.attempt <= AttemptsOn(s.lun),
         s.lun = 0 => s.lun0_pdt = None, Knows(s, s.lun),
         s.quiet /\ ~(s.attempt < AttemptsOn(s.lun)) => s.lun \notin Answering,
         InquiryUnanswered(s)
  PROVE  SetupInv' /\ setup'.pc \in {"probe", "unlock", "declined"}
<1>1. s.lun \in Nat /\ s.attempt \in 1 .. InquiryAttempts /\ s.quiet \in BOOLEAN
  BY ProbeBounds DEF SetupRecord
<1>2. UNCHANGED <<Answering, Optical, HighestLun, IsKept, SetupRecord>>
  BY SameMachine
<1>3. CASE s.attempt < AttemptsOn(s.lun)
  <2> DEFINE attempt == s.attempt + 1
  <2>1. attempt \in 1 .. InquiryAttempts /\ attempt <= AttemptsOn(s.lun)
    BY <1>1, <1>3, ProbeBounds DEF AttemptsOn
  <2>2. setup' = [s EXCEPT !.attempt = attempt]
    BY <1>3 DEF InquiryUnanswered
  <2> HIDE DEF attempt
  <2>3. /\ setup' \in SetupRecord /\ setup'.pc = "probe" /\ setup'.iface = s.iface
        /\ setup'.lun = s.lun /\ setup'.attempt = attempt /\ setup'.lun0_pdt = s.lun0_pdt
        /\ setup'.quiet = s.quiet
    BY <2>1, <2>2 DEF SetupRecord
  <2>4. Knows(setup, setup.lun)'
    BY <1>2, <2>3 DEF Knows
  <2>5. ProbeInv'
    BY <1>2, <2>1, <2>3, <2>4 DEF ProbeInv, AttemptsOn
  <2>6. SetupTypeOK'
    BY <1>2, <2>3 DEF SetupTypeOK, SetupRecord
  <2>7. IfaceInv' /\ EndpointsInv' /\ DriveIsFound'
    BY <2>3 DEF IfaceInv, EndpointsInv, DriveIsFound
  <2> QED  BY <2>3, <2>5, <2>6, <2>7 DEF SetupInv
<1>4. CASE ~(s.attempt < AttemptsOn(s.lun))
  <2>1. s.quiet => s.lun \notin Answering
    BY <1>4
  <2>2. s.quiet => s.lun0_pdt = IF 0 \in Answering THEN machine.units[0] ELSE None
    BY <1>1, <2>1 DEF Knows
  <2>3. s.quiet => \A u \in Optical : u >= s.lun + 1
    BY <1>1, <2>1, MachineTyped DEF Knows
  <2>4. Knows(s, s.lun + 1)
    BY <2>2, <2>3 DEF Knows
  <2>5. NextUnit(s)
    BY <1>4 DEF InquiryUnanswered
  <2> QED  BY <2>4, <2>5, NextUnitKeeps
<1> QED  BY <1>3, <1>4

LEMMA InquiryAnsweredKeeps ==
  ASSUME machine \in Machines, UNCHANGED machine, PlugOnly,
         SetupInv, setup.pc = "probe", Answer # None, InquiryAnswered(Answer)
  PROVE  SetupInv' /\ setup'.pc \in {"probe", "unlock", "declined"}
<1>1. /\ setup \in SetupRecord /\ setup.lun \in Nat /\ setup.attempt \in 1 .. InquiryAttempts
      /\ setup.iface # None /\ Usable(machine.interfaces[setup.iface]) /\ setup.quiet \in BOOLEAN
      /\ setup.lun <= HighestLun /\ setup.attempt <= AttemptsOn(setup.lun)
      /\ Knows(setup, setup.lun) /\ setup.lun <= MaxLunProbed
  BY ProbeBounds DEF SetupInv, SetupTypeOK, SetupRecord, IfaceInv, ProbeInv
<1>2. UNCHANGED <<Answering, Optical, HighestLun, IsKept, SetupRecord>>
  BY SameMachine
<1>3. setup.lun \in DOMAIN machine.units /\ Answer = machine.units[setup.lun]
  BY DEF Answer
<1>4. setup.lun \in Answering
  <2>1. setup.lun <= (IF machine.max_lun = None THEN 0 ELSE machine.max_lun)
    BY <1>1, MachineTyped, ProbeBounds DEF HighestLun, Least
  <2>2. setup.lun = 0 => machine.settling < InquiryAttempts
    BY <1>1, MachineTyped, ProbeBounds DEF Answer
  <2> QED  BY <1>1, <1>3, <2>1, <2>2 DEF Answering
<1> DEFINE pdt == IF setup.lun = 0 THEN Answer ELSE setup.lun0_pdt
           s == [setup EXCEPT !.lun0_pdt = pdt]
<1>5. pdt \in {None} \cup 0 .. 31
  BY <1>1, <1>3, MachineTyped DEF SetupRecord
<1>6. IF Answer = CdDvd THEN setup' = [s EXCEPT !.pc = "unlock"] ELSE NextUnit(s)
  BY DEF InquiryAnswered
<1> HIDE DEF pdt
<1>7. /\ s \in SetupRecord /\ s.pc = "probe" /\ s.iface = setup.iface /\ s.lun = setup.lun
      /\ s.attempt = setup.attempt /\ s.lun0_pdt = pdt /\ s.quiet = setup.quiet
  BY <1>1, <1>5 DEF SetupRecord
<1>8. CASE Answer = CdDvd
  <2>1. setup' = [setup EXCEPT !.lun0_pdt = pdt, !.pc = "unlock"]
    BY <1>6, <1>8
  <2>2. /\ setup' \in SetupRecord /\ setup'.pc = "unlock" /\ setup'.iface = setup.iface
        /\ setup'.quiet = setup.quiet /\ setup'.lun = setup.lun
    BY <1>1, <1>5, <2>1 DEF SetupRecord
  <2>3. setup.lun \in Optical
    BY <1>3, <1>4, <1>8 DEF Optical
  <2>4. setup.quiet => Min(Optical) = setup.lun
    <3>1. setup.quiet => \A u \in Optical : setup.lun <= u
      BY <1>1, MachineTyped DEF Knows
    <3>2. Optical \subseteq Nat
      BY MachineTyped
    <3> QED  BY <2>3, <3>1, <3>2, LeastIs
  <2>5. DriveIsFound'
    BY <1>1, <1>2, <1>3, <1>8, <2>2, <2>3, <2>4 DEF DriveIsFound, Usable
  <2>6. SetupTypeOK'
    BY <1>2, <2>2 DEF SetupTypeOK, SetupRecord
  <2>7. IfaceInv' /\ EndpointsInv' /\ ProbeInv'
    BY <1>1, <2>2 DEF IfaceInv, EndpointsInv, ProbeInv
  <2> QED  BY <2>2, <2>5, <2>6, <2>7 DEF SetupInv
<1>9. CASE Answer # CdDvd
  <2>1. NextUnit(s)
    BY <1>6, <1>9
  <2>2. setup.lun \notin Optical
    BY <1>3, <1>9 DEF Optical
  <2>3. setup.quiet => \A u \in Optical : u >= setup.lun + 1
    BY <1>1, <2>2, MachineTyped DEF Knows
  <2>4. setup.quiet => pdt = IF 0 \in Answering THEN machine.units[0] ELSE None
    BY <1>1, <1>3, <1>4 DEF Knows, pdt
  <2>5. Knows(s, s.lun + 1)
    BY <1>7, <2>3, <2>4 DEF Knows
  <2> HIDE DEF s
  <2> QED  BY <1>1, <1>7, <2>1, <2>5, NextUnitKeeps
<1> QED  BY <1>8, <1>9

LEMMA InquiryKeeps ==
  ASSUME machine \in Machines, SetupInv, Inquiry
  PROVE  SetupInv'
<1>0. setup.pc = "probe" /\ UNCHANGED <<machine, drive>> /\ PlugOnly
  BY DEF Inquiry, PlugOnly
<1>1. /\ setup \in SetupRecord /\ setup.lun \in Nat /\ setup.attempt \in 1 .. InquiryAttempts
      /\ setup.iface # None /\ Usable(machine.interfaces[setup.iface]) /\ setup.quiet \in BOOLEAN
      /\ setup.lun <= HighestLun /\ setup.attempt <= AttemptsOn(setup.lun)
      /\ Knows(setup, setup.lun)
      /\ setup.lun = 0 => setup.lun0_pdt = None
  BY <1>0, ProbeBounds DEF SetupInv, SetupTypeOK, SetupRecord, IfaceInv, ProbeInv
<1>2. CASE ~drive.plugged /\ Decline(BackToLunZero(setup))
  <2>1. setup' = [setup EXCEPT !.lun = 0, !.pc = "declined"]
    BY <1>2 DEF Decline, BackToLunZero
  <2>2. 0 \in 0 .. MaxLunProbed
    BY ProbeBounds
  <2>3. setup' \in SetupRecord /\ setup'.pc = "declined" /\ setup'.iface = setup.iface
    BY <1>1, <2>1, <2>2 DEF SetupRecord
  <2>4. SetupTypeOK'
    BY <1>0, <2>3 DEF SetupTypeOK, SetupRecord
  <2>5. IfaceInv' /\ EndpointsInv' /\ ProbeInv' /\ DriveIsFound'
    BY <1>0, <1>1, <1>2, <2>3 DEF IfaceInv, EndpointsInv, ProbeInv, DriveIsFound
  <2> QED  BY <2>4, <2>5 DEF SetupInv
<1>3. CASE Answer = None /\ InquiryUnanswered(setup)
  <2>1. ~(setup.attempt < AttemptsOn(setup.lun)) => setup.lun \notin Answering
    <3>1. SUFFICES ASSUME ~(setup.attempt < AttemptsOn(setup.lun)), setup.lun \in Answering
                   PROVE  FALSE
      OBVIOUS
    <3>2. setup.lun = 0 /\ setup.attempt <= machine.settling
      BY <1>3, <3>1 DEF Answer, Answering
    <3> QED  BY <1>1, <3>1, <3>2, MachineTyped, ProbeBounds DEF Answering, AttemptsOn
  <2> QED  BY <1>0, <1>1, <1>3, <2>1, InquiryUnansweredKeeps
<1>4. CASE Answer # None /\ InquiryAnswered(Answer)
  BY <1>0, <1>4, InquiryAnsweredKeeps
<1>5. CASE InquiryUnanswered([setup EXCEPT !.quiet = FALSE])
  <2> DEFINE s == [setup EXCEPT !.quiet = FALSE]
  <2>1. /\ s \in SetupRecord /\ s.pc = "probe" /\ s.iface = setup.iface /\ s.lun = setup.lun
        /\ s.attempt = setup.attempt /\ s.lun0_pdt = setup.lun0_pdt /\ ~s.quiet
    BY <1>0, <1>1 DEF SetupRecord
  <2>2. Knows(s, s.lun)
    BY <2>1 DEF Knows
  <2>3. InquiryUnanswered(s)
    BY <1>5
  <2> HIDE DEF s
  <2> QED  BY <1>0, <1>1, <2>1, <2>2, <2>3, InquiryUnansweredKeeps
<1> QED  BY <1>2, <1>3, <1>4, <1>5 DEF Inquiry

LEMMA SameSetupKeeps ==
  ASSUME SetupInv, UNCHANGED <<setup, machine>>, PlugOnly
  PROVE  SetupInv'
<1>1. UNCHANGED <<Answering, Optical, HighestLun, IsKept, SetupRecord>>
  BY SameMachine
<1>2. SetupTypeOK' /\ IfaceInv' /\ EndpointsInv'
  BY DEF SetupInv, SetupTypeOK, IfaceInv, EndpointsInv
<1>3. ProbeInv'
  BY <1>1 DEF SetupInv, ProbeInv, Knows
<1>4. DriveIsFound'
  BY <1>1 DEF SetupInv, DriveIsFound, PlugOnly
<1> QED  BY <1>2, <1>3, <1>4 DEF SetupInv

\* The unit and the registration, before and after any step.
LowerInv == UnitInv /\ SetupInv /\ StageInv

LEMMA RegisterKeeps ==
  ASSUME LowerInv, Register
  PROVE  LowerInv'
<1> USE DEF LowerInv
<1>0. /\ machine \in Machines /\ setup \in SetupRecord
      /\ SetupInv /\ UnitInv /\ StageInv
  BY DEF UnitInv, UnitTypeOK, SetupInv, SetupTypeOK, SetupRecord
<1>1. CASE ChooseInterface
  <2> DEFINE i == ChosenInterface(machine.interfaces)
  <2>1. /\ setup.pc = "endpoints" /\ UNCHANGED unit
        /\ IF i = None THEN setup' = [setup EXCEPT !.pc = "declined"]
                       ELSE setup' = [setup EXCEPT !.iface = i, !.pc = "probe"]
    BY <1>1 DEF ChooseInterface, Decline
  <2>2. \/ i = None /\ \A j \in DOMAIN machine.interfaces : ~Usable(machine.interfaces[j])
        \/ i # None /\ i \in DOMAIN machine.interfaces /\ Usable(machine.interfaces[i])
    BY <1>0, ChosenInterfaceIs
  <2> HIDE DEF i
  <2>3. UnitInv' /\ PlugOnly
    BY <2>1, <1>0, SameUnitKeeps
  <2>4. StageInv'
    BY <2>1, <1>0 DEF StageInv, unit
  <2>5. UNCHANGED machine
    BY <2>1 DEF unit
  <2>6. CASE i = None
    <3>1. setup' \in SetupRecord /\ setup'.pc = "declined" /\ setup'.iface = setup.iface
      BY <1>0, <2>1, <2>6 DEF SetupRecord
    <3>2. SetupTypeOK'
      BY <2>5, <3>1 DEF SetupTypeOK, SetupRecord
    <3>3. IfaceInv' /\ ProbeInv' /\ EndpointsInv'
      BY <1>0, <2>5, <3>1 DEF IfaceInv, ProbeInv, EndpointsInv, SetupInv
    <3>4. DriveIsFound'
      BY <2>2, <2>5, <2>6, <3>1 DEF DriveIsFound
    <3> QED  BY <2>3, <2>4, <3>2, <3>3, <3>4 DEF SetupInv
  <2>7. CASE i # None
    <3>1. /\ setup' \in SetupRecord /\ setup'.pc = "probe" /\ setup'.iface = i
          /\ setup'.lun = setup.lun /\ setup'.attempt = setup.attempt
          /\ setup'.lun0_pdt = setup.lun0_pdt
      BY <1>0, <2>1, <2>2, <2>7 DEF SetupRecord
    <3>2. SetupTypeOK'
      BY <2>5, <3>1 DEF SetupTypeOK, SetupRecord
    <3>3. IfaceInv'
      BY <2>2, <2>5, <2>7, <3>1 DEF IfaceInv
    <3>4. setup.lun = 0 /\ setup.attempt = 1 /\ setup.lun0_pdt = None
      BY <1>0, <2>1 DEF SetupInv, EndpointsInv
    <3>5. ProbeInv'
      <4>1. UNCHANGED <<Answering, Optical, HighestLun>>
        BY <2>5, SameMachine
      <4>2. 0 <= HighestLun /\ 1 <= AttemptsOn(0)
        BY <1>0, MachineTyped, ProbeBounds DEF AttemptsOn
      <4>3. \A u \in Optical : u >= 0
        BY <1>0, MachineTyped
      <4> QED  BY <3>1, <3>4, <4>1, <4>2, <4>3 DEF ProbeInv, Knows, AttemptsOn
    <3>6. DriveIsFound' /\ EndpointsInv'
      BY <3>1 DEF DriveIsFound, EndpointsInv
    <3> QED  BY <2>3, <2>4, <3>2, <3>3, <3>5, <3>6 DEF SetupInv
  <2> QED  BY <2>6, <2>7
<1>2. CASE Inquiry
  <2>1. /\ UNCHANGED <<machine, drive, not_ready, cancelled, device_gone, wait, heard>>
        /\ UNCHANGED events \/ (events < MaxEvents /\ events' = events + 1)
        /\ setup.pc = "probe"
    BY <1>2 DEF Inquiry
  <2>2. MechInv' /\ drive' \in DriveRecord
    BY <1>0, <2>1, SameDriveLessens, LessenedKeepsMech, UnitTyped DEF UnitInv
  <2>3. UnitInv'
    BY <1>0, <2>1, <2>2, WaitAloneKeeps DEF UnitInv, UnitTypeOK
  <2>4. StageInv'
    BY <1>0, <2>1 DEF StageInv
  <2> QED  BY <1>0, <1>2, <2>3, <2>4, InquiryKeeps
<1>3. CASE AllowMediumRemoval
  <2>1. /\ UNCHANGED <<machine, not_ready, cancelled, device_gone, wait, events>>
        /\ setup.pc = "unlock" /\ setup' = [setup EXCEPT !.pc = "settle"]
    BY <1>3 DEF AllowMediumRemoval
  <2>2. Lessened /\ heard' \subseteq Swaps
    <3>1. CASE UNCHANGED <<drive, heard>>
      BY <1>0, <3>1, SameDriveLessens, UnitTyped DEF UnitInv
    <3>2. ASSUME NEW a \in drive.attention,
                 drive' = [drive EXCEPT !.attention = @ \ {a}],
                 heard' = Consumed(a, Registrar)
          PROVE  Lessened /\ heard' \subseteq Swaps
      <4>1. drive' = [drive EXCEPT !.attention = drive.attention \ {a}]
        BY <3>2
      <4> QED  BY <1>0, <3>2, <4>1, AttentionLessens, ConsumedIsSwap DEF UnitInv
    <3> QED  BY <1>3, <3>1, <3>2 DEF AllowMediumRemoval
  <2>3. MechInv'
    BY <1>0, <2>1, <2>2, LessenedKeepsMech DEF UnitInv
  <2>4. wait = None
    BY <1>0, <2>1 DEF StageInv
  <2>5. UnitInv'
    BY <1>0, <2>1, <2>2, <2>3, <2>4, WaitAloneKeeps DEF UnitInv, UnitTypeOK, Lessened
  <2>6. StageInv'
    BY <2>1, <2>4 DEF StageInv
  <2>7. /\ setup' \in SetupRecord /\ setup'.pc = "settle" /\ setup'.iface = setup.iface
        /\ setup'.lun = setup.lun /\ setup'.quiet = setup.quiet
    BY <1>0, <2>1 DEF SetupRecord
  <2>8. SetupTypeOK'
    BY <2>1, <2>7 DEF SetupTypeOK, SetupRecord
  <2>9. IfaceInv' /\ ProbeInv' /\ EndpointsInv'
    BY <1>0, <2>1, <2>7 DEF IfaceInv, ProbeInv, EndpointsInv, SetupInv
  <2>10. DriveIsFound'
    <3>1. UNCHANGED Optical
      BY <2>1, SameMachine
    <3> QED  BY <1>0, <2>1, <2>7, <3>1 DEF DriveIsFound, SetupInv
  <2> QED  BY <2>5, <2>6, <2>8, <2>9, <2>10 DEF SetupInv
<1>4. CASE SettleAtSetup
  <2>1. /\ setup.pc = "settle" /\ setup' = [setup EXCEPT !.pc = "settling"]
        /\ BeginWait(Registrar)
    BY <1>4 DEF SettleAtSetup
  <2>2. UnitInv' /\ UNCHANGED machine
    BY <1>0, <2>1, BeginWaitKeeps DEF BeginWait
  <2>3. /\ setup' \in SetupRecord /\ setup'.pc = "settling" /\ setup'.iface = setup.iface
        /\ setup'.lun = setup.lun /\ setup'.quiet = setup.quiet
    BY <1>0, <2>1 DEF SetupRecord
  <2>4. SetupTypeOK'
    BY <2>2, <2>3 DEF SetupTypeOK, SetupRecord
  <2>5. IfaceInv' /\ ProbeInv' /\ EndpointsInv' /\ StageInv'
    BY <1>0, <2>1, <2>2, <2>3 DEF IfaceInv, ProbeInv, EndpointsInv, StageInv, SetupInv
  <2>6. DriveIsFound'
    <3>1. UNCHANGED Optical
      BY <2>2, SameMachine
    <3> QED  BY <1>0, <2>1, <2>2, <2>3, <3>1 DEF DriveIsFound, SetupInv
  <2> QED  BY <2>2, <2>4, <2>5, <2>6 DEF SetupInv
<1>5. CASE Publish
  <2>1. /\ UNCHANGED unit
        /\ setup' = [setup EXCEPT !.pc = "published", !.attempt = 1, !.lun0_pdt = None, !.quiet = TRUE]
    BY <1>5 DEF Publish
  <2>2. UnitInv'
    BY <1>0, <2>1, SameUnitKeeps
  <2>3. UNCHANGED machine /\ 1 \in 1 .. InquiryAttempts
    BY <2>1, ProbeBounds DEF unit
  <2>4. setup' \in SetupRecord /\ setup'.pc = "published" /\ setup'.iface = setup.iface
    BY <1>0, <2>1, <2>3 DEF SetupRecord
  <2>5. SetupTypeOK'
    BY <2>3, <2>4 DEF SetupTypeOK, SetupRecord
  <2>6. IfaceInv' /\ ProbeInv' /\ EndpointsInv' /\ StageInv' /\ DriveIsFound'
    BY <1>0, <2>3, <2>4 DEF IfaceInv, ProbeInv, EndpointsInv, StageInv, DriveIsFound, SetupInv
  <2> QED  BY <2>2, <2>5, <2>6 DEF SetupInv
<1> QED  BY <1>1, <1>2, <1>3, <1>4, <1>5 DEF Register, SetupStep

-----------------------------------------------------------------------------
(* The identifications. *)

CallInv == CallTypeOK /\ call = [t \in Threads |-> call[t]]

LEMMA CallTyped ==
  ASSUME CallInv, NEW t \in Threads, call[t] # None
  PROVE  call[t] \in CallRecord
BY DEF CallInv, CallTypeOK, CallRecord, Pcs

LEMMA CallSetTo ==
  ASSUME CallInv, NEW t \in Threads, NEW r \in CallRecord,
         call' = [call EXCEPT ![t] = r]
  PROVE  CallInv'
<1>1. \A u \in Threads : call'[u] = IF u = t THEN r ELSE call[u]
  BY DEF CallInv
<1>2. call' = [u \in Threads |-> call'[u]]
  BY DEF CallInv
<1>3. CallTypeOK'
  BY <1>1 DEF CallInv, CallTypeOK, CallRecord, Pcs
<1> QED  BY <1>2, <1>3 DEF CallInv

LEMMA GotoTyped ==
  ASSUME CallInv, NEW t \in Threads, NEW r \in CallRecord, NEW pc \in Pcs, Goto(t, r, pc)
  PROVE  CallInv'
<1>1. [r EXCEPT !.pc = pc] \in CallRecord
  BY DEF CallRecord
<1> QED  BY <1>1, CallSetTo DEF Goto

LEMMA ReturnTyped ==
  ASSUME CallInv, NEW t \in Threads, NEW r \in CallRecord, NEW kind \in Kinds, Return(t, r, kind)
  PROVE  CallInv'
<1> DEFINE s == [r EXCEPT !.pc = "done", !.kind = kind, !.medium = "unknown",
                          !.toc = "none", !.probe = "VCD", !.video = FALSE, !.gone = FALSE]
<1>1. s \in CallRecord
  BY DEF CallRecord, Pcs
<1> QED  BY <1>1, CallSetTo DEF Return

\* A change of the locals that a step may make.
LEMMA LocalsTyped ==
  ASSUME UnitTypeOK, NEW r \in CallRecord, NEW hit \in BOOLEAN,
         NEW medium \in {"unknown", "cd", "dvd", "bd"}, NEW toc \in {"none", "data", "audio"},
         NEW probe \in {"VCD", "SVCD"}, NEW st
  PROVE  /\ Found(r) \in CallRecord /\ Latch(r, st) \in CallRecord
         /\ LookedUp(r, hit, st) \in CallRecord
         /\ [r EXCEPT !.video = hit] \in CallRecord /\ [r EXCEPT !.asked = FALSE] \in CallRecord
         /\ [r EXCEPT !.evidence = {}] \in CallRecord /\ [r EXCEPT !.toc = toc] \in CallRecord
         /\ [r EXCEPT !.probe = probe] \in CallRecord /\ [r EXCEPT !.medium = medium] \in CallRecord
         /\ [r EXCEPT !.medium = medium, !.evidence = {}] \in CallRecord
         /\ [r EXCEPT !.medium = medium, !.evidence = {drive.disc}] \in CallRecord
<1>1. drive.disc \in 0 .. MaxEvents + 1
  BY DEF UnitTypeOK
<1>2. Found(r) \in CallRecord
  BY <1>1 DEF Found, CallRecord
<1>3. Latch(r, st) \in CallRecord
  <2> DEFINE gone == st \in {"MEDIA_GONE", "NO_DEVICE"}
  <2>1. gone \in BOOLEAN /\ Latch(r, st) = [r EXCEPT !.gone = gone]
    BY DEF Latch
  <2> HIDE DEF gone
  <2> QED  BY <2>1 DEF CallRecord
<1>4. LookedUp(r, hit, st) \in CallRecord
  BY <1>2, <1>3 DEF LookedUp
<1>5. /\ [r EXCEPT !.video = hit] \in CallRecord /\ [r EXCEPT !.asked = FALSE] \in CallRecord
      /\ [r EXCEPT !.evidence = {}] \in CallRecord
  BY DEF CallRecord
<1>6. [r EXCEPT !.toc = toc] \in CallRecord /\ [r EXCEPT !.probe = probe] \in CallRecord
  BY DEF CallRecord
<1>7. [r EXCEPT !.medium = medium] \in CallRecord
  BY DEF CallRecord
<1>8. /\ [r EXCEPT !.medium = medium, !.evidence = {}] \in CallRecord
      /\ [r EXCEPT !.medium = medium, !.evidence = {drive.disc}] \in CallRecord
  BY <1>1 DEF CallRecord
<1> QED  BY <1>2, <1>3, <1>4, <1>5, <1>6, <1>7, <1>8

\* A drive that answers has a disc in it.
LEMMA AnswerHasDisc ==
  ASSUME UnitInv, NEW t \in Threads, Cdb(t, "OK")
  PROVE  Disc.profile \in {"unknown", "cd", "dvd", "bd"} /\ Disc.toc \in {"none", "data", "audio"}
<1>1. Answers("OK")
  BY DEF Cdb, Unanswered, Swapped, NoDisc, Fails
<1>2. drive.content # None
  BY <1>1 DEF Answers, ComesUp, UnitInv, MechInv
<1> QED  BY <1>2, UnitTyped, DiscsTyped DEF UnitInv, Disc

LEMMA AfterIsoTyped ==
  ASSUME UnitTypeOK, CallInv, NEW t \in Threads, NEW r \in CallRecord, AfterIso(t, r)
  PROVE  CallInv'
<1>1. [r EXCEPT !.evidence = {}] \in CallRecord
  BY DEF CallRecord
<1> QED  BY <1>1, GotoTyped, ReturnTyped DEF AfterIso, Pcs, Kinds

LEMMA AfterUdfTyped ==
  ASSUME UnitTypeOK, CallInv, NEW t \in Threads, NEW r \in CallRecord, AfterUdf(t, r)
  PROVE  CallInv'
<1>1. [r EXCEPT !.evidence = {}] \in CallRecord
  BY DEF CallRecord
<1> QED  BY <1>1, GotoTyped, ReturnTyped DEF AfterUdf, Pcs, Kinds

LEMMA SettlingTyped ==
  ASSUME UnitInv, CallInv, NEW t \in Threads, Settling(t)
  PROVE  CallInv'
<1>1. call[t] # None
  BY DEF Settling, CheckReady, SettleOrNot, SettleAsks, SettleWaits, SettleReturns, RecheckReady, At
<1>2. call[t] \in CallRecord
  BY <1>1, CallTyped
<1>3. [call[t] EXCEPT !.asked = FALSE] \in CallRecord
  BY <1>2 DEF CallRecord
<1>4. \/ \E pc \in Pcs : Goto(t, call[t], pc)
      \/ Return(t, [call[t] EXCEPT !.asked = FALSE], "UNKNOWN")
  BY DEF Settling, CheckReady, SettleOrNot, SettleAsks, SettleWaits, SettleReturns,
         RecheckReady, Pcs
<1> QED  BY <1>2, <1>3, <1>4, GotoTyped, ReturnTyped DEF Kinds

LEMMA ProbingTyped ==
  ASSUME UnitInv, CallInv, NEW t \in Threads, Probing(t)
  PROVE  CallInv'
<1> DEFINE r == call[t]
<1>1. r # None
  BY DEF Probing, ReadMedium, ReadCdToc, ReadPvd, WalkIso, MountUdf, LookupVideo, LookupBdmv,
         LookupAudio, At
<1>2. r \in CallRecord
  BY <1>1, CallTyped
<1>3. UnitTypeOK
  BY DEF UnitInv
<1>4. CASE ReadMedium(t)
  <2>1. PICK st \in Statuses :
           /\ Cdb(t, st)
           /\ LET known == st = "OK" /\ machine.configures
                  medium == IF known THEN Disc.profile ELSE "unknown"
              IN  IF medium \in {"cd", "unknown"}
                  THEN Goto(t, [r EXCEPT !.medium = medium,
                                         !.evidence = IF known THEN {drive.disc} ELSE {}], "toc")
                  ELSE Goto(t, [r EXCEPT !.medium = medium], "mount")
    BY <1>4 DEF ReadMedium
  <2> DEFINE known == st = "OK" /\ machine.configures
             medium == IF known THEN Disc.profile ELSE "unknown"
  <2>2. medium \in {"unknown", "cd", "dvd", "bd"}
    BY <2>1, AnswerHasDisc
  <2>3. \/ Goto(t, [r EXCEPT !.medium = medium, !.evidence = {drive.disc}], "toc")
        \/ Goto(t, [r EXCEPT !.medium = medium, !.evidence = {}], "toc")
        \/ Goto(t, [r EXCEPT !.medium = medium], "mount")
    BY <2>1
  <2> HIDE DEF medium, known
  <2>4. /\ [r EXCEPT !.medium = medium, !.evidence = {drive.disc}] \in CallRecord
        /\ [r EXCEPT !.medium = medium, !.evidence = {}] \in CallRecord
        /\ [r EXCEPT !.medium = medium] \in CallRecord
    BY <1>2, <1>3, <2>2, LocalsTyped
  <2> QED  BY <2>3, <2>4, GotoTyped DEF Pcs
<1>5. CASE ReadCdToc(t)
  <2>1. PICK st \in Statuses :
           /\ Cdb(t, st)
           /\ LET toc == IF st = "OK" THEN Disc.toc ELSE "none"
                  s == [r EXCEPT !.toc = toc]
              IN  IF toc = "audio" THEN Return(t, Found(s), "CD_AUDIO")
                  ELSE Goto(t, [s EXCEPT !.evidence = {}],
                            IF s.medium = "cd" /\ toc = "data" THEN "pvd" ELSE "mount")
    BY <1>5 DEF ReadCdToc
  <2> DEFINE toc == IF st = "OK" THEN Disc.toc ELSE "none"
             s == [r EXCEPT !.toc = toc]
  <2>2. toc \in {"none", "data", "audio"}
    BY <2>1, AnswerHasDisc
  <2>3. \/ Return(t, Found(s), "CD_AUDIO")
        \/ Goto(t, [s EXCEPT !.evidence = {}], "pvd")
        \/ Goto(t, [s EXCEPT !.evidence = {}], "mount")
    BY <2>1
  <2> HIDE DEF toc
  <2>4. s \in CallRecord
    BY <1>2, <2>2 DEF CallRecord
  <2> HIDE DEF s
  <2>5. Found(s) \in CallRecord /\ [s EXCEPT !.evidence = {}] \in CallRecord
    BY <1>3, <2>4, LocalsTyped
  <2> QED  BY <2>3, <2>5, GotoTyped, ReturnTyped DEF Pcs, Kinds
<1>6. /\ Found(r) \in CallRecord /\ [Found(r) EXCEPT !.probe = "VCD"] \in CallRecord
      /\ [r EXCEPT !.probe = "SVCD"] \in CallRecord
  <2>1. Found(r) \in CallRecord
    BY <1>2, <1>3 DEF Found, CallRecord, UnitTypeOK
  <2> QED  BY <1>2, <2>1 DEF CallRecord
<1>7. CASE ReadPvd(t)
  <2>1. Goto(t, [Found(r) EXCEPT !.probe = "VCD"], "dir") \/ AfterIso(t, r)
    BY <1>7 DEF ReadPvd
  <2> QED  BY <1>2, <1>3, <1>6, <2>1, GotoTyped, AfterIsoTyped DEF Pcs
<1>8. CASE WalkIso(t)
  <2>1. \/ NextIsoProbe(t, r)
        \/ Return(t, Found(r), r.probe)
        \/ r.pc \in {"dir", "info"} /\ Goto(t, Found(r), IsoNext[r.pc])
    BY <1>8 DEF WalkIso, At
  <2>2. r.probe \in Kinds /\ \A pc \in {"dir", "info"} : IsoNext[pc] \in Pcs
    BY <1>2 DEF CallRecord, Kinds, IsoNext, Pcs
  <2>3. CASE NextIsoProbe(t, r)
    BY <1>2, <1>3, <1>6, <2>3, GotoTyped, AfterIsoTyped DEF NextIsoProbe, Pcs
  <2> QED  BY <1>6, <2>1, <2>2, <2>3, GotoTyped, ReturnTyped
<1>9. CASE MountUdf(t)
  <2>1. Goto(t, Found(r), "video") \/ AfterUdf(t, r)
    BY <1>9 DEF MountUdf
  <2> QED  BY <1>2, <1>3, <1>6, <2>1, GotoTyped, AfterUdfTyped DEF Pcs
<1>10. \A hit \in BOOLEAN, st \in Statuses :
          /\ LookedUp(r, hit, st) \in CallRecord
          /\ [LookedUp(r, hit, st) EXCEPT !.video = hit] \in CallRecord
  <2> TAKE hit \in BOOLEAN, st \in Statuses
  <2>1. LookedUp(r, hit, st) \in CallRecord
    BY <1>2, <1>3, LocalsTyped
  <2> QED  BY <2>1 DEF CallRecord
<1> HIDE DEF r
<1>11. CASE LookupVideo(t)
  <2>1. PICK hit \in BOOLEAN, st \in Statuses :
           Goto(t, [LookedUp(r, hit, st) EXCEPT !.video = hit], IF hit THEN "audio" ELSE "bdmv")
    BY <1>11 DEF LookupVideo, r
  <2> QED  BY <1>10, <2>1, GotoTyped DEF Pcs
<1>12. CASE LookupBdmv(t)
  <2>1. PICK hit \in BOOLEAN, st \in Statuses :
           IF hit THEN Return(t, LookedUp(r, hit, st), "BD_VIDEO")
                  ELSE Goto(t, LookedUp(r, hit, st), "audio")
    BY <1>12 DEF LookupBdmv, r
  <2> QED  BY <1>10, <2>1, GotoTyped, ReturnTyped DEF Pcs, Kinds
<1>13. CASE LookupAudio(t)
  <2>1. PICK hit \in BOOLEAN, st \in Statuses :
           \/ \E kind \in Kinds : Return(t, LookedUp(r, hit, st), kind)
           \/ AfterUdf(t, LookedUp(r, hit, st))
    BY <1>13 DEF LookupAudio, Kinds, r
  <2> QED  BY <1>3, <1>10, <2>1, ReturnTyped, AfterUdfTyped
<1> QED  BY <1>4, <1>5, <1>7, <1>8, <1>9, <1>11, <1>12, <1>13 DEF Probing

LEMMA IdentifyTyped ==
  ASSUME UnitInv, CallInv, NEW t \in Threads, Identify(t)
  PROVE  CallInv'
<1>1. NewCall \in CallRecord
  BY CeilingsOrdered DEF NewCall, CallRecord, Pcs, Kinds, UnitInv, UnitTypeOK
<1> QED  BY <1>1, CallSetTo DEF Identify

-----------------------------------------------------------------------------
(* The stack. *)

IInv == LowerInv /\ CallInv

LEMMA InitHolds ==
  ASSUME Init
  PROVE  IInv
<1>1. PICK d \in Drives, mech \in Mechanisms, a \in SUBSET Attentions :
         /\ machine = d[1]
         /\ drive = [plugged |-> TRUE, mech |-> mech,
                     content |-> IF mech \in {"open", "empty"} THEN None ELSE d[2],
                     disc |-> 0, attention |-> a]
  BY DEF Init
<1>2. /\ not_ready = FALSE /\ cancelled = FALSE /\ device_gone = FALSE
      /\ wait = None /\ events = 0 /\ heard = {}
  BY DEF Init
<1>3. d[1] \in Machines /\ d[2] \in Contents /\ None \in Contents /\ d[2] # None
  BY DiscsTyped DEF Machines, Contents
<1>4. 0 \in 0 .. MaxEvents + 1 /\ 0 \in 0 .. MaxEvents
  BY CeilingsOrdered
<1>5. /\ drive \in DriveRecord /\ drive.mech = mech /\ drive.disc = 0
      /\ drive.content = IF mech \in {"open", "empty"} THEN None ELSE d[2]
  BY <1>1, <1>3, <1>4 DEF DriveRecord
<1>6. UnitTypeOK
  BY <1>1, <1>2, <1>3, <1>4, <1>5 DEF UnitTypeOK, DriveRecord
<1>7. MechInv
  BY <1>2, <1>3, <1>5 DEF MechInv
<1>8. UnitInv
  BY <1>2, <1>6, <1>7 DEF UnitInv, WaitInv, ParkedInv, WaitIsBounded
<1>9. setup = [pc |-> "endpoints", iface |-> None, lun |-> 0, attempt |-> 1,
               lun0_pdt |-> None, quiet |-> TRUE]
  BY DEF Init, InitSetup
<1>10. 0 \in 0 .. MaxLunProbed /\ 1 \in 1 .. InquiryAttempts
  BY ProbeBounds
<1>11. SetupInv
  BY <1>9, <1>10 DEF SetupInv, SetupTypeOK, IfaceInv, EndpointsInv, ProbeInv, DriveIsFound
<1>12. StageInv
  BY <1>2 DEF StageInv
<1>13. CallInv
  BY DEF Init, InitCalls, CallInv, CallTypeOK
<1> QED  BY <1>8, <1>11, <1>12, <1>13 DEF IInv, LowerInv

LEMMA ConsumeKeeps ==
  ASSUME IInv, NEW t \in Threads, Consume(t)
  PROVE  IInv'
<1>1. UnitInv /\ SetupInv /\ StageInv /\ CallInv
  BY DEF IInv, LowerInv
<1>2. setup.pc = "published" /\ UNCHANGED setup
  BY DEF Consume, Published
<1>3. StageInv'
  BY <1>2 DEF StageInv
<1>4. UnitInv' /\ PlugOnly /\ UNCHANGED machine
  <2>1. CASE UNCHANGED unit
    BY <1>1, <2>1, SameUnitKeeps DEF unit
  <2>2. CASE \E st \in Statuses : Cdb(t, st)
    BY <1>1, <2>2, CdbKeeps DEF Cdb
  <2>3. CASE SettleAsks(t)
    BY <1>1, <2>3, SettleAsksKeeps DEF SettleAsks
  <2>4. CASE BeginWait(t)
    <3>1. UnitInv' /\ UNCHANGED <<machine, drive>>
      BY <1>1, <2>4, BeginWaitKeeps DEF BeginWait
    <3> QED  BY <3>1 DEF PlugOnly
  <2>5. Settling(t) => UNCHANGED unit \/ SettleAsks(t) \/ BeginWait(t)
    BY DEF Settling, CheckReady, SettleOrNot, SettleWaits, SettleReturns, RecheckReady
  <2>6. Probing(t) => UNCHANGED unit \/ \E st \in Statuses : Cdb(t, st)
    BY DEF Probing, ReadMedium, ReadCdToc, ReadPvd, WalkIso, MountUdf, LookupVideo,
           LookupBdmv, LookupAudio, Lookup
  <2> QED  BY <2>1, <2>2, <2>3, <2>4, <2>5, <2>6 DEF Consume, IdentifyStep, Identify
<1>5. SetupInv'
  BY <1>1, <1>2, <1>4, SameSetupKeeps
<1>6. CallInv'
  BY <1>1, IdentifyTyped, SettlingTyped, ProbingTyped DEF Consume, IdentifyStep
<1> QED  BY <1>3, <1>4, <1>5, <1>6 DEF IInv, LowerInv

LEMMA WaitPlugOnly ==
  ASSUME SpinUpStep \/ Poll
  PROVE  PlugOnly
<1>1. \/ \E shape, sense : StartStopUnit(shape, sense)
      \/ \E who, sense : TestUnitReady(who, sense)
  BY DEF SpinUpStep, Poll
<1>2. drive.plugged \/ UNCHANGED drive
  BY <1>1 DEF StartStopUnit, TestUnitReady, Reported
<1> QED  BY <1>2 DEF PlugOnly

LEMMA NextHolds ==
  ASSUME IInv, [Next]_vars
  PROVE  IInv'
<1>1. UnitInv /\ SetupInv /\ StageInv /\ CallInv
  BY DEF IInv, LowerInv
<1>2. ASSUME UNCHANGED call PROVE CallInv'
  BY <1>1, <1>2 DEF CallInv, CallTypeOK
<1>3. CASE Register
  BY <1>1, <1>2, <1>3, RegisterKeeps DEF IInv, LowerInv, Register
<1>4. CASE Wait
  <2>1. UNCHANGED <<setup, call>> /\ (SpinUpStep \/ Poll)
    BY <1>4 DEF Wait, WaitStep
  <2>2. UNCHANGED machine /\ wait # None
    BY <2>1 DEF SpinUpStep, Poll
  <2>3. UnitInv' /\ PlugOnly
    BY <1>1, <2>1, SpinUpStepKeeps, PollKeeps, WaitPlugOnly
  <2>4. StageInv'
    BY <1>1, <2>1, <2>2 DEF StageInv
  <2> QED  BY <1>1, <1>2, <2>1, <2>2, <2>3, <2>4, SameSetupKeeps DEF IInv, LowerInv
<1>5. CASE \E t \in Threads : Consume(t)
  BY <1>5, ConsumeKeeps
<1>6. CASE Around
  <2>1. /\ UNCHANGED <<setup, call>>
        /\ Environment \/ LastRelease
    BY <1>6 DEF Around
  <2>2. UNCHANGED machine /\ UNCHANGED wait
    BY <2>1 DEF Environment, LastRelease, Opens, Parks, Resets, Unplugs, Closes, Loads, Event
  <2>3. UnitInv' /\ PlugOnly
    BY <1>1, <2>1, EnvironmentKeeps, LastReleaseKeeps
  <2>4. StageInv'
    BY <1>1, <2>1, <2>2 DEF StageInv
  <2> QED  BY <1>1, <1>2, <2>1, <2>2, <2>3, <2>4, SameSetupKeeps DEF IInv, LowerInv
<1>7. CASE UNCHANGED vars
  <2>1. UNCHANGED unit /\ UNCHANGED <<setup, call>>
    BY <1>7 DEF vars
  <2>2. UNCHANGED <<machine, wait>>
    BY <2>1 DEF unit
  <2>3. UnitInv' /\ PlugOnly
    BY <1>1, <2>1, SameUnitKeeps
  <2>4. StageInv'
    BY <1>1, <2>1, <2>2 DEF StageInv
  <2> QED  BY <1>1, <1>2, <2>1, <2>2, <2>3, <2>4, SameSetupKeeps DEF IInv, LowerInv
<1> QED  BY <1>3, <1>4, <1>5, <1>6, <1>7 DEF Next

\* The inductive invariant holds on every run.
THEOREM Inductive == Spec => []IInv
<1>1. Init => IInv
  BY InitHolds
<1>2. IInv /\ [Next]_vars => IInv'
  BY NextHolds
<1> QED  BY <1>1, <1>2, PTL DEF Spec

\* The device, its registration and every identification keep their types:
\* scsi.c's counters and clocks, the unit probed and the medium read among them.
THEOREM TypeCorrect == Spec => []TypeOK
<1>1. IInv => TypeOK
  BY DEF IInv, LowerInv, UnitInv, SetupInv, CallInv, TypeOK
<1> QED  BY <1>1, Inductive, PTL

\* spin_up_locked(), scsi.c: whatever firmware is met, and whatever attentions
\* are in the way, a parked disc left alone has been asked to load in a shape
\* the drive takes before the first TEST UNIT READY - but for one that takes
\* none, and for one without LOEJ that met two attentions.
THEOREM ParkedDiscHasBeenAsked == Spec => []ParkedDiscIsAsked
<1>1. IInv => ParkedDiscIsAsked
  BY DEF IInv, LowerInv, UnitInv, ParkedInv, ParkedAt, ParkedDiscIsAsked
<1> QED  BY <1>1, Inductive, PTL

\* laser_wait_until_ready(), scsi.c: for any ceilings, a wait is never past the
\* one in force, whatever the drive answered and in whatever order.
THEOREM WaitHasItsBound == Spec => []WaitIsBounded
<1>1. IInv => WaitIsBounded
  BY DEF IInv, LowerInv, UnitInv
<1> QED  BY <1>1, Inductive, PTL

\* laser_find_bulk_endpoints(), usb.c, and laser_probe_lun(), scsi.c: for any
\* device, any bound on the units probed and any number of INQUIRYs.
THEOREM RightUnitIsFound == Spec => []DriveIsFound
<1>1. IInv => DriveIsFound
  BY DEF IInv, LowerInv, SetupInv
<1> QED  BY <1>1, Inductive, PTL

-----------------------------------------------------------------------------
(* What an answer rests on.  A call has read the disc that is in the drive *)
(* now, or there is news of a later one: it is still to come, or somebody  *)
(* else was told.                                                          *)

Others(t) == (Threads \cup {"free", "lost"}) \ {t}
ToldIn(h, d, t) == \E who \in Others(t) : <<d, who>> \in h
PendingOn(dr) == \/ "changed" \in dr.attention \/ ~dr.plugged
                 \/ dr.mech \in {"loading", "empty", "open"}
NewsOf(dr, h, t) == PendingOn(dr) \/ ToldIn(h, dr.disc, t)

Early == {"asked", "settle", "ask", "wait", "waiting", "recheck", "config"}

\* The lookup of a Super Video CD, and what makes no claim.
Wandering(r) == r.pc \in {"dir", "info", "magic"} /\ r.probe = "SVCD"
Excused(r) == Wandering(r) \/ (r.pc = "done" /\ r.kind \in {"UNKNOWN", "SVCD"})
\* The medium has gone: nothing more is read.
Deaf(r) == r.gone /\ r.pc \in {"video", "bdmv", "audio"}

EvidenceOf(dr, h, t, r) ==
    /\ r.pc \in Early => r.evidence = {}
    /\ \A d \in r.evidence : d <= dr.disc
    /\ ~Excused(r) => \A d, e \in r.evidence : d < e => ToldIn(h, e, t)
    /\ ~Wandering(r) /\ r.pc # "done" /\ ~Deaf(r) =>
          \A d \in r.evidence : d < dr.disc => NewsOf(dr, h, t)

OwnerInv ==
    wait # None => IF setup.pc = "published"
                   THEN wait.by \in Threads /\ At(wait.by, "waiting")
                   ELSE wait.by = Registrar

NoCallYet == setup.pc # "published" => \A t \in Threads : call[t] = None

EvidenceInv ==
    /\ OwnerInv /\ NoCallYet
    /\ \A t \in Threads : call[t] # None => EvidenceOf(drive, heard, t, call[t])

\* What a step of another actor leaves a call to go by.
Frame(t) ==
    /\ heard \subseteq heard' /\ drive.disc <= drive'.disc
    /\ drive'.disc # drive.disc => PendingOn(drive')
    /\ drive.disc > 0 /\ NewsOf(drive, heard, t) => NewsOf(drive', heard', t)

LEMMA EvidenceKept ==
  ASSUME UnitTypeOK, UnitTypeOK', NEW t \in Threads, NEW r \in CallRecord,
         EvidenceOf(drive, heard, t, r), Frame(t)
  PROVE  EvidenceOf(drive', heard', t, r)
<1>1. /\ drive.disc \in Nat /\ drive'.disc \in Nat /\ drive.disc <= drive'.disc
      /\ r.evidence \subseteq Nat
  BY UnitTyped DEF Frame, CallRecord, UnitTypeOK
<1>2. r.pc \in Early => r.evidence = {}
  BY DEF EvidenceOf
<1>3. \A d \in r.evidence : d <= drive.disc
  BY DEF EvidenceOf
<1>4. \A d \in r.evidence : d <= drive'.disc
  BY <1>1, <1>3
<1>5. ~Excused(r) => \A d, e \in r.evidence : d < e => ToldIn(heard', e, t)
  BY DEF EvidenceOf, ToldIn, Frame
<1>6. ASSUME ~Wandering(r), r.pc # "done", ~Deaf(r), NEW d \in r.evidence, d < drive'.disc
      PROVE  NewsOf(drive', heard', t)
  <2>1. CASE drive'.disc # drive.disc
    BY <2>1 DEF Frame, NewsOf
  <2>2. CASE drive'.disc = drive.disc
    <3>1. d < drive.disc /\ drive.disc > 0
      BY <1>1, <1>6, <2>2
    <3>2. NewsOf(drive, heard, t)
      BY <1>6, <3>1 DEF EvidenceOf
    <3> QED  BY <3>1, <3>2 DEF Frame
  <2> QED  BY <2>1, <2>2
<1> QED  BY <1>2, <1>4, <1>5, <1>6 DEF EvidenceOf

-----------------------------------------------------------------------------
(* The frame, step by step. *)

LEMMA ConsumedTells ==
  ASSUME UnitTypeOK, NEW t, NEW who \in Others(t), drive.disc > 0
  PROVE  ToldIn(Consumed("changed", who), drive.disc, t)
<1>1. <<drive.disc, who>> \in Swaps
  BY CeilingsOrdered DEF UnitTypeOK, Swaps, Others
<1> QED  BY <1>1 DEF Consumed, ToldIn

LEMMA SameDriveFrames ==
  ASSUME UnitTypeOK, NEW t, UNCHANGED <<drive, heard>>
  PROVE  Frame(t)
BY UnitTyped DEF Frame

\* An attention consumed by another.
LEMMA ConsumedFrames ==
  ASSUME UnitTypeOK, NEW t, NEW a \in drive.attention,
         NEW who \in Others(t),
         drive' = [drive EXCEPT !.attention = drive.attention \ {a}], heard' = Consumed(a, who)
  PROVE  Frame(t)
<1>1. Lessened /\ drive'.attention = drive.attention \ {a}
  BY AttentionLessens
<1>2. /\ drive'.plugged = drive.plugged /\ drive'.mech = drive.mech /\ drive'.disc = drive.disc
      /\ heard \subseteq heard' /\ drive.disc <= drive'.disc
  BY <1>1, UnitTyped DEF Lessened, Consumed
<1>3. ASSUME drive.disc > 0, NewsOf(drive, heard, t)
      PROVE  NewsOf(drive', heard', t)
  <2>1. CASE a = "changed"
    BY <1>2, <1>3, <2>1, ConsumedTells DEF NewsOf
  <2>2. CASE a # "changed"
    BY <1>1, <1>2, <1>3, <2>2 DEF NewsOf, PendingOn, ToldIn
  <2> QED  BY <2>1, <2>2
<1> QED  BY <1>2, <1>3 DEF Frame

\* A report, to its consumer or to nobody, is news to the others.
LEMMA ReportedFrames ==
  ASSUME UnitTypeOK, NEW t \in Threads, NEW who \in Others(t), NEW sense, Reported(who, sense)
  PROVE  Frame(t)
<1>1. PICK a \in drive.attention :
         /\ drive' = [drive EXCEPT !.attention = @ \ {a}]
         /\ heard' \in {Consumed(a, who), Consumed(a, "lost")}
  BY DEF Reported
<1>2. drive' = [drive EXCEPT !.attention = drive.attention \ {a}]
  BY <1>1
<1>3. "lost" \in Others(t)
  BY RegistrarIsNoConsumer DEF Others
<1>4. PICK w \in Others(t) : heard' = Consumed(a, w)
  BY <1>1, <1>3
<1> QED  BY <1>2, <1>4, ConsumedFrames

LEMMA TestUnitReadyFrames ==
  ASSUME UnitTypeOK, NEW t \in Threads, NEW who \in Others(t), NEW sense,
         TestUnitReady(who, sense)
  PROVE  Frame(t)
<1>1. CASE UNCHANGED <<drive, heard>>
  BY <1>1, SameDriveFrames
<1>2. CASE Reported(who, sense)
  BY <1>2, ReportedFrames
<1> QED  BY <1>1, <1>2 DEF TestUnitReady

\* A disc put in is announced, or its announcement is still to come.
LEMMA InsertedFrames ==
  ASSUME UnitTypeOK, NEW t, NEW disc, drive' = Inserted(disc), UNCHANGED heard
  PROVE  Frame(t)
<1>1. drive'.disc = drive.disc + 1 /\ drive'.mech \in {"empty", "loading"}
  BY UnitTyped DEF Inserted, DriveRecord
<1>2. PendingOn(drive')
  BY <1>1 DEF PendingOn
<1> QED  BY <1>1, <1>2, UnitTyped DEF Frame, NewsOf

\* Nothing reported, and no way back from what is to come.
LEMMA NothingReportedFrames ==
  ASSUME UnitTypeOK, NEW t, UNCHANGED heard, drive'.disc = drive.disc,
         PendingOn(drive) => PendingOn(drive')
  PROVE  Frame(t)
BY UnitTyped DEF Frame, NewsOf, ToldIn

LEMMA StartStopUnitFrames ==
  ASSUME UnitTypeOK, NEW t \in Threads, wait.by \in Others(t), NEW shape, NEW sense,
         StartStopUnit(shape, sense)
  PROVE  Frame(t)
<1>1. CASE UNCHANGED <<drive, heard>>
  BY <1>1, SameDriveFrames
<1>2. CASE Reported(wait.by, sense)
  BY <1>2, ReportedFrames
<1>3. CASE Taken(shape, sense)
  <2>1. UNCHANGED heard
    BY <1>3 DEF Taken
  <2>2. CASE UNCHANGED drive
    BY <2>1, <2>2, SameDriveFrames
  <2>3. CASE drive.mech = "parked"
    <3>1. drive' = [drive EXCEPT !.mech = "waking"]
      BY <1>3, <2>3 DEF Taken
    <3>2. /\ drive'.disc = drive.disc /\ drive'.attention = drive.attention
          /\ drive'.plugged = drive.plugged
      BY <3>1, UnitTyped DEF DriveRecord
    <3>3. PendingOn(drive) => PendingOn(drive')
      BY <2>3, <3>2 DEF PendingOn
    <3> QED  BY <2>1, <3>2, <3>3, NothingReportedFrames
  <2>4. CASE drive.mech = "open" /\ shape = "loej"
    <3>1. \E disc \in Discs \cup {None} : drive' = Inserted(disc)
      BY <1>3, <2>4 DEF Taken
    <3> QED  BY <2>1, <3>1, InsertedFrames
  <2>5. drive.mech \in {"ready", "empty", "loading", "waking"} => UNCHANGED drive
    BY <1>3 DEF Taken
  <2>6. drive.mech = "open" /\ shape # "loej" => UNCHANGED drive
    BY <1>3 DEF Taken
  <2> QED  BY <2>2, <2>3, <2>4, <2>5, <2>6, UnitTyped DEF Mechanisms
<1> QED  BY <1>1, <1>2, <1>3 DEF StartStopUnit, Taken

LEMMA EnvironmentFrames ==
  ASSUME UnitTypeOK, NEW t, Environment
  PROVE  Frame(t)
<1>0. UNCHANGED heard
  BY DEF Environment, Opens, Parks, Resets, Unplugs, Closes, Loads, Event
<1>00. drive \in DriveRecord
  BY UnitTyped
<1>1. CASE Opens
  <2>1. drive' = [drive EXCEPT !.mech = "open", !.content = None]
    BY <1>1 DEF Opens, Event
  <2>2. drive'.disc = drive.disc /\ PendingOn(drive')
    BY <1>00, <2>1 DEF DriveRecord, PendingOn
  <2> QED  BY <1>0, <2>2, NothingReportedFrames
<1>2. CASE Parks
  <2>1. drive' = [drive EXCEPT !.mech = "parked"] /\ drive.mech = "ready"
    BY <1>2 DEF Parks, Event
  <2>2. drive'.disc = drive.disc /\ (PendingOn(drive) => PendingOn(drive'))
    BY <1>00, <2>1 DEF DriveRecord, PendingOn
  <2> QED  BY <1>0, <2>2, NothingReportedFrames
<1>3. CASE Resets
  <2>1. drive' = [drive EXCEPT !.attention = @ \cup {"reset"}]
    BY <1>3 DEF Resets, Event
  <2>2. drive'.disc = drive.disc /\ (PendingOn(drive) => PendingOn(drive'))
    BY <1>00, <2>1 DEF DriveRecord, PendingOn
  <2> QED  BY <1>0, <2>2, NothingReportedFrames
<1>4. CASE Unplugs
  <2>1. drive' = [drive EXCEPT !.plugged = FALSE, !.attention = {}]
    BY <1>4 DEF Unplugs, Event
  <2>2. drive'.disc = drive.disc /\ PendingOn(drive')
    BY <1>00, <2>1 DEF DriveRecord, PendingOn
  <2> QED  BY <1>0, <2>2, NothingReportedFrames
<1>5. CASE Closes
  BY <1>0, <1>5, InsertedFrames DEF Closes
<1>6. CASE Loads
  <2>1. PICK a \in {{}, {"changed"}} :
           /\ drive.mech = "loading" => a # {}
           /\ drive' = [drive EXCEPT !.mech = "ready", !.attention = @ \cup a]
    BY <1>6 DEF Loads
  <2>2. /\ drive'.disc = drive.disc /\ drive'.attention = drive.attention \cup a
        /\ drive'.plugged = drive.plugged
    BY <1>00, <2>1 DEF DriveRecord
  <2>3. drive.mech \in {"loading", "waking"}
    BY <1>6 DEF Loads
  <2>4. PendingOn(drive) => PendingOn(drive')
    BY <2>1, <2>2, <2>3 DEF PendingOn
  <2> QED  BY <1>0, <2>2, <2>4, NothingReportedFrames
<1> QED  BY <1>1, <1>2, <1>3, <1>4, <1>5, <1>6 DEF Environment

LEMMA FreeIsNoThread ==
  ASSUME NEW t \in Threads
  PROVE  /\ "free" \in Others(t) /\ "lost" \in Others(t) /\ Registrar # t
         /\ \A u \in Threads : u # t => u \in Others(t)
BY RegistrarIsNoConsumer DEF Others

\* A command that takes the news of a disc in passing leaves a record of it.
LEMMA GetsPastTells ==
  ASSUME UnitTypeOK, NEW t \in Threads, NEW left, left \subseteq drive.attention,
         NEW up \in BOOLEAN, GetsPast(left, up), drive.disc > 0,
         "changed" \in drive.attention \ left \/ (up /\ drive.mech = "loading")
  PROVE  ToldIn(heard', drive.disc, t)
<1>1. PICK announced \in Announcements(up) :
         LET taken == ({"changed"} \cap (drive.attention \ left)) \cup announced
         IN  \E lost \in SUBSET taken :
                LET free == taken \ lost
                    whos == (IF free # {} THEN {"free"} ELSE {})
                               \cup (IF lost # {} THEN {"lost"} ELSE {})
                IN  heard' = heard \cup (({drive.disc} \X whos) \cap Swaps)
  BY DEF GetsPast
<1> DEFINE taken == ({"changed"} \cap (drive.attention \ left)) \cup announced
           whos(lost) == (IF taken \ lost # {} THEN {"free"} ELSE {})
                            \cup (IF lost # {} THEN {"lost"} ELSE {})
<1>2. PICK lost \in SUBSET taken : heard' = heard \cup (({drive.disc} \X whos(lost)) \cap Swaps)
  BY <1>1
<1>3. up /\ drive.mech = "loading" => announced = {"announced"}
  BY <1>1 DEF Announcements
<1>4. taken # {}
  BY <1>3
<1>5. PICK who \in whos(lost) : who \in {"free", "lost"}
  BY <1>2, <1>4
<1>6. who \in Others(t)
  BY <1>5, FreeIsNoThread
<1>7. <<drive.disc, who>> \in Swaps
  BY <1>5, CeilingsOrdered DEF UnitTypeOK, Swaps
<1>8. <<drive.disc, who>> \in heard'
  BY <1>2, <1>5, <1>7
<1> QED  BY <1>6, <1>8 DEF ToldIn

LEMMA GetsPastFrames ==
  ASSUME UnitTypeOK, NEW t \in Threads, NEW left, left \subseteq drive.attention,
         NEW up \in BOOLEAN, up => ComesUp, GetsPast(left, up)
  PROVE  Frame(t)
<1>1. /\ drive'.plugged = drive.plugged /\ drive'.disc = drive.disc /\ drive'.attention = left
      /\ drive'.mech = (IF up THEN "ready" ELSE drive.mech) /\ heard \subseteq heard'
      /\ drive.disc <= drive'.disc
  BY GetsPastIs, UnitTyped
<1>2. ASSUME drive.disc > 0, NewsOf(drive, heard, t)
      PROVE  NewsOf(drive', heard', t)
  <2>1. CASE ToldIn(heard, drive.disc, t)
    BY <1>1, <2>1 DEF NewsOf, ToldIn
  <2>2. CASE "changed" \in drive.attention \ left \/ (up /\ drive.mech = "loading")
    BY <1>1, <1>2, <2>2, GetsPastTells DEF NewsOf
  <2>3. CASE /\ PendingOn(drive)
             /\ ~("changed" \in drive.attention \ left \/ (up /\ drive.mech = "loading"))
    <3>1. PendingOn(drive')
      BY <1>1, <2>3 DEF PendingOn, ComesUp
    <3> QED  BY <3>1 DEF NewsOf
  <2> QED  BY <1>2, <2>1, <2>2, <2>3 DEF NewsOf
<1> QED  BY <1>1, <1>2 DEF Frame

\* An answer from the disc in the drive: no news of it is to come any more.
LEMMA AnswerTells ==
  ASSUME UnitTypeOK, NEW t \in Threads, NEW st, Answers(st), drive.disc > 0,
         NewsOf(drive, heard, t)
  PROVE  ToldIn(heard', drive.disc, t)
<1>1. drive.plugged /\ ComesUp /\ GetsPast({}, TRUE)
  BY DEF Answers, Reachable
<1>2. {} \subseteq drive.attention /\ TRUE \in BOOLEAN
  OBVIOUS
<1>3. CASE ToldIn(heard, drive.disc, t)
  <2>1. heard \subseteq heard'
    BY <1>1, <1>2, GetsPastIs
  <2> QED  BY <1>3, <2>1 DEF ToldIn
<1>4. CASE PendingOn(drive)
  <2>1. "changed" \in drive.attention \ {} \/ (TRUE /\ drive.mech = "loading")
    BY <1>1, <1>4 DEF PendingOn, ComesUp
  <2> QED  BY <1>1, <1>2, <2>1, GetsPastTells
<1> QED  BY <1>3, <1>4 DEF NewsOf

LEMMA PastFrames ==
  ASSUME UnitTypeOK, NEW t \in Threads, NEW st, NoDisc(st) \/ Answers(st) \/ Fails(st)
  PROVE  Frame(t) /\ drive'.disc = drive.disc
<1>1. PICK left \in SUBSET drive.attention, up \in BOOLEAN :
         (up => ComesUp) /\ GetsPast(left, up)
  BY PastIs
<1> QED  BY <1>1, GetsPastIs, GetsPastFrames

\* A swap reported to one consumer is news to the others.
LEMMA SwappedFrames ==
  ASSUME UnitTypeOK, NEW t \in Threads, NEW u \in Threads, u # t, NEW st, Swapped(t, st)
  PROVE  Frame(u)
<1>1. PICK left \in SUBSET (drive.attention \ {"changed"}) :
         drive' = [drive EXCEPT !.attention = left]
  BY DEF Swapped
<1>2. heard' = Consumed("changed", t)
  BY DEF Swapped
<1>3. Lessened
  BY <1>1, AttentionLessens
<1>4. drive'.disc = drive.disc /\ drive.disc <= drive'.disc
  BY <1>3, UnitTyped DEF Lessened
<1>5. heard \subseteq heard' /\ (drive.disc > 0 => ToldIn(heard', drive.disc, u))
  BY <1>2, ConsumedTells, FreeIsNoThread DEF Consumed
<1> QED  BY <1>4, <1>5 DEF Frame, NewsOf

\* One command, to the other consumers.
LEMMA CdbFrames ==
  ASSUME UnitTypeOK, NEW t \in Threads, NEW u \in Threads, u # t, NEW st, Cdb(t, st)
  PROVE  Frame(u)
<1>1. CASE Unanswered(st)
  BY <1>1, SameDriveFrames DEF Unanswered
<1> QED  BY <1>1, SwappedFrames, PastFrames DEF Cdb

\* And to the one whose command it is.
LEMMA CdbOwnFrame ==
  ASSUME UnitTypeOK, NEW t \in Threads, NEW st, Cdb(t, st)
  PROVE  /\ heard \subseteq heard' /\ drive'.disc = drive.disc
         /\ st # "MEDIA_GONE" => Frame(t)
         /\ st = "OK" /\ drive.disc > 0 /\ NewsOf(drive, heard, t)
               => ToldIn(heard', drive.disc, t)
<1>1. CASE Unanswered(st)
  <2>1. UNCHANGED <<drive, heard>> /\ st # "OK"
    BY <1>1 DEF Unanswered
  <2> QED  BY <2>1, SameDriveFrames
<1>2. CASE Swapped(t, st)
  <2>1. PICK left \in SUBSET (drive.attention \ {"changed"}) :
           drive' = [drive EXCEPT !.attention = left]
    BY <1>2 DEF Swapped
  <2>2. heard' = Consumed("changed", t) /\ st = "MEDIA_GONE"
    BY <1>2 DEF Swapped
  <2>3. Lessened
    BY <2>1, AttentionLessens
  <2> QED  BY <2>2, <2>3 DEF Consumed, Lessened
<1>3. CASE NoDisc(st) \/ Fails(st)
  <2>1. Frame(t) /\ drive'.disc = drive.disc
    BY <1>3, PastFrames
  <2>2. st # "OK"
    BY <1>3 DEF NoDisc, Fails
  <2> QED  BY <2>1, <2>2 DEF Frame
<1>4. CASE Answers(st)
  <2>1. Frame(t) /\ drive'.disc = drive.disc
    BY <1>4, PastFrames
  <2> QED  BY <1>4, <2>1, AnswerTells DEF Frame
<1> QED  BY <1>1, <1>2, <1>3, <1>4 DEF Cdb

-----------------------------------------------------------------------------
(* The steps of a call. *)

LEMMA ClearedHasEvidence ==
  ASSUME NEW t \in Threads, NEW q, q.evidence = {}
  PROVE  EvidenceOf(drive', heard', t, q)
BY DEF EvidenceOf

\* A step that finds nothing, and is told nothing it does not act upon.
LEMMA OnwardHasEvidence ==
  ASSUME UnitTypeOK, NEW t \in Threads, NEW r \in CallRecord, NEW q,
         EvidenceOf(drive, heard, t, r), ~Excused(r), r.pc # "done",
         q.evidence = r.evidence, q.pc \notin Early,
         heard \subseteq heard', drive'.disc = drive.disc,
         \/ Frame(t) /\ ~Deaf(r)
         \/ Wandering(q) \/ Deaf(q) \/ q.pc = "done"
  PROVE  EvidenceOf(drive', heard', t, q)
<1>1. \A d, e \in q.evidence : d < e => ToldIn(heard', e, t)
  BY DEF EvidenceOf, ToldIn
<1>2. \A d \in q.evidence : d <= drive'.disc
  BY DEF EvidenceOf
<1>3. ASSUME ~Wandering(q), q.pc # "done", ~Deaf(q), NEW d \in q.evidence, d < drive'.disc
      PROVE  NewsOf(drive', heard', t)
  <2>1. Frame(t) /\ ~Deaf(r)
    BY <1>3
  <2>2. d < drive.disc /\ drive.disc > 0
    BY <1>3, UnitTyped DEF CallRecord
  <2>3. NewsOf(drive, heard, t)
    BY <1>3, <2>1, <2>2 DEF EvidenceOf, Excused
  <2> QED  BY <2>1, <2>2, <2>3 DEF Frame
<1> QED  BY <1>1, <1>2, <1>3 DEF EvidenceOf

\* A step that found what it looked for on the disc in the drive.
LEMMA FoundHasEvidence ==
  ASSUME UnitTypeOK, NEW t \in Threads, NEW r \in CallRecord, NEW q,
         EvidenceOf(drive, heard, t, r), ~Excused(r), r.pc # "done", ~Deaf(r),
         q.evidence \subseteq r.evidence \cup {drive.disc}, q.pc \notin Early,
         heard \subseteq heard', drive'.disc = drive.disc,
         drive.disc > 0 /\ NewsOf(drive, heard, t) => ToldIn(heard', drive.disc, t)
  PROVE  EvidenceOf(drive', heard', t, q)
<1>0. drive.disc \in Nat /\ r.evidence \subseteq Nat /\ q.evidence \subseteq Nat
  BY UnitTyped DEF CallRecord
<1>1. \A d \in q.evidence : d <= drive.disc
  BY <1>0 DEF EvidenceOf
<1>2. ASSUME NEW d \in q.evidence, d < drive.disc
      PROVE  ToldIn(heard', drive.disc, t)
  <2>1. d \in r.evidence /\ drive.disc > 0
    BY <1>0, <1>2
  <2>2. NewsOf(drive, heard, t)
    BY <1>2, <2>1 DEF EvidenceOf, Excused
  <2> QED  BY <2>1, <2>2
<1>3. ASSUME NEW d \in q.evidence, NEW e \in q.evidence, d < e
      PROVE  ToldIn(heard', e, t)
  <2>1. CASE e = drive.disc
    BY <1>2, <1>3, <2>1
  <2>2. CASE e # drive.disc
    <3>1. e \in r.evidence /\ e <= drive.disc
      BY <1>1, <2>2
    <3>2. d # drive.disc
      BY <1>0, <1>3, <3>1, <2>2
    <3>3. d \in r.evidence
      BY <3>2
    <3>4. ToldIn(heard, e, t)
      BY <1>3, <3>1, <3>3 DEF EvidenceOf
    <3> QED  BY <3>4 DEF ToldIn
  <2> QED  BY <2>1, <2>2
<1> QED  BY <1>1, <1>2, <1>3 DEF EvidenceOf, NewsOf

\* A call that makes no claim of what it has.
LEMMA ExcusedHasEvidence ==
  ASSUME UnitTypeOK, NEW t \in Threads, NEW r, NEW q,
         \A d \in r.evidence : d <= drive.disc,
         q.evidence \subseteq r.evidence \cup {drive.disc}, q.pc \notin Early, Excused(q),
         drive'.disc = drive.disc
  PROVE  EvidenceOf(drive', heard', t, q)
BY UnitTyped DEF EvidenceOf, Excused

LEMMA GotoIs ==
  ASSUME CallInv, NEW t \in Threads, NEW r \in CallRecord, NEW pc, Goto(t, r, pc)
  PROVE  /\ call'[t].pc = pc /\ call'[t].evidence = r.evidence /\ call'[t].gone = r.gone
         /\ call'[t].probe = r.probe
         /\ \A u \in Threads : u # t => call'[u] = call[u]
<1>1. call'[t] = [r EXCEPT !.pc = pc] /\ \A u \in Threads : u # t => call'[u] = call[u]
  BY DEF CallInv, Goto
<1> QED  BY <1>1 DEF CallRecord

LEMMA ReturnIs ==
  ASSUME CallInv, NEW t \in Threads, NEW r \in CallRecord, NEW kind, Return(t, r, kind)
  PROVE  /\ call'[t].pc = "done" /\ call'[t].evidence = r.evidence /\ call'[t].kind = kind
         /\ \A u \in Threads : u # t => call'[u] = call[u]
<1>1. /\ call'[t] = [r EXCEPT !.pc = "done", !.kind = kind, !.medium = "unknown",
                              !.toc = "none", !.probe = "VCD", !.video = FALSE, !.gone = FALSE]
      /\ \A u \in Threads : u # t => call'[u] = call[u]
  BY DEF CallInv, Return
<1> QED  BY <1>1 DEF CallRecord

LEMMA AfterIsoHasEvidence ==
  ASSUME UnitTypeOK, CallInv, NEW t \in Threads, NEW r \in CallRecord, AfterIso(t, r),
         \A d \in r.evidence : d <= drive.disc, drive'.disc = drive.disc
  PROVE  EvidenceOf(drive', heard', t, call'[t])
<1>1. CASE Goto(t, [r EXCEPT !.evidence = {}], "mount")
  <2>1. [r EXCEPT !.evidence = {}] \in CallRecord /\ [r EXCEPT !.evidence = {}].evidence = {}
    BY DEF CallRecord
  <2> QED  BY <1>1, <2>1, GotoIs, ClearedHasEvidence
<1>2. CASE Return(t, r, "UNKNOWN")
  <2>1. call'[t].pc = "done" /\ call'[t].evidence = r.evidence /\ call'[t].kind = "UNKNOWN"
    BY <1>2, ReturnIs
  <2> QED  BY <2>1, ExcusedHasEvidence DEF Excused, Early
<1> QED  BY <1>1, <1>2 DEF AfterIso

LEMMA AfterUdfHasEvidence ==
  ASSUME UnitTypeOK, CallInv, NEW t \in Threads, NEW r \in CallRecord, AfterUdf(t, r),
         \A d \in r.evidence : d <= drive.disc, drive'.disc = drive.disc
  PROVE  EvidenceOf(drive', heard', t, call'[t])
<1>1. CASE Goto(t, [r EXCEPT !.evidence = {}], "pvd")
  <2>1. [r EXCEPT !.evidence = {}] \in CallRecord /\ [r EXCEPT !.evidence = {}].evidence = {}
    BY DEF CallRecord
  <2> QED  BY <1>1, <2>1, GotoIs, ClearedHasEvidence
<1>2. CASE Return(t, r, "UNKNOWN")
  <2>1. call'[t].pc = "done" /\ call'[t].evidence = r.evidence /\ call'[t].kind = "UNKNOWN"
    BY <1>2, ReturnIs
  <2> QED  BY <2>1, ExcusedHasEvidence DEF Excused, Early
<1> QED  BY <1>1, <1>2 DEF AfterUdf


LEMMA LookupHasEvidence ==
  ASSUME UnitTypeOK, CallInv, NEW t \in Threads, call[t] \in CallRecord,
         call[t].pc \in {"video", "bdmv", "audio"}, EvidenceOf(drive, heard, t, call[t]),
         NEW zone, NEW hit \in BOOLEAN, NEW st, Lookup(t, zone, hit, st),
         NEW q, q.evidence = LookedUp(call[t], hit, st).evidence,
         q.gone = LookedUp(call[t], hit, st).gone \/ q.pc = "done",
         q.pc \in {"bdmv", "audio", "done"}
  PROVE  EvidenceOf(drive', heard', t, q) /\ drive'.disc = drive.disc
<1> DEFINE r == call[t]
<1>1. r \in CallRecord /\ ~Excused(r) /\ r.pc # "done" /\ q.pc \notin Early
  BY DEF Excused, Wandering, Early
<1>2. CASE r.gone /\ ~hit /\ st = "MEDIA_GONE" /\ UNCHANGED unit
  <2>1. heard' = heard /\ drive' = drive
    BY <1>2 DEF unit
  <2>2. q.evidence = r.evidence /\ (q.gone \/ q.pc = "done")
    BY <1>1, <1>2 DEF LookedUp, Latch, CallRecord
  <2>3. Deaf(q) \/ q.pc = "done"
    BY <2>2 DEF Deaf
  <2> QED  BY <1>1, <2>1, <2>2, <2>3, OnwardHasEvidence
<1>3. CASE /\ ~r.gone /\ Cdb(t, st)
           /\ hit = (st = "OK" /\ Disc.udf /\ zone \in Disc.zones)
  <2>1. ~Deaf(r)
    BY <1>3 DEF Deaf
  <2>2. /\ heard \subseteq heard' /\ drive'.disc = drive.disc
        /\ st # "MEDIA_GONE" => Frame(t)
        /\ st = "OK" /\ drive.disc > 0 /\ NewsOf(drive, heard, t)
              => ToldIn(heard', drive.disc, t)
    BY <1>3, CdbOwnFrame
  <2>3. CASE hit
    <3>1. st = "OK" /\ q.evidence = r.evidence \cup {drive.disc}
      BY <1>1, <1>3, <2>3 DEF LookedUp, Found, CallRecord
    <3> QED  BY <1>1, <2>1, <2>2, <3>1, FoundHasEvidence
  <2>4. CASE ~hit
    <3>1. q.evidence = r.evidence
      BY <1>1, <2>4 DEF LookedUp, Latch, CallRecord
    <3>2. CASE st \in {"MEDIA_GONE", "NO_DEVICE"}
      <4>1. q.gone \/ q.pc = "done"
        BY <1>1, <2>4, <3>2 DEF LookedUp, Latch, CallRecord
      <4>2. Deaf(q) \/ q.pc = "done"
        BY <4>1 DEF Deaf
      <4> QED  BY <1>1, <2>2, <3>1, <4>2, OnwardHasEvidence
    <3>3. CASE st \notin {"MEDIA_GONE", "NO_DEVICE"}
      BY <1>1, <2>1, <2>2, <3>1, <3>3, OnwardHasEvidence
    <3> QED  BY <3>2, <3>3
  <2> QED  BY <2>3, <2>4
<1> QED  BY <1>2, <1>3 DEF Lookup

LEMMA ProbingHasEvidence ==
  ASSUME UnitInv, CallInv, NEW t \in Threads, Probing(t), EvidenceOf(drive, heard, t, call[t])
  PROVE  EvidenceOf(drive', heard', t, call'[t])
<1> DEFINE r == call[t]
           q == call'[t]
<1>1. r # None
  BY DEF Probing, ReadMedium, ReadCdToc, ReadPvd, WalkIso, MountUdf, LookupVideo, LookupBdmv,
         LookupAudio, At
<1>2. UnitTypeOK /\ r \in CallRecord
  BY <1>1, CallTyped DEF UnitInv
<1>3. Found(r) \in CallRecord /\ Found(r).evidence = r.evidence \cup {drive.disc}
  BY <1>2 DEF Found, CallRecord, UnitTypeOK
<1>4. \A d \in r.evidence \cup {drive.disc} : d <= drive.disc
  BY <1>2, UnitTyped DEF EvidenceOf
<1>5. ASSUME NEW st, Cdb(t, st)
      PROVE  /\ heard \subseteq heard' /\ drive'.disc = drive.disc
             /\ st # "MEDIA_GONE" => Frame(t)
             /\ st = "OK" /\ drive.disc > 0 /\ NewsOf(drive, heard, t)
                   => ToldIn(heard', drive.disc, t)
  BY <1>2, <1>5, CdbOwnFrame
<1>6. CASE ReadMedium(t)
  <2>1. PICK st \in Statuses :
           /\ Cdb(t, st)
           /\ LET known == st = "OK" /\ machine.configures
                  medium == IF known THEN Disc.profile ELSE "unknown"
              IN  IF medium \in {"cd", "unknown"}
                  THEN Goto(t, [r EXCEPT !.medium = medium,
                                         !.evidence = IF known THEN {drive.disc} ELSE {}], "toc")
                  ELSE Goto(t, [r EXCEPT !.medium = medium], "mount")
    BY <1>6 DEF ReadMedium
  <2> DEFINE known == st = "OK" /\ machine.configures
             medium == IF known THEN Disc.profile ELSE "unknown"
  <2>2. medium \in {"unknown", "cd", "dvd", "bd"}
    BY <2>1, AnswerHasDisc
  <2>3. \/ known /\ Goto(t, [r EXCEPT !.medium = medium, !.evidence = {drive.disc}], "toc")
        \/ Goto(t, [r EXCEPT !.medium = medium, !.evidence = {}], "toc")
        \/ Goto(t, [r EXCEPT !.medium = medium], "mount")
    BY <2>1
  <2>4. known => st = "OK"
    OBVIOUS
  <2> HIDE DEF medium, known
  <2>5. /\ [r EXCEPT !.medium = medium, !.evidence = {drive.disc}] \in CallRecord
        /\ [r EXCEPT !.medium = medium, !.evidence = {drive.disc}].evidence = {drive.disc}
    BY <1>2, <2>2 DEF CallRecord, UnitTypeOK
  <2>6. /\ [r EXCEPT !.medium = medium, !.evidence = {}] \in CallRecord
        /\ [r EXCEPT !.medium = medium, !.evidence = {}].evidence = {}
    BY <1>2, <2>2 DEF CallRecord
  <2>7. /\ [r EXCEPT !.medium = medium] \in CallRecord
        /\ [r EXCEPT !.medium = medium].evidence = r.evidence
    BY <1>2, <2>2 DEF CallRecord
  <2>8. r.pc = "config"
    BY <1>6 DEF ReadMedium, At
  <2>9. r.evidence = {}
    BY <2>8 DEF EvidenceOf, Early
  <2>10. CASE known /\ Goto(t, [r EXCEPT !.medium = medium, !.evidence = {drive.disc}], "toc")
    <3>1. q.pc = "toc" /\ q.evidence = {drive.disc}
      BY <2>5, <2>10, GotoIs
    <3>2. ~Excused(r) /\ ~Deaf(r) /\ r.pc # "done" /\ q.pc \notin Early
      BY <2>8, <3>1 DEF Excused, Wandering, Deaf, Early
    <3> QED  BY <1>2, <1>5, <2>1, <2>4, <2>10, <3>1, <3>2, FoundHasEvidence
  <2>11. CASE Goto(t, [r EXCEPT !.medium = medium, !.evidence = {}], "toc")
    BY <2>6, <2>11, GotoIs, ClearedHasEvidence
  <2>12. CASE Goto(t, [r EXCEPT !.medium = medium], "mount")
    BY <2>7, <2>9, <2>12, GotoIs, ClearedHasEvidence
  <2> QED  BY <2>3, <2>10, <2>11, <2>12
<1>7. CASE ReadCdToc(t)
  <2>1. PICK st \in Statuses :
           /\ Cdb(t, st)
           /\ LET toc == IF st = "OK" THEN Disc.toc ELSE "none"
                  s == [r EXCEPT !.toc = toc]
              IN  IF toc = "audio" THEN Return(t, Found(s), "CD_AUDIO")
                  ELSE Goto(t, [s EXCEPT !.evidence = {}],
                            IF s.medium = "cd" /\ toc = "data" THEN "pvd" ELSE "mount")
    BY <1>7 DEF ReadCdToc
  <2> DEFINE toc == IF st = "OK" THEN Disc.toc ELSE "none"
             s == [r EXCEPT !.toc = toc]
  <2>2. toc \in {"none", "data", "audio"}
    BY <2>1, AnswerHasDisc
  <2>3. \/ toc = "audio" /\ Return(t, Found(s), "CD_AUDIO")
        \/ Goto(t, [s EXCEPT !.evidence = {}], "pvd")
        \/ Goto(t, [s EXCEPT !.evidence = {}], "mount")
    BY <2>1
  <2>4. toc = "audio" => st = "OK"
    OBVIOUS
  <2> HIDE DEF toc
  <2>5. s \in CallRecord /\ s.evidence = r.evidence
    BY <1>2, <2>2 DEF CallRecord
  <2> HIDE DEF s
  <2>6. Found(s) \in CallRecord /\ Found(s).evidence = r.evidence \cup {drive.disc}
    BY <1>2, <2>5 DEF Found, CallRecord, UnitTypeOK
  <2>7. [s EXCEPT !.evidence = {}] \in CallRecord /\ [s EXCEPT !.evidence = {}].evidence = {}
    BY <2>5 DEF CallRecord
  <2>8. CASE toc = "audio" /\ Return(t, Found(s), "CD_AUDIO")
    <3>1. q.pc = "done" /\ q.evidence = r.evidence \cup {drive.disc}
      BY <2>6, <2>8, ReturnIs
    <3>2. r.pc = "toc"
      BY <1>7 DEF ReadCdToc, At
    <3>3. ~Excused(r) /\ ~Deaf(r) /\ r.pc # "done" /\ q.pc \notin Early
      BY <3>1, <3>2 DEF Excused, Wandering, Deaf, Early
    <3> QED  BY <1>2, <1>5, <2>1, <2>4, <2>8, <3>1, <3>3, FoundHasEvidence
  <2> QED  BY <2>3, <2>7, <2>8, GotoIs, ClearedHasEvidence
<1>8. CASE ReadPvd(t)
  <2>1. PICK st \in Statuses :
           /\ Cdb(t, st)
           /\ \/ st = "OK" /\ Goto(t, [Found(r) EXCEPT !.probe = "VCD"], "dir")
              \/ AfterIso(t, r)
    BY <1>8 DEF ReadPvd
  <2>2. CASE st = "OK" /\ Goto(t, [Found(r) EXCEPT !.probe = "VCD"], "dir")
    <3>1. /\ [Found(r) EXCEPT !.probe = "VCD"] \in CallRecord
          /\ [Found(r) EXCEPT !.probe = "VCD"].evidence = r.evidence \cup {drive.disc}
      BY <1>3 DEF CallRecord
    <3>2. q.pc = "dir" /\ q.evidence = r.evidence \cup {drive.disc}
      BY <2>2, <3>1, GotoIs
    <3>3. r.pc = "pvd"
      BY <1>8 DEF ReadPvd, At
    <3>4. ~Excused(r) /\ ~Deaf(r) /\ r.pc # "done" /\ q.pc \notin Early
      BY <3>2, <3>3 DEF Excused, Wandering, Deaf, Early
    <3> QED  BY <1>2, <1>5, <2>1, <2>2, <3>2, <3>4, FoundHasEvidence
  <2> QED  BY <1>2, <1>4, <1>5, <2>1, <2>2, AfterIsoHasEvidence
<1>9. CASE WalkIso(t)
  <2>1. PICK st \in Statuses :
           /\ Cdb(t, st)
           /\ \/ NextIsoProbe(t, r)
              \/ st = "OK" /\ Return(t, Found(r), r.probe)
              \/ st = "OK" /\ r.pc \in {"dir", "info"} /\ Goto(t, Found(r), IsoNext[r.pc])
    BY <1>9 DEF WalkIso, At
  <2>2. r.pc \in {"dir", "info", "magic"} /\ r.probe \in {"VCD", "SVCD"}
    BY <1>2, <1>9 DEF WalkIso, At, CallRecord
  <2>3. ~Deaf(r) /\ r.pc # "done" /\ (r.probe = "VCD" => ~Excused(r))
    BY <2>2 DEF Deaf, Excused, Wandering
  <2>4. CASE NextIsoProbe(t, r)
    <3>1. CASE Goto(t, [r EXCEPT !.probe = "SVCD"], "dir")
      <4>1. /\ [r EXCEPT !.probe = "SVCD"] \in CallRecord
            /\ [r EXCEPT !.probe = "SVCD"].evidence = r.evidence
            /\ [r EXCEPT !.probe = "SVCD"].probe = "SVCD"
        BY <1>2 DEF CallRecord
      <4>2. q.pc = "dir" /\ q.evidence = r.evidence /\ q.probe = "SVCD"
        BY <3>1, <4>1, GotoIs
      <4>3. Excused(q) /\ q.pc \notin Early
        BY <4>2 DEF Excused, Wandering, Early
      <4> QED  BY <1>2, <1>4, <1>5, <2>1, <4>2, <4>3, ExcusedHasEvidence
    <3>2. CASE AfterIso(t, r)
      BY <1>2, <1>4, <1>5, <2>1, <3>2, AfterIsoHasEvidence
    <3> QED  BY <2>4, <3>1, <3>2 DEF NextIsoProbe
  <2>5. CASE st = "OK" /\ Return(t, Found(r), r.probe)
    <3>1. q.pc = "done" /\ q.evidence = r.evidence \cup {drive.disc} /\ q.kind = r.probe
      BY <1>3, <2>5, ReturnIs
    <3>2. q.pc \notin Early /\ (r.probe = "SVCD" => Excused(q))
      BY <3>1 DEF Early, Excused
    <3>3. CASE r.probe = "SVCD"
      BY <1>2, <1>4, <1>5, <2>1, <3>1, <3>2, <3>3, ExcusedHasEvidence
    <3>4. CASE r.probe = "VCD"
      BY <1>2, <1>5, <2>1, <2>3, <2>5, <3>1, <3>2, <3>4, FoundHasEvidence
    <3> QED  BY <2>2, <3>3, <3>4
  <2>6. CASE st = "OK" /\ r.pc \in {"dir", "info"} /\ Goto(t, Found(r), IsoNext[r.pc])
    <3>1. IsoNext[r.pc] \in {"info", "magic"}
      BY <2>6 DEF IsoNext
    <3>2. Found(r).probe = r.probe
      BY <1>2 DEF Found, CallRecord
    <3>3. /\ q.pc \in {"info", "magic"} /\ q.evidence = r.evidence \cup {drive.disc}
          /\ q.probe = r.probe
      BY <1>3, <2>6, <3>1, <3>2, GotoIs
    <3>4. q.pc \notin Early /\ (r.probe = "SVCD" => Excused(q))
      BY <3>3 DEF Early, Excused, Wandering
    <3>5. CASE r.probe = "SVCD"
      BY <1>2, <1>4, <1>5, <2>1, <3>3, <3>4, <3>5, ExcusedHasEvidence
    <3>6. CASE r.probe = "VCD"
      BY <1>2, <1>5, <2>1, <2>3, <2>6, <3>3, <3>4, <3>6, FoundHasEvidence
    <3> QED  BY <2>2, <3>5, <3>6
  <2> QED  BY <2>1, <2>4, <2>5, <2>6
<1>10. CASE MountUdf(t)
  <2>1. PICK st \in Statuses :
           /\ Cdb(t, st)
           /\ \/ st = "OK" /\ Goto(t, Found(r), "video")
              \/ AfterUdf(t, r)
    BY <1>10 DEF MountUdf
  <2>2. CASE st = "OK" /\ Goto(t, Found(r), "video")
    <3>1. q.pc = "video" /\ q.evidence = r.evidence \cup {drive.disc}
      BY <1>3, <2>2, GotoIs
    <3>2. r.pc = "mount"
      BY <1>10 DEF MountUdf, At
    <3>3. ~Excused(r) /\ ~Deaf(r) /\ r.pc # "done" /\ q.pc \notin Early
      BY <3>1, <3>2 DEF Excused, Wandering, Deaf, Early
    <3> QED  BY <1>2, <1>5, <2>1, <2>2, <3>1, <3>3, FoundHasEvidence
  <2> QED  BY <1>2, <1>4, <1>5, <2>1, <2>2, AfterUdfHasEvidence
<1>11. ASSUME NEW hit \in BOOLEAN, NEW st \in Statuses
       PROVE  LookedUp(r, hit, st) \in CallRecord
  BY <1>2, <1>11, LocalsTyped
<1>12. CASE LookupVideo(t)
  <2>1. PICK hit \in BOOLEAN, st \in Statuses :
           /\ Lookup(t, "video", hit, st)
           /\ Goto(t, [LookedUp(r, hit, st) EXCEPT !.video = hit], IF hit THEN "audio" ELSE "bdmv")
    BY <1>12 DEF LookupVideo
  <2> DEFINE l == LookedUp(r, hit, st)
  <2>2. l \in CallRecord
    BY <1>11
  <2> HIDE DEF l
  <2>3. /\ [l EXCEPT !.video = hit] \in CallRecord
        /\ [l EXCEPT !.video = hit].evidence = l.evidence
        /\ [l EXCEPT !.video = hit].gone = l.gone
    BY <2>2 DEF CallRecord
  <2>4. q.pc \in {"bdmv", "audio"} /\ q.evidence = l.evidence /\ q.gone = l.gone
    BY <2>1, <2>3, GotoIs DEF l
  <2>5. r.pc = "video"
    BY <1>12 DEF LookupVideo, At
  <2> QED  BY <1>2, <2>1, <2>4, <2>5, LookupHasEvidence DEF l
<1>13. CASE LookupBdmv(t)
  <2>1. PICK hit \in BOOLEAN, st \in Statuses :
           /\ Lookup(t, "bdmv", hit, st)
           /\ \/ Return(t, LookedUp(r, hit, st), "BD_VIDEO")
              \/ Goto(t, LookedUp(r, hit, st), "audio")
    BY <1>13 DEF LookupBdmv
  <2> DEFINE l == LookedUp(r, hit, st)
  <2>2. l \in CallRecord
    BY <1>11
  <2>3. q.pc \in {"audio", "done"} /\ q.evidence = l.evidence /\ (q.gone = l.gone \/ q.pc = "done")
    BY <2>1, <2>2, GotoIs, ReturnIs
  <2>4. r.pc = "bdmv"
    BY <1>13 DEF LookupBdmv, At
  <2> QED  BY <1>2, <2>1, <2>3, <2>4, LookupHasEvidence
<1>14. CASE LookupAudio(t)
  <2>1. PICK hit \in BOOLEAN, st \in Statuses :
           /\ Lookup(t, "audio", hit, st)
           /\ \/ \E kind \in Kinds : Return(t, LookedUp(r, hit, st), kind)
              \/ ~hit /\ AfterUdf(t, LookedUp(r, hit, st))
    BY <1>14 DEF LookupAudio, Kinds
  <2> DEFINE l == LookedUp(r, hit, st)
  <2>2. l \in CallRecord /\ r.pc = "audio"
    BY <1>11, <1>14 DEF LookupAudio, At
  <2>3. CASE \E kind \in Kinds : Return(t, l, kind)
    <3>1. q.pc = "done" /\ q.evidence = l.evidence
      BY <2>2, <2>3, ReturnIs
    <3> QED  BY <1>2, <2>1, <2>2, <3>1, LookupHasEvidence
  <2>4. CASE ~hit /\ AfterUdf(t, l)
    <3>1. l.evidence = r.evidence
      BY <1>2, <2>4 DEF LookedUp, Latch, CallRecord
    <3>2. drive'.disc = drive.disc
      BY <1>2, <1>5, <2>1 DEF Lookup, unit
    <3> QED  BY <1>2, <1>4, <2>2, <2>4, <3>1, <3>2, AfterUdfHasEvidence
  <2> QED  BY <2>1, <2>3, <2>4
<1> QED  BY <1>6, <1>7, <1>8, <1>9, <1>10, <1>12, <1>13, <1>14 DEF Probing

LEMMA StepOwner ==
  ASSUME UnitInv, SpinUpStep \/ Poll
  PROVE  wait' = None \/ wait'.by = wait.by
<1>1. CASE SpinUpStep
  <2>1. PICK sense, took : wait' = AfterRung(sense, took)
    BY <1>1 DEF SpinUpStep
  <2>2. wait # None
    BY <1>1 DEF SpinUpStep
  <2>3. wait \in WaitRecord
    BY <2>2, WaitTyped DEF UnitInv
  <2> QED  BY <2>1, <2>3 DEF AfterRung, WaitRecord
<1>2. CASE Poll
  <2>1. PICK sense \in PollSenses, took \in {0, TimeOut} :
           /\ took \in CommandTime("poll", sense)
           /\ NextPoll(sense, wait.elapsed + took)
    BY <1>2 DEF Poll, PollSenses, NextPoll
  <2>2. took \in Nat /\ (sense # "none" => took = 0)
    BY <2>1, CeilingsOrdered DEF CommandTime
  <2>3. wait # None /\ wait.pc = "poll"
    BY <1>2 DEF Poll
  <2> QED  BY <2>1, <2>2, <2>3, NextPollIs DEF UnitInv, GoesOn
<1> QED  BY <1>1, <1>2

LEMMA CallKept ==
  ASSUME UnitTypeOK, UnitTypeOK', CallInv, EvidenceInv, NEW u \in Threads,
         call'[u] = call[u], call[u] # None, Frame(u)
  PROVE  EvidenceOf(drive', heard', u, call'[u])
<1>1. call[u] \in CallRecord
  BY CallTyped
<1>2. EvidenceOf(drive, heard, u, call[u])
  BY DEF EvidenceInv
<1> QED  BY <1>1, <1>2, EvidenceKept

\* A step of one consumer is no step of another.
Moves(t) == (\E r, pc : Goto(t, r, pc)) \/ (\E r, kind : Return(t, r, kind))

LEMMA MovesAlone ==
  ASSUME CallInv, NEW t \in Threads, Moves(t)
  PROVE  \A u \in Threads : u # t => call'[u] = call[u]
BY DEF CallInv, Moves, Goto, Return

LEMMA AfterMoves ==
  ASSUME NEW t, NEW r, AfterIso(t, r) \/ AfterUdf(t, r) \/ NextIsoProbe(t, r)
  PROVE  Moves(t)
<1>1. AfterIso(t, r) \/ AfterUdf(t, r) => Moves(t)
  BY DEF AfterIso, AfterUdf, Moves
<1>2. NextIsoProbe(t, r) => Moves(t) \/ AfterIso(t, r)
  BY DEF NextIsoProbe, Moves
<1> QED  BY <1>1, <1>2

LEMMA StepMoves ==
  ASSUME NEW t, IdentifyStep(t)
  PROVE  Moves(t)
<1>1. Settling(t) => Moves(t)
  BY DEF Settling, CheckReady, SettleOrNot, SettleAsks, SettleWaits, SettleReturns,
         RecheckReady, Moves
<1>2. ReadMedium(t) \/ ReadCdToc(t) \/ LookupVideo(t) \/ LookupBdmv(t) => Moves(t)
  BY DEF ReadMedium, ReadCdToc, LookupVideo, LookupBdmv, Moves
<1>3. ReadPvd(t) => Moves(t) \/ \E r : AfterIso(t, r)
  BY DEF ReadPvd, Moves
<1>4. MountUdf(t) => Moves(t) \/ \E r : AfterUdf(t, r)
  BY DEF MountUdf, Moves
<1>5. LookupAudio(t) => Moves(t) \/ \E r : AfterUdf(t, r)
  BY DEF LookupAudio, Moves
<1>6. WalkIso(t) => Moves(t) \/ \E r : NextIsoProbe(t, r)
  BY DEF WalkIso, Moves
<1> QED  BY <1>1, <1>2, <1>3, <1>4, <1>5, <1>6, AfterMoves DEF IdentifyStep, Probing

LEMMA SettlingIsEarly ==
  ASSUME UnitInv, CallInv, EvidenceInv, NEW t \in Threads, Settling(t)
  PROVE  EvidenceOf(drive', heard', t, call'[t])
<1>1. call[t] # None /\ call[t].pc \in Early
  BY DEF Settling, CheckReady, SettleOrNot, SettleAsks, SettleWaits, SettleReturns,
         RecheckReady, At, Early
<1>2. call[t] \in CallRecord /\ call[t].evidence = {}
  BY <1>1, CallTyped DEF EvidenceInv, EvidenceOf
<1>3. /\ [call[t] EXCEPT !.asked = FALSE] \in CallRecord
      /\ [call[t] EXCEPT !.asked = FALSE].evidence = {}
  BY <1>2 DEF CallRecord
<1>4. \/ \E pc \in Pcs : Goto(t, call[t], pc)
      \/ Return(t, [call[t] EXCEPT !.asked = FALSE], "UNKNOWN")
  BY DEF Settling, CheckReady, SettleOrNot, SettleAsks, SettleWaits, SettleReturns,
         RecheckReady, Pcs
<1>5. call'[t].evidence = {}
  BY <1>2, <1>3, <1>4, GotoIs, ReturnIs
<1> QED  BY <1>5, ClearedHasEvidence

\* Who waits is a consumer at its settling, which then takes no step.
LEMMA OwnerWaits ==
  ASSUME OwnerInv, wait # None, setup.pc = "published", NEW t \in Threads, IdentifyStep(t)
  PROVE  wait.by \in Threads /\ At(wait.by, "waiting") /\ wait.by # t
<1>1. wait.by \in Threads /\ At(wait.by, "waiting")
  BY DEF OwnerInv
<1>2. CASE wait.by = t
  <2>1. At(t, "waiting") /\ Waiting(t)
    BY <1>1, <1>2 DEF Waiting
  <2>2. ~Settling(t)
    BY <2>1 DEF Settling, CheckReady, SettleOrNot, SettleAsks, SettleWaits, SettleReturns,
           RecheckReady, At
  <2>3. ~Probing(t)
    BY <2>1 DEF Probing, ReadMedium, ReadCdToc, ReadPvd, WalkIso, MountUdf, LookupVideo,
           LookupBdmv, LookupAudio, At
  <2> QED  BY <2>2, <2>3 DEF IdentifyStep
<1> QED  BY <1>1, <1>2

LEMMA EvidenceInit ==
  ASSUME Init
  PROVE  EvidenceInv
BY DEF Init, InitCalls, EvidenceInv, OwnerInv, NoCallYet

LEMMA RegisterKeepsEvidence ==
  ASSUME IInv, EvidenceInv, Register
  PROVE  EvidenceInv'
<1>1. setup.pc # "published" /\ UNCHANGED call
  BY DEF Register, SetupStep, ChooseInterface, Inquiry, AllowMediumRemoval, SettleAtSetup, Publish
<1>2. \A t \in Threads : call'[t] = None
  BY <1>1 DEF EvidenceInv, NoCallYet
<1>3. CASE SettleAtSetup
  <2>1. setup' = [setup EXCEPT !.pc = "settling"]
    BY <1>3 DEF SettleAtSetup
  <2>2. setup'.pc = "settling"
    BY <2>1 DEF IInv, LowerInv, SetupInv, SetupTypeOK
  <2>3. wait'.by = Registrar
    BY <1>3 DEF SettleAtSetup, BeginWait, NewWait
  <2> QED  BY <1>2, <2>2, <2>3 DEF EvidenceInv, OwnerInv, NoCallYet
<1>4. CASE Publish
  <2>1. wait' = None
    BY <1>4 DEF Publish, IoFree, unit
  <2> QED  BY <1>2, <2>1 DEF EvidenceInv, OwnerInv, NoCallYet
<1>5. CASE ChooseInterface \/ Inquiry \/ AllowMediumRemoval
  <2>1. UNCHANGED wait /\ setup.pc \notin {"settling", "published"}
    BY <1>5 DEF ChooseInterface, Inquiry, AllowMediumRemoval, unit
  <2>2. wait' = None
    BY <2>1 DEF IInv, LowerInv, StageInv
  <2> QED  BY <1>2, <2>2 DEF EvidenceInv, OwnerInv, NoCallYet
<1> QED  BY <1>3, <1>4, <1>5 DEF Register, SetupStep

LEMMA WaitKeepsEvidence ==
  ASSUME IInv, IInv', EvidenceInv, Wait
  PROVE  EvidenceInv'
<1>1. UNCHANGED <<setup, call>> /\ (SpinUpStep \/ Poll) /\ wait # None
  BY DEF Wait, WaitStep, SpinUpStep, Poll
<1>2. UnitInv /\ CallInv /\ UnitTypeOK /\ UnitTypeOK'
  BY DEF IInv, LowerInv, UnitInv
<1>3. wait' = None \/ wait'.by = wait.by
  BY <1>1, <1>2, StepOwner
<1>4. OwnerInv' /\ NoCallYet'
  BY <1>1, <1>3 DEF EvidenceInv, OwnerInv, NoCallYet, At
<1>5. ASSUME NEW u \in Threads, call[u] # None
      PROVE  EvidenceOf(drive', heard', u, call'[u])
  <2>1. wait.by \in Threads /\ At(wait.by, "waiting")
    BY <1>1, <1>5 DEF EvidenceInv, OwnerInv, NoCallYet
  <2>2. CASE wait.by = u
    <3>1. call'[u].evidence = {}
      BY <1>1, <1>5, <2>1, <2>2 DEF EvidenceInv, EvidenceOf, At, Early
    <3> QED  BY <3>1, ClearedHasEvidence
  <2>3. CASE wait.by # u
    <3>1. wait.by \in Others(u)
      BY <2>1, <2>3 DEF Others
    <3>2. ASSUME SpinUpStep PROVE Frame(u)
      <4>1. PICK shape, sense : StartStopUnit(shape, sense)
        BY <3>2 DEF SpinUpStep
      <4> QED  BY <1>2, <3>1, <4>1, StartStopUnitFrames
    <3>3. ASSUME Poll PROVE Frame(u)
      <4>1. PICK sense : TestUnitReady(wait.by, sense)
        BY <3>3 DEF Poll
      <4> QED  BY <1>2, <3>1, <4>1, TestUnitReadyFrames
    <3>4. Frame(u)
      BY <1>1, <3>2, <3>3
    <3> QED  BY <1>1, <1>2, <1>5, <3>4, CallKept
  <2> QED  BY <2>2, <2>3
<1> QED  BY <1>1, <1>4, <1>5 DEF EvidenceInv

LEMMA ConsumeKeepsEvidence ==
  ASSUME IInv, IInv', EvidenceInv, NEW t \in Threads, Consume(t)
  PROVE  EvidenceInv'
<1>1. setup.pc = "published" /\ UNCHANGED setup
  BY DEF Consume, Published
<1>2. UnitInv /\ CallInv /\ UnitTypeOK /\ UnitTypeOK'
  BY DEF IInv, LowerInv, UnitInv
<1>3. NoCallYet'
  BY <1>1 DEF NoCallYet
<1>4. ASSUME NEW u \in Threads, u # t, call'[u] = call[u], call'[u] # None, Frame(u)
      PROVE  EvidenceOf(drive', heard', u, call'[u])
  BY <1>2, <1>4, CallKept
<1>5. CASE Identify(t)
  <2>1. call[t] = None /\ call' = [call EXCEPT ![t] = NewCall] /\ UNCHANGED <<wait, drive, heard>>
    BY <1>5 DEF Identify, unit
  <2>2. call'[t] = NewCall /\ \A u \in Threads : u # t => call'[u] = call[u]
    BY <1>2, <2>1 DEF CallInv
  <2>3. EvidenceOf(drive', heard', t, call'[t])
    BY <2>2, ClearedHasEvidence DEF NewCall
  <2>4. \A u \in Threads : Frame(u)
    BY <1>2, <2>1, SameDriveFrames
  <2>5. OwnerInv'
    BY <1>1, <2>1, <2>2 DEF EvidenceInv, OwnerInv, At
  <2> QED  BY <1>3, <1>4, <2>2, <2>3, <2>4, <2>5 DEF EvidenceInv
<1>6. CASE IdentifyStep(t)
  <2>1. \A u \in Threads : u # t => call'[u] = call[u]
    BY <1>2, <1>6, StepMoves, MovesAlone
  <2>2. call[t] # None
    BY <1>6 DEF IdentifyStep, Settling, CheckReady, SettleOrNot, SettleAsks, SettleWaits,
           SettleReturns, RecheckReady, Probing, ReadMedium, ReadCdToc, ReadPvd, WalkIso,
           MountUdf, LookupVideo, LookupBdmv, LookupAudio, At
  <2>3. EvidenceOf(drive', heard', t, call'[t])
    <3>1. EvidenceOf(drive, heard, t, call[t])
      BY <2>2 DEF EvidenceInv
    <3> QED  BY <1>2, <1>6, <3>1, SettlingIsEarly, ProbingHasEvidence DEF IdentifyStep
  <2>4. \/ UNCHANGED unit \/ SettleAsks(t) \/ SettleWaits(t)
        \/ \E st \in Statuses : Cdb(t, st)
    BY <1>6 DEF IdentifyStep, Settling, CheckReady, SettleOrNot, SettleReturns, RecheckReady,
           Probing, ReadMedium, ReadCdToc, ReadPvd, WalkIso, MountUdf, LookupVideo,
           LookupBdmv, LookupAudio, Lookup
  <2>5. ASSUME NEW u \in Threads, u # t
        PROVE  Frame(u)
    <3>1. CASE UNCHANGED unit \/ SettleWaits(t)
      BY <1>2, <3>1, SameDriveFrames DEF unit, SettleWaits, BeginWait
    <3>2. CASE SettleAsks(t)
      <4>1. t \in Others(u)
        BY <2>5 DEF Others
      <4> QED  BY <1>2, <3>2, <4>1, TestUnitReadyFrames DEF SettleAsks
    <3>3. CASE \E st \in Statuses : Cdb(t, st)
      BY <1>2, <2>5, <3>3, CdbFrames
    <3> QED  BY <2>4, <3>1, <3>2, <3>3
  <2>6. OwnerInv'
    <3>1. CASE SettleWaits(t)
      <4>1. wait'.by = t
        BY <3>1 DEF SettleWaits, BeginWait, NewWait
      <4>2. call[t] \in CallRecord /\ Goto(t, call[t], "waiting")
        BY <1>2, <2>2, <3>1, CallTyped DEF SettleWaits
      <4>3. call'[t] = [call[t] EXCEPT !.pc = "waiting"]
        BY <1>2, <4>2 DEF Goto, CallInv
      <4>4. call'[t] \in CallRecord /\ call'[t].pc = "waiting"
        BY <4>2, <4>3 DEF CallRecord, Pcs
      <4>5. call'[t] # None
        BY <4>2, <4>4, NoneIsNoCall
      <4> QED  BY <1>1, <4>1, <4>4, <4>5 DEF OwnerInv, At
    <3>2. CASE ~SettleWaits(t)
      <4>1. UNCHANGED wait
        BY <2>4, <3>2 DEF unit, SettleAsks, Cdb
      <4>2. wait # None => wait.by \in Threads /\ At(wait.by, "waiting") /\ wait.by # t
        BY <1>1, <1>6, OwnerWaits DEF EvidenceInv
      <4>3. wait # None => call'[wait.by] = call[wait.by]
        BY <2>1, <4>2
      <4> QED  BY <1>1, <4>1, <4>2, <4>3 DEF OwnerInv, At
    <3> QED  BY <3>1, <3>2
  <2> QED  BY <1>3, <1>4, <2>1, <2>3, <2>5, <2>6 DEF EvidenceInv
<1> QED  BY <1>5, <1>6 DEF Consume

LEMMA EvidenceHolds ==
  ASSUME IInv, IInv', EvidenceInv, [Next]_vars
  PROVE  EvidenceInv'
<1>1. UnitInv /\ CallInv /\ UnitTypeOK /\ UnitTypeOK'
  BY DEF IInv, LowerInv, UnitInv
<1>2. ASSUME UNCHANGED <<setup, call, wait>>, \A u \in Threads : Frame(u)
      PROVE  EvidenceInv'
  <2>1. OwnerInv' /\ NoCallYet'
    BY <1>2 DEF EvidenceInv, OwnerInv, NoCallYet, At
  <2>2. \A u \in Threads : call'[u] # None => EvidenceOf(drive', heard', u, call'[u])
    BY <1>1, <1>2, CallKept
  <2> QED  BY <2>1, <2>2 DEF EvidenceInv
<1>3. CASE Around
  <2>1. UNCHANGED <<setup, call>> /\ (Environment \/ LastRelease)
    BY <1>3 DEF Around
  <2>2. UNCHANGED wait
    BY <2>1 DEF Environment, LastRelease, Opens, Parks, Resets, Unplugs, Closes, Loads, Event
  <2>3. ASSUME NEW u \in Threads PROVE Frame(u)
    BY <1>1, <2>1, EnvironmentFrames, SameDriveFrames DEF LastRelease
  <2> QED  BY <1>2, <2>1, <2>2, <2>3
<1>4. CASE UNCHANGED vars
  <2>1. UNCHANGED <<setup, call, wait, drive, heard>>
    BY <1>4 DEF vars, unit
  <2>2. ASSUME NEW u \in Threads PROVE Frame(u)
    BY <1>1, <2>1, SameDriveFrames
  <2> QED  BY <1>2, <2>1, <2>2
<1>5. CASE \E t \in Threads : Consume(t)
  BY <1>5, ConsumeKeepsEvidence
<1> QED  BY <1>3, <1>4, <1>5, RegisterKeepsEvidence, WaitKeepsEvidence DEF Next

\* What laser_disc_identify() answers rests on one disc, or on several whose
\* report went elsewhere: for any discs, any interleaving of the consumers
\* and any swaps.
THEOREM AnswersRestOnOneDisc == Spec => []RestsOnOneDisc
<1>1. Init => IInv /\ EvidenceInv
  BY InitHolds, EvidenceInit
<1>2. (IInv /\ EvidenceInv) /\ [Next]_vars => (IInv /\ EvidenceInv)'
  BY NextHolds, EvidenceHolds
<1>3. EvidenceInv => RestsOnOneDisc
  <2> SUFFICES ASSUME EvidenceInv, NEW t \in Threads, At(t, "done"),
                      call[t].kind \notin {"UNKNOWN", "SVCD"}
               PROVE  \A d, e \in call[t].evidence : d < e => Told(e, t)
    BY DEF RestsOnOneDisc
  <2>1. EvidenceOf(drive, heard, t, call[t])
    BY DEF EvidenceInv, At
  <2>2. ~Excused(call[t])
    BY DEF Excused, Wandering, At
  <2> QED  BY <2>1, <2>2 DEF EvidenceOf, ToldIn, Told, Others
<1> QED  BY <1>1, <1>2, <1>3, PTL DEF Spec

-----------------------------------------------------------------------------
(* The kind of a disc left alone.                                          *)

\* A call during which nothing has happened so far.
FreshIn(r, ev, dr, cn) == r.since = ev /\ r.first = dr.disc /\ dr.plugged /\ ~cn

\* A drive that will not be ready unless something happens; one that is, and
\* has nothing to report; one that is either, or that consumers are kept off
\* until it comes up by itself, with nothing reported before.
HopelessIn(dr, m) == \/ dr.mech \in {"open", "empty"}
                     \/ dr.mech = "parked" /\ m.firmware = "no_opcode"
ClearIn(dr) == dr.mech = "ready" /\ dr.attention = {}
KeptOff(dr, nr) ==
    nr /\ dr.mech # "parked" /\ (dr.mech # "ready" => dr.attention = {})
SettledIn(dr, m, nr) == HopelessIn(dr, m) \/ ClearIn(dr) \/ KeptOff(dr, nr)

\* A wait that has met one attention at most, and will meet no more until the
\* disc is ready.
Untried(w, dr) ==
    dr.mech # "ready" =>
        /\ w.pc = "start" => dr.attention # Attentions
        /\ w.pc # "start" => dr.attention = {}
        /\ dr.mech = "parked" /\ w.pc \notin {"start", "again"} => w.met <= 1

Before == {"asked", "settle", "ask", "wait", "waiting", "recheck"}
Probed(r) == r.pc \notin Before /\ (r.pc = "done" => r.asked)

\* The wait that a call waits for.
Its(t, w) == w # None /\ w.by = t

\* How far its settling has come: no second attention ahead of START STOP
\* UNIT, and then a drive settled.
SettleOK(t, r, dr, m, nr, w) ==
    /\ r.pc = "wait" /\ dr.mech # "ready" => dr.attention # Attentions
    /\ r.pc = "waiting" /\ Its(t, w) => Untried(w, dr)
    /\ r.pc = "waiting" /\ ~Its(t, w) => SettledIn(dr, m, nr)
    /\ r.pc = "recheck" => SettledIn(dr, m, nr)
    /\ Probed(r) => HopelessIn(dr, m) \/ ClearIn(dr)

-----------------------------------------------------------------------------
(* A step in which nothing happens. *)

\* Time, discs, claims and devices go one way only.
Onward == /\ events <= events' /\ drive.disc <= drive'.disc
          /\ (drive'.plugged => drive.plugged) /\ (cancelled => cancelled')
          /\ (device_gone => ~drive.plugged) => (device_gone' => ~drive'.plugged)
          /\ UNCHANGED machine

Quiet == /\ UNCHANGED events /\ drive'.disc = drive.disc
         /\ drive.plugged /\ drive'.plugged /\ ~cancelled /\ ~cancelled'

\* What it leaves a call to go by.
QuietFrame ==
    /\ HopelessIn(drive, machine) => HopelessIn(drive', machine)
    /\ ClearIn(drive) => ClearIn(drive')
    /\ SettledIn(drive, machine, not_ready) => SettledIn(drive', machine, not_ready')
    /\ drive'.mech = "parked" => drive.mech = "parked"
    /\ drive'.mech # "ready" => drive.mech # "ready" /\ drive'.attention \subseteq drive.attention
    /\ drive'.content = drive.content

LEMMA FreshBefore ==
  ASSUME UnitTypeOK, UnitTypeOK', Onward, NEW r \in CallRecord, r.since <= events,
         r.first <= drive.disc, FreshIn(r, events', drive', cancelled')
  PROVE  FreshIn(r, events, drive, cancelled) /\ Quiet
<1>1. /\ r.since \in Nat /\ r.first \in Nat
      /\ drive.disc \in Nat /\ drive'.disc \in Nat /\ events \in Nat /\ events' \in Nat
  BY UnitTyped DEF CallRecord, UnitTypeOK
<1>2. r.since = events' /\ r.first = drive'.disc
  BY DEF FreshIn
<1>3. events' = events /\ drive'.disc = drive.disc
  BY <1>1, <1>2 DEF Onward
<1>4. drive.plugged /\ drive'.plugged /\ ~cancelled /\ ~cancelled'
  BY DEF FreshIn, Onward
<1> QED  BY <1>2, <1>3, <1>4 DEF FreshIn, Quiet

LEMMA LessenedIsQuiet ==
  ASSUME Lessened,
         not_ready => \/ not_ready' \/ ClearIn(drive') \/ HopelessIn(drive', machine)
                      \/ drive.mech = "parked"
                      \/ drive.mech # "ready" /\ drive.attention # {}
  PROVE  QuietFrame
<1>1. /\ drive'.mech = drive.mech /\ drive'.content = drive.content
      /\ drive'.attention \subseteq drive.attention
  BY DEF Lessened
<1>2. HopelessIn(drive, machine) => HopelessIn(drive', machine)
  BY <1>1 DEF HopelessIn
<1>3. ClearIn(drive) => ClearIn(drive')
  BY <1>1 DEF ClearIn
<1>4. SettledIn(drive, machine, not_ready) => SettledIn(drive', machine, not_ready')
  BY <1>1, <1>2, <1>3 DEF SettledIn, KeptOff, ClearIn
<1> QED  BY <1>1, <1>2, <1>3, <1>4 DEF QuietFrame

LEMMA SameDriveIsQuiet ==
  ASSUME UnitTypeOK, UNCHANGED drive, not_ready => not_ready'
  PROVE  QuietFrame
BY SameDriveLessens, LessenedIsQuiet

\* A disc taken in is another disc.
LEMMA InsertedIsNotQuiet ==
  ASSUME UnitTypeOK, NEW disc, drive' = Inserted(disc)
  PROVE  drive'.disc = drive.disc + 1 /\ drive'.plugged = drive.plugged /\ drive'.disc # drive.disc
<1>1. drive'.disc = drive.disc + 1 /\ drive'.plugged = drive.plugged
  BY UnitTyped DEF Inserted, DriveRecord
<1> QED  BY <1>1, UnitTyped

LEMMA StartStopUnitOnward ==
  ASSUME UnitTypeOK, NEW shape, NEW sense, StartStopUnit(shape, sense)
  PROVE  /\ events <= events' /\ drive.disc <= drive'.disc /\ drive'.plugged = drive.plugged
         /\ drive'.disc = drive.disc =>
               \/ Lessened
               \/ /\ drive.mech = "parked" /\ Takes(machine.firmware, shape)
                  /\ drive.attention = {} /\ drive'.attention = {}
                  /\ drive'.mech = "waking" /\ drive'.content = drive.content
<1>1. UNCHANGED events \/ events' = events + 1
  BY DEF StartStopUnit, Reported
<1>2. events <= events'
  BY <1>1, UnitTyped
<1>3. CASE UNCHANGED drive
  BY <1>2, <1>3, SameDriveLessens, UnitTyped
<1>4. CASE Reported(wait.by, sense)
  BY <1>2, <1>4, ReportedIs, UnitTyped DEF Lessened
<1>5. CASE Lessened
  BY <1>2, <1>5, UnitTyped DEF Lessened
<1>6. CASE Taken(shape, sense)
  <2>1. CASE drive.mech = "parked"
    <3>1. drive' = [drive EXCEPT !.mech = "waking"]
      BY <1>6, <2>1 DEF Taken
    <3>2. /\ drive'.mech = "waking" /\ drive'.content = drive.content
          /\ drive.attention = {} /\ drive'.attention = {}
          /\ drive'.disc = drive.disc /\ drive'.plugged = drive.plugged
      BY <1>6, <3>1, UnitTyped DEF DriveRecord, Taken
    <3> QED  BY <1>2, <1>6, <2>1, <3>2, UnitTyped DEF Taken
  <2>2. CASE drive.mech = "open" /\ shape = "loej"
    <3>1. PICK disc \in Discs \cup {None} : drive' = Inserted(disc)
      BY <1>6, <2>2 DEF Taken
    <3> QED  BY <1>2, <3>1, InsertedIsNotQuiet, UnitTyped
  <2>3. CASE drive.mech \in {"ready", "empty", "loading", "waking"}
    BY <1>3, <1>6, <2>3 DEF Taken
  <2>4. CASE drive.mech = "open" /\ shape # "loej"
    BY <1>3, <1>6, <2>4 DEF Taken
  <2> QED  BY <2>1, <2>2, <2>3, <2>4, UnitTyped DEF Mechanisms
<1> QED  BY <1>3, <1>4, <1>5, <1>6 DEF StartStopUnit, Taken

LEMMA WaitOnward ==
  ASSUME UnitInv, SpinUpStep \/ Poll
  PROVE  Onward /\ (Quiet => QuietFrame)
<1> USE DEF UnitInv
<1>1. CASE SpinUpStep
  <2>1. PICK sense \in SpinUpSenses :
           /\ StartStopUnit(ShapeAt(wait.pc), sense)
           /\ not_ready' = (not_ready \/ NextShape(wait.pc, sense) = "poll")
    BY <1>1 DEF SpinUpStep
  <2>2. UNCHANGED <<machine, cancelled, device_gone>> /\ wait # None /\ wait.pc # "poll"
    BY <1>1 DEF SpinUpStep
  <2>3. /\ events <= events' /\ drive.disc <= drive'.disc /\ drive'.plugged = drive.plugged
        /\ drive'.disc = drive.disc =>
              \/ Lessened
              \/ /\ drive.mech = "parked" /\ Takes(machine.firmware, ShapeAt(wait.pc))
                 /\ drive.attention = {} /\ drive'.attention = {}
                 /\ drive'.mech = "waking" /\ drive'.content = drive.content
    BY <2>1, StartStopUnitOnward
  <2>4. Onward
    BY <2>2, <2>3 DEF Onward
  <2>5. ShapeAt(wait.pc) \in Shapes
    BY <2>2, WaitTyped DEF ShapeAt, Shapes
  <2>6. not_ready => not_ready'
    BY <2>1
  <2>7. CASE Lessened
    BY <2>4, <2>6, <2>7, LessenedIsQuiet
  <2>8. CASE /\ drive.mech = "parked" /\ Takes(machine.firmware, ShapeAt(wait.pc))
             /\ drive.attention = {} /\ drive'.attention = {}
             /\ drive'.mech = "waking" /\ drive'.content = drive.content
    <3>1. machine.firmware # "no_opcode"
      BY <2>5, <2>8 DEF Takes, Refusals, Shapes
    <3> QED  BY <2>4, <2>8, <3>1 DEF QuietFrame, HopelessIn, ClearIn, SettledIn, KeptOff
  <2> QED  BY <2>3, <2>4, <2>7, <2>8 DEF Quiet
<1>2. CASE Poll
  <2>1. PICK sense \in PollSenses :
           TestUnitReady(wait.by, sense) /\ not_ready' = (sense # "pass")
    BY <1>2 DEF Poll, PollSenses
  <2>2. UNCHANGED <<machine, cancelled, device_gone>>
    BY <1>2 DEF Poll
  <2>3. Lessened /\ (UNCHANGED events \/ events' = events + 1)
    BY <2>1, TestUnitReadyIs
  <2>4. Onward
    BY <2>2, <2>3, UnitTyped DEF Onward, Lessened
  <2>5. sense = "pass" => ClearIn(drive')
    BY <2>1, UnitTyped DEF TestUnitReady, Reported, ClearIn, Mechanisms
  <2>6. not_ready => not_ready' \/ ClearIn(drive')
    BY <2>1, <2>5
  <2> QED  BY <2>3, <2>4, <2>6, LessenedIsQuiet
<1> QED  BY <1>1, <1>2

LEMMA CdbOnward ==
  ASSUME UnitInv, NEW t \in Threads, NEW st, Cdb(t, st)
  PROVE  Onward /\ (Quiet => QuietFrame)
<1> USE DEF UnitInv
<1>1. UNCHANGED <<machine, cancelled, wait>>
  BY DEF Cdb
<1>2. UNCHANGED events \/ events' = events + 1
  BY PastIs DEF Cdb, Unanswered, Swapped
<1>3. events <= events'
  BY <1>2, UnitTyped
<1>4. ASSUME Lessened, device_gone' => device_gone \/ ~drive.plugged
      PROVE  Onward
  BY <1>1, <1>3, <1>4, UnitTyped DEF Onward, Lessened
<1>5. CASE Unanswered(st)
  <2>1. UNCHANGED <<drive, not_ready>> /\ (device_gone' => device_gone \/ ~drive.plugged)
    BY <1>5 DEF Unanswered
  <2> QED  BY <1>4, <2>1, SameDriveLessens, SameDriveIsQuiet
<1>6. CASE Swapped(t, st)
  <2>1. PICK left \in SUBSET (drive.attention \ {"changed"}) :
           drive' = [drive EXCEPT !.attention = left]
    BY <1>6 DEF Swapped
  <2>2. UNCHANGED <<not_ready, device_gone>>
    BY <1>6 DEF Swapped
  <2>3. Lessened
    BY <2>1, AttentionLessens
  <2> QED  BY <1>4, <2>2, <2>3, LessenedIsQuiet
<1>7. CASE NoDisc(st) \/ Answers(st) \/ Fails(st)
  <2>1. PICK left \in SUBSET drive.attention, up \in BOOLEAN :
           (up => ComesUp) /\ GetsPast(left, up)
    BY <1>7, PastIs
  <2>2. /\ drive' \in DriveRecord /\ drive'.plugged = drive.plugged
        /\ drive'.content = drive.content /\ drive'.disc = drive.disc
    BY <2>1, GetsPastIs
  <2>3. UNCHANGED device_gone
    BY <1>7, PastIs
  <2>4. Onward
    BY <1>1, <1>3, <2>2, <2>3, UnitTyped DEF Onward
  <2>5. CASE Answers(st)
    <3>1. ComesUp /\ GetsPast({}, TRUE) /\ {} \subseteq drive.attention /\ TRUE \in BOOLEAN
      BY <2>5 DEF Answers
    <3>2. /\ drive'.mech = "ready" /\ drive'.attention = {} /\ drive'.content = drive.content
          /\ drive.mech \in {"ready", "loading", "waking"}
      BY <3>1, GetsPastIs DEF ComesUp
    <3>3. QuietFrame
      BY <3>2 DEF QuietFrame, HopelessIn, ClearIn, SettledIn
    <3> QED  BY <2>4, <3>3
  <2>6. CASE NoDisc(st) \/ Fails(st)
    <3> SUFFICES ASSUME Quiet PROVE QuietFrame
      BY <2>4
    <3>1. events' # events + 1
      BY UnitTyped DEF Quiet
    <3>2. /\ GetsPast({}, FALSE) /\ {} \subseteq drive.attention /\ FALSE \in BOOLEAN
          /\ drive.mech \in {"open", "empty", "parked", "loading", "waking"}
      BY <2>6, <3>1 DEF NoDisc, Fails
    <3>3. Lessened /\ drive'.mech = drive.mech /\ (drive.attention = {} => not_ready' = not_ready)
      <4>1. /\ drive' \in DriveRecord /\ drive'.plugged = drive.plugged
            /\ drive'.mech = (IF FALSE THEN "ready" ELSE drive.mech)
            /\ drive'.content = drive.content /\ drive'.disc = drive.disc
            /\ drive'.attention = {}
            /\ ~FALSE /\ drive.attention = {} => not_ready' = not_ready
        BY <3>2, GetsPastIs
      <4> QED  BY <4>1 DEF Lessened
    <3>4. drive.mech \in {"open", "empty"} => HopelessIn(drive', machine)
      BY <3>3 DEF HopelessIn
    <3> QED  BY <3>2, <3>3, <3>4, LessenedIsQuiet
  <2> QED  BY <1>7, <2>5, <2>6
<1> QED  BY <1>5, <1>6, <1>7 DEF Cdb

LEMMA ConsumeOnward ==
  ASSUME UnitInv, NEW t \in Threads, Consume(t)
  PROVE  Onward /\ (Quiet => QuietFrame)
<1> USE DEF UnitInv
<1>1. CASE UNCHANGED unit \/ BeginWait(t)
  <2>1. UNCHANGED <<machine, drive, not_ready, cancelled, device_gone, events>>
    BY <1>1 DEF unit, BeginWait
  <2> QED  BY <2>1, SameDriveIsQuiet, UnitTyped DEF Onward
<1>2. CASE \E st \in Statuses : Cdb(t, st)
  BY <1>2, CdbOnward
<1>3. CASE SettleAsks(t)
  <2>1. PICK sense : TestUnitReady(t, sense)
    BY <1>3 DEF SettleAsks
  <2>2. UNCHANGED <<machine, not_ready, cancelled, device_gone>>
    BY <1>3 DEF SettleAsks
  <2>3. Lessened /\ (UNCHANGED events \/ events' = events + 1)
    BY <2>1, TestUnitReadyIs
  <2>4. Onward
    BY <2>2, <2>3, UnitTyped DEF Onward, Lessened
  <2> QED  BY <2>2, <2>3, <2>4, LessenedIsQuiet
<1>4. Settling(t) => UNCHANGED unit \/ SettleAsks(t) \/ BeginWait(t)
  BY DEF Settling, CheckReady, SettleOrNot, SettleWaits, SettleReturns, RecheckReady
<1>5. Probing(t) => UNCHANGED unit \/ \E st \in Statuses : Cdb(t, st)
  BY DEF Probing, ReadMedium, ReadCdToc, ReadPvd, WalkIso, MountUdf, LookupVideo,
         LookupBdmv, LookupAudio, Lookup
<1> QED  BY <1>1, <1>2, <1>3, <1>4, <1>5 DEF Consume, IdentifyStep, Identify

LEMMA AroundOnward ==
  ASSUME UnitInv, Environment \/ LastRelease
  PROVE  Onward /\ (Quiet => QuietFrame)
<1> USE DEF UnitInv
<1>1. UNCHANGED machine /\ UNCHANGED device_gone
  BY DEF Environment, LastRelease, Opens, Parks, Resets, Unplugs, Closes, Loads, Event
<1>2. ASSUME NEW d, Event(d), d.disc = drive.disc
      PROVE  Onward /\ ~Quiet
  <2>1. drive' = d /\ events' = events + 1 /\ drive.plugged /\ UNCHANGED cancelled
    BY <1>2 DEF Event
  <2>2. events' # events /\ events <= events' /\ drive'.disc = drive.disc
    BY <1>2, <2>1, UnitTyped
  <2>3. drive.disc <= drive'.disc
    BY <2>2, UnitTyped
  <2>4. (device_gone => ~drive.plugged) => (device_gone' => ~drive'.plugged)
    BY <1>1, <2>1
  <2> QED  BY <1>1, <2>1, <2>2, <2>3, <2>4 DEF Onward, Quiet
<1>3. /\ [drive EXCEPT !.mech = "open", !.content = None].disc = drive.disc
      /\ [drive EXCEPT !.mech = "parked"].disc = drive.disc
      /\ [drive EXCEPT !.attention = drive.attention \cup {"reset"}].disc = drive.disc
      /\ [drive EXCEPT !.plugged = FALSE, !.attention = {}].disc = drive.disc
  BY UnitTyped DEF DriveRecord
<1>4. CASE Opens \/ Parks \/ Resets \/ Unplugs
  BY <1>2, <1>3, <1>4 DEF Opens, Parks, Resets, Unplugs
<1>5. CASE Closes
  <2>1. PICK disc \in Discs \cup {None} : drive' = Inserted(disc)
    BY <1>5 DEF Closes
  <2>2. UNCHANGED <<events, cancelled>>
    BY <1>5 DEF Closes
  <2>3. drive'.disc = drive.disc + 1 /\ drive'.plugged = drive.plugged /\ drive'.disc # drive.disc
    BY <2>1, InsertedIsNotQuiet
  <2> QED  BY <1>1, <2>2, <2>3, UnitTyped DEF Onward, Quiet
<1>6. CASE Loads
  <2>1. PICK a \in {{}, {"changed"}} :
           drive' = [drive EXCEPT !.mech = "ready", !.attention = @ \cup a]
    BY <1>6 DEF Loads
  <2>2. /\ drive'.disc = drive.disc /\ drive'.mech = "ready" /\ drive'.content = drive.content
        /\ drive'.plugged = drive.plugged
    BY <2>1, UnitTyped DEF DriveRecord
  <2>3. drive.mech \in {"loading", "waking"} /\ UNCHANGED <<events, cancelled, not_ready>>
    BY <1>6 DEF Loads
  <2>4. QuietFrame
    BY <2>2, <2>3 DEF QuietFrame, HopelessIn, ClearIn, SettledIn, KeptOff
  <2> QED  BY <1>1, <2>2, <2>3, <2>4, UnitTyped DEF Onward
<1>7. CASE LastRelease
  <2>1. UNCHANGED <<drive, events>> /\ cancelled'
    BY <1>7 DEF LastRelease
  <2> QED  BY <1>1, <2>1, UnitTyped DEF Onward, Quiet
<1> QED  BY <1>4, <1>5, <1>6, <1>7 DEF Environment

-----------------------------------------------------------------------------
(* The settling of a disc left alone.                                      *)

\* A call that takes no step itself, and whose wait none other touches.
LEMMA SettleKept ==
  ASSUME UnitTypeOK, Quiet, QuietFrame, UNCHANGED machine, NEW t, NEW r,
         SettleOK(t, r, drive, machine, not_ready, wait),
         Its(t, wait') <=> Its(t, wait), Its(t, wait) => UNCHANGED wait
  PROVE  SettleOK(t, r, drive', machine', not_ready', wait')
<1>1. /\ drive'.mech = "parked" => drive.mech = "parked"
      /\ drive'.mech # "ready" => drive.mech # "ready" /\ drive'.attention \subseteq drive.attention
  BY DEF QuietFrame
<1>2. r.pc = "wait" /\ drive'.mech # "ready" => drive'.attention # Attentions
  <2> SUFFICES ASSUME r.pc = "wait", drive'.mech # "ready", drive'.attention = Attentions
               PROVE  FALSE
    OBVIOUS
  <2>1. drive.attention # Attentions
    BY <1>1 DEF SettleOK
  <2> QED  BY <1>1, <2>1, UnitTyped
<1>3. r.pc = "waiting" /\ Its(t, wait') => Untried(wait', drive')
  <2> SUFFICES ASSUME r.pc = "waiting", Its(t, wait') PROVE Untried(wait', drive')
    OBVIOUS
  <2>1. wait' = wait /\ Untried(wait, drive)
    BY DEF SettleOK
  <2>2. drive.attention # Attentions /\ drive'.mech # "ready" => drive'.attention # Attentions
    BY <1>1, UnitTyped
  <2>3. drive.attention = {} /\ drive'.mech # "ready" => drive'.attention = {}
    BY <1>1
  <2> QED  BY <1>1, <2>1, <2>2, <2>3 DEF Untried
<1>4. SettledIn(drive, machine, not_ready) => SettledIn(drive', machine', not_ready')
  BY DEF QuietFrame
<1>5. HopelessIn(drive, machine) \/ ClearIn(drive) => HopelessIn(drive', machine') \/ ClearIn(drive')
  BY DEF QuietFrame
<1>6. r.pc = "waiting" /\ ~Its(t, wait') => SettledIn(drive', machine', not_ready')
  BY <1>4 DEF SettleOK
<1>7. r.pc = "recheck" => SettledIn(drive', machine', not_ready')
  BY <1>4 DEF SettleOK
<1>8. Probed(r) => HopelessIn(drive', machine') \/ ClearIn(drive')
  BY <1>5 DEF SettleOK
<1> QED  BY <1>2, <1>3, <1>6, <1>7, <1>8 DEF SettleOK

\* The ladder of spin_up_locked() leaves a disc parked for one reason only,
\* if it met one attention at most.
LEMMA RungIsUntried ==
  ASSUME UnitInv, Quiet, QuietFrame, SpinUpStep, wait.since = events, Untried(wait, drive)
  PROVE  wait' # None /\ Untried(wait', drive')
<1> USE DEF UnitInv
<1>1. PICK sense \in SpinUpSenses, took \in {0, TimeOut} :
         /\ StartStopUnit(ShapeAt(wait.pc), sense)
         /\ wait' = AfterRung(sense, took)
  BY DEF SpinUpStep
<1>2. wait # None /\ wait.pc # "poll"
  BY DEF SpinUpStep
<1>3. took \in Nat
  BY CeilingsOrdered
<1>4. /\ wait' \in WaitRecord /\ wait'.pc = NextShape(wait.pc, sense)
      /\ wait'.met = (IF sense = "attention" THEN wait.met + 1 ELSE wait.met)
  BY <1>1, <1>2, <1>3, RungIs
<1>5. wait' # None
  BY <1>4, NoneIsNoWait
<1>6. wait.pc \in {"start", "again", "plain", "loej"} /\ wait.met \in Met[wait.pc]
  BY <1>2, WaitTyped DEF WaitInv
<1>7. CASE drive'.mech = "ready"
  BY <1>5, <1>7 DEF Untried
<1>8. CASE drive'.mech # "ready" /\ drive.attention # {}
  <2>1. drive.mech # "ready" /\ drive'.attention \subseteq drive.attention /\ drive.plugged
    BY <1>8 DEF QuietFrame, Quiet
  <2>2. wait.pc = "start" /\ drive.attention # Attentions
    BY <1>6, <1>8, <2>1 DEF Untried
  <2>3. events' # events + 1
    BY UnitTyped DEF Quiet
  <2>4. Reported(wait.by, sense) /\ sense = "attention"
    BY <1>1, <1>8, <2>1, <2>3 DEF StartStopUnit, Reported
  <2>5. PICK a \in drive.attention : drive'.attention = drive.attention \ {a}
    BY <2>4, ReportedIs
  <2>6. drive'.attention = {}
    BY <2>2, <2>5, UnitTyped DEF Attentions
  <2>7. wait'.pc = "again"
    BY <1>4, <2>2, <2>4, NextShapeIs
  <2> QED  BY <1>5, <2>6, <2>7 DEF Untried
<1>9. CASE drive'.mech # "ready" /\ drive.attention = {}
  <2>1. drive.mech # "ready" /\ drive'.attention = {}
    BY <1>9 DEF QuietFrame
  <2>2. ASSUME drive'.mech = "parked", wait'.pc \notin {"start", "again"}
        PROVE  wait'.met <= 1
    <3>1. drive.mech = "parked" /\ drive.plugged
      BY <2>2 DEF QuietFrame, Quiet
    <3>2. StillParked(ShapeAt(wait.pc), sense)
      BY <1>1, <2>2, StartStopUnitIs DEF Quiet
    <3>3. sense \in {"opcode", "field", "own"}
      <4>1. \A s \in DOMAIN Refusals(machine.firmware) :
               Refusals(machine.firmware)[s] \in {"opcode", "field", "own"}
        BY UnitTyped DEF Refusals, Firmwares, Shapes
      <4> QED  BY <1>9, <3>2, <4>1 DEF StillParked
    <3>4. wait'.met = wait.met
      BY <1>4, <3>3
    <3>5. CASE wait.pc \in {"start", "again"}
      BY <1>6, <3>4, <3>5 DEF Met
    <3>6. CASE wait.pc \notin {"start", "again"}
      BY <2>1, <3>1, <3>4, <3>6 DEF Untried
    <3> QED  BY <3>5, <3>6
  <2> QED  BY <1>5, <2>1, <2>2 DEF Untried, Attentions
<1> QED  BY <1>7, <1>8, <1>9

\* A wait given up on leaves the entry not ready, or a drive that is, or one
\* that will not be.
LEMMA PollSettles ==
  ASSUME UnitInv, Quiet, QuietFrame, Poll, wait.since = events, Untried(wait, drive)
  PROVE  IF wait' = None THEN SettledIn(drive', machine, not_ready') ELSE Untried(wait', drive')
<1> USE DEF UnitInv
<1>1. PICK sense \in PollSenses, took \in {0, TimeOut} :
         /\ took \in CommandTime("poll", sense)
         /\ TestUnitReady(wait.by, sense)
         /\ NextPoll(sense, wait.elapsed + took)
         /\ not_ready' = (sense # "pass")
  BY DEF Poll, PollSenses, NextPoll
<1>2. wait # None /\ wait.pc = "poll"
  BY DEF Poll
<1>3. took \in Nat /\ (sense # "none" => took = 0)
  BY <1>1, CeilingsOrdered DEF CommandTime
<1>4. wait' = None \/ GoesOn
  BY <1>1, <1>2, <1>3, NextPollIs
<1>5. drive'.mech = "parked" =>
         drive.mech = "parked" /\ drive.plugged /\ wait.met <= 1 /\ machine.firmware = "no_opcode"
  <2> SUFFICES ASSUME drive'.mech = "parked"
               PROVE  drive.mech = "parked" /\ drive.plugged /\ wait.met <= 1
                      /\ machine.firmware = "no_opcode"
    OBVIOUS
  <2>1. drive.mech = "parked" /\ drive.plugged
    BY DEF QuietFrame, Quiet
  <2>2. wait.met <= 1
    BY <1>2, <2>1 DEF Untried
  <2>3. ParkedAt(wait)
    BY <1>2, <2>1 DEF ParkedInv
  <2> QED  BY <1>2, <2>1, <2>2, <2>3 DEF ParkedAt
<1>9. drive'.mech # "ready" => drive'.attention = {}
  BY <1>2 DEF QuietFrame, Untried
<1>6. CASE wait' # None
  <2>1. wait'.pc = "poll" /\ wait'.met = wait.met
    BY <1>2, <1>4, <1>6 DEF GoesOn
  <2> QED  BY <1>5, <1>9, <1>6, <2>1 DEF Untried
<1>7. CASE wait' = None /\ sense = "pass"
  <2>1. ClearIn(drive')
    BY <1>1, <1>7, UnitTyped DEF TestUnitReady, Reported, ClearIn, Mechanisms
  <2> QED  BY <1>7, <2>1 DEF SettledIn
<1>8. CASE wait' = None /\ sense # "pass"
  <2>1. not_ready'
    BY <1>1, <1>8
  <2> QED  BY <1>5, <1>9, <1>8, <2>1 DEF SettledIn, KeptOff, HopelessIn
<1> QED  BY <1>6, <1>7, <1>8

-----------------------------------------------------------------------------
(* The answers of a disc left alone.                                       *)

\* The medium, and whether its TOC may be believed, as the drive has them.
Named(c, m) == IF m.configures THEN c.profile ELSE "unknown"
TocTrueIn(c, m) ==
    (m.configures /\ c.profile # "unknown") \/ c.profile = "cd" \/ c.toc # "audio"

\* What a call knows on its way through the ISO9660 walk, and through the UDF
\* probes.
AtIso(r, c, m) ==
    /\ r.medium = Named(c, m) /\ r.toc = c.toc /\ c.toc # "audio" /\ ~r.video
    /\ r.medium = "cd" \/ (r.medium = "unknown" /\ c.zones = {})
    /\ r.medium = "cd" => ~r.gone
AtUdf(r, c, m) ==
    /\ r.medium = Named(c, m)
    /\ r.medium \in {"cd", "unknown"} => r.toc = c.toc /\ c.toc # "audio"
    /\ r.medium = "cd" => c.iso \notin {"VCD", "SVCD"}

\* What a call has found, and ruled out, is true of the disc c in the drive m.
Right(r, c, m) ==
    /\ r.pc = "toc" =>
          r.medium = Named(c, m) /\ r.medium \in {"cd", "unknown"} /\ ~r.gone /\ ~r.video
    /\ r.pc \in {"pvd", "dir", "info", "magic"} =>
          /\ AtIso(r, c, m)
          /\ r.pc # "pvd" => r.probe = "VCD" \/ c.iso # "VCD"
          /\ r.pc \in {"info", "magic"} => c.iso = r.probe
    /\ r.pc \in {"mount", "video", "bdmv", "audio"} =>
          /\ AtUdf(r, c, m) /\ ~r.gone
          /\ r.video <=> r.pc = "audio" /\ "video" \in c.zones
          /\ r.pc = "bdmv" => "video" \notin c.zones
          /\ r.pc = "audio" => "bdmv" \notin c.zones
    /\ r.pc = "done" => r.kind = KindOf(c)

\* A call r of consumer t: when it began, its locals before it has asked
\* anything, and, if nothing has happened since, how its settling has gone and
\* that what it knows is true of the disc.
KindIn(t, r, ev, dr, cn, m, nr, w) ==
    /\ r.since <= ev /\ r.first <= dr.disc /\ (Its(t, w) => r.since <= w.since)
    /\ r.pc \in Early => ~r.gone /\ ~r.video
    /\ FreshIn(r, ev, dr, cn) => SettleOK(t, r, dr, m, nr, w)
    /\ FreshIn(r, ev, dr, cn) /\ Probed(r) /\ ClearIn(dr) /\ TocTrueIn(dr.content, m)
          => Right(r, dr.content, m)

KindInv ==
    /\ device_gone => ~drive.plugged
    /\ \A t \in Threads : call[t] # None =>
          KindIn(t, call[t], events, drive, cancelled, machine, not_ready, wait)

\* What a command of such a call is asked under.
Undisturbing(r) ==
    /\ Quiet /\ ClearIn(drive) /\ (device_gone => ~drive.plugged)
    /\ TocTrueIn(drive.content, machine) /\ Right(r, drive.content, machine)
    /\ r.pc \in Early => ~r.gone /\ ~r.video

LEMMA ClearAnswers ==
  ASSUME UnitInv, NEW t \in Threads, NEW st, Cdb(t, st), NEW r, Undisturbing(r)
  PROVE  st = "OK" /\ drive.content \in Contents \ {None}
<1>1. /\ ~cancelled /\ ~device_gone /\ drive.plugged /\ drive.mech = "ready"
      /\ drive.attention = {} /\ events' = events /\ events # events + 1
  BY UnitTyped DEF Undisturbing, Quiet, ClearIn, UnitInv
<1>2. Answers(st)
  BY <1>1 DEF Cdb, Unanswered, Swapped, SwapIsTold, NoDisc, Fails
<1>3. drive.content # None
  BY <1>1 DEF UnitInv, MechInv
<1> QED  BY <1>2, <1>3, UnitTyped DEF Answers, UnitInv

LEMMA DiscIs ==
  ASSUME NEW c \in Contents \ {None}
  PROVE  /\ c.profile \in {"unknown", "cd", "dvd", "bd"} /\ c.toc \in {"none", "data", "audio"}
         /\ c.iso \in {"none", "empty", "VCD", "SVCD"}
         /\ c.zones \subseteq {"video", "audio", "bdmv"}
         /\ c.zones # {} => c.udf
         /\ "bdmv" \in c.zones => c.zones = {"bdmv"}
         /\ c.iso \in {"VCD", "SVCD"} =>
               c.profile \in {"cd", "unknown"} /\ c.toc = "data" /\ c.zones = {}
BY DiscsTyped, DiscsAsMade

\* The call goes on as it is, or with the same locals.
Kept(q, r) == q.since = r.since /\ q.first = r.first
Same(q, r) == /\ Kept(q, r) /\ q.medium = r.medium /\ q.toc = r.toc /\ q.probe = r.probe
              /\ q.video = r.video /\ q.gone = r.gone

LEMMA GotoFields ==
  ASSUME CallInv, NEW t \in Threads, NEW r \in CallRecord, NEW pc, Goto(t, r, pc)
  PROVE  call'[t].pc = pc /\ Same(call'[t], r)
<1>1. call'[t] = [r EXCEPT !.pc = pc]
  BY DEF CallInv, Goto
<1> QED  BY <1>1 DEF CallRecord, Same, Kept

LEMMA ReturnFields ==
  ASSUME CallInv, NEW t \in Threads, NEW r \in CallRecord, NEW kind, Return(t, r, kind)
  PROVE  /\ call'[t].pc = "done" /\ call'[t].kind = kind /\ call'[t].asked = r.asked
         /\ Kept(call'[t], r)
<1>1. call'[t] = [r EXCEPT !.pc = "done", !.kind = kind, !.medium = "unknown",
                           !.toc = "none", !.probe = "VCD", !.video = FALSE, !.gone = FALSE]
  BY DEF CallInv, Return
<1> QED  BY <1>1 DEF CallRecord, Kept

LEMMA FoundIs ==
  ASSUME UnitTypeOK, NEW r \in CallRecord
  PROVE  /\ Found(r) \in CallRecord /\ Same(Found(r), r)
         /\ [r EXCEPT !.evidence = {}] \in CallRecord /\ Same([r EXCEPT !.evidence = {}], r)
<1>1. drive.disc \in 0 .. MaxEvents + 1
  BY DEF UnitTypeOK
<1> QED  BY <1>1 DEF Found, CallRecord, Same, Kept

LEMMA AfterIsoIs ==
  ASSUME UnitTypeOK, CallInv, NEW t \in Threads, NEW r \in CallRecord, AfterIso(t, r),
         NEW c, NEW m
  PROVE  /\ Kept(call'[t], r) /\ call'[t].pc \in {"mount", "done"}
         /\ c \in Contents \ {None} /\ AtIso(r, c, m) /\ c.iso \notin {"VCD", "SVCD"}
               => Right(call'[t], c, m)
<1> DEFINE q == call'[t]
           s == [r EXCEPT !.evidence = {}]
<1>1. s \in CallRecord /\ Same(s, r)
  BY FoundIs
<1>2. CASE r.medium = "cd"
  <2>1. Goto(t, s, "mount")
    BY <1>2 DEF AfterIso
  <2> HIDE DEF s
  <2>2. q.pc = "mount" /\ Same(q, r)
    BY <1>1, <2>1, GotoFields DEF Same, Kept
  <2>3. AtIso(r, c, m) /\ c.iso \notin {"VCD", "SVCD"} => Right(q, c, m)
    BY <1>2, <2>2 DEF AtIso, AtUdf, Right, Same
  <2> QED  BY <2>2, <2>3 DEF Same
<1>3. CASE r.medium # "cd"
  <2>1. q.pc = "done" /\ q.kind = "UNKNOWN" /\ Kept(q, r)
    BY <1>3, ReturnFields DEF AfterIso
  <2>2. AtIso(r, c, m) /\ c.iso \notin {"VCD", "SVCD"} => KindOf(c) = "UNKNOWN"
    BY <1>3 DEF AtIso, KindOf
  <2> QED  BY <2>1, <2>2 DEF Right
<1> QED  BY <1>2, <1>3

LEMMA AfterUdfIs ==
  ASSUME UnitTypeOK, CallInv, NEW t \in Threads, NEW r \in CallRecord, AfterUdf(t, r),
         NEW c, NEW m
  PROVE  /\ Kept(call'[t], r) /\ call'[t].pc \in {"pvd", "done"}
         /\ c \in Contents \ {None} /\ AtUdf(r, c, m) /\ ~r.video /\ c.zones = {}
               => Right(call'[t], c, m)
<1> DEFINE q == call'[t]
           s == [r EXCEPT !.evidence = {}]
<1>1. s \in CallRecord /\ Same(s, r)
  BY FoundIs
<1>2. CASE r.medium = "unknown" /\ r.toc = "data"
  <2>1. Goto(t, s, "pvd")
    BY <1>2 DEF AfterUdf
  <2> HIDE DEF s
  <2>2. q.pc = "pvd" /\ Same(q, r)
    BY <1>1, <2>1, GotoFields DEF Same, Kept
  <2>3. AtUdf(r, c, m) /\ ~r.video /\ c.zones = {} => Right(q, c, m)
    BY <1>2, <2>2 DEF AtIso, AtUdf, Right, Same
  <2> QED  BY <2>2, <2>3 DEF Same
<1>3. CASE ~(r.medium = "unknown" /\ r.toc = "data")
  <2>1. q.pc = "done" /\ q.kind = "UNKNOWN" /\ Kept(q, r)
    BY <1>3, ReturnFields DEF AfterUdf
  <2>2. ASSUME c \in Contents \ {None}, AtUdf(r, c, m), c.zones = {}
        PROVE  KindOf(c) = "UNKNOWN"
    <3>1. c.iso \notin {"VCD", "SVCD"}
      BY <1>3, <2>2, DiscIs DEF AtUdf, Named
    <3>2. ~(c.profile = "cd" /\ c.toc = "audio")
      BY <2>2, DiscIs DEF AtUdf, Named
    <3> QED  BY <2>2, <3>1, <3>2 DEF KindOf
  <2> QED  BY <2>1, <2>2 DEF Right
<1> QED  BY <1>2, <1>3

\* A probe leaves a call that is disturbed no less right than it was.
Progresses(t) ==
    /\ Kept(call'[t], call[t]) /\ call'[t].pc \notin Early
    /\ Undisturbing(call[t]) => Right(call'[t], drive.content, machine)

LEMMA ReadMediumProgresses ==
  ASSUME UnitInv, CallInv, NEW t \in Threads, ReadMedium(t)
  PROVE  Progresses(t)
<1> DEFINE r == call[t]
           q == call'[t]
<1>1. r.pc = "config" /\ r \in CallRecord /\ UnitTypeOK
  BY CallTyped DEF ReadMedium, At, UnitInv
<1>2. PICK st \in Statuses :
         /\ Cdb(t, st)
         /\ LET known == st = "OK" /\ machine.configures
                medium == IF known THEN Disc.profile ELSE "unknown"
            IN  IF medium \in {"cd", "unknown"}
                THEN Goto(t, [r EXCEPT !.medium = medium,
                                       !.evidence = IF known THEN {drive.disc} ELSE {}], "toc")
                ELSE Goto(t, [r EXCEPT !.medium = medium], "mount")
  BY DEF ReadMedium
<1> DEFINE known == st = "OK" /\ machine.configures
           medium == IF known THEN Disc.profile ELSE "unknown"
<1>3. medium \in {"unknown", "cd", "dvd", "bd"}
  BY <1>2, AnswerHasDisc
<1>4. \/ medium \in {"cd", "unknown"} /\ \E e \in SUBSET (0 .. MaxEvents + 1) :
            Goto(t, [r EXCEPT !.medium = medium, !.evidence = e], "toc")
      \/ medium \notin {"cd", "unknown"} /\ Goto(t, [r EXCEPT !.medium = medium], "mount")
  <2>1. {drive.disc} \in SUBSET (0 .. MaxEvents + 1) /\ {} \in SUBSET (0 .. MaxEvents + 1)
    BY <1>1 DEF UnitTypeOK
  <2> QED  BY <1>2, <2>1
<1>5. Undisturbing(r) => /\ medium = Named(drive.content, machine)
                         /\ drive.content \in Contents \ {None} /\ ~r.gone /\ ~r.video
  BY <1>1, <1>2, ClearAnswers DEF Named, Disc, Undisturbing, Early
<1> HIDE DEF medium, known
<1>6. ASSUME NEW e \in SUBSET (0 .. MaxEvents + 1), medium \in {"cd", "unknown"},
             Goto(t, [r EXCEPT !.medium = medium, !.evidence = e], "toc")
      PROVE  Progresses(t)
  <2> DEFINE s == [r EXCEPT !.medium = medium, !.evidence = e]
  <2>1. s \in CallRecord /\ Kept(s, r) /\ s.medium = medium /\ s.gone = r.gone /\ s.video = r.video
    BY <1>1, <1>3, <1>6 DEF CallRecord, Kept
  <2> HIDE DEF s
  <2>2. q.pc = "toc" /\ Same(q, s)
    BY <1>6, <2>1, GotoFields DEF s
  <2>3. Undisturbing(r) => Right(q, drive.content, machine)
    BY <1>5, <1>6, <2>1, <2>2 DEF Right, Same
  <2> QED  BY <2>1, <2>2, <2>3 DEF Progresses, Same, Kept, Early
<1>7. ASSUME medium \notin {"cd", "unknown"}, Goto(t, [r EXCEPT !.medium = medium], "mount")
      PROVE  Progresses(t)
  <2> DEFINE s == [r EXCEPT !.medium = medium]
  <2>1. s \in CallRecord /\ Kept(s, r) /\ s.medium = medium /\ s.gone = r.gone /\ s.video = r.video
    BY <1>1, <1>3 DEF CallRecord, Kept
  <2> HIDE DEF s
  <2>2. q.pc = "mount" /\ Same(q, s)
    BY <1>7, <2>1, GotoFields DEF s
  <2>3. Undisturbing(r) => Right(q, drive.content, machine)
    BY <1>5, <1>7, <2>1, <2>2 DEF Right, AtUdf, Same
  <2> QED  BY <2>1, <2>2, <2>3 DEF Progresses, Same, Kept, Early
<1> QED  BY <1>4, <1>6, <1>7

LEMMA ReadCdTocProgresses ==
  ASSUME UnitInv, CallInv, NEW t \in Threads, ReadCdToc(t)
  PROVE  Progresses(t)
<1> DEFINE r == call[t]
           q == call'[t]
           c == drive.content
<1>1. r.pc = "toc" /\ r \in CallRecord /\ UnitTypeOK
  BY CallTyped DEF ReadCdToc, At, UnitInv
<1>2. PICK st \in Statuses :
         /\ Cdb(t, st)
         /\ LET toc == IF st = "OK" THEN Disc.toc ELSE "none"
                s == [r EXCEPT !.toc = toc]
            IN  IF toc = "audio" THEN Return(t, Found(s), "CD_AUDIO")
                ELSE Goto(t, [s EXCEPT !.evidence = {}],
                          IF s.medium = "cd" /\ toc = "data" THEN "pvd" ELSE "mount")
  BY DEF ReadCdToc
<1> DEFINE toc == IF st = "OK" THEN Disc.toc ELSE "none"
           s == [r EXCEPT !.toc = toc]
<1>3. toc \in {"none", "data", "audio"}
  BY <1>2, AnswerHasDisc
<1>4. Undisturbing(r) =>
         /\ toc = c.toc /\ c \in Contents \ {None} /\ TocTrueIn(c, machine)
         /\ r.medium = Named(c, machine) /\ r.medium \in {"cd", "unknown"} /\ ~r.gone /\ ~r.video
  BY <1>1, <1>2, ClearAnswers DEF Disc, Undisturbing, Right
<1>5. IF toc = "audio" THEN Return(t, Found(s), "CD_AUDIO")
      ELSE Goto(t, [s EXCEPT !.evidence = {}],
                IF s.medium = "cd" /\ toc = "data" THEN "pvd" ELSE "mount")
  BY <1>2
<1> HIDE DEF toc, c
<1>6. /\ s \in CallRecord /\ Kept(s, r) /\ s.medium = r.medium /\ s.toc = toc
      /\ s.gone = r.gone /\ s.video = r.video
  BY <1>1, <1>3 DEF CallRecord, Kept
<1> HIDE DEF s
<1>7. /\ Found(s) \in CallRecord /\ Same(Found(s), s)
      /\ [s EXCEPT !.evidence = {}] \in CallRecord /\ Same([s EXCEPT !.evidence = {}], s)
  BY <1>1, <1>6, FoundIs
<1>8. CASE toc = "audio"
  <2>1. q.pc = "done" /\ q.kind = "CD_AUDIO" /\ Kept(q, Found(s))
    BY <1>5, <1>7, <1>8, ReturnFields
  <2>2. Undisturbing(r) => KindOf(c) = "CD_AUDIO"
    BY <1>4, <1>8 DEF KindOf, TocTrueIn, Named
  <2>3. Undisturbing(r) => Right(q, c, machine)
    BY <2>1, <2>2 DEF Right
  <2> QED  BY <1>6, <1>7, <2>1, <2>3 DEF Progresses, Same, Kept, Early, c
<1>9. CASE toc # "audio"
  <2> DEFINE next == IF s.medium = "cd" /\ toc = "data" THEN "pvd" ELSE "mount"
  <2>1. Goto(t, [s EXCEPT !.evidence = {}], next)
    BY <1>5, <1>9
  <2>2. q.pc = next /\ Same(q, [s EXCEPT !.evidence = {}])
    BY <1>7, <2>1, GotoFields
  <2>3. Same(q, s)
    BY <1>7, <2>2 DEF Same, Kept
  <2>4. Undisturbing(r) => Right(q, c, machine)
    <3> SUFFICES ASSUME Undisturbing(r) PROVE Right(q, c, machine)
      OBVIOUS
    <3>1. /\ q.toc = c.toc /\ c.toc # "audio" /\ q.medium = Named(c, machine)
          /\ q.medium \in {"cd", "unknown"} /\ ~q.gone /\ ~q.video
      BY <1>4, <1>6, <1>9, <2>3 DEF Same
    <3>2. CASE q.pc = "pvd"
      <4>1. q.medium = "cd"
        BY <1>6, <2>2, <2>3, <3>2 DEF Same
      <4> QED  BY <3>1, <3>2, <4>1 DEF Right, AtIso
    <3>3. CASE q.pc = "mount"
      <4>1. q.medium = "cd" => c.iso \notin {"VCD", "SVCD"}
        BY <1>4, <1>6, <2>2, <2>3, <3>3, DiscIs DEF Same
      <4> QED  BY <3>1, <3>3, <4>1 DEF Right, AtUdf
    <3> QED  BY <2>2, <3>2, <3>3
  <2> QED  BY <1>6, <2>2, <2>3, <2>4 DEF Progresses, Same, Kept, Early, c
<1> QED  BY <1>8, <1>9

LEMMA ReadPvdProgresses ==
  ASSUME UnitInv, CallInv, NEW t \in Threads, ReadPvd(t)
  PROVE  Progresses(t)
<1> DEFINE r == call[t]
           q == call'[t]
           c == drive.content
<1>1. r.pc = "pvd" /\ r \in CallRecord /\ UnitTypeOK
  BY CallTyped DEF ReadPvd, At, UnitInv
<1>2. PICK st \in Statuses :
         /\ Cdb(t, st)
         /\ IF st = "OK" /\ Disc.iso # "none"
            THEN Goto(t, [Found(r) EXCEPT !.probe = "VCD"], "dir")
            ELSE AfterIso(t, r)
  BY DEF ReadPvd
<1>3. Undisturbing(r) => st = "OK" /\ c \in Contents \ {None} /\ AtIso(r, c, machine)
  BY <1>1, <1>2, ClearAnswers DEF Undisturbing, Right
<1>4. CASE Goto(t, [Found(r) EXCEPT !.probe = "VCD"], "dir")
  <2> DEFINE f == Found(r)
             s == [f EXCEPT !.probe = "VCD"]
  <2>1. f \in CallRecord /\ Same(f, r)
    BY <1>1, FoundIs
  <2>2. Goto(t, s, "dir")
    BY <1>4
  <2> HIDE DEF f
  <2>3. /\ s \in CallRecord /\ Kept(s, f) /\ s.medium = f.medium /\ s.toc = f.toc
        /\ s.video = f.video /\ s.gone = f.gone /\ s.probe = "VCD"
    BY <2>1 DEF CallRecord, Kept
  <2> HIDE DEF s
  <2>4. q.pc = "dir" /\ Same(q, s)
    BY <2>2, <2>3, GotoFields
  <2>5. Undisturbing(r) => Right(q, c, machine)
    BY <1>3, <2>1, <2>3, <2>4 DEF Right, AtIso, Same
  <2> QED  BY <2>1, <2>3, <2>4, <2>5 DEF Progresses, Same, Kept, Early
<1>5. CASE AfterIso(t, r) /\ ~(st = "OK" /\ Disc.iso # "none")
  <2>1. /\ Kept(q, r) /\ q.pc \in {"mount", "done"}
        /\ c \in Contents \ {None} /\ AtIso(r, c, machine) /\ c.iso \notin {"VCD", "SVCD"}
              => Right(q, c, machine)
    BY <1>1, <1>5, AfterIsoIs
  <2>2. Undisturbing(r) => c.iso \notin {"VCD", "SVCD"}
    BY <1>3, <1>5 DEF Disc
  <2> QED  BY <1>3, <2>1, <2>2 DEF Progresses, Early
<1> QED  BY <1>2, <1>4, <1>5

LEMMA WalkIsoProgresses ==
  ASSUME UnitInv, CallInv, NEW t \in Threads, WalkIso(t)
  PROVE  Progresses(t)
<1> DEFINE r == call[t]
           q == call'[t]
           c == drive.content
<1>1. r.pc \in {"dir", "info", "magic"} /\ r \in CallRecord /\ UnitTypeOK
  BY CallTyped DEF WalkIso, At, UnitInv
<1>2. PICK st \in Statuses :
         /\ Cdb(t, st)
         /\ IF ~(st = "OK" /\ Disc.iso = r.probe) THEN NextIsoProbe(t, r)
            ELSE IF r.pc = "magic" THEN Return(t, Found(r), r.probe)
            ELSE Goto(t, Found(r), IsoNext[r.pc])
  BY DEF WalkIso
<1>3. Undisturbing(r) =>
         /\ st = "OK" /\ c \in Contents \ {None} /\ AtIso(r, c, machine)
         /\ r.probe = "VCD" \/ c.iso # "VCD"
  BY <1>1, <1>2, ClearAnswers DEF Undisturbing, Right
<1>4. Found(r) \in CallRecord /\ Same(Found(r), r) /\ r.probe \in {"VCD", "SVCD"}
  BY <1>1, FoundIs DEF CallRecord
<1>5. CASE Goto(t, Found(r), IsoNext[r.pc]) /\ Disc.iso = r.probe /\ r.pc # "magic"
  <2>1. q.pc = IsoNext[r.pc] /\ Same(q, Found(r))
    BY <1>4, <1>5, GotoFields
  <2>2. q.pc \in {"info", "magic"} /\ Same(q, r)
    BY <1>1, <1>4, <1>5, <2>1 DEF IsoNext, Same, Kept
  <2>3. Undisturbing(r) => Right(q, c, machine)
    BY <1>3, <1>5, <2>2 DEF Right, AtIso, Same, Disc
  <2> QED  BY <2>2, <2>3 DEF Progresses, Same, Early
<1>6. CASE Return(t, Found(r), r.probe) /\ Disc.iso = r.probe
  <2>1. q.pc = "done" /\ q.kind = r.probe /\ Kept(q, r)
    BY <1>4, <1>6, ReturnFields DEF Same, Kept
  <2>2. Undisturbing(r) => KindOf(c) = r.probe
    BY <1>3, <1>4, <1>6 DEF KindOf, AtIso, Disc
  <2> QED  BY <2>1, <2>2 DEF Progresses, Right, Early
<1>7. CASE NextIsoProbe(t, r) /\ ~(st = "OK" /\ Disc.iso = r.probe)
  <2>1. Undisturbing(r) => c.iso # r.probe
    BY <1>3, <1>7 DEF Disc
  <2>2. CASE r.probe = "VCD"
    <3> DEFINE s == [r EXCEPT !.probe = "SVCD"]
    <3>1. Goto(t, s, "dir")
      BY <1>7, <2>2 DEF NextIsoProbe
    <3>2. /\ s \in CallRecord /\ Kept(s, r) /\ s.medium = r.medium /\ s.toc = r.toc
          /\ s.video = r.video /\ s.gone = r.gone /\ s.probe = "SVCD"
      BY <1>1 DEF CallRecord, Kept
    <3> HIDE DEF s
    <3>3. q.pc = "dir" /\ Same(q, s)
      BY <3>1, <3>2, GotoFields
    <3>4. Undisturbing(r) => Right(q, c, machine)
      BY <1>3, <2>1, <2>2, <3>2, <3>3 DEF Right, AtIso, Same
    <3> QED  BY <3>2, <3>3, <3>4 DEF Progresses, Same, Kept, Early
  <2>3. CASE r.probe # "VCD"
    <3>1. AfterIso(t, r)
      BY <1>7, <2>3 DEF NextIsoProbe
    <3>2. /\ Kept(q, r) /\ q.pc \in {"mount", "done"}
          /\ c \in Contents \ {None} /\ AtIso(r, c, machine) /\ c.iso \notin {"VCD", "SVCD"}
                => Right(q, c, machine)
      BY <1>1, <3>1, AfterIsoIs
    <3>3. Undisturbing(r) => c.iso \notin {"VCD", "SVCD"}
      BY <1>3, <1>4, <2>1, <2>3
    <3> QED  BY <1>3, <3>2, <3>3 DEF Progresses, Early
  <2> QED  BY <2>2, <2>3
<1> QED  BY <1>2, <1>5, <1>6, <1>7

LEMMA MountUdfProgresses ==
  ASSUME UnitInv, CallInv, NEW t \in Threads, MountUdf(t)
  PROVE  Progresses(t)
<1> DEFINE r == call[t]
           q == call'[t]
           c == drive.content
<1>1. r.pc = "mount" /\ r \in CallRecord /\ UnitTypeOK
  BY CallTyped DEF MountUdf, At, UnitInv
<1>2. PICK st \in Statuses :
         /\ Cdb(t, st)
         /\ IF st = "OK" /\ Disc.udf THEN Goto(t, Found(r), "video") ELSE AfterUdf(t, r)
  BY DEF MountUdf
<1>3. Undisturbing(r) =>
         /\ st = "OK" /\ c \in Contents \ {None} /\ AtUdf(r, c, machine)
         /\ ~r.gone /\ ~r.video
  BY <1>1, <1>2, ClearAnswers DEF Undisturbing, Right
<1>4. CASE Goto(t, Found(r), "video")
  <2> DEFINE f == Found(r)
  <2>0. f \in CallRecord /\ Same(f, r) /\ Goto(t, f, "video")
    BY <1>1, <1>4, FoundIs
  <2> HIDE DEF f
  <2>1. q.pc = "video" /\ Same(q, r)
    BY <2>0, GotoFields DEF Same, Kept
  <2>2. Undisturbing(r) => Right(q, c, machine)
    BY <1>3, <2>1 DEF Right, AtUdf, Same
  <2> QED  BY <2>1, <2>2 DEF Progresses, Same, Early
<1>5. CASE AfterUdf(t, r) /\ ~(st = "OK" /\ Disc.udf)
  <2>1. /\ Kept(q, r) /\ q.pc \in {"pvd", "done"}
        /\ c \in Contents \ {None} /\ AtUdf(r, c, machine) /\ ~r.video /\ c.zones = {}
              => Right(q, c, machine)
    BY <1>1, <1>5, AfterUdfIs
  <2>2. Undisturbing(r) => c.zones = {}
    BY <1>3, <1>5, DiscIs DEF Disc
  <2> QED  BY <1>3, <2>1, <2>2 DEF Progresses, Early
<1> QED  BY <1>2, <1>4, <1>5

LEMMA LookedUpIs ==
  ASSUME UnitTypeOK, NEW r \in CallRecord, NEW hit \in BOOLEAN, NEW st
  PROVE  LET l == LookedUp(r, hit, st)
         IN  /\ l \in CallRecord /\ Kept(l, r) /\ l.medium = r.medium /\ l.toc = r.toc
             /\ l.video = r.video
             /\ st = "OK" /\ ~r.gone => ~l.gone
<1> DEFINE gone == st \in {"MEDIA_GONE", "NO_DEVICE"}
<1>1. CASE hit
  <2>1. Found(r) \in CallRecord /\ Same(Found(r), r)
    BY FoundIs
  <2> QED  BY <1>1, <2>1 DEF LookedUp, Same
<1>2. CASE ~hit
  <2>1. LookedUp(r, hit, st) = [r EXCEPT !.gone = gone]
    BY <1>2 DEF LookedUp, Latch
  <2>2. gone \in BOOLEAN /\ (st = "OK" => ~gone)
    OBVIOUS
  <2> HIDE DEF gone
  <2> QED  BY <2>1, <2>2 DEF CallRecord, Kept
<1> QED  BY <1>1, <1>2

LEMMA LookupFinds ==
  ASSUME UnitInv, NEW t \in Threads, NEW zone, NEW hit \in BOOLEAN, NEW st,
         Lookup(t, zone, hit, st), Undisturbing(call[t]),
         call[t].pc \in {"video", "bdmv", "audio"}
  PROVE  /\ drive.content \in Contents \ {None} /\ st = "OK"
         /\ hit <=> zone \in drive.content.zones
<1> DEFINE r == call[t]
           c == drive.content
<1>1. ~r.gone
  BY DEF Undisturbing, Right
<1>2. Cdb(t, st) /\ hit = (st = "OK" /\ c.udf /\ zone \in c.zones)
  BY <1>1 DEF Lookup, Disc
<1>3. st = "OK" /\ c \in Contents \ {None}
  BY <1>2, ClearAnswers
<1>4. c.zones # {} => c.udf
  BY <1>3, DiscIs
<1> QED  BY <1>2, <1>3, <1>4

LEMMA LookupVideoProgresses ==
  ASSUME UnitInv, CallInv, NEW t \in Threads, LookupVideo(t)
  PROVE  Progresses(t)
<1> DEFINE r == call[t]
           q == call'[t]
           c == drive.content
<1>1. r.pc = "video" /\ r \in CallRecord /\ UnitTypeOK
  BY CallTyped DEF LookupVideo, At, UnitInv
<1>2. PICK hit \in BOOLEAN, st \in Statuses :
         /\ Lookup(t, "video", hit, st)
         /\ Goto(t, [LookedUp(r, hit, st) EXCEPT !.video = hit], IF hit THEN "audio" ELSE "bdmv")
  BY DEF LookupVideo
<1> DEFINE l == LookedUp(r, hit, st)
           s == [l EXCEPT !.video = hit]
           next == IF hit THEN "audio" ELSE "bdmv"
<1>3. /\ l \in CallRecord /\ Kept(l, r) /\ l.medium = r.medium /\ l.toc = r.toc
      /\ st = "OK" /\ ~r.gone => ~l.gone
  BY <1>1, LookedUpIs
<1>4. Goto(t, s, next)
  BY <1>2
<1> HIDE DEF l
<1>5. /\ s \in CallRecord /\ Kept(s, l) /\ s.medium = l.medium /\ s.toc = l.toc
      /\ s.gone = l.gone /\ s.video = hit
  BY <1>3 DEF CallRecord, Kept
<1> HIDE DEF s
<1>6. q.pc = next /\ Same(q, s)
  BY <1>4, <1>5, GotoFields
<1>7. Undisturbing(r) => Right(q, c, machine)
  <2> SUFFICES ASSUME Undisturbing(r) PROVE Right(q, c, machine)
    OBVIOUS
  <2>1. c \in Contents \ {None} /\ st = "OK" /\ (hit <=> "video" \in c.zones)
    BY <1>1, <1>2, LookupFinds
  <2>2. AtUdf(r, c, machine) /\ ~r.gone
    BY <1>1 DEF Undisturbing, Right
  <2>3. AtUdf(q, c, machine) /\ ~q.gone /\ q.video = hit
    BY <1>3, <1>5, <1>6, <2>1, <2>2 DEF AtUdf, Same
  <2>4. hit => "bdmv" \notin c.zones
    BY <2>1, DiscIs
  <2> QED  BY <1>6, <2>1, <2>3, <2>4 DEF Right
<1> QED  BY <1>3, <1>5, <1>6, <1>7 DEF Progresses, Same, Kept, Early

LEMMA LookupBdmvProgresses ==
  ASSUME UnitInv, CallInv, NEW t \in Threads, LookupBdmv(t)
  PROVE  Progresses(t)
<1> DEFINE r == call[t]
           q == call'[t]
           c == drive.content
<1>1. r.pc = "bdmv" /\ r \in CallRecord /\ UnitTypeOK
  BY CallTyped DEF LookupBdmv, At, UnitInv
<1>2. PICK hit \in BOOLEAN, st \in Statuses :
         /\ Lookup(t, "bdmv", hit, st)
         /\ IF hit THEN Return(t, LookedUp(r, hit, st), "BD_VIDEO")
                   ELSE Goto(t, LookedUp(r, hit, st), "audio")
  BY DEF LookupBdmv
<1> DEFINE l == LookedUp(r, hit, st)
<1>3. /\ l \in CallRecord /\ Kept(l, r) /\ l.medium = r.medium /\ l.toc = r.toc
      /\ l.video = r.video /\ (st = "OK" /\ ~r.gone => ~l.gone)
  BY <1>1, LookedUpIs
<1>4. IF hit THEN Return(t, l, "BD_VIDEO") ELSE Goto(t, l, "audio")
  BY <1>2
<1> HIDE DEF l
<1>5. Undisturbing(r) =>
         /\ c \in Contents \ {None} /\ st = "OK" /\ (hit <=> "bdmv" \in c.zones)
         /\ AtUdf(r, c, machine) /\ ~r.gone /\ ~r.video /\ "video" \notin c.zones
  BY <1>1, <1>2, LookupFinds DEF Undisturbing, Right
<1>6. CASE hit
  <2>1. q.pc = "done" /\ q.kind = "BD_VIDEO" /\ Kept(q, l)
    BY <1>3, <1>4, <1>6, ReturnFields
  <2>2. Undisturbing(r) => KindOf(c) = "BD_VIDEO"
    <3> SUFFICES ASSUME Undisturbing(r) PROVE KindOf(c) = "BD_VIDEO"
      OBVIOUS
    <3>1. c.zones = {"bdmv"} /\ c.iso \notin {"VCD", "SVCD"}
      BY <1>5, <1>6, DiscIs
    <3>2. ~(c.profile = "cd" /\ c.toc = "audio")
      BY <1>5 DEF AtUdf, Named
    <3> QED  BY <3>1, <3>2 DEF KindOf
  <2> QED  BY <1>3, <2>1, <2>2 DEF Progresses, Right, Kept, Early
<1>7. CASE ~hit
  <2>1. q.pc = "audio" /\ Same(q, l)
    BY <1>3, <1>4, <1>7, GotoFields
  <2>2. Undisturbing(r) => Right(q, c, machine)
    BY <1>3, <1>5, <1>7, <2>1 DEF Right, AtUdf, Same
  <2> QED  BY <1>3, <2>1, <2>2 DEF Progresses, Same, Kept, Early
<1> QED  BY <1>6, <1>7

LEMMA LookupAudioProgresses ==
  ASSUME UnitInv, CallInv, NEW t \in Threads, LookupAudio(t)
  PROVE  Progresses(t)
<1> DEFINE r == call[t]
           q == call'[t]
           c == drive.content
<1>1. r.pc = "audio" /\ r \in CallRecord /\ UnitTypeOK
  BY CallTyped DEF LookupAudio, At, UnitInv
<1>2. PICK hit \in BOOLEAN, st \in Statuses :
         /\ Lookup(t, "audio", hit, st)
         /\ LET l == LookedUp(r, hit, st)
            IN  IF hit THEN Return(t, l, IF l.video THEN "DVD_UNIVERSAL" ELSE "DVD_AUDIO")
                ELSE IF l.video THEN Return(t, l, "DVD_VIDEO")
                ELSE AfterUdf(t, l)
  BY DEF LookupAudio
<1> DEFINE l == LookedUp(r, hit, st)
<1>3. /\ l \in CallRecord /\ Kept(l, r) /\ l.medium = r.medium /\ l.toc = r.toc
      /\ l.video = r.video
  BY <1>1, LookedUpIs
<1>4. IF hit THEN Return(t, l, IF l.video THEN "DVD_UNIVERSAL" ELSE "DVD_AUDIO")
      ELSE IF l.video THEN Return(t, l, "DVD_VIDEO") ELSE AfterUdf(t, l)
  BY <1>2
<1> HIDE DEF l
<1>5. Undisturbing(r) =>
         /\ c \in Contents \ {None} /\ (hit <=> "audio" \in c.zones)
         /\ (l.video <=> "video" \in c.zones) /\ "bdmv" \notin c.zones
         /\ AtUdf(l, c, machine)
  <2> SUFFICES ASSUME Undisturbing(r)
               PROVE  /\ c \in Contents \ {None} /\ (hit <=> "audio" \in c.zones)
                      /\ (l.video <=> "video" \in c.zones) /\ "bdmv" \notin c.zones
                      /\ AtUdf(l, c, machine)
    OBVIOUS
  <2>1. c \in Contents \ {None} /\ (hit <=> "audio" \in c.zones)
    BY <1>1, <1>2, LookupFinds
  <2>2. Right(r, c, machine)
    BY DEF Undisturbing
  <2> QED  BY <1>1, <1>3, <2>1, <2>2 DEF Right, AtUdf
<1>6. CASE hit \/ l.video
  <2> DEFINE kind == IF ~hit THEN "DVD_VIDEO" ELSE IF l.video THEN "DVD_UNIVERSAL" ELSE "DVD_AUDIO"
  <2>1. Return(t, l, kind)
    BY <1>4, <1>6
  <2>2. q.pc = "done" /\ q.kind = kind /\ Kept(q, l)
    BY <1>3, <2>1, ReturnFields
  <2>3. Undisturbing(r) => KindOf(c) = kind
    <3> SUFFICES ASSUME Undisturbing(r) PROVE KindOf(c) = kind
      OBVIOUS
    <3>1. c.zones # {} /\ c.iso \notin {"VCD", "SVCD"} /\ c.zones \subseteq {"video", "audio", "bdmv"}
      BY <1>5, <1>6, DiscIs
    <3>2. ~(c.profile = "cd" /\ c.toc = "audio")
      BY <1>5 DEF AtUdf, Named
    <3>3. CASE hit /\ l.video
      <4>1. c.zones = {"video", "audio"}
        BY <1>5, <3>1, <3>3
      <4> QED  BY <3>1, <3>2, <3>3, <4>1 DEF KindOf
    <3>4. CASE hit /\ ~l.video
      <4>1. c.zones = {"audio"}
        BY <1>5, <3>1, <3>4
      <4> QED  BY <3>1, <3>2, <3>4, <4>1 DEF KindOf
    <3>5. CASE ~hit
      <4>1. c.zones = {"video"}
        BY <1>5, <1>6, <3>1, <3>5
      <4> QED  BY <3>1, <3>2, <3>5, <4>1 DEF KindOf
    <3> QED  BY <3>3, <3>4, <3>5
  <2> QED  BY <1>3, <2>2, <2>3 DEF Progresses, Right, Kept, Early
<1>7. CASE ~hit /\ ~l.video
  <2>1. AfterUdf(t, l)
    BY <1>4, <1>7
  <2>2. /\ Kept(q, l) /\ q.pc \in {"pvd", "done"}
        /\ c \in Contents \ {None} /\ AtUdf(l, c, machine) /\ ~l.video /\ c.zones = {}
              => Right(q, c, machine)
    BY <1>1, <1>3, <2>1, AfterUdfIs
  <2>3. Undisturbing(r) => c.zones = {}
    BY <1>5, <1>7, DiscIs
  <2> QED  BY <1>3, <1>5, <1>7, <2>2, <2>3 DEF Progresses, Kept, Early
<1> QED  BY <1>6, <1>7

LEMMA ProbingProgresses ==
  ASSUME UnitInv, CallInv, NEW t \in Threads, Probing(t)
  PROVE  Progresses(t)
BY ReadMediumProgresses, ReadCdTocProgresses, ReadPvdProgresses, WalkIsoProgresses,
   MountUdfProgresses, LookupVideoProgresses, LookupBdmvProgresses, LookupAudioProgresses
   DEF Probing

-----------------------------------------------------------------------------
(* The steps. *)

\* A disc that can be read is one that could be before.
LEMMA ClearBefore ==
  ASSUME QuietFrame, UNCHANGED machine, ClearIn(drive'), HopelessIn(drive, machine) \/ ClearIn(drive)
  PROVE  ClearIn(drive)
BY DEF QuietFrame, ClearIn, HopelessIn

LEMMA OtherIsKept ==
  ASSUME UnitTypeOK, UnitTypeOK', Onward, Quiet => QuietFrame, NEW u, NEW r \in CallRecord,
         KindIn(u, r, events, drive, cancelled, machine, not_ready, wait),
         Its(u, wait') <=> Its(u, wait), Its(u, wait) => UNCHANGED wait
  PROVE  KindIn(u, r, events', drive', cancelled', machine', not_ready', wait')
<1>1. r.since <= events /\ r.first <= drive.disc /\ r.since \in Nat /\ r.first \in Nat
  BY DEF KindIn, CallRecord
<1>2. /\ events <= events' /\ drive.disc <= drive'.disc /\ machine' = machine
      /\ events \in Nat /\ events' \in Nat /\ drive.disc \in Nat /\ drive'.disc \in Nat
  BY UnitTyped DEF Onward, UnitTypeOK
<1>3. r.since <= events' /\ r.first <= drive'.disc
  BY <1>1, <1>2
<1>4. Its(u, wait') => r.since <= wait'.since
  BY DEF KindIn
<1>5. r.pc \in Early => ~r.gone /\ ~r.video
  BY DEF KindIn
<1>6. ASSUME FreshIn(r, events', drive', cancelled')
      PROVE  /\ SettleOK(u, r, drive', machine', not_ready', wait')
             /\ Probed(r) /\ ClearIn(drive') /\ TocTrueIn(drive'.content, machine')
                   => Right(r, drive'.content, machine')
  <2>1. FreshIn(r, events, drive, cancelled) /\ Quiet
    BY <1>1, <1>6, FreshBefore
  <2>2. QuietFrame /\ SettleOK(u, r, drive, machine, not_ready, wait)
    BY <2>1 DEF KindIn
  <2>3. SettleOK(u, r, drive', machine', not_ready', wait')
    BY <1>2, <2>1, <2>2, SettleKept
  <2>4. ASSUME Probed(r), ClearIn(drive'), TocTrueIn(drive'.content, machine')
        PROVE  Right(r, drive'.content, machine')
    <3>1. HopelessIn(drive, machine) \/ ClearIn(drive)
      BY <2>2, <2>4 DEF SettleOK
    <3>2. ClearIn(drive)
      BY <1>2, <2>2, <2>4, <3>1, ClearBefore
    <3>3. drive'.content = drive.content
      BY <2>2 DEF QuietFrame
    <3>4. Right(r, drive.content, machine)
      BY <1>2, <2>1, <2>4, <3>2, <3>3 DEF KindIn
    <3> QED  BY <1>2, <3>3, <3>4
  <2> QED  BY <2>3, <2>4
<1> QED  BY <1>3, <1>4, <1>5, <1>6 DEF KindIn

LEMMA WaitKeepsSince ==
  ASSUME UnitInv, SpinUpStep \/ Poll
  PROVE  wait' = None \/ wait'.since = wait.since
<1> USE DEF UnitInv
<1>1. CASE SpinUpStep
  <2>1. PICK sense \in SpinUpSenses, took \in {0, TimeOut} : wait' = AfterRung(sense, took)
    BY <1>1 DEF SpinUpStep
  <2>2. wait # None /\ wait.pc # "poll" /\ took \in Nat
    BY <1>1, CeilingsOrdered DEF SpinUpStep
  <2> QED  BY <2>1, <2>2, RungIs
<1>2. CASE Poll
  <2>1. PICK sense \in PollSenses, took \in {0, TimeOut} :
           /\ took \in CommandTime("poll", sense)
           /\ NextPoll(sense, wait.elapsed + took)
    BY <1>2 DEF Poll, PollSenses, NextPoll
  <2>2. took \in Nat /\ (sense # "none" => took = 0)
    BY <2>1, CeilingsOrdered DEF CommandTime
  <2>3. wait # None /\ wait.pc = "poll"
    BY <1>2 DEF Poll
  <2> QED  BY <2>1, <2>2, <2>3, NextPollIs DEF GoesOn
<1> QED  BY <1>1, <1>2

LEMMA WaiterIsKept ==
  ASSUME UnitInv, UnitTypeOK', SpinUpStep \/ Poll, NEW u \in Threads, NEW r \in CallRecord,
         wait # None, wait.by = u, r.pc = "waiting",
         KindIn(u, r, events, drive, cancelled, machine, not_ready, wait)
  PROVE  KindIn(u, r, events', drive', cancelled', machine', not_ready', wait')
<1>0. UnitTypeOK
  BY DEF UnitInv
<1>1. Onward /\ (Quiet => QuietFrame)
  BY WaitOnward
<1>2. r.since <= events /\ r.first <= drive.disc /\ r.since \in Nat /\ r.first \in Nat
  BY DEF KindIn, CallRecord
<1>3. /\ events <= events' /\ drive.disc <= drive'.disc /\ machine' = machine
      /\ events \in Nat /\ events' \in Nat /\ drive.disc \in Nat /\ drive'.disc \in Nat
  BY <1>0, <1>1, UnitTyped DEF Onward, UnitTypeOK
<1>4. r.since <= events' /\ r.first <= drive'.disc
  BY <1>2, <1>3
<1>5. wait' = None \/ (wait'.by = u /\ wait'.since = wait.since)
  BY StepOwner, WaitKeepsSince
<1>6. Its(u, wait)
  BY DEF Its
<1>7. Its(u, wait') => r.since <= wait'.since
  BY <1>5, <1>6 DEF KindIn, Its
<1>8. r.pc \in Early => ~r.gone /\ ~r.video
  BY DEF KindIn
<1>9. ~Probed(r)
  BY DEF Probed, Before
<1>10. ASSUME FreshIn(r, events', drive', cancelled')
       PROVE  SettleOK(u, r, drive', machine', not_ready', wait')
  <2>1. FreshIn(r, events, drive, cancelled) /\ Quiet
    BY <1>0, <1>1, <1>2, <1>10, FreshBefore
  <2>2. QuietFrame /\ SettleOK(u, r, drive, machine, not_ready, wait)
    BY <1>1, <2>1 DEF KindIn
  <2>3. Untried(wait, drive)
    BY <1>6, <2>2 DEF SettleOK
  <2>4. wait.since = events
    <3>1. r.since = events /\ r.since <= wait.since
      BY <1>6, <2>1 DEF FreshIn, KindIn
    <3>2. wait.since <= events /\ wait.since \in Nat
      BY <1>0, WaitTyped DEF UnitInv, WaitInv
    <3> QED  BY <1>3, <3>1, <3>2
  <2>5. CASE SpinUpStep
    <3>1. wait' # None /\ Untried(wait', drive')
      BY <2>1, <2>2, <2>3, <2>4, <2>5, RungIsUntried
    <3>2. Its(u, wait')
      BY <1>5, <3>1 DEF Its
    <3> QED  BY <1>9, <3>1, <3>2 DEF SettleOK
  <2>6. CASE Poll
    <3>1. IF wait' = None THEN SettledIn(drive', machine, not_ready') ELSE Untried(wait', drive')
      BY <2>1, <2>2, <2>3, <2>4, <2>6, PollSettles
    <3>2. Its(u, wait') <=> wait' # None
      BY <1>5 DEF Its
    <3> QED  BY <1>3, <1>9, <3>1, <3>2 DEF SettleOK
  <2> QED  BY <2>5, <2>6
<1> QED  BY <1>4, <1>7, <1>8, <1>9, <1>10 DEF KindIn

\* What a step of laser_token_settle() leads to.
LEMMA SettlingSettles ==
  ASSUME UnitInv, CallInv, NEW t \in Threads, Settling(t), device_gone => ~drive.plugged
  PROVE  /\ Kept(call'[t], call[t])
         /\ call'[t].pc \in Early => call'[t].gone = call[t].gone /\ call'[t].video = call[t].video
         /\ call[t].pc \in Early
         /\ call'[t].pc \in Early \/ ~Probed(call'[t])
         /\ Quiet /\ SettleOK(t, call[t], drive, machine, not_ready, wait)
               => SettleOK(t, call'[t], drive', machine', not_ready', wait')
<1> DEFINE r == call[t]
           q == call'[t]
           Settled == Quiet /\ SettleOK(t, r, drive, machine, not_ready, wait)
                         => SettleOK(t, q, drive', machine', not_ready', wait')
           Result == /\ Kept(q, r) /\ (q.pc \in Early => q.gone = r.gone /\ q.video = r.video)
                     /\ q.pc \in Early \/ ~Probed(q)
<1>1. r # None /\ r.pc \in Before
  BY DEF Settling, CheckReady, SettleOrNot, SettleAsks, SettleWaits, SettleReturns,
         RecheckReady, At, Before
<1>2. r \in CallRecord /\ UnitTypeOK /\ r.pc \in Early
  BY <1>1, CallTyped DEF UnitInv, Before, Early
<1>3. ASSUME NEW pc \in Early, Goto(t, r, pc)
      PROVE  Result /\ q.pc = pc
  <2>1. q.pc = pc /\ Same(q, r)
    BY <1>2, <1>3, GotoFields
  <2> QED  BY <1>3, <2>1 DEF Same
<1>4. ASSUME Return(t, [r EXCEPT !.asked = FALSE], "UNKNOWN")
      PROVE  Result /\ Settled
  <2> DEFINE s == [r EXCEPT !.asked = FALSE]
  <2>1. s \in CallRecord /\ Kept(s, r) /\ s.asked = FALSE
    BY <1>2 DEF CallRecord, Kept
  <2>2. Return(t, s, "UNKNOWN")
    BY <1>4
  <2> HIDE DEF s
  <2>3. q.pc = "done" /\ q.asked = FALSE /\ Kept(q, r)
    BY <2>1, <2>2, ReturnFields DEF Kept
  <2>4. ~Probed(q) /\ q.pc \notin Early
    BY <2>3 DEF Probed, Early
  <2> QED  BY <2>3, <2>4 DEF SettleOK
<1>5. CASE CheckReady(t)
  <2>1. CASE Goto(t, r, "settle")
    <3>1. Result /\ q.pc = "settle"
      BY <1>3, <2>1 DEF Early
    <3> QED  BY <1>2, <3>1 DEF SettleOK, Probed, Before
  <2> QED  BY <1>2, <1>4, <1>5, <2>1 DEF CheckReady
<1>6. CASE SettleOrNot(t)
  <2>1. Goto(t, r, IF device_gone \/ cancelled THEN "recheck" ELSE "ask")
    BY <1>6 DEF SettleOrNot
  <2>2. Result /\ q.pc = (IF device_gone \/ cancelled THEN "recheck" ELSE "ask")
    BY <1>3, <2>1 DEF Early
  <2>3. Quiet => q.pc = "ask"
    BY <2>2 DEF Quiet
  <2> QED  BY <1>2, <2>2, <2>3 DEF SettleOK, Probed, Before
<1>7. CASE SettleAsks(t)
  <2>1. PICK sense \in PollSenses :
           /\ TestUnitReady(t, sense)
           /\ Goto(t, r, IF sense \in {"pass", "gone"} THEN "recheck" ELSE "wait")
    BY <1>7 DEF SettleAsks, PollSenses
  <2>2. Result /\ q.pc = (IF sense \in {"pass", "gone"} THEN "recheck" ELSE "wait")
    BY <1>3, <2>1 DEF Early
  <2>3. Quiet => drive.plugged /\ events' # events + 1
    BY <1>2, UnitTyped DEF Quiet
  <2>4. Quiet /\ sense \in {"pass", "gone"} => ClearIn(drive')
    BY <1>2, <2>1, <2>3, UnitTyped DEF TestUnitReady, Reported, ClearIn, Mechanisms
  <2>5. ASSUME Quiet, sense \notin {"pass", "gone"}
        PROVE  drive'.attention # Attentions
    <3>1. CASE Reported(t, sense)
      <4>1. PICK a \in drive.attention : drive'.attention = drive.attention \ {a}
        BY <1>2, <3>1, ReportedIs
      <4> QED  BY <1>2, <4>1, UnitTyped
    <3>2. CASE drive.attention = {} /\ UNCHANGED drive
      BY <3>2 DEF Attentions
    <3> QED  BY <2>1, <2>3, <2>5, <3>1, <3>2 DEF TestUnitReady
  <2>6. CASE sense \in {"pass", "gone"}
    BY <1>2, <2>2, <2>4, <2>6 DEF SettleOK, SettledIn, Probed, Before
  <2>7. CASE sense \notin {"pass", "gone"}
    BY <1>2, <2>2, <2>5, <2>7 DEF SettleOK, Probed, Before
  <2> QED  BY <2>6, <2>7
<1>8. CASE SettleWaits(t)
  <2>1. Result /\ q.pc = "waiting" /\ r.pc = "wait"
    BY <1>3, <1>8 DEF SettleWaits, Early, At
  <2>2. /\ wait'.by = t /\ wait'.pc = "start" /\ wait' # None /\ UNCHANGED drive
    <3>1. PICK queued \in {0, SpinUpMax} : wait' = NewWait(t, queued)
      BY <1>8, RegistrarIsNoConsumer DEF SettleWaits, BeginWait
    <3>2. wait' \in WaitRecord
      BY <1>2, <3>1, CeilingsOrdered, UnitTyped DEF NewWait, WaitRecord
    <3> QED  BY <1>8, <3>1, <3>2, NoneIsNoWait DEF NewWait, SettleWaits, BeginWait
  <2>3. Its(t, wait')
    BY <2>2 DEF Its
  <2> QED  BY <1>2, <2>1, <2>2, <2>3 DEF SettleOK, Probed, Before, Untried
<1>9. CASE SettleReturns(t)
  <2>1. Result /\ q.pc = "recheck" /\ r.pc = "waiting" /\ UNCHANGED unit /\ ~Waiting(t)
    BY <1>3, <1>9 DEF SettleReturns, Early, At
  <2>2. ~Its(t, wait)
    BY <2>1 DEF Its, Waiting
  <2> QED  BY <1>2, <2>1, <2>2 DEF SettleOK, Probed, Before, unit
<1>10. CASE RecheckReady(t)
  <2>1. r.pc = "recheck" /\ UNCHANGED unit
    BY <1>10 DEF RecheckReady, At
  <2>2. CASE not_ready
    BY <1>2, <1>4, <1>10, <2>2 DEF RecheckReady
  <2>3. CASE ~not_ready
    <3>1. Result /\ q.pc = "config"
      BY <1>3, <1>10, <2>3 DEF RecheckReady, Early
    <3> QED  BY <1>2, <2>1, <2>3, <3>1 DEF SettleOK, SettledIn, KeptOff, unit
  <2> QED  BY <2>2, <2>3
<1> QED  BY <1>5, <1>6, <1>7, <1>8, <1>9, <1>10 DEF Settling

LEMMA MoverIsKept ==
  ASSUME UnitInv, UnitInv', CallInv, CallInv', NEW t \in Threads, Consume(t), IdentifyStep(t),
         call'[t] # None, device_gone => ~drive.plugged, OwnerInv,
         call[t] # None, KindIn(t, call[t], events, drive, cancelled, machine, not_ready, wait),
         setup.pc = "published"
  PROVE  KindIn(t, call'[t], events', drive', cancelled', machine', not_ready', wait')
<1> DEFINE r == call[t]
           q == call'[t]
<1>0. UnitTypeOK /\ UnitTypeOK' /\ r \in CallRecord
  BY CallTyped DEF UnitInv
<1>1. q \in CallRecord
  BY DEF CallInv, CallTypeOK, CallRecord, Pcs
<1>2. Onward /\ (Quiet => QuietFrame)
  BY ConsumeOnward
<1>3. Kept(q, r)
  BY SettlingSettles, ProbingProgresses DEF IdentifyStep, Progresses
<1>4. r.since <= events /\ r.first <= drive.disc /\ r.since \in Nat /\ r.first \in Nat
  BY <1>0 DEF KindIn, CallRecord
<1>5. /\ events <= events' /\ drive.disc <= drive'.disc /\ machine' = machine
      /\ events \in Nat /\ events' \in Nat /\ drive.disc \in Nat /\ drive'.disc \in Nat
  BY <1>0, <1>2, UnitTyped DEF Onward, UnitTypeOK
<1>6. q.since <= events' /\ q.first <= drive'.disc
  BY <1>3, <1>4, <1>5 DEF Kept
<1>7. q.since <= events /\ q.first <= drive.disc
  BY <1>3, <1>4 DEF Kept
<1>8. Its(t, wait') => q.since <= wait'.since
  <2>1. CASE SettleWaits(t)
    <3>1. PICK queued : wait' = NewWait(t, queued)
      BY <2>1 DEF SettleWaits, BeginWait
    <3> QED  BY <1>7, <3>1 DEF NewWait
  <2>2. CASE ~SettleWaits(t)
    <3>1. UNCHANGED wait
      BY <2>2 DEF IdentifyStep, Settling, CheckReady, SettleOrNot, SettleAsks, SettleReturns,
             RecheckReady, Probing, ReadMedium, ReadCdToc, ReadPvd, WalkIso, MountUdf,
             LookupVideo, LookupBdmv, LookupAudio, Lookup, Cdb, unit
    <3> QED  BY <1>3, <3>1 DEF KindIn, Kept
  <2> QED  BY <2>1, <2>2
<1>9. q.pc \in Early => ~q.gone /\ ~q.video
  <2>1. CASE Settling(t)
    BY <2>1, SettlingSettles DEF KindIn
  <2>2. CASE Probing(t)
    BY <2>2, ProbingProgresses DEF Progresses
  <2> QED  BY <2>1, <2>2 DEF IdentifyStep
<1>10. ASSUME FreshIn(q, events', drive', cancelled')
       PROVE  /\ SettleOK(t, q, drive', machine', not_ready', wait')
              /\ Probed(q) /\ ClearIn(drive') /\ TocTrueIn(drive'.content, machine')
                    => Right(q, drive'.content, machine')
  <2>1. FreshIn(q, events, drive, cancelled) /\ Quiet
    BY <1>0, <1>1, <1>2, <1>7, <1>10, FreshBefore
  <2>2. FreshIn(r, events, drive, cancelled)
    BY <1>3, <2>1 DEF FreshIn, Kept
  <2>3. QuietFrame /\ SettleOK(t, r, drive, machine, not_ready, wait)
    BY <1>2, <2>1, <2>2 DEF KindIn
  <2>4. CASE Settling(t)
    <3>1. SettleOK(t, q, drive', machine', not_ready', wait')
      BY <2>1, <2>3, <2>4, SettlingSettles
    <3>2. Probed(q) => q.pc = "config"
      BY <2>4, SettlingSettles DEF Probed, Early, Before
    <3> QED  BY <3>1, <3>2 DEF Right
  <2>5. CASE Probing(t)
    <3>1. Probed(r)
      BY <2>5 DEF Probing, ReadMedium, ReadCdToc, ReadPvd, WalkIso, MountUdf, LookupVideo,
             LookupBdmv, LookupAudio, At, Probed, Before
    <3>2. HopelessIn(drive, machine) \/ ClearIn(drive)
      BY <2>3, <3>1 DEF SettleOK
    <3>3. q.pc \notin Early
      BY <2>5, ProbingProgresses DEF Progresses
    <3>4. SettleOK(t, q, drive', machine', not_ready', wait')
      BY <1>5, <2>3, <3>2, <3>3 DEF QuietFrame, SettleOK, Early
    <3>5. ASSUME ClearIn(drive'), TocTrueIn(drive'.content, machine')
          PROVE  Right(q, drive'.content, machine')
      <4>1. ClearIn(drive)
        BY <1>5, <2>3, <3>2, <3>5, ClearBefore
      <4>2. drive'.content = drive.content
        BY <2>3 DEF QuietFrame
      <4>3. TocTrueIn(drive.content, machine)
        BY <1>5, <3>5, <4>2
      <4>4. Right(r, drive.content, machine)
        BY <2>2, <3>1, <4>1, <4>3 DEF KindIn
      <4>5. Undisturbing(r)
        BY <2>1, <4>1, <4>3, <4>4 DEF Undisturbing, KindIn
      <4>6. Right(q, drive.content, machine)
        BY <2>5, <4>5, ProbingProgresses DEF Progresses
      <4> QED  BY <1>5, <4>2, <4>6
    <3> QED  BY <3>4, <3>5
  <2> QED  BY <2>4, <2>5 DEF IdentifyStep
<1> QED  BY <1>6, <1>8, <1>9, <1>10 DEF KindIn

LEMMA KindInit ==
  ASSUME Init
  PROVE  KindInv
BY DEF Init, InitCalls, KindInv

LEMMA KindHolds ==
  ASSUME IInv, IInv', EvidenceInv, KindInv, [Next]_vars
  PROVE  KindInv'
<1>1. UnitInv /\ UnitInv' /\ CallInv /\ CallInv' /\ UnitTypeOK /\ UnitTypeOK' /\ OwnerInv
  BY DEF IInv, LowerInv, UnitInv, EvidenceInv
<1>2. ASSUME Onward, Quiet => QuietFrame, NEW u \in Threads, call'[u] = call[u], call'[u] # None,
             Its(u, wait') <=> Its(u, wait), Its(u, wait) => UNCHANGED wait
      PROVE  KindIn(u, call'[u], events', drive', cancelled', machine', not_ready', wait')
  <2>1. call[u] \in CallRecord
    BY <1>1, <1>2, CallTyped
  <2>2. KindIn(u, call[u], events, drive, cancelled, machine, not_ready, wait)
    BY <1>2 DEF KindInv
  <2>3. KindIn(u, call[u], events', drive', cancelled', machine', not_ready', wait')
    BY <1>1, <1>2, <2>1, <2>2, OtherIsKept
  <2> QED  BY <1>2, <2>3
<1>3. CASE Register
  <2>1. UNCHANGED call /\ \A u \in Threads : call[u] = None
    BY <1>3 DEF Register, SetupStep, ChooseInterface, Inquiry, AllowMediumRemoval, SettleAtSetup,
           Publish, EvidenceInv, NoCallYet
  <2>2. UNCHANGED device_gone
    BY <1>3 DEF Register, SetupStep, ChooseInterface, Inquiry, AllowMediumRemoval, SettleAtSetup,
           Publish, BeginWait, unit
  <2>3. drive'.plugged = drive.plugged
    <3>1. CASE UNCHANGED drive
      BY <3>1
    <3>2. CASE \E a \in drive.attention : drive' = [drive EXCEPT !.attention = @ \ {a}]
      <4>1. PICK a \in drive.attention : drive' = [drive EXCEPT !.attention = @ \ {a}]
        BY <3>2
      <4> QED  BY <1>1, <4>1, UnitTyped DEF DriveRecord
    <3> QED  BY <1>3, <3>1, <3>2 DEF Register, SetupStep, ChooseInterface, Inquiry,
                AllowMediumRemoval, SettleAtSetup, Publish, BeginWait, unit
  <2> QED  BY <2>1, <2>2, <2>3 DEF KindInv
<1>4. CASE Wait
  <2>1. (SpinUpStep \/ Poll) /\ UNCHANGED <<setup, call>> /\ wait # None
    BY <1>4 DEF Wait, WaitStep, SpinUpStep, Poll
  <2>2. Onward /\ (Quiet => QuietFrame)
    BY <1>1, <2>1, WaitOnward
  <2>3. wait' = None \/ wait'.by = wait.by
    BY <1>1, <2>1, StepOwner
  <2>4. ASSUME NEW u \in Threads, call'[u] # None
        PROVE  KindIn(u, call'[u], events', drive', cancelled', machine', not_ready', wait')
    <3>1. call'[u] = call[u] /\ call[u] \in CallRecord
      BY <1>1, <2>1, <2>4, CallTyped
    <3>2. CASE wait.by = u
      <4>1. call[u].pc = "waiting"
        BY <2>1, <2>4, <3>2 DEF EvidenceInv, OwnerInv, NoCallYet, At
      <4>2. KindIn(u, call[u], events, drive, cancelled, machine, not_ready, wait)
        BY <2>4, <3>1 DEF KindInv
      <4>3. KindIn(u, call[u], events', drive', cancelled', machine', not_ready', wait')
        BY <1>1, <2>1, <3>1, <3>2, <4>1, <4>2, WaiterIsKept
      <4> QED  BY <3>1, <4>3
    <3>3. CASE wait.by # u
      <4>1. ~Its(u, wait) /\ ~Its(u, wait')
        BY <2>3, <3>3 DEF Its
      <4> QED  BY <1>2, <2>2, <2>4, <3>1, <4>1
    <3> QED  BY <3>2, <3>3
  <2>5. device_gone' => ~drive'.plugged
    BY <2>2 DEF Onward, KindInv
  <2> QED  BY <2>4, <2>5 DEF KindInv
<1>5. ASSUME NEW t \in Threads, Consume(t)
      PROVE  KindInv'
  <2>1. setup.pc = "published"
    BY <1>5 DEF Consume, Published
  <2>2. Onward /\ (Quiet => QuietFrame)
    BY <1>1, <1>5, ConsumeOnward
  <2>3. device_gone' => ~drive'.plugged
    BY <2>2 DEF Onward, KindInv
  <2>4. CASE Identify(t)
    <3>1. /\ call' = [call EXCEPT ![t] = NewCall] /\ UNCHANGED unit
      BY <2>4 DEF Identify
    <3>2. call'[t] = NewCall /\ \A u \in Threads : u # t => call'[u] = call[u]
      BY <1>1, <3>1 DEF CallInv
    <3>3. UNCHANGED <<wait, drive, events, cancelled, machine, not_ready>>
      BY <3>1 DEF unit
    <3>4. ~Its(t, wait)
      BY <1>1, <2>1, <2>4 DEF Its, OwnerInv, At, Identify
    <3>5. KindIn(t, NewCall, events, drive, cancelled, machine, not_ready, wait)
      <4>1. events <= events /\ drive.disc <= drive.disc
        BY <1>1, UnitTyped
      <4> QED  BY <3>4, <4>1 DEF KindIn, NewCall, SettleOK, Probed, Before
    <3>6. KindIn(t, call'[t], events', drive', cancelled', machine', not_ready', wait')
      BY <3>2, <3>3, <3>5
    <3>7. ASSUME NEW u \in Threads, u # t, call'[u] # None
          PROVE  KindIn(u, call'[u], events', drive', cancelled', machine', not_ready', wait')
      BY <1>2, <2>2, <3>2, <3>3, <3>7
    <3> QED  BY <2>3, <3>6, <3>7 DEF KindInv
  <2>5. CASE IdentifyStep(t)
    <3>1. \A u \in Threads : u # t => call'[u] = call[u]
      BY <1>1, <2>5, StepMoves, MovesAlone
    <3>2. call[t] # None
      BY <2>5 DEF IdentifyStep, Settling, CheckReady, SettleOrNot, SettleAsks, SettleWaits,
             SettleReturns, RecheckReady, Probing, ReadMedium, ReadCdToc, ReadPvd, WalkIso,
             MountUdf, LookupVideo, LookupBdmv, LookupAudio, At
    <3>3. KindIn(t, call[t], events, drive, cancelled, machine, not_ready, wait)
      BY <3>2 DEF KindInv
    <3>4. call'[t] # None =>
             KindIn(t, call'[t], events', drive', cancelled', machine', not_ready', wait')
      BY <1>1, <1>5, <2>1, <2>5, <3>2, <3>3, MoverIsKept DEF KindInv
    <3>5. \/ UNCHANGED wait
          \/ wait = None /\ wait'.by = t
      <4>1. CASE SettleWaits(t)
        <5>1. wait = None /\ \E queued : wait' = NewWait(t, queued)
          BY <4>1 DEF SettleWaits, BeginWait, IoFree
        <5> QED  BY <5>1 DEF NewWait
      <4>2. CASE ~SettleWaits(t)
        BY <2>5, <4>2 DEF IdentifyStep, Settling, CheckReady, SettleOrNot, SettleAsks,
               SettleReturns, RecheckReady, Probing, ReadMedium, ReadCdToc, ReadPvd, WalkIso,
               MountUdf, LookupVideo, LookupBdmv, LookupAudio, Lookup, Cdb, unit
      <4> QED  BY <4>1, <4>2
    <3>6. ASSUME NEW u \in Threads, u # t, call'[u] # None
          PROVE  KindIn(u, call'[u], events', drive', cancelled', machine', not_ready', wait')
      <4>1. (Its(u, wait') <=> Its(u, wait)) /\ (Its(u, wait) => UNCHANGED wait)
        BY <3>5, <3>6 DEF Its
      <4> QED  BY <1>2, <2>2, <3>1, <3>6, <4>1
    <3> QED  BY <2>3, <3>4, <3>6 DEF KindInv
  <2> QED  BY <1>5, <2>4, <2>5 DEF Consume
<1>6. CASE Around
  <2>1. UNCHANGED <<setup, call>> /\ (Environment \/ LastRelease)
    BY <1>6 DEF Around
  <2>2. UNCHANGED wait
    BY <2>1 DEF Environment, LastRelease, Opens, Parks, Resets, Unplugs, Closes, Loads, Event
  <2>3. Onward /\ (Quiet => QuietFrame)
    BY <1>1, <2>1, AroundOnward
  <2>4. device_gone' => ~drive'.plugged
    BY <2>3 DEF Onward, KindInv
  <2> QED  BY <1>2, <2>1, <2>2, <2>3, <2>4 DEF KindInv
<1>7. CASE UNCHANGED vars
  <2>1. /\ UNCHANGED <<call, wait, drive, events, cancelled, machine, not_ready, device_gone>>
    BY <1>7 DEF vars, unit
  <2> QED  BY <2>1 DEF KindInv
<1> QED  BY <1>3, <1>4, <1>5, <1>6, <1>7 DEF Next

\* laser_disc_identify() names the disc in the drive, whatever the disc, the
\* firmware and the state the drive is found in, if nothing happens to it
\* while it is asked; and in any case answers of one disc.
THEOREM KindsAreRight == Spec => []KindIsOfTheDisc
<1>1. Init => IInv /\ EvidenceInv /\ KindInv
  BY InitHolds, EvidenceInit, KindInit
<1>2. (IInv /\ EvidenceInv /\ KindInv) /\ [Next]_vars => (IInv /\ EvidenceInv /\ KindInv)'
  BY NextHolds, EvidenceHolds, KindHolds
<1>3. KindInv /\ RestsOnOneDisc => KindIsOfTheDisc
  <2> SUFFICES ASSUME KindInv, NEW t \in Threads, At(t, "done"), Undisturbed(call[t]),
                      call[t].asked, TocIsTrue
               PROVE  call[t].kind = KindOf(drive.content)
    BY DEF KindIsOfTheDisc
  <2>1. KindIn(t, call[t], events, drive, cancelled, machine, not_ready, wait)
    BY DEF KindInv, At
  <2>2. FreshIn(call[t], events, drive, cancelled) /\ drive.mech = "ready"
    BY DEF Undisturbed, FreshIn
  <2>3. Probed(call[t]) /\ call[t].pc = "done"
    BY DEF At, Probed, Before
  <2>4. SettleOK(t, call[t], drive, machine, not_ready, wait)
    BY <2>1, <2>2 DEF KindIn
  <2>5. ClearIn(drive)
    BY <2>2, <2>3, <2>4 DEF SettleOK, HopelessIn
  <2>6. TocTrueIn(drive.content, machine)
    BY DEF TocIsTrue, TocTrueIn
  <2>7. Right(call[t], drive.content, machine)
    BY <2>1, <2>2, <2>3, <2>5, <2>6 DEF KindIn
  <2> QED  BY <2>3, <2>7 DEF Right
<1> QED  BY <1>1, <1>2, <1>3, AnswersRestOnOneDisc, PTL DEF Spec

-----------------------------------------------------------------------------
(* Every step of a wait, and every step of a call, is one step less to go. *)

\* The wait moves on: down the ladder, or polling under the same ceilings with
\* its clock, or its count of attentions, further on.
Rungs == [start |-> 0, again |-> 1, plain |-> 2, loej |-> 2, poll |-> 3]

MovesOn ==
    /\ wait'.by = wait.by
    /\ \/ Rungs[wait.pc] < Rungs[wait'.pc]
       \/ /\ wait.pc = "poll" /\ wait'.pc = "poll" /\ wait'.asked = wait.asked
          /\ wait.becoming => wait'.becoming
          /\ \/ wait.elapsed < wait'.elapsed
             \/ wait.elapsed = wait'.elapsed /\ wait.uas < wait'.uas

\* laser_wait_until_ready() never stands still and never starts over: every
\* command it sends leads out of it, down the ladder, or on along a clock
\* that WaitIsBounded bounds.
WaitGoesOn == [][wait # None => wait' \in {wait, None} \/ MovesOn]_vars

LEMMA NotReadyYetMovesOn ==
  ASSUME UnitTypeOK, wait # None, wait.pc = "poll", NEW now \in Nat, wait.elapsed <= now,
         NEW b \in BOOLEAN, NEW u \in 0 .. MaxUnitAttentions,
         NotReadyYet(now, [wait EXCEPT !.becoming = b, !.uas = u])
  PROVE  wait' = None \/ (b \in {TRUE, wait.becoming} => MovesOn)
<1> DEFINE later == now + Sleep
<1>1. wait \in WaitRecord /\ later \in Nat /\ wait.elapsed < later
  BY WaitTyped DEF Sleep
<1>2. wait' = None \/ wait' = [[wait EXCEPT !.becoming = b, !.uas = u] EXCEPT !.elapsed = later]
  BY DEF NotReadyYet, WaitEnds
<1> HIDE DEF later
<1>3. CASE wait' = [[wait EXCEPT !.becoming = b, !.uas = u] EXCEPT !.elapsed = later]
  <2>1. /\ wait'.by = wait.by /\ wait'.pc = wait.pc /\ wait'.asked = wait.asked
        /\ wait'.becoming = b /\ wait'.elapsed = later
    BY <1>1, <1>3 DEF WaitRecord
  <2>2. b \in {TRUE, wait.becoming} => (wait.becoming => wait'.becoming)
    BY <2>1
  <2> QED  BY <1>1, <2>1, <2>2 DEF MovesOn
<1> QED  BY <1>2, <1>3

LEMMA NextPollMovesOn ==
  ASSUME UnitTypeOK, wait # None, wait.pc = "poll",
         NEW sense \in PollSenses, NEW took \in Nat, sense # "none" => took = 0,
         NextPoll(sense, wait.elapsed + took)
  PROVE  wait' = None \/ MovesOn
<1> DEFINE now == wait.elapsed + took
<1>1. /\ wait \in WaitRecord /\ wait.elapsed \in Nat /\ now \in Nat /\ wait.elapsed <= now
      /\ wait.becoming \in BOOLEAN /\ wait.uas \in 0 .. MaxUnitAttentions
  BY WaitTyped DEF WaitRecord
<1>2. NextPoll(sense, now)
  OBVIOUS
<1> HIDE DEF now
<1>3. ASSUME NEW b \in BOOLEAN, NEW u \in 0 .. MaxUnitAttentions,
             NotReadyYet(now, [wait EXCEPT !.becoming = b, !.uas = u])
      PROVE  wait' = None \/ (b \in {TRUE, wait.becoming} => MovesOn)
  BY <1>1, <1>3, NotReadyYetMovesOn
<1>4. CASE sense \in {"pass", "gone", "tray_open"}
  BY <1>2, <1>4 DEF NextPoll, WaitEnds
<1>5. CASE sense = "no_medium"
  <2> DEFINE later == now + Sleep
  <2>1. wait' = None \/ wait' = [wait EXCEPT !.elapsed = later]
    BY <1>2, <1>5 DEF NextPoll, NoMediumYet, WaitEnds, GoRound
  <2>2. later \in Nat /\ wait.elapsed < later
    BY <1>1 DEF Sleep
  <2> HIDE DEF later
  <2>3. CASE wait' = [wait EXCEPT !.elapsed = later]
    <3>1. /\ wait'.by = wait.by /\ wait'.pc = wait.pc /\ wait'.asked = wait.asked
          /\ wait'.becoming = wait.becoming /\ wait'.elapsed = later
      BY <1>1, <2>2, <2>3 DEF WaitRecord
    <3> QED  BY <2>2, <3>1 DEF MovesOn
  <2> QED  BY <2>1, <2>3
<1>6. CASE sense = "attention"
  <2> DEFINE uas == wait.uas + 1
  <2>1. UnitAttention(now, [wait EXCEPT !.uas = uas]) /\ [wait EXCEPT !.uas = uas].uas = uas
    BY <1>1, <1>2, <1>6 DEF NextPoll, WaitRecord
  <2>2. uas \in Nat /\ wait.uas < uas
    BY <1>1, CeilingsOrdered
  <2>3. now = wait.elapsed
    BY <1>1, <1>6 DEF now
  <2> HIDE DEF uas
  <2>4. CASE uas <= MaxUnitAttentions
    <3>1. wait' = [wait EXCEPT !.uas = uas, !.elapsed = wait.elapsed]
      BY <1>1, <2>1, <2>3, <2>4 DEF UnitAttention, WaitRecord
    <3>2. /\ wait'.by = wait.by /\ wait'.pc = wait.pc /\ wait'.asked = wait.asked
          /\ wait'.becoming = wait.becoming /\ wait'.elapsed = wait.elapsed /\ wait'.uas = uas
      BY <1>1, <3>1 DEF WaitRecord
    <3> QED  BY <2>2, <3>2 DEF MovesOn
  <2>5. CASE ~(uas <= MaxUnitAttentions)
    <3>1. NotReadyYet(now, [wait EXCEPT !.becoming = wait.becoming, !.uas = MaxUnitAttentions])
      BY <1>1, <2>1, <2>5 DEF UnitAttention, WaitRecord
    <3>2. MaxUnitAttentions \in 0 .. MaxUnitAttentions
      BY CeilingsOrdered
    <3> QED  BY <1>1, <1>3, <3>1, <3>2
  <2> QED  BY <2>4, <2>5
<1>7. CASE sense = "becoming"
  <2>1. NotReadyYet(now, [wait EXCEPT !.becoming = TRUE, !.uas = wait.uas])
    BY <1>1, <1>2, <1>7 DEF NextPoll, WaitRecord
  <2> QED  BY <1>1, <1>3, <2>1
<1>8. CASE sense = "none"
  <2>1. NotReadyYet(now, [wait EXCEPT !.becoming = wait.becoming, !.uas = wait.uas])
    BY <1>1, <1>2, <1>8 DEF NextPoll, WaitRecord
  <2> QED  BY <1>1, <1>3, <2>1
<1> QED  BY <1>4, <1>5, <1>6, <1>7, <1>8 DEF PollSenses

LEMMA WaitMovesOn ==
  ASSUME UnitInv, SpinUpStep \/ Poll
  PROVE  wait' = None \/ MovesOn
<1> USE DEF UnitInv
<1>1. CASE SpinUpStep
  <2>1. PICK sense \in SpinUpSenses, took \in {0, TimeOut} : wait' = AfterRung(sense, took)
    BY <1>1 DEF SpinUpStep
  <2>2. wait # None /\ wait.pc # "poll" /\ took \in Nat
    BY <1>1, CeilingsOrdered DEF SpinUpStep
  <2>3. wait'.pc = NextShape(wait.pc, sense) /\ wait.pc \in {"start", "again", "plain", "loej"}
    BY <2>1, <2>2, RungIs, WaitTyped
  <2>4. wait'.by = wait.by
    BY <2>1, <2>2, WaitTyped DEF AfterRung, WaitRecord
  <2>5. Rungs[wait.pc] < Rungs[wait'.pc]
    <3>1. CASE wait.pc = "start"
      BY <2>3, <3>1, NextShapeIs DEF Rungs
    <3>2. CASE wait.pc = "again"
      <4>1. wait'.pc \in {"plain", "loej", "poll"}
        BY <2>3, <3>2, NextShapeIs
      <4> QED  BY <3>2, <4>1 DEF Rungs
    <3>3. CASE wait.pc \in {"plain", "loej"}
      <4>1. wait'.pc = "poll"
        BY <2>3, <3>3 DEF NextShape
      <4> QED  BY <3>3, <4>1 DEF Rungs
    <3> QED  BY <2>3, <3>1, <3>2, <3>3
  <2> QED  BY <2>4, <2>5 DEF MovesOn
<1>2. CASE Poll
  <2>1. PICK sense \in PollSenses, took \in {0, TimeOut} :
           /\ took \in CommandTime("poll", sense)
           /\ NextPoll(sense, wait.elapsed + took)
    BY <1>2 DEF Poll, PollSenses, NextPoll
  <2>2. took \in Nat /\ (sense # "none" => took = 0)
    BY <2>1, CeilingsOrdered DEF CommandTime
  <2>3. wait # None /\ wait.pc = "poll"
    BY <1>2 DEF Poll
  <2> QED  BY <2>1, <2>2, <2>3, NextPollMovesOn
<1> QED  BY <1>1, <1>2

\* Only a step of the wait itself moves it.
LEMMA WaitIsItsOwn ==
  ASSUME wait # None, Register \/ (\E t \in Threads : Consume(t)) \/ Around \/ UNCHANGED vars
  PROVE  UNCHANGED wait
<1>1. ~IoFree
  BY DEF IoFree
<1>2. UNCHANGED unit => UNCHANGED wait
  BY DEF unit
<1>3. Register => UNCHANGED wait
  BY <1>1, <1>2 DEF Register, SetupStep, ChooseInterface, Inquiry, AllowMediumRemoval,
                    SettleAtSetup, Publish, BeginWait
<1>4. ASSUME NEW t \in Threads, Consume(t)
      PROVE  UNCHANGED wait
  <2>1. Settling(t) => UNCHANGED wait
    BY <1>1, <1>2 DEF Settling, CheckReady, SettleOrNot, SettleAsks, SettleWaits, SettleReturns,
                      RecheckReady, BeginWait
  <2>2. Probing(t) => UNCHANGED unit \/ \E st \in Statuses : Cdb(t, st)
    BY DEF Probing, ReadMedium, ReadCdToc, ReadPvd, WalkIso, MountUdf, LookupVideo,
           LookupBdmv, LookupAudio, Lookup
  <2>3. Probing(t) => UNCHANGED wait
    BY <1>2, <2>2 DEF Cdb
  <2> QED  BY <1>2, <1>4, <2>1, <2>3 DEF Consume, IdentifyStep, Identify
<1>5. Around => UNCHANGED wait
  BY DEF Around, Environment, LastRelease, Opens, Parks, Resets, Unplugs, Closes, Loads, Event
<1>6. UNCHANGED vars => UNCHANGED wait
  BY <1>2 DEF vars
<1> QED  BY <1>3, <1>4, <1>5, <1>6

\* The wait of scsi.c ends, with WaitHasItsBound, if only its commands do,
\* whatever the ceilings and however often they change in the middle.
THEOREM WaitsGoOn == Spec => WaitGoesOn
<1>1. IInv /\ [Next]_vars => [wait # None => wait' \in {wait, None} \/ MovesOn]_vars
  <2> SUFFICES ASSUME IInv, [Next]_vars, wait # None
               PROVE  wait' \in {wait, None} \/ MovesOn
    OBVIOUS
  <2>1. CASE Wait
    BY <2>1, WaitMovesOn DEF Wait, WaitStep, IInv, LowerInv
  <2>2. CASE ~Wait
    BY <2>2, WaitIsItsOwn DEF Next
  <2> QED  BY <2>1, <2>2
<1> QED  BY <1>1, Inductive, PTL DEF Spec, WaitGoesOn

\* The steps that a call has before it at most, by where it is: the two
\* families of probes follow each other in the order that the medium gives.
Ahead == [asked |-> 19, settle |-> 18, ask |-> 17, wait |-> 16, waiting |-> 15,
          recheck |-> 14, config |-> 13, toc |-> 12, done |-> 0]
OnUdf == [mount |-> 4, video |-> 3, bdmv |-> 2, audio |-> 1]
OnIso == [pvd |-> 7, dir |-> 3, info |-> 2, magic |-> 1]

StepsAt(pc, medium, probe) ==
    CASE pc \in {"mount", "video", "bdmv", "audio"} -> OnUdf[pc] + (IF medium = "cd" THEN 0 ELSE 7)
      [] pc \in {"pvd", "dir", "info", "magic"} ->
            OnIso[pc] + (IF pc # "pvd" /\ probe = "VCD" THEN 3 ELSE 0)
                      + (IF medium = "cd" THEN 4 ELSE 0)
      [] OTHER -> Ahead[pc]

StepsLeft(r) == StepsAt(r.pc, r.medium, r.probe)

\* laser_disc_identify() takes a bounded number of steps, and asks the drive
\* at most once in each, whatever the drive and the other consumers do: it
\* never comes back to a question, goes from one family of probes to the
\* other at most once, and is not touched once it has returned.
CallGoesOn ==
    [][\A t \in Threads : call[t] # None =>
          \/ call'[t] = call[t]
          \/ call'[t] # None /\ StepsLeft(call'[t]) < StepsLeft(call[t])]_vars

LEMMA StepsTyped ==
  ASSUME NEW pc \in Pcs, NEW medium, NEW probe
  PROVE  /\ StepsAt(pc, medium, probe) \in 0 .. 19
         /\ pc # "done" => StepsAt(pc, medium, probe) > 0
<1>1. CASE pc \in {"mount", "video", "bdmv", "audio"}
  BY <1>1 DEF StepsAt, OnUdf
<1>2. CASE pc \in {"pvd", "dir", "info", "magic"}
  BY <1>2 DEF StepsAt, OnIso
<1>3. CASE pc \in {"asked", "settle", "ask", "wait", "waiting", "recheck", "config", "toc", "done"}
  BY <1>3 DEF StepsAt, Ahead
<1> QED  BY <1>1, <1>2, <1>3 DEF Pcs

GoesOnFrom(t, r) == call'[t] # None /\ StepsLeft(call'[t]) < StepsLeft(r)

LEMMA GotoGoesOn ==
  ASSUME CallInv, NEW t \in Threads, NEW r \in CallRecord, NEW s \in CallRecord,
         NEW pc \in Pcs, Goto(t, s, pc),
         StepsAt(pc, s.medium, s.probe) < StepsAt(r.pc, r.medium, r.probe)
  PROVE  GoesOnFrom(t, r)
<1>1. call'[t] = [s EXCEPT !.pc = pc]
  BY DEF CallInv, Goto
<1>2. call'[t] \in CallRecord /\ call'[t].pc = pc /\ call'[t].medium = s.medium /\ call'[t].probe = s.probe
  BY <1>1 DEF CallRecord
<1> QED  BY <1>2, NoneIsNoCall DEF GoesOnFrom, StepsLeft

LEMMA ReturnGoesOn ==
  ASSUME CallInv, NEW t \in Threads, NEW r \in CallRecord, NEW s \in CallRecord,
         NEW kind \in Kinds, Return(t, s, kind), r.pc # "done"
  PROVE  GoesOnFrom(t, r)
<1>1. call'[t] = [s EXCEPT !.pc = "done", !.kind = kind, !.medium = "unknown",
                           !.toc = "none", !.probe = "VCD", !.video = FALSE, !.gone = FALSE]
  BY DEF CallInv, Return
<1>2. call'[t] \in CallRecord /\ call'[t].pc = "done"
  BY <1>1 DEF CallRecord, Pcs
<1>3. StepsLeft(call'[t]) = 0
  BY <1>2 DEF StepsLeft, StepsAt, Ahead
<1>4. StepsLeft(r) \in 0 .. 19 /\ StepsLeft(r) > 0
  <2>1. r.pc \in Pcs
    BY DEF CallRecord, Pcs
  <2> QED  BY <2>1, StepsTyped DEF StepsLeft
<1> QED  BY <1>2, <1>3, <1>4, NoneIsNoCall DEF GoesOnFrom

LEMMA AfterIsoGoesOn ==
  ASSUME UnitTypeOK, CallInv, NEW t \in Threads, NEW r \in CallRecord,
         r.pc \in {"pvd", "dir", "info", "magic"}, AfterIso(t, r)
  PROVE  GoesOnFrom(t, r)
<1> DEFINE s == [r EXCEPT !.evidence = {}]
<1>1. s \in CallRecord /\ s.medium = r.medium /\ s.probe = r.probe
  BY DEF CallRecord
<1>2. CASE r.medium = "cd"
  <2>1. Goto(t, s, "mount")
    BY <1>2 DEF AfterIso
  <2>2. StepsAt("mount", s.medium, s.probe) < StepsAt(r.pc, r.medium, r.probe)
    BY <1>1, <1>2 DEF StepsAt, Ahead, OnUdf, OnIso
  <2> HIDE DEF s
  <2> QED  BY <1>1, <2>1, <2>2, GotoGoesOn DEF Pcs
<1>3. CASE r.medium # "cd"
  BY <1>3, ReturnGoesOn DEF AfterIso, Kinds
<1> QED  BY <1>2, <1>3

LEMMA AfterUdfGoesOn ==
  ASSUME UnitTypeOK, CallInv, NEW t \in Threads, NEW r \in CallRecord, NEW q \in CallRecord,
         q.medium = r.medium, q.probe = r.probe,
         r.pc \in {"mount", "audio"}, AfterUdf(t, q)
  PROVE  GoesOnFrom(t, r)
<1> DEFINE s == [q EXCEPT !.evidence = {}]
<1>1. s \in CallRecord /\ s.medium = r.medium /\ s.probe = r.probe
  BY DEF CallRecord
<1>2. CASE q.medium = "unknown" /\ q.toc = "data"
  <2>1. Goto(t, s, "pvd")
    BY <1>2 DEF AfterUdf
  <2>2. StepsAt("pvd", s.medium, s.probe) < StepsAt(r.pc, r.medium, r.probe)
    BY <1>1, <1>2 DEF StepsAt, Ahead, OnUdf, OnIso
  <2> HIDE DEF s
  <2> QED  BY <1>1, <2>1, <2>2, GotoGoesOn DEF Pcs
<1>3. CASE ~(q.medium = "unknown" /\ q.toc = "data")
  BY <1>3, ReturnGoesOn DEF AfterUdf, Kinds
<1> QED  BY <1>2, <1>3

LEMMA SettlingGoesOn ==
  ASSUME CallInv, NEW t \in Threads, Settling(t)
  PROVE  GoesOnFrom(t, call[t])
<1> DEFINE r == call[t]
<1>1. r # None
  BY DEF Settling, CheckReady, SettleOrNot, SettleAsks, SettleWaits, SettleReturns, RecheckReady, At
<1>2. r \in CallRecord /\ [r EXCEPT !.asked = FALSE] \in CallRecord
  <2>1. r \in CallRecord
    BY <1>1, CallTyped
  <2> QED  BY <2>1 DEF CallRecord
<1>3. \/ r.pc \in {"asked", "recheck"} /\ Return(t, [r EXCEPT !.asked = FALSE], "UNKNOWN")
      \/ \E pc \in Pcs : /\ Goto(t, r, pc)
                         /\ <<r.pc, pc>> \in {<<"asked", "settle">>, <<"settle", "ask">>,
                               <<"settle", "recheck">>, <<"ask", "wait">>, <<"ask", "recheck">>,
                               <<"wait", "waiting">>, <<"waiting", "recheck">>,
                               <<"recheck", "config">>}
  BY DEF Settling, CheckReady, SettleOrNot, SettleAsks, SettleWaits, SettleReturns,
         RecheckReady, At, Pcs
<1> HIDE DEF r
<1>4. CASE r.pc \in {"asked", "recheck"} /\ Return(t, [r EXCEPT !.asked = FALSE], "UNKNOWN")
  <2>1. GoesOnFrom(t, r)
    BY <1>2, <1>4, ReturnGoesOn DEF Kinds
  <2> QED  BY <2>1 DEF r
<1>5. ASSUME NEW pc \in Pcs, Goto(t, r, pc),
             <<r.pc, pc>> \in {<<"asked", "settle">>, <<"settle", "ask">>,
                               <<"settle", "recheck">>, <<"ask", "wait">>, <<"ask", "recheck">>,
                               <<"wait", "waiting">>, <<"waiting", "recheck">>,
                               <<"recheck", "config">>}
      PROVE  GoesOnFrom(t, r)
  <2>1. StepsAt(pc, r.medium, r.probe) < StepsAt(r.pc, r.medium, r.probe)
    BY <1>5 DEF StepsAt, Ahead
  <2> QED  BY <1>2, <1>5, <2>1, GotoGoesOn
<1> QED  BY <1>3, <1>4, <1>5 DEF r

LEMMA ProbingGoesOn ==
  ASSUME UnitInv, CallInv, NEW t \in Threads, Probing(t)
  PROVE  GoesOnFrom(t, call[t])
<1> DEFINE r == call[t]
<1>1. r # None
  BY DEF Probing, ReadMedium, ReadCdToc, ReadPvd, WalkIso, MountUdf, LookupVideo, LookupBdmv,
         LookupAudio, At
<1>2. r \in CallRecord /\ UnitTypeOK
  BY <1>1, CallTyped DEF UnitInv
<1>3. CASE ReadMedium(t)
  <2>1. PICK st \in Statuses :
           /\ Cdb(t, st)
           /\ LET known == st = "OK" /\ machine.configures
                  medium == IF known THEN Disc.profile ELSE "unknown"
              IN  IF medium \in {"cd", "unknown"}
                  THEN Goto(t, [r EXCEPT !.medium = medium,
                                         !.evidence = IF known THEN {drive.disc} ELSE {}], "toc")
                  ELSE Goto(t, [r EXCEPT !.medium = medium], "mount")
    BY <1>3 DEF ReadMedium
  <2> DEFINE known == st = "OK" /\ machine.configures
             medium == IF known THEN Disc.profile ELSE "unknown"
  <2>2. medium \in {"unknown", "cd", "dvd", "bd"}
    BY <2>1, AnswerHasDisc
  <2>3. \E s \in {[r EXCEPT !.medium = medium, !.evidence = {drive.disc}],
                  [r EXCEPT !.medium = medium, !.evidence = {}], [r EXCEPT !.medium = medium]} :
           \E pc \in {"toc", "mount"} : Goto(t, s, pc)
    BY <2>1
  <2> HIDE DEF medium, known
  <2>4. /\ [r EXCEPT !.medium = medium, !.evidence = {drive.disc}] \in CallRecord
        /\ [r EXCEPT !.medium = medium, !.evidence = {}] \in CallRecord
        /\ [r EXCEPT !.medium = medium] \in CallRecord
    BY <1>2, <2>2, LocalsTyped
  <2>5. PICK s \in CallRecord, pc \in {"toc", "mount"} : Goto(t, s, pc)
    BY <2>3, <2>4
  <2>6. r.pc = "config"
    BY <1>3 DEF ReadMedium, At
  <2>7. StepsAt(pc, s.medium, s.probe) < StepsAt(r.pc, r.medium, r.probe)
    BY <2>6 DEF StepsAt, Ahead, OnUdf
  <2> HIDE DEF r
  <2>8. GoesOnFrom(t, r)
    BY <1>2, <2>5, <2>7, GotoGoesOn DEF Pcs
  <2> QED  BY <2>8 DEF r
<1>4. CASE ReadCdToc(t)
  <2>1. PICK st \in Statuses :
           /\ Cdb(t, st)
           /\ LET toc == IF st = "OK" THEN Disc.toc ELSE "none"
                  s == [r EXCEPT !.toc = toc]
              IN  IF toc = "audio" THEN Return(t, Found(s), "CD_AUDIO")
                  ELSE Goto(t, [s EXCEPT !.evidence = {}],
                            IF s.medium = "cd" /\ toc = "data" THEN "pvd" ELSE "mount")
    BY <1>4 DEF ReadCdToc
  <2> DEFINE toc == IF st = "OK" THEN Disc.toc ELSE "none"
             s == [r EXCEPT !.toc = toc]
             e == [s EXCEPT !.evidence = {}]
  <2>2. toc \in {"none", "data", "audio"}
    BY <2>1, AnswerHasDisc
  <2>3. \/ Return(t, Found(s), "CD_AUDIO")
        \/ \E pc \in {"pvd", "mount"} : Goto(t, e, pc)
    BY <2>1
  <2> HIDE DEF toc
  <2>4. s \in CallRecord
    BY <1>2, <2>2 DEF CallRecord
  <2> HIDE DEF s
  <2>5. Found(s) \in CallRecord /\ e \in CallRecord
    BY <1>2, <2>4, LocalsTyped
  <2>6. r.pc = "toc"
    BY <1>4 DEF ReadCdToc, At
  <2> HIDE DEF e
  <2>7. \A pc \in {"pvd", "mount"} :
           StepsAt(pc, e.medium, e.probe) < StepsAt(r.pc, r.medium, r.probe)
    BY <2>6 DEF StepsAt, Ahead, OnUdf, OnIso
  <2> HIDE DEF r
  <2>8. GoesOnFrom(t, r)
    BY <1>2, <2>3, <2>5, <2>6, <2>7, GotoGoesOn, ReturnGoesOn DEF Pcs, Kinds
  <2> QED  BY <2>8 DEF r
<1> DEFINE f == Found(r)
<1>5. f \in CallRecord /\ f.medium = r.medium /\ f.probe = r.probe
  BY <1>2, FoundIs DEF Same
<1>6. CASE ReadPvd(t)
  <2> DEFINE s == [f EXCEPT !.probe = "VCD"]
  <2>1. r.pc = "pvd" /\ (Goto(t, s, "dir") \/ AfterIso(t, r))
    BY <1>6 DEF ReadPvd, At
  <2> HIDE DEF f
  <2>2. s \in CallRecord /\ s.medium = r.medium /\ s.probe = "VCD"
    BY <1>5 DEF CallRecord
  <2> HIDE DEF s
  <2>3. StepsAt("dir", s.medium, s.probe) < StepsAt(r.pc, r.medium, r.probe)
    BY <2>1, <2>2 DEF StepsAt, Ahead, OnUdf, OnIso
  <2> HIDE DEF r
  <2>4. GoesOnFrom(t, r)
    BY <1>2, <2>1, <2>2, <2>3, GotoGoesOn, AfterIsoGoesOn DEF Pcs
  <2> QED  BY <2>4 DEF r
<1>7. CASE WalkIso(t)
  <2> DEFINE s == [r EXCEPT !.probe = "SVCD"]
  <2>1. \/ NextIsoProbe(t, r)
        \/ Return(t, f, r.probe)
        \/ r.pc \in {"dir", "info"} /\ Goto(t, f, IsoNext[r.pc])
    BY <1>7 DEF WalkIso, At
  <2>2. r.pc \in {"dir", "info", "magic"}
    BY <1>7 DEF WalkIso, At
  <2> HIDE DEF f
  <2>3. r.probe \in Kinds /\ \A pc \in {"dir", "info"} : IsoNext[pc] \in Pcs
    BY <1>2 DEF CallRecord, Kinds, IsoNext, Pcs
  <2>4. s \in CallRecord /\ s.medium = r.medium /\ s.probe = "SVCD"
    BY <1>2 DEF CallRecord
  <2>5. NextIsoProbe(t, r) => AfterIso(t, r) \/ (r.probe = "VCD" /\ Goto(t, s, "dir"))
    BY DEF NextIsoProbe
  <2> HIDE DEF s
  <2>6. r.probe = "VCD" => StepsAt("dir", s.medium, s.probe) < StepsAt(r.pc, r.medium, r.probe)
    BY <2>2, <2>4 DEF StepsAt, Ahead, OnUdf, OnIso
  <2>7. r.pc \in {"dir", "info"} =>
           StepsAt(IsoNext[r.pc], f.medium, f.probe) < StepsAt(r.pc, r.medium, r.probe)
    BY <1>5 DEF StepsAt, Ahead, OnUdf, OnIso, IsoNext
  <2> HIDE DEF r
  <2>8. CASE NextIsoProbe(t, r)
    <3>1. GoesOnFrom(t, r)
      BY <1>2, <2>2, <2>4, <2>5, <2>6, <2>8, GotoGoesOn, AfterIsoGoesOn DEF Pcs
    <3> QED  BY <3>1 DEF r
  <2>9. CASE Return(t, f, r.probe)
    <3>1. GoesOnFrom(t, r)
      BY <1>2, <1>5, <2>2, <2>3, <2>9, ReturnGoesOn
    <3> QED  BY <3>1 DEF r
  <2>10. CASE r.pc \in {"dir", "info"} /\ Goto(t, f, IsoNext[r.pc])
    <3>1. GoesOnFrom(t, r)
      BY <1>2, <1>5, <2>3, <2>7, <2>10, GotoGoesOn
    <3> QED  BY <3>1 DEF r
  <2> QED  BY <2>1, <2>8, <2>9, <2>10
<1>8. CASE MountUdf(t)
  <2>1. r.pc = "mount" /\ (Goto(t, f, "video") \/ AfterUdf(t, r))
    BY <1>8 DEF MountUdf, At
  <2> HIDE DEF f
  <2>2. StepsAt("video", f.medium, f.probe) < StepsAt(r.pc, r.medium, r.probe)
    BY <1>5, <2>1 DEF StepsAt, Ahead, OnUdf
  <2> HIDE DEF r
  <2>3. GoesOnFrom(t, r)
    BY <1>2, <1>5, <2>1, <2>2, GotoGoesOn, AfterUdfGoesOn DEF Pcs
  <2> QED  BY <2>3 DEF r
<1>9. \A hit \in BOOLEAN, st \in Statuses :
          \A l \in {LookedUp(r, hit, st), [LookedUp(r, hit, st) EXCEPT !.video = hit]} :
             l \in CallRecord /\ l.medium = r.medium /\ l.probe = r.probe
  <2> TAKE hit \in BOOLEAN, st \in Statuses
  <2> DEFINE l == LookedUp(r, hit, st)
             gone == st \in {"MEDIA_GONE", "NO_DEVICE"}
  <2>1. gone \in BOOLEAN /\ (l = f \/ l = [r EXCEPT !.gone = gone])
    BY DEF LookedUp, Latch
  <2> HIDE DEF gone, f
  <2>2. l \in CallRecord /\ l.medium = r.medium /\ l.probe = r.probe
    BY <1>2, <1>5, <2>1 DEF CallRecord
  <2> HIDE DEF l
  <2>3. /\ [l EXCEPT !.video = hit] \in CallRecord
        /\ [l EXCEPT !.video = hit].medium = l.medium /\ [l EXCEPT !.video = hit].probe = l.probe
    BY <2>2 DEF CallRecord
  <2> QED  BY <2>2, <2>3 DEF l
<1>10. /\ r.pc = "video" => \A pc \in {"audio", "bdmv"} :
             StepsAt(pc, r.medium, r.probe) < StepsAt(r.pc, r.medium, r.probe)
       /\ r.pc = "bdmv" => StepsAt("audio", r.medium, r.probe) < StepsAt(r.pc, r.medium, r.probe)
  BY DEF StepsAt, Ahead, OnUdf
<1>11. CASE LookupVideo(t)
  <2>1. PICK hit \in BOOLEAN, st \in Statuses :
           Goto(t, [LookedUp(r, hit, st) EXCEPT !.video = hit], IF hit THEN "audio" ELSE "bdmv")
    BY <1>11 DEF LookupVideo
  <2> DEFINE l == [LookedUp(r, hit, st) EXCEPT !.video = hit]
  <2>2. l \in CallRecord /\ l.medium = r.medium /\ l.probe = r.probe
    BY <1>9
  <2>3. r.pc = "video" /\ \E pc \in {"audio", "bdmv"} : Goto(t, l, pc)
    BY <1>11, <2>1 DEF LookupVideo, At
  <2> HIDE DEF l, r
  <2>4. GoesOnFrom(t, r)
    BY <1>2, <1>10, <2>2, <2>3, GotoGoesOn DEF Pcs
  <2> QED  BY <2>4 DEF r
<1>12. CASE LookupBdmv(t)
  <2>1. PICK hit \in BOOLEAN, st \in Statuses :
           IF hit THEN Return(t, LookedUp(r, hit, st), "BD_VIDEO")
                  ELSE Goto(t, LookedUp(r, hit, st), "audio")
    BY <1>12 DEF LookupBdmv
  <2> DEFINE l == LookedUp(r, hit, st)
  <2>2. l \in CallRecord /\ l.medium = r.medium /\ l.probe = r.probe
    BY <1>9
  <2>3. r.pc = "bdmv" /\ (Return(t, l, "BD_VIDEO") \/ Goto(t, l, "audio"))
    BY <1>12, <2>1 DEF LookupBdmv, At
  <2> HIDE DEF l, r
  <2>4. GoesOnFrom(t, r)
    BY <1>2, <1>10, <2>2, <2>3, GotoGoesOn, ReturnGoesOn DEF Pcs, Kinds
  <2> QED  BY <2>4 DEF r
<1>13. CASE LookupAudio(t)
  <2>1. PICK hit \in BOOLEAN, st \in Statuses :
           \/ \E kind \in Kinds : Return(t, LookedUp(r, hit, st), kind)
           \/ AfterUdf(t, LookedUp(r, hit, st))
    BY <1>13 DEF LookupAudio, Kinds
  <2> DEFINE l == LookedUp(r, hit, st)
  <2>2. l \in CallRecord /\ l.medium = r.medium /\ l.probe = r.probe
    BY <1>9
  <2>3. r.pc = "audio" /\ ((\E kind \in Kinds : Return(t, l, kind)) \/ AfterUdf(t, l))
    BY <1>13, <2>1 DEF LookupAudio, At
  <2> HIDE DEF l, r
  <2>4. GoesOnFrom(t, r)
    BY <1>2, <2>2, <2>3, ReturnGoesOn, AfterUdfGoesOn
  <2> QED  BY <2>4 DEF r
<1> QED  BY <1>3, <1>4, <1>6, <1>7, <1>8, <1>11, <1>12, <1>13 DEF Probing

\* An identification of disc.c ends if only its commands and its wait do,
\* whatever the discs, the firmware and the number of consumers.
THEOREM CallsGoOn == Spec => CallGoesOn
<1>1. IInv /\ [Next]_vars =>
        [\A t \in Threads : call[t] # None =>
            \/ call'[t] = call[t]
            \/ call'[t] # None /\ StepsLeft(call'[t]) < StepsLeft(call[t])]_vars
  <2> SUFFICES ASSUME IInv, [Next]_vars, NEW t \in Threads, call[t] # None
               PROVE  call'[t] = call[t] \/ GoesOnFrom(t, call[t])
    BY DEF GoesOnFrom
  <2>1. UnitInv /\ CallInv
    BY DEF IInv, LowerInv
  <2>2. CASE UNCHANGED call
    BY <2>2
  <2>3. ASSUME NEW u \in Threads, IdentifyStep(u)
        PROVE  call'[t] = call[t] \/ GoesOnFrom(t, call[t])
    <3>1. CASE u = t
      BY <2>1, <2>3, <3>1, SettlingGoesOn, ProbingGoesOn DEF IdentifyStep
    <3>2. CASE u # t
      BY <2>1, <2>3, <3>2, StepMoves, MovesAlone
    <3> QED  BY <3>1, <3>2
  <2>4. ASSUME NEW u \in Threads, Identify(u)
        PROVE  call'[t] = call[t]
    BY <2>1, <2>4 DEF Identify, CallInv
  <2>5. UNCHANGED call \/ \E u \in Threads : Identify(u) \/ IdentifyStep(u)
    BY DEF Next, Register, Wait, Consume, Around, vars
  <2> QED  BY <2>2, <2>3, <2>4, <2>5
<1> QED  BY <1>1, Inductive, PTL DEF Spec, CallGoesOn

=============================================================================
