---------------------------- MODULE DiscIdentify ----------------------------
(***************************************************************************)
(* laser_disc_identify() of disc.c, called by several consumers of one     *)
(* token: readiness, settling, GET CONFIGURATION, READ TOC, the ISO9660    *)
(* walk and the UDF probes, one command of the drive a step.  The sequence *)
(* is not atomic: the user may swap the disc, and the other consumers may  *)
(* consume the drive's report of it, between any two of them.              *)
(*                                                                         *)
(* A disc is [profile, toc, iso, udf, zones]: what GET CONFIGURATION says  *)
(* of it, the kind of the first track in its TOC (or one made up by the    *)
(* drive), what an ISO9660 volume on it holds, whether there is a UDF      *)
(* volume, and the zones with a valid identifier there.                    *)
(***************************************************************************)
EXTENDS SpinUp

ASSUME DiscsTyped ==
    /\ Contents \ {None} \subseteq
          [profile : {"unknown", "cd", "dvd", "bd"}, toc : {"none", "data", "audio"},
           iso : {"none", "empty", "VCD", "SVCD"}, udf : BOOLEAN,
           zones : SUBSET {"video", "audio", "bdmv"}]
    /\ \A d \in Drives : d[2] # None

\* Discs as they are made: DVD zones and a BDMV directory lie on a UDF volume
\* and never on the same disc; a (Super) Video CD is a CD with a data track
\* and none of them.
ASSUME DiscsAsMade ==
    \A disc \in Contents \ {None} :
        /\ disc.zones # {} => disc.udf
        /\ "bdmv" \in disc.zones => disc.zones = {"bdmv"}
        /\ disc.iso \in {"VCD", "SVCD"} =>
              disc.profile \in {"cd", "unknown"} /\ disc.toc = "data" /\ disc.zones = {}

VARIABLE call           \* the identifications in progress or returned

-----------------------------------------------------------------------------
(* evidence, since, first and heard are history: the numbers of the discs  *)
(* whose answers the kind and the label rest on, and events and the disc   *)
(* when the call began.                                                    *)

NewCall == [pc |-> "asked", medium |-> "unknown", toc |-> "none", probe |-> "VCD",
            video |-> FALSE, gone |-> FALSE, kind |-> "UNKNOWN",
            asked |-> TRUE, evidence |-> {}, since |-> events, first |-> drive.disc]

Kinds == {"UNKNOWN", "CD_AUDIO", "DVD_VIDEO", "DVD_AUDIO", "DVD_UNIVERSAL",
          "BD_VIDEO", "VCD", "SVCD"}

Pcs == {"asked", "settle", "ask", "wait", "waiting", "recheck", "config", "toc", "pvd",
        "dir", "info", "magic", "mount", "video", "bdmv", "audio", "done"}

CallRecord ==
    [pc : Pcs, medium : {"unknown", "cd", "dvd", "bd"}, toc : {"none", "data", "audio"},
     probe : {"VCD", "SVCD"}, video : BOOLEAN, gone : BOOLEAN, kind : Kinds,
     asked : BOOLEAN, evidence : SUBSET (0 .. MaxEvents + 1),
     since : 0 .. MaxEvents, first : 0 .. MaxEvents + 1]

ASSUME NoneIsNoCall == None \notin CallRecord

InitCalls == call = [t \in Threads |-> None]

At(t, pc) == call[t] # None /\ call[t].pc = pc
Goto(t, r, pc) == call' = [call EXCEPT ![t] = [r EXCEPT !.pc = pc]]

\* The locals are gone once the call has returned.
Return(t, r, kind) ==
    call' = [call EXCEPT ![t] = [r EXCEPT !.pc = "done", !.kind = kind, !.medium = "unknown",
                                          !.toc = "none", !.probe = "VCD", !.video = FALSE,
                                          !.gone = FALSE]]

\* Each consumer identifies the disc once.
Identify(t) ==
    /\ call[t] = None /\ ~cancelled
    /\ call' = [call EXCEPT ![t] = NewCall]
    /\ UNCHANGED unit

\* laser_token_not_ready(), first of all.
CheckReady(t) ==
    /\ At(t, "asked")
    /\ IF not_ready THEN Return(t, [call[t] EXCEPT !.asked = FALSE], "UNKNOWN")
                    ELSE Goto(t, call[t], "settle")
    /\ UNCHANGED unit

\* laser_token_settle(): nothing on a token on its way out; else one TEST
\* UNIT READY, and the wait if it fails - with io_lock free in between, and
\* not another look at cancelled.
SettleOrNot(t) ==
    /\ At(t, "settle")
    /\ Goto(t, call[t], IF device_gone \/ cancelled THEN "recheck" ELSE "ask")
    /\ UNCHANGED unit

SettleAsks(t) ==
    /\ At(t, "ask") /\ IoFree
    /\ \E sense \in {"pass", "gone", "attention", "becoming", "no_medium", "tray_open", "none"} :
          /\ TestUnitReady(t, sense)
          /\ Goto(t, call[t], IF sense \in {"pass", "gone"} THEN "recheck" ELSE "wait")
    /\ UNCHANGED <<machine, not_ready, cancelled, device_gone, wait>>

SettleWaits(t) ==
    /\ At(t, "wait")
    /\ BeginWait(t)
    /\ Goto(t, call[t], "waiting")

Waiting(t) == wait # None /\ wait.by = t

\* Mutant: settled again for as long as the drive is not ready.
SettleReturnsMutant(t) ==
    /\ At(t, "waiting") /\ ~Waiting(t)
    /\ Goto(t, call[t], IF not_ready THEN "ask" ELSE "recheck")
    /\ UNCHANGED unit
SettleReturns(t) ==
    /\ At(t, "waiting") /\ ~Waiting(t)
    /\ Goto(t, call[t], "recheck")
    /\ UNCHANGED unit

RecheckReady(t) ==
    /\ At(t, "recheck")
    /\ IF not_ready THEN Return(t, [call[t] EXCEPT !.asked = FALSE], "UNKNOWN")
                    ELSE Goto(t, call[t], "config")
    /\ UNCHANGED unit

-----------------------------------------------------------------------------
(* One laser_scsi_cdb(), its retries included.                             *)

Unanswered(st) ==
    \/ cancelled /\ st = "CANCELLED" /\ UNCHANGED <<drive, not_ready, device_gone, events, heard>>
    \/ /\ ~cancelled /\ IoFree /\ (device_gone \/ ~drive.plugged)
       /\ st = "NO_DEVICE"
       /\ device_gone' = TRUE
       /\ UNCHANGED <<drive, not_ready, events, heard>>

Reachable == ~cancelled /\ ~device_gone /\ IoFree /\ drive.plugged

\* What a 06/28/00 means to a command: the end of a spin-up that a wait gave
\* up on, retried free of charge, or a swap.
SwapIsTold == "changed" \in drive.attention /\ ~not_ready

\* MEDIA_GONE: a swap reported, or no disc to be seen.  Another attention may
\* have been retried away before it.
Swapped(t, st) ==
    /\ Reachable /\ SwapIsTold
    /\ st = "MEDIA_GONE"
    /\ \E left \in SUBSET (drive.attention \ {"changed"}) :
          drive' = [drive EXCEPT !.attention = left]
    /\ heard' = Consumed("changed", t)
    /\ UNCHANGED <<not_ready, device_gone, events>>

\* What a command that comes up to the drive, or not, may be told of a disc
\* while it waits: a new one is announced, one already announced may be, again.
Announcements(up) ==
    CASE up /\ drive.mech = "loading" -> {{"announced"}}
      [] up /\ drive.mech = "waking"  -> {{}, {"announced"}}
      [] OTHER                        -> {{}}

(* A command that passes no attention on, though it takes all but those left.
   A report of a swap is retried free of charge, as the end of a spin-up: the
   one pending if a wait gave up on it, the one announced to this command in
   any case.  Or it is lost with its sense data, and the attempt that follows
   is an ordinary retry. *)
GetsPast(left, up) ==
    \E announced \in Announcements(up) :
       LET taken == ({"changed"} \cap (drive.attention \ left)) \cup announced
       IN  \E lost \in SUBSET taken :
              LET free == taken \ lost
                  whos == (IF free # {} THEN {"free"} ELSE {})
                             \cup (IF lost # {} THEN {"lost"} ELSE {})
              IN  /\ "changed" \in free => not_ready
                  /\ not_ready' = (not_ready /\ free = {})
                  /\ heard' = heard \cup (({drive.disc} \X whos) \cap Swaps)
                  /\ drive' = [drive EXCEPT !.mech = IF up THEN "ready" ELSE @,
                                            !.attention = left]

NoDisc(st) ==
    /\ Reachable
    /\ st = "MEDIA_GONE"
    /\ drive.mech \in {"open", "empty", "parked"}
    /\ GetsPast({}, FALSE)
    /\ UNCHANGED <<device_gone, events>>

\* The drive answers: at once, or within the wait for one becoming ready.
ComesUp == drive.mech \in {"ready", "loading", "waking"}

Answers(st) ==
    /\ Reachable /\ ComesUp
    /\ st = "OK"
    /\ GetsPast({}, TRUE)
    /\ UNCHANGED <<device_gone, events>>

\* A drive that stays becoming ready past its ceiling, or a fault that
\* outlives the retries: it may keep an attention from being heard at all.
Fails(st) ==
    /\ Reachable
    /\ st = "IO"
    /\ \/ /\ drive.mech \in {"loading", "waking"}
          /\ GetsPast({}, FALSE) /\ UNCHANGED events
       \/ /\ events < MaxEvents /\ events' = events + 1
          /\ \E left \in SUBSET drive.attention, up \in BOOLEAN :
                (up => ComesUp) /\ GetsPast(left, up)
    /\ UNCHANGED device_gone

Cdb(t, st) ==
    /\ Unanswered(st) \/ Swapped(t, st) \/ NoDisc(st) \/ Answers(st) \/ Fails(st)
    /\ UNCHANGED <<machine, cancelled, wait>>

Statuses == {"OK", "IO", "MEDIA_GONE", "NO_DEVICE", "CANCELLED"}

\* What the drive that answered has in it.
Disc == drive.content

-----------------------------------------------------------------------------
(* The probes. *)

\* A read that found what it looked for.
Found(r) == [r EXCEPT !.evidence = @ \cup {drive.disc}]

ReadMedium(t) ==
    /\ At(t, "config")
    /\ \E st \in Statuses :
          /\ Cdb(t, st)
          /\ LET known == st = "OK" /\ machine.configures
                 medium == IF known THEN Disc.profile ELSE "unknown"
             IN  IF medium \in {"cd", "unknown"}
                 THEN Goto(t, [call[t] EXCEPT !.medium = medium,
                                              !.evidence = IF known THEN {drive.disc} ELSE {}], "toc")
                 ELSE Goto(t, [call[t] EXCEPT !.medium = medium], "mount")

\* The ISO9660 walk has found nothing.
AfterIso(t, r) ==
    IF r.medium = "cd" THEN Goto(t, [r EXCEPT !.evidence = {}], "mount")
                       ELSE Return(t, r, "UNKNOWN")

\* The UDF probes have found nothing.
AfterUdf(t, r) ==
    IF r.medium = "unknown" /\ r.toc = "data"
    THEN Goto(t, [r EXCEPT !.evidence = {}], "pvd")
    ELSE Return(t, r, "UNKNOWN")

ReadCdToc(t) ==
    /\ At(t, "toc")
    /\ \E st \in Statuses :
          /\ Cdb(t, st)
          /\ LET toc == IF st = "OK" THEN Disc.toc ELSE "none"
                 r == [call[t] EXCEPT !.toc = toc]
             IN  IF toc = "audio" THEN Return(t, Found(r), "CD_AUDIO")
                 ELSE Goto(t, [r EXCEPT !.evidence = {}],
                           IF r.medium = "cd" /\ toc = "data" THEN "pvd" ELSE "mount")

(* detect_iso_video(): the PVD, then for each kind the directory in the
   root, the info file in the directory, and the first bytes of that. *)
ReadPvd(t) ==
    /\ At(t, "pvd")
    /\ \E st \in Statuses :
          /\ Cdb(t, st)
          /\ IF st = "OK" /\ Disc.iso # "none"
             THEN Goto(t, [Found(call[t]) EXCEPT !.probe = "VCD"], "dir")
             ELSE AfterIso(t, call[t])

\* Any failure of one kind's lookup leads to the next kind.
NextIsoProbe(t, r) ==
    IF r.probe = "VCD" THEN Goto(t, [r EXCEPT !.probe = "SVCD"], "dir") ELSE AfterIso(t, r)

IsoNext == [dir |-> "info", info |-> "magic"]

WalkIso(t) ==
    /\ \E pc \in {"dir", "info", "magic"} : At(t, pc)
    /\ \E st \in Statuses :
          /\ Cdb(t, st)
          /\ IF ~(st = "OK" /\ Disc.iso = call[t].probe) THEN NextIsoProbe(t, call[t])
             ELSE IF call[t].pc = "magic" THEN Return(t, Found(call[t]), call[t].probe)
             ELSE Goto(t, Found(call[t]), IsoNext[call[t].pc])

\* Mutant: a medium that has gone is not remembered.
LatchMutant(r, st) == r
\* udf_read_cb(): the rest of the walk fails at once.
Latch(r, st) == [r EXCEPT !.gone = (st \in {"MEDIA_GONE", "NO_DEVICE"})]

MountUdf(t) ==
    /\ At(t, "mount")
    /\ \E st \in Statuses :
          /\ Cdb(t, st)
          /\ IF st = "OK" /\ Disc.udf THEN Goto(t, Found(call[t]), "video")
             ELSE AfterUdf(t, call[t])

\* A lookup on the mounted volume and the read behind it, or no command at
\* all once the medium has gone.
Lookup(t, zone, hit, st) ==
    \/ call[t].gone /\ ~hit /\ st = "MEDIA_GONE" /\ UNCHANGED unit
    \/ /\ ~call[t].gone /\ Cdb(t, st)
       /\ hit = (st = "OK" /\ Disc.udf /\ zone \in Disc.zones)

LookedUp(r, hit, st) == IF hit THEN Found(r) ELSE Latch(r, st)

LookupVideo(t) ==
    /\ At(t, "video")
    /\ \E hit \in BOOLEAN, st \in Statuses :
          /\ Lookup(t, "video", hit, st)
          /\ Goto(t, [LookedUp(call[t], hit, st) EXCEPT !.video = hit],
                  IF hit THEN "audio" ELSE "bdmv")

LookupBdmv(t) ==
    /\ At(t, "bdmv")
    /\ \E hit \in BOOLEAN, st \in Statuses :
          /\ Lookup(t, "bdmv", hit, st)
          /\ LET r == LookedUp(call[t], hit, st)
             IN  IF hit THEN Return(t, r, "BD_VIDEO") ELSE Goto(t, r, "audio")

LookupAudio(t) ==
    /\ At(t, "audio")
    /\ \E hit \in BOOLEAN, st \in Statuses :
          /\ Lookup(t, "audio", hit, st)
          /\ LET r == LookedUp(call[t], hit, st)
             IN  IF hit THEN Return(t, r, IF r.video THEN "DVD_UNIVERSAL" ELSE "DVD_AUDIO")
                 ELSE IF r.video THEN Return(t, r, "DVD_VIDEO")
                 ELSE AfterUdf(t, r)

Settling(t) ==
    \/ CheckReady(t) \/ SettleOrNot(t) \/ SettleAsks(t) \/ SettleWaits(t)
    \/ SettleReturns(t) \/ RecheckReady(t)

Probing(t) ==
    \/ ReadMedium(t) \/ ReadCdToc(t) \/ ReadPvd(t) \/ WalkIso(t)
    \/ MountUdf(t) \/ LookupVideo(t) \/ LookupBdmv(t) \/ LookupAudio(t)

IdentifyStep(t) == Settling(t) \/ Probing(t)

-----------------------------------------------------------------------------
CallTypeOK == \A t \in Threads : call[t] # None => call[t] \in CallRecord

(* The reference: what each kind of disc is, whatever the order of the     *)
(* questions.                                                              *)
KindOf(disc) ==
    IF disc.profile = "cd" /\ disc.toc = "audio" THEN "CD_AUDIO"
    ELSE IF disc.iso \in {"VCD", "SVCD"} THEN disc.iso
    ELSE CASE disc.zones = {"video", "audio"} -> "DVD_UNIVERSAL"
           [] disc.zones = {"video"}          -> "DVD_VIDEO"
           [] disc.zones = {"audio"}          -> "DVD_AUDIO"
           [] disc.zones = {"bdmv"}           -> "BD_VIDEO"
           [] OTHER                           -> "UNKNOWN"

Undisturbed(r) == /\ r.since = events /\ r.first = drive.disc
                  /\ drive.plugged /\ drive.mech = "ready" /\ ~cancelled

\* The drive names the medium, or made up no TOC that passes for a CD's.
TocIsTrue == \/ machine.configures /\ drive.content.profile # "unknown"
             \/ drive.content.profile = "cd" \/ drive.content.toc # "audio"

Told(d, t) == \E who \in (Threads \cup {"free", "lost"}) \ {t} : <<d, who>> \in heard

\* What is returned rests, kind and label, on one disc only - unless the report
\* of a swap in the middle of it went to another consumer, into a free retry, or
\* was lost with its sense data (scsi.c:993), and the call could not know.  (A
\* Super Video CD excepted: its lookup follows that of a Video CD even when that
\* one failed with MEDIA_GONE, and keeps the label of the disc before.)
RestsOnOneDisc ==
    \A t \in Threads : At(t, "done") /\ call[t].kind \notin {"UNKNOWN", "SVCD"} =>
        \A d, e \in call[t].evidence : d < e => Told(e, t)

\* The kind returned is that of the disc in the drive, if it was left alone
\* and the drive was asked.  If not, the answer is UNKNOWN or rests on one disc.
KindIsOfTheDisc ==
    /\ \A t \in Threads :
          At(t, "done") /\ Undisturbed(call[t]) /\ call[t].asked /\ TocIsTrue =>
              call[t].kind = KindOf(drive.content)
    /\ RestsOnOneDisc

=============================================================================
