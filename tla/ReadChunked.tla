---------------------------- MODULE ReadChunked ----------------------------
(***************************************************************************)
(* laser_read_blocks() and laser_read_cd_blocks(): reads cut into commands *)
(* that fit the device's transfer cap, and the negotiation that lowers     *)
(* that cap when a bridge fails large data phases.  Several threads read   *)
(* one drive.  The cap is read without io_lock and lowered under it; the   *)
(* last release may tear the token down between two chunks of a read; a    *)
(* disc may be swapped, its one UNIT ATTENTION going to whichever command  *)
(* comes first, which may not pass it on.                                  *)
(*                                                                         *)
(* A command is one step: laser_scsi_cdb() holds io_lock throughout.  What *)
(* it does inside is the subject of ScsiCommand.                           *)
(***************************************************************************)
EXTENDS Integers, FiniteSets

CONSTANTS
    Readers,        \* the threads that read
    Requests,       \* the reads they may ask for: kind, first block, count
    Limits,         \* the largest data phases bridges may carry, in bytes
    Forms,          \* the sector forms discs may be made of
    BadSectors,     \* the sets of unreadable sectors a first disc may have
    MaxTransfer,    \* LASER_MAX_BYTES_PER_TRANSFER
    MinTransfer,    \* LASER_MIN_BYTES_PER_TRANSFER
    MaxFaults,      \* bound: commands that fail or fall short without cause
    MaxSwaps,       \* bound: disc swaps
    None

Kinds == {"data", "audio", "form2", "any", "unknown"}
SectorForms == {"audio", "form1", "form2"}

ASSUME CapsArePositive == /\ MaxTransfer \in Nat
                          /\ MinTransfer \in 1 .. MaxTransfer
ASSUME RequestsTyped ==
    \A q \in Requests : q.kind \in Kinds /\ q.lba \in Nat /\ q.n \in Int
ASSUME DrivesTyped == /\ Limits \subseteq Nat
                      /\ Forms \subseteq SectorForms
                      /\ \A bad \in BadSectors : bad \subseteq Nat
ASSUME NoneIsNoBlock == None \notin Nat \cup (Nat \X Nat)
ASSUME BoundsTyped == MaxFaults \in Nat /\ MaxSwaps \in Nat

\* The report of a swap may go without a word to any reader.
ASSUME NobodyReads == "nobody" \notin Readers

VARIABLES
    reg,        \* the registration: "up", "cancelled", "free"
    cap,        \* max_transfer_bytes of the entry
    not_ready,  \* not_ready of the entry
    drive,      \* bridge limit, the disc in the drive, what it has to report
    faults,     \* faults without cause so far
    told,       \* history: <<d, who>> when the report of disc d went to who
    rd          \* the reads in progress or returned, None before the first

vars == <<reg, cap, not_ready, drive, faults, told, rd>>

-----------------------------------------------------------------------------
(* Sectors.  A drive sends as many bytes per sector as the form of the    *)
(* sector and the fields asked for make; the buffer is strided by the     *)
(* block size, whatever arrives.                                          *)

\* The last argument but four of read_chunked(): 2048 for READ(10), 2352 for
\* every kind of READ CD.
BlockSize(kind) == IF kind = "data" THEN 2048 ELSE 2352

\* Mutant: the EDC left out: 0xF0 for 0xF8.
FieldsMutant(kind) == IF kind \in {"data", "audio"} THEN "user" ELSE "no_edc"
\* Byte 9 of READ CD, and the whole data field for READ(10).
Fields(kind) == IF kind \in {"data", "audio"} THEN "user" ELSE "all"

\* Byte 1 of READ CD: the forms the drive accepts.  READ(10) reads the
\* sectors that have 2048 bytes of user data.
Expected(kind) ==
    CASE kind = "data"  -> {"form1"}
      [] kind = "audio" -> {"audio"}
      [] kind = "form2" -> {"form2"}
      [] kind = "any"   -> SectorForms

\* Bytes of a sector: the table in laser_read_cd_blocks().
SectorBytes(form, fields) ==
    CASE form = "audio"                      -> 2352
      [] form = "form1" /\ fields = "user"   -> 2048
      [] form = "form2" /\ fields = "user"   -> 2324
      [] form = "form1" /\ fields = "no_edc" -> 2072
      [] form = "form2" /\ fields = "no_edc" -> 2348
      [] fields = "all"                      -> 2352

Largest(a, b) == IF a > b THEN a ELSE b
Least(a, b) == IF a < b THEN a ELSE b

-----------------------------------------------------------------------------
(* The locals of read_chunked(). *)

NotRead(n) == [i \in 0 .. n - 1 |-> None]

\* History: the disc of the first block that the reads of a consumer returned
\* since MEDIA_GONE last ended one, None if there is none.
WalkOn(r) ==
    IF r = None \/ r.ret.st = "MEDIA_GONE" THEN None
    ELSE IF r.walk = None /\ r.ret.n > 0 THEN r.buf[0][1] ELSE r.walk

\* A read that has passed the checks of its arguments.  sees is entry # NULL;
\* walk is history; ret is what the call returned.
NewRead(q, walk) ==
    [pc |-> "choosing", kind |-> q.kind, lba |-> q.lba, n |-> q.n,
     sees |-> reg # "free", done |-> 0, chunk |-> 0,
     trial_cap |-> 0, trial_end |-> 0,
     buf |-> NotRead(q.n), walk |-> walk, ret |-> None]

\* A call that returns before it looks anything up.
ReturnedAtOnce(q, walk, ret) ==
    [NewRead(q, walk) EXCEPT !.pc = "done", !.sees = FALSE, !.buf = NotRead(0),
                       !.ret = ret]

Count(n)   == [st |-> "OK", n |-> n]
Status(st) == [st |-> st, n |-> 0]

\* The locals are gone once the call has returned, and what the buffer holds
\* past the count is for nobody to look at.
Return(t, r, ret) ==
    rd' = [rd EXCEPT ![t] =
             [r EXCEPT !.pc = "done", !.ret = ret, !.sees = FALSE, !.done = 0,
                       !.chunk = 0, !.trial_cap = 0, !.trial_end = 0,
                       !.buf = [i \in {j \in DOMAIN @ : j < ret.n} |-> @[i]]]]

Bytes(r)  == r.chunk * BlockSize(r.kind)
Asked(r)  == r.lba + r.done .. r.lba + r.done + r.chunk - 1
Places(r) == r.done .. r.done + r.chunk - 1

InProgress(t) == rd[t] # None /\ rd[t].pc # "done"
Sending(t) == rd[t] # None /\ rd[t].pc = "sending"

-----------------------------------------------------------------------------
Init ==
    /\ reg = "up"
    /\ cap = MaxTransfer
    /\ not_ready \in BOOLEAN
    /\ \E limit \in Limits, form \in Forms, bad \in BadSectors, pending \in {FALSE, not_ready} :
          drive = [limit |-> limit, form |-> form, bad |-> bad,
                   disc |-> 0, attention |-> pending, gone |-> FALSE]
    /\ faults = 0
    /\ told = {}
    /\ rd = [t \in Readers |-> None]

\* Mutant: an empty read returns its count.
StartMutant(t) ==
    /\ ~InProgress(t)
    /\ reg # "cancelled"
    /\ \E q \in Requests :
          rd' = [rd EXCEPT ![t] =
                   IF q.kind = "unknown" THEN ReturnedAtOnce(q, WalkOn(@), Status("INVALID"))
                   ELSE IF q.n <= 0 THEN ReturnedAtOnce(q, WalkOn(@), Count(q.n))
                   ELSE NewRead(q, WalkOn(@))]
    /\ UNCHANGED <<reg, cap, not_ready, drive, faults, told>>
(* The caller starts a read.  An unknown sector kind is refused first, then
   an empty read returns; only then is the token looked up. *)
Start(t) ==
    /\ ~InProgress(t)
    /\ reg # "cancelled"
    /\ \E q \in Requests :
          rd' = [rd EXCEPT ![t] =
                   IF q.kind = "unknown" THEN ReturnedAtOnce(q, WalkOn(@), Status("INVALID"))
                   ELSE IF q.n <= 0 THEN ReturnedAtOnce(q, WalkOn(@), Count(0))
                   ELSE NewRead(q, WalkOn(@))]
    /\ UNCHANGED <<reg, cap, not_ready, drive, faults, told>>

(* The top of the loop: the cap as it is now, or the size on trial. *)
CapSeen(r) ==
    LET device == IF r.sees THEN cap ELSE MaxTransfer
    IN  IF r.trial_cap > 0 THEN Least(r.trial_cap, device) ELSE device

ChunkFor(r) == Least(r.n - r.done, Largest(CapSeen(r) \div BlockSize(r.kind), 1))

Choose(t) ==
    /\ rd[t] # None /\ rd[t].pc = "choosing"
    /\ rd' = [rd EXCEPT ![t] = [rd[t] EXCEPT !.chunk = ChunkFor(rd[t]), !.pc = "sending"]]
    /\ UNCHANGED <<reg, cap, not_ready, drive, faults, told>>

-----------------------------------------------------------------------------
(* What laser_scsi_cdb() returns for the chunk. *)

Garbled(r) == [i \in DOMAIN r.buf |-> IF i \in Places(r) THEN None ELSE r.buf[i]]

\* Mutant: a read that met a swap becomes a short one.
StopsMutant == {"NO_DEVICE", "CANCELLED"}
\* The statuses that end a read even after successful chunks.
Stops == {"MEDIA_GONE", "NO_DEVICE", "CANCELLED"}

\* Mutant: no floor.
WorthHalvingMutant(r, st) == st = "IO" /\ r.chunk > 1 /\ r.sees
\* The chunk is worth trying again in smaller commands.
WorthHalving(r, st) ==
    st = "IO" /\ r.chunk > 1 /\ r.sees /\ Bytes(r) > MinTransfer

Halved(r) ==
    [r EXCEPT !.pc = "choosing",
              !.trial_end = IF r.trial_cap = 0 THEN r.done + r.chunk ELSE @,
              !.trial_cap = Largest(Bytes(r) \div 2, MinTransfer)]

\* Mutant: a swap is tried again in smaller commands.
ChunkFailedMutant(t, st) ==
    LET r == [rd[t] EXCEPT !.buf = Garbled(rd[t])]
    IN  IF WorthHalving(r, IF st = "MEDIA_GONE" THEN "IO" ELSE st)
        THEN rd' = [rd EXCEPT ![t] = Halved(r)]
        ELSE Return(t, r, IF r.done > 0 /\ st \notin Stops THEN Count(r.done) ELSE Status(st))
\* What a failed chunk turns the read into.
ChunkFailed(t, st) ==
    LET r == [rd[t] EXCEPT !.buf = Garbled(rd[t])]
    IN  IF st \in Stops THEN Return(t, r, Status(st))
        ELSE IF WorthHalving(r, st) THEN rd' = [rd EXCEPT ![t] = Halved(r)]
        ELSE Return(t, r, IF r.done > 0 THEN Count(r.done) ELSE Status(st))

\* A short read that brought no block is an error.
ShortOf(total) == IF total = 0 THEN Status("IO") ELSE Count(total)

\* Mutant: won by the first smaller command that works.
TrialWonMutant(r) == r.trial_cap > 0
\* Smaller commands have read the whole range on which a larger one failed.
TrialWon(r) == r.trial_cap > 0 /\ r.done >= r.trial_end

\* A chunk the drive answered with OK: sectors of it, len bytes each, end to
\* end in the buffer.  Only a sector of the block size, or the first one, is
\* where its caller looks for it.
ChunkCame(t, sectors, len) ==
    LET size == BlockSize(rd[t].kind)
        inPlace(i) == i - rd[t].done < sectors /\ (len = size \/ i = rd[t].done)
        r == [rd[t] EXCEPT !.buf =
                [i \in DOMAIN @ |->
                    IF i \notin Places(rd[t]) THEN @[i]
                    ELSE IF inPlace(i) THEN <<drive.disc, rd[t].lba + i>>
                    ELSE None]]
        total == r.done + (sectors * len) \div size
        whole == [r EXCEPT !.done = @ + r.chunk]
    IN  IF sectors * len # Bytes(r)
        THEN Return(t, r, ShortOf(total))
        ELSE IF TrialWon(whole)
        THEN rd' = [rd EXCEPT ![t] = [whole EXCEPT !.pc = "lowering"]]
        ELSE IF whole.done >= whole.n THEN Return(t, whole, Count(whole.done))
        ELSE rd' = [rd EXCEPT ![t] = [whole EXCEPT !.pc = "choosing"]]

\* The token is no longer registered, or is being torn down: no checkpoint of
\* the read loop itself, but of the command it issues.
CommandFindsNoToken(t) ==
    /\ Sending(t)
    /\ reg = "free"
    /\ ChunkFailed(t, "NO_SUCH_TOKEN")
    /\ UNCHANGED <<reg, cap, not_ready, drive, faults, told>>

CommandIsCancelled(t) ==
    /\ Sending(t)
    /\ reg = "cancelled"
    /\ ChunkFailed(t, "CANCELLED")
    /\ UNCHANGED <<reg, cap, not_ready, drive, faults, told>>

CommandFindsNoDevice(t) ==
    /\ Sending(t)
    /\ reg = "up"
    /\ drive.gone
    /\ ChunkFailed(t, "NO_DEVICE")
    /\ UNCHANGED <<reg, cap, not_ready, drive, faults, told>>

Reachable == reg = "up" /\ ~drive.gone

\* The one report of the swaps so far is consumed.
ReportGoesTo(who) ==
    /\ drive.attention
    /\ drive' = [drive EXCEPT !.attention = FALSE]
    /\ told' = told \cup {<<d, who>> : d \in 1 .. drive.disc}

\* The drive reports a swap, once, to the command that comes first.
CommandReportsSwap(t) ==
    /\ Sending(t) /\ Reachable
    /\ ~not_ready
    /\ ReportGoesTo(t)
    /\ ChunkFailed(t, "MEDIA_GONE")
    /\ UNCHANGED <<reg, cap, not_ready, faults>>

(* A command that gets past a report without passing it on.  The new disc was
   still becoming ready when the command came, or not_ready was raised: the
   report is taken for the end of a spin-up and retried free of charge.  Or its
   sense data were lost: an attempt fails for no reason known. *)
GetsPastReports ==
    \/ ~drive.attention /\ UNCHANGED <<drive, told, not_ready>>
    \/ ReportGoesTo("nobody") /\ not_ready' = FALSE
    \/ ReportGoesTo("nobody") /\ UNCHANGED not_ready

\* The sectors are not of the kind declared.
CommandIsRefused(t) ==
    /\ Sending(t) /\ Reachable
    /\ drive.form \notin Expected(rd[t].kind)
    /\ GetsPastReports
    /\ ChunkFailed(t, "REFUSED")
    /\ UNCHANGED <<reg, cap, faults>>

\* Whatever the retries of laser_scsi_cdb(), a data phase the bridge cannot
\* carry fails, and so does one with an unreadable sector in it.
MustFail(r) == Bytes(r) > drive.limit \/ Asked(r) \cap drive.bad # {}

\* A fault may keep a report from being heard at all; so does a new disc that
\* is becoming ready for longer than the command waits.
CommandFails(t) ==
    /\ Sending(t) /\ Reachable
    /\ drive.form \in Expected(rd[t].kind)
    /\ \/ MustFail(rd[t]) /\ GetsPastReports /\ UNCHANGED faults
       \/ /\ ~MustFail(rd[t]) \/ drive.attention
          /\ faults < MaxFaults /\ faults' = faults + 1
          /\ GetsPastReports \/ UNCHANGED <<drive, told, not_ready>>
    /\ ChunkFailed(t, "IO")
    /\ UNCHANGED <<reg, cap>>

CommandReads(t) ==
    /\ Sending(t) /\ Reachable
    /\ drive.form \in Expected(rd[t].kind)
    /\ ~MustFail(rd[t])
    /\ GetsPastReports
    /\ ChunkCame(t, rd[t].chunk, SectorBytes(drive.form, Fields(rd[t].kind)))
    /\ UNCHANGED <<reg, cap, faults>>

CommandFallsShort(t) ==
    /\ Sending(t) /\ Reachable
    /\ drive.form \in Expected(rd[t].kind)
    /\ ~MustFail(rd[t])
    /\ GetsPastReports
    /\ faults < MaxFaults
    /\ faults' = faults + 1
    /\ \E sectors \in 0 .. rd[t].chunk - 1 :
          ChunkCame(t, sectors, SectorBytes(drive.form, Fields(rd[t].kind)))
    /\ UNCHANGED <<reg, cap>>

\* Mutant: the cap set without looking at it.
CapAfterMutant(bytes) == bytes
CapAfter(bytes) == IF bytes < cap THEN bytes ELSE cap

(* lower_transfer_cap(), under io_lock, and the end of the trial.  The entry
   may have been zeroed since the chunk came back: its cap is then 0 and
   nothing is lower. *)
LowerTransferCap(t) ==
    /\ rd[t] # None /\ rd[t].pc = "lowering"
    /\ cap' = CapAfter(rd[t].trial_cap)
    /\ LET r == [rd[t] EXCEPT !.trial_cap = 0]
       IN  IF r.done >= r.n THEN Return(t, r, Count(r.done))
           ELSE rd' = [rd EXCEPT ![t] = [r EXCEPT !.pc = "choosing"]]
    /\ UNCHANGED <<reg, not_ready, drive, faults, told>>

-----------------------------------------------------------------------------
(* What others do meanwhile. *)

\* laser_release() of the last claim: cancelled is raised ...
LastRelease ==
    /\ reg = "up"
    /\ reg' = "cancelled"
    /\ UNCHANGED <<cap, not_ready, drive, faults, told, rd>>

\* ... and the entry zeroed, once no transaction holds io_lock.
TeardownEnds ==
    /\ reg = "cancelled"
    /\ reg' = "free"
    /\ cap' = 0
    /\ not_ready' = FALSE
    /\ UNCHANGED <<drive, faults, told, rd>>

\* The new disc is a clean one.  Nobody can tell once the device is closed or
\* gone.
Swap ==
    /\ Reachable
    /\ drive.disc < MaxSwaps
    /\ drive' = [drive EXCEPT !.disc = @ + 1, !.bad = {}, !.attention = TRUE]
    /\ UNCHANGED <<reg, cap, not_ready, faults, told, rd>>

Unplug ==
    /\ Reachable
    /\ drive' = [drive EXCEPT !.gone = TRUE, !.bad = {}, !.attention = FALSE]
    /\ UNCHANGED <<reg, cap, not_ready, faults, told, rd>>

\* laser_token_settle() for a consumer that identifies the disc, which it does
\* not with not_ready raised.  Its wait hears the report, and may run out on a
\* new disc all the same; or it runs out before there is a report.
AnotherSettles ==
    /\ Reachable /\ ~not_ready
    /\ \/ ReportGoesTo("nobody") /\ not_ready' \in BOOLEAN
       \/ drive.attention /\ not_ready' = TRUE /\ UNCHANGED <<drive, told>>
    /\ UNCHANGED <<reg, cap, faults, rd>>

Command(t) ==
    \/ CommandFindsNoToken(t) \/ CommandIsCancelled(t)
    \/ CommandFindsNoDevice(t) \/ CommandReportsSwap(t)
    \/ CommandIsRefused(t) \/ CommandFails(t)
    \/ CommandReads(t) \/ CommandFallsShort(t)

Loop(t) == Choose(t) \/ Command(t) \/ LowerTransferCap(t)

Next ==
    \/ \E t \in Readers : Start(t) \/ Loop(t)
    \/ LastRelease \/ TeardownEnds \/ Swap \/ Unplug \/ AnotherSettles

Spec == Init /\ [][Next]_vars

-----------------------------------------------------------------------------
(* Properties. *)

Statuses == {"OK", "INVALID", "NO_SUCH_TOKEN", "IO", "REFUSED",
             "MEDIA_GONE", "NO_DEVICE", "CANCELLED"}
Blocks == (0 .. MaxSwaps) \X Nat

ReadOK(r) ==
    /\ DOMAIN r.buf \subseteq Nat
    /\ r \in [pc : {"choosing", "sending", "lowering", "done"},
             kind : Kinds, lba : Nat, n : Int, sees : BOOLEAN,
             done : Nat, chunk : Nat, trial_cap : Nat, trial_end : Nat,
             buf : [DOMAIN r.buf -> Blocks \cup {None}],
             walk : (0 .. MaxSwaps) \cup {None},
             ret : {None} \cup [st : Statuses, n : Nat]]

\* The types of the registration, the drive and the locals of each read.
TypeOK ==
    /\ reg \in {"up", "cancelled", "free"}
    /\ cap \in 0 .. MaxTransfer
    /\ not_ready \in BOOLEAN
    /\ drive \in [limit : Limits, form : Forms, bad : BadSectors \cup {{}},
                  disc : 0 .. MaxSwaps, attention : BOOLEAN, gone : BOOLEAN]
    /\ faults \in 0 .. MaxFaults
    /\ told \subseteq (1 .. MaxSwaps) \X (Readers \cup {"nobody"})
    /\ DOMAIN rd = Readers
    /\ \A t \in Readers : rd[t] = None \/ ReadOK(rd[t])

Returned(t) == rd[t] # None /\ rd[t].pc = "done"

\* The contract of laser_read_blocks() (laser.h:435-455): a count of blocks is
\* a count of blocks contiguous from lba, each at its own place in the buffer -
\* through failed data phases that overwrote the buffer, halved commands and
\* sectors of another length than the stride.  And 0 only when none was asked
\* for, or a caller that advances by what came back never ends.
ReturnedBlocksAreRead ==
    \A t \in Readers : Returned(t) =>
        LET r == rd[t]
        IN  /\ r.ret.n > 0 => r.ret.n <= r.n
            /\ \A i \in 0 .. r.ret.n - 1 : r.buf[i] # None /\ r.buf[i][2] = r.lba + i
            /\ r.ret = Count(0) => r.n <= 0

\* The report of disc d went elsewhere than to t.
ToldOther(d, t) == \E who \in (Readers \cup {"nobody"}) \ {t} : <<d, who>> \in told

\* A disc swapped in the middle of a read is reported once, to one command
\* (scsi.c:1011).  A read may then return sectors of both discs, but only if
\* the report went to another reader, or to none at all: into the free retry of
\* scsi.c:1018, with a sense lost on the bus (scsi.c:993), or to a
\* laser_token_settle().
MixedReadWasTold ==
    \A t \in Readers : Returned(t) =>
        LET r == rd[t]
        IN  \A i, j \in 0 .. r.ret.n - 1 :
              \A d \in r.buf[i][1] + 1 .. r.buf[j][1] : ToldOther(d, t)

\* A consumer that walks a disc read by read never goes on, unknowingly, on
\* another disc because of what read_chunked() made of a swap it was told of
\* (scsi.c:1444): once MEDIA_GONE has come back to a chunk, in the middle of a
\* read too, the read ends with it.  Blocks of a disc later than the first one
\* walked are returned only if the report went elsewhere.
WalkStaysOnOneDisc ==
    \A t \in Readers : Returned(t) =>
        LET r == rd[t]
        IN  r.walk # None =>
              \A i \in 0 .. r.ret.n - 1 :
                 \A d \in r.walk + 1 .. r.buf[i][1] : ToldOther(d, t)

\* A scratch is not the bridge's limit: on a bridge that carries whatever it
\* is asked to, unreadable sectors alone never lower the transfer cap, however
\* the reads of several threads interleave.
HealthyBridgeKeepsItsSize ==
    reg = "up" /\ faults = 0 /\ drive.disc = 0 /\ drive.limit >= MaxTransfer
        => cap = MaxTransfer

\* The cap only ever shrinks while the device is registered, and not below
\* LASER_MIN_BYTES_PER_TRANSFER (laser_internal.h:99), although two readers
\* may end trials of different sizes in either order.
CapOnlyShrinks ==
    [][reg' = "up" => cap' <= cap /\ cap' >= MinTransfer]_vars

\* read_chunked() terminates (scsi.c:1370): a command after which the read
\* goes on has brought blocks, or the next one is smaller - whatever the other
\* readers and the teardown do to the cap meanwhile.
EveryTurnProgresses ==
    [][\A t \in Readers : Sending(t) /\ ~Sending(t)' /\ InProgress(t)' =>
          \/ rd'[t].done > rd[t].done
          \/ ChunkFor(rd[t])' < rd[t].chunk]_vars

\* laser.h:416 on the negotiation: "once smaller transfers have read the whole
\* range the larger one failed on, the smaller size is kept ... A scratch
\* fails the smaller reads too, and leaves the size alone".  Halving stops at
\* the first size the bridge carries, so that the size kept is at least half
\* its limit - if only the bridge has a say in it.
ScratchLeavesSizeAlone ==
    reg = "up" /\ faults = 0 /\ drive.disc = 0 => 2 * cap >= Least(drive.limit, MaxTransfer)

=============================================================================
