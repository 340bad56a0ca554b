# liblaser in TLA+

liblaser drives USB optical drives from an Android process that has been given
a file descriptor: it registers the descriptor, speaks Bulk-Only Transport and
SCSI over libusb, serialises several consumers (a player, a media library's
preparser, libdvdcss, libbluray) and identifies discs. This directory models
the parts of it that decide what happens when those consumers, the drive and
the user's hand on the eject button meet, checks them with TLC and proves the
parts that matter most with TLAPS.

## The system

| component | source | state | operations | models |
|---|---|---|---|---|
| device registry and claims | `registry.c` | `g_entries` (per entry: `in_use`, `token`, `refs`, `cancelled`, identity, libusb objects, locks), `g_registry_lock`, `g_table_lock` | `laser_acquire`, `laser_release`, `laser_lookup`, `laser_register` (static), teardown | `LaserRegistry`, `LaserClaims` |
| CSS sessions | `registry.c` | `css_open`, `css_owner`, `css_mtx`, `css_cv` | `laser_css_session_begin`, `_end`, `_is_open` | `CssSession` |
| SCSI command layer | `scsi.c` | `io_lock`, `device_gone`, `not_ready`, the retry loop's locals | `laser_scsi_cdb` | `ScsiCommand` |
| Bulk-Only Transport | `bot.c`, `usb.c` | `tag`, the two bulk pipes, the device | `laser_bot_send_locked`, `laser_mass_storage_reset` | `BotTransport` |
| spin-up wait, settling | `scsi.c` | `not_ready`, the wait's three clocks | `spin_up_locked`, `laser_wait_until_ready`, `laser_token_settle` | `SpinUp` (one step each in `LaserRegistry` and `ScsiCommand`) |
| LUN probe, endpoint choice | `scsi.c`, `usb.c` | `lun`, `iface_num`, endpoints | `laser_probe_lun`, `laser_find_bulk_endpoints`, `laser_allow_medium_removal` | `DriveProbe` |
| chunked reads, transfer cap | `scsi.c` | `max_transfer_bytes`, the read loop's locals | `laser_read_blocks`, `laser_read_cd_blocks` | `ReadChunked` |
| disc identification | `disc.c` | none of its own | `laser_disc_identify` | `DiscIdentify`; what depends on bytes alone in `Formats` |
| token parsing, region diagnosis | `registry.c`, `scsi.c` | none | `laser_parse_token`, `laser_region_mismatch` | `Formats` |
| log sink, throughput sampling | `registry.c`, `scsi.c` | sink pointer, samples | - | not modelled |

**How they interact.** `laser_acquire` and `laser_release` run under
`g_registry_lock` from end to end, USB setup and teardown included. Everything
else looks a token up under `g_table_lock`, keeps the raw entry pointer, and
then uses `io_lock` (one SCSI command, its retries included) or `css_mtx` (one
look at the session). The last release raises `cancelled`, which commands read
without a lock between attempts, then drains `io_lock`, closes the device and
zeroes the entry. `laser_scsi_cdb` calls `laser_bot_send_locked` once per
attempt and decides from its return code and from REQUEST SENSE whether the
attempt is repeated.

**What is hard.** Entry pointers outlive the locks they were found under; the
cancellation and `device_gone` are read unlocked; the session check precedes
`io_lock`; the retry loop has rounds that cost no attempt, steered by flags
that an earlier call left; the drive changes state by itself; the bus loses,
delays and truncates packets, and a device may ignore the reset that is meant
to put it back in step. `PROJECT.json` lists these places under `hazards`, with
the properties that watch them.

## The modules

### `LaserRegistry`

The table, the claims, registration with its unwind ladder, teardown, and the
commands of other threads as far as the registry can see them.

* `entries` is `g_entries`, with the fields the registry decides on; the pair
  `(reg_dev, reg_ino)` is `reg_id`, `None` when `fstat()` failed.
* `held[s]` names what the registration on slot `s` has acquired and not freed:
  the two mutexes, the condition variable, the libusb context, the handle, the
  claimed interface. It exists so that a wrong rung of the ladder shows.
* `pc`, `tok`, `slot` are a thread's place in the code and its two locals.
* A step is what lies between two points where another thread can observe a
  difference: every lookup is one critical section of `g_table_lock`; each
  setup step that can fail is a step of its own, failing or not; a teardown is
  drain, close, destroy, free. `refs` reaching 0 and `cancelled` being raised
  are one step, since `refs` is read only under `g_registry_lock`.
* `io_lock[s]` belongs to the memory, not to the mutex: `release_slot()`
  zeroes it, and a zeroed mutex locks. That is what a thread with an old entry
  pointer finds.
* The environment closes and recycles descriptors (`Recycle`), even under a
  leaked claim, and releases tokens it never acquired (`StrayTokens`).
* `LateQueuers` is the part of the callers' contract that the code's own
  comments are of two minds about: whether the last release may begin while
  another thread is queued on `io_lock`.

`LaserClaims` is what a consumer is promised: the set of holders of each token,
and a device that is up from the first claim to the last, closes, and grants
nothing while closing. `LaserRegistryRefinement` maps the table to it
(`DeviceState`) and states `ImplementsClaims`; `MCLaserRegistry` checks both
modules on small instances.

### `CssSession`

One entry, consumers (`Cookies`) that work on one thread or several. The wait
on `css_cv` is taken apart: testing, waiting, signalled, spuriously woken,
timed out but not yet back from `pthread_cond_timedwait`. `believes` records
whom `begin()` told `LASER_OK`; `lastKey` whose key command reached the drive
and whose session was open at that moment. The check of a key command
(`KeyChecked`) and its arrival at the drive (`KeyReachesDrive`) are two steps,
because `io_lock` lies between them. `EndsQuietly` and `Undeclared` are the
consumers' good behaviour, and the run `css_late` takes the first
away; nothing is proved of keys without both.

### `ScsiCommand`

`laser_scsi_cdb` on one entry. An attempt - `laser_bot_send_locked` and the
REQUEST SENSE after a failure - is one step, classified by the branch of the
loop that its sense takes. `run` holds the loop's locals and, as history, how
many CBWs the drive received, how many free retries there were, and which disc
answered. The drive has a disc number, pending UNIT ATTENTIONs, and may be
ready, loading, waking or empty; it is ejected, loaded, spun down and unplugged
between attempts. `laser_disc_identify` and the last release come from other
threads. Each failure branch is an operator of its own (`NoMedium`,
`MayHaveChanged`, `Refused`, `Unexplained`), in the order of the code.

### `BotTransport`

`laser_bot_send_locked` against a device with its own BOT state machine, both
ends of the Bulk-In pipe explicit. Data is counted in units of 13 bytes, the
size of a CSW, since what goes wrong is a CSW read as data or data read as a
CSW. The device answers at any time, also after the host gave up; it may send
short, send a unit too many, stall in either phase, report a nonsense residue,
or never have implemented the Mass Storage Reset (`obeys`). A transaction's
time-outs are nondeterministic: each bulk transfer may fail whatever the device
is doing.

### `ReadChunked`

`laser_read_blocks` and `laser_read_cd_blocks` of several threads on one drive.
`rd[t]` holds the locals of `read_chunked` (`done`, `chunk`, `trial_cap`,
`trial_end`) and the buffer: each place holds the sector that was put there
(which disc, which number) or `None` for bytes that are no whole sector in its
place. A turn of the loop is two steps: `Choose` reads `max_transfer_bytes`
without a lock and sizes the chunk; a `Command...` action is what
`laser_scsi_cdb` made of it, one action per reason. `LowerTransferCap` is a step
of its own, since it takes `io_lock` again. Bridges carry data phases up to a
limit, discs have unreadable sectors and forms of different lengths
(`SectorBytes`), and the environment swaps the disc, unplugs the drive and tears
the token down in two steps between any two of these.

A swap is reported once, to whichever command comes first, and `told` records to
whom. `CommandReportsSwap` returns `MEDIA_GONE`; but a command may also get past
the report and pass nothing on (`GetsPastReports`, told: "nobody"): with
`not_ready` raised, or the new disc still becoming ready when the command came,
`scsi.c:1018` retries it free of charge and lowers the flag; and when the sense
data are lost on the bus, `scsi.c:993` ignores that and the attempt after it is an
ordinary retry. `AnotherSettles` is the `laser_token_settle` of a consumer that
identifies the disc: its TEST UNIT READY or its wait hears the report, and if that
wait runs out it leaves `not_ready` raised. Losing a report costs nothing of the
bounds: any swap may go unheard. `walk` is history across reads:
the disc of the first block a consumer was given since a read of its own last
ended with `MEDIA_GONE`.

### `SpinUp`, `DriveProbe`, `DiscIdentify`, `DriveStack`

One drive and its mechanism (`ready`, `loading`, `waking`, `parked`, `empty`,
`open`) under the user's hand, seen through three clients:

* `SpinUp`: `spin_up_locked` rung by rung (`NextShape`; five firmwares that
  refuse START STOP UNIT in different ways) and `laser_wait_until_ready` poll by
  poll, with the clock of the whole wait, the ceiling that "becoming ready"
  raises for good, the one of a missing medium, and the attentions polled again
  at once. `wait` is the wait in progress, which holds `io_lock`.
* `DriveProbe`: interface and endpoints from the descriptors, INQUIRY unit by
  unit with its attempts, the tray unlocked, the wait, and the publication.
* `DiscIdentify`: `laser_disc_identify` of several consumers, one command of the
  drive a step: readiness, settling, GET CONFIGURATION, TOC, ISO 9660 walk, UDF
  lookups with the `gone` latch. A lookup on the UDF volume is one command;
  libudfread itself is external. `evidence` records which discs the answers came
  from, `heard` where the report of each disc went. A command that answers, fails
  or finds no disc may have consumed attentions on the way (`GetsPast`): a
  06/28/00 by the free retry of `scsi.c:1018`, which lowers `not_ready` - of any
  consumer, and also the one a loading disc announces to the command that waits
  for it - or any attention with its sense data, which `scsi.c:993` does not
  notice. In TEST UNIT READY and START STOP UNIT (`Reported`) a lost sense looks
  like a time-out and counts as an event; in a command of `laser_scsi_cdb` that
  gets an answer in the end it costs nothing.

`DriveStack` composes them on one drive, one `io_lock`, one `not_ready`.

### `Formats`

What depends on bytes alone: the bounds of a directory and of its record walk,
the TOC, where a label is cut, which strings are tokens, when regions disagree.
Each function stands beside its reference definition; `MCFormats` compares the
pairs over all inputs up to a bound, as assumptions TLC evaluates with the run
`drive`.

### `LaserRegistryProofs`, `LaserClaimsProofs`, `LaserRefinementProofs`, `CssSessionProofs`, `ScsiCommandProofs`, `BotTransportProofs`, `ReadChunkedProofs`, `DriveStackProofs`

The theorems; see below. The first three build on each other.

## The runs

Every run is exhaustive for its bounds.

| run | instance | shows |
|---|---|---|
| `registry` | 3 threads, 2 tokens, 1 slot | a held claim keeps its device up, open and uncancelled; no transaction on a closed handle; the ladder is exact; a declined device is handed back to the kernel; `LaserClaims` is implemented; `g_registry_lock` is always freed |
| `registry_two` | 2 threads, 2 tokens, 1 stray token, 2 devices, 2 slots | one entry per token; no claim on another device through a recycled fd |
| `registry_late` (violation) | as `registry` with 1 token, `LateQueuers` | a thread queued on `io_lock` through the whole teardown finds its cancellation zeroed |
| `scsi` | 2 threads, reads and key commands, 3 attempts, 1 poll, 3 drive events | nothing is resent that must not be; the number of CBWs is bounded; refusals are explained; a swap is reported unless a free retry swallowed it; an answering device is not declared gone |
| `scsi_live` | 1 thread, reads and data-out, 2 polls, 2 events | the loop gives `io_lock` back |
| `scsi_swap` (violation) | 1 thread, 4 events | a stale `not_ready` hides a disc swap |
| `css` | 3 threads, 2 consumers | exclusion, no lost wake-up, keys in their own session, `begin()` returns |
| `css_late` (violation) | the same | a key command after `end()` |
| `bot` | 3 transactions of 0 or 2 units, both directions | success is this command's own status and data; a command not sent is never executed; when host and device are in step |
| `reads` | 2 readers, 4 requests, 4 bridge limits, 2 sector forms, 3 sets of bad sectors, 1 fault, 1 swap | a count is a count of contiguous blocks in place; a read of two discs, or a walk of several reads over two, had the report of the swap go to another reader or to nobody; a scratch is not the limit of a healthy bridge; the cap only shrinks; every turn progresses |
| `reads_scratch` (violation) | 1 reader of 9 CD sectors, a limited bridge | a scratch past the range on trial halves the size that is kept |
| `drive` | 8 machines, 2 consumers, 1 event | the optical unit is found; a parked disc is asked to load; the wait is bounded; the kind is that of the disc; every identification returns; `Formats` agrees with its references |

**Bounds.** Three threads give each race its two parties and a bystander; two
tokens for one slot fill the table and hand a slot from one token to another,
two slots and two tokens let entries be confused. `MaxRetries` = 3 has a first, a middle
and a last attempt where the code has six; the free-round logic depends on
flags, not on the number. `MaxEvents` bounds what the drive does on its own:
three events eject, insert and wake, or swap a disc and spin down, and the
violations need no more than four. `WaitPolls` is the ceiling of the
becoming-ready wait in polls, where the code has hundreds; only its being
reached or not matters. Three BOT transactions let a packet survive one command
and be mistaken two commands later. `MaxTags` stops that run, hence its
`CHECK_DEADLOCK FALSE`.

In `reads` the transfer sizes are scaled: a full chunk is 7 CD sectors or 8
blocks where the code has 27 and 32, so that a full chunk of CD sectors is odd
in both and halving does not divide evenly; `MinTransfer` still leaves two
halvings. The limits lie below the floor, between floor and cap in two places,
and at the cap. Two readers run trials of different sizes against each other;
one fault without cause suffices to start a trial no bridge asked for. The
readers are symmetric: no constant and no property tells one from the other, and
the run checks no liveness.

In `drive` the unit of time is `LASER_SPINUP_DELAY_MS`; the three ceilings keep
their order (2, 3, 4 for no-medium, whole, becoming) and a time-out is one unit.
`MaxEvents` = 1 counts the user's deeds, time-outs and faults; closing a tray is
free, so that one event already swaps a disc. Machines have up to three units
and three interfaces, `MaxLunProbed` = 1 cuts the third unit off, and
`InquiryAttempts` = 2 has a first and a last attempt. Everything may stop there
(a declined device, a token released), hence `CHECK_DEADLOCK FALSE`. `Formats`
is scaled to sectors of 4 bytes, words of 6 bits, an `INT_MAX` of 21, and `long`
both wider than `int` and as wide.

**Fairness.** `WF(Step(t))` in `LaserRegistry` and `WF(Loop(t))` in
`ScsiCommand`: every libusb call carries a time-out and every wait a ceiling,
so a thread inside the library moves on whenever it can. No mutex is assumed to
be fair, nobody is assumed to call again, no drive is assumed to become ready.
In `CssSession` a thread inside `begin()` runs and its clock advances; nobody is
assumed to call `end()`. In `DriveStack` the wait and each identification in
progress move on, for the same reason; an identification also waits for
`io_lock`, which nobody holds longer than its wait.

## Where code and text part

* `registry.c:641` says a thread queued on `io_lock` "sees the cancellation".
  It does only if it runs before `release_slot()` zeroes the entry. (The same
  comment leaves threads that use the entry after `release_slot()` to the
  caller, but laser.h tells callers only not to *begin* calls after the last
  release, and this thread began before.) Run `registry_late`.
* `laser.h:116` says a swapped disc is never retried internally. The 06/28/00
  branch (`scsi.c:1018`) does, when `not_ready` was left raised by a wait that
  ran out long before: no successful command clears it. Run `scsi_swap`. The
  same branch comes before the idempotence test, so that it also sends a key
  command again, which `laser.h:294` rules out once its CBW has reached the
  drive.
* `laser_internal.h:254`: no key command outside *some* declared session. The
  check precedes `io_lock` and is not repeated after it. Run `css_late`. The
  check (`scsi.c:881`) asks only whether *somebody* has a session, as that
  comment admits: a consumer that never calls `begin()` passes it inside the
  session of another.
* `laser.h:418` says a scratch leaves the transfer size alone. The chunks of a
  trial may reach past the range on trial, and a bad sector there halves the
  size once more before the range is won. Run `reads_scratch`. On a bridge with
  no limit of its own it cannot happen: `ScratchesKeepTheSize` is a theorem.

Smaller ones, seen while modelling and not given a run:

* Commands. The comments at `scsi.c:1016` ("once only") and `scsi.c:1142`
  ("Every attempt failed before the CBW left") are inexact when free rounds
  occur. On a device that ignores resets, a wire count trusted over a residue
  (`bot.c:349`) can count the data of an earlier command, so `DataIsOwn` is
  stated for devices that obey them.
* Registry. `registry.c:472` promises a declined device its kernel driver back,
  which is not so when an *earlier* registration detached it.
* Reads. The one report of a swap may reach no reader at all (`laser.h:116` again:
  the free retry; the ignored result of `request_sense_locked`, `scsi.c:993`; the
  wait of an identification), and a read then mixes two discs with nobody told;
  `MixedReadWasTold` says that it happens in no other way. A last
  release between two chunks is seen as "no such token", and what was read comes
  back as a short count, where `laser.h:238` speaks of `LASER_ERR_CANCELLED`.
* Spin-up. `scsi.c:378` says LOEJ is never sent with the tray open; an open tray
  answers START STOP UNIT with 02/3A/02, which falls through to the LOEJ rung
  (`scsi.c:421`). A second UNIT ATTENTION leads there too. "Whichever ceiling
  comes first ends the wait" (`scsi.c:138`): 02/3A answers are held to the
  no-medium ceiling alone, and attentions are polled again past every ceiling.
  The wait is described as one of an entry not yet published, that nothing can
  cancel; `laser_token_settle` runs it on a published one, and a teardown waits
  for its end, longer than the phase time-out of `laser.h:240`.
* Identification. `not_ready` raised by a wait in progress makes the call of
  another consumer give up (`disc.c:696`), and a drive that becomes ready after
  its wait ran out is not identified until a wait or a 06/28/00 clears the flag.
  The ISO 9660 walk has no `gone` latch like that of the UDF one: after a Video
  CD lookup that met a swap, the Super Video CD lookup goes on on the new disc
  (`KindIsOfTheDisc` excepts it). A universal disc whose second probe fails is
  reported as `DVD_VIDEO`. A directory length within a sector of 2^32 wraps to
  no sectors. As with reads, a swap whose report is retried free of charge or
  lost with its sense data leaves kind and label of two discs, told to nobody
  (`Told` in `KindIsOfTheDisc` excepts "free" and "lost"). "INQUIRY unanswered on every unit" is logged when only unit 0 gave
  no answer.

## What is proved

For every set of threads, tokens and slots - finite for threads, otherwise any -
and every bound, from the assumptions the modules name (`ThreadsFinite`,
`NoneIsNothing`, `MaxDevicesNat`, `StrayTokensDisjoint` in the registry,
`CookieOfThreads`, `NoneIsNoCookie` and two more in the sessions).

**`LaserRegistryProofs`.**

| theorem | says |
|---|---|
| `TypeCorrect` | `TypeOK` |
| `OneEntry` | `OneEntryPerToken`: no two registrations publish one token |
| `UnwindExact` | `UnwindIsExact`: the ladder frees what it acquired, and only that |
| `DeclinedIsHandedBack` | `DetachedThenDeclinedIsHandedBack` |
| `RegistryKeepsGoing` | `RegistryGoesOn`: the holder of `g_registry_lock` comes nearer to its unlock with every step |
| `NoCircularWait` | `LocksInOrder`: no circle of threads waits for each other's mutexes; a chain of waits is at most two long and ends at a command, which waits for nobody |

None of them is inductive alone. Their common invariant `TableCore` is

1. `TypeOK`;
2. `LockInv`: a thread is past `g_registry_lock` exactly when it owns it. So at
   most one registration or teardown is under way in the whole library, and
   `OneInside` is the lemma the other parts turn on;
3. `LocalInv`: what a call knows of its own token and slot at each place in the
   code;
4. `SlotsInv`: what the slots look like. The slot a call is building
   (`BeingBuilt`) holds exactly the rungs of the ladder below its place
   (`HeldAt`), one being torn down (`BeingClosed`) loses them from the top, and
   every other slot is either published with everything, or free with nothing.

A step therefore has to re-establish only its own slot; `OthersSlots` says the
rest is as it was. There is one lemma per group of actions (`RegisterSlots`,
`AcquireSlots`, `ReleaseSlots`), and `SlotsStep` puts them together.

`DeclinedIsHandedBack` adds `DriverInv`: while the handle is open it is on the
fd's device, and a driver that is detached was so when the handle was opened or
is noted in `kernel_driver_detached`; below the `err_handle` rung it is back.
That the interface has been released by then, without which the attach would
fail, is `SlotsInv`.

**`LaserClaimsProofs`.**

| theorem | says |
|---|---|
| `ClaimsKeepDevices` | `HeldClaimKeepsDevice`: a held claim has its device up, complete and counted |
| `ClaimsOnOwnDevice` | `ClaimIsOnOwnDevice`: and the device is the one the fd named |
| `TransfersOnOpenHandles` | `NoTransferOnClosedHandle`, if no last release meets a thread queued on `io_lock` |

They add to `TableCore`

5. `ClaimInv` and `RefsInv`: `refs` of a published entry is the number of its
   `Claimants`, the threads that hold a claim and those whose `laser_release`
   has been called and has not yet reached the table; a token with claimants
   has an entry. `HeldClaimKeepsDevice` alone loses a release while it waits
   for the lock, so `refs` could not be shown to reach 0 with nobody holding.
6. `IdentityInv`: between reserving a slot, or finding an entry, and counting
   the claim, the fd still names the entry's device. It stands because no fd is
   recycled under a call in progress on it.
7. `CommandInv`: a command's entry is the one its token has now; a command that
   waits has a holder, which keeps the last release away (the assumption
   `~LateQueuers`), one that runs owns `io_lock`, which keeps the teardown in
   its drain. Without the assumption the theorem is false: run
   `registry_late`.

**`LaserRefinementProofs`.** `Refines`: the registry implements `LaserClaims`.
`CountClaim` is a `Claim`, `ReleaseCall` an `Unclaim`, `ReleaseLast` starts
closing - by `RefsInv` the thread that takes `refs` from 1 is the only
claimant - and `FreeSlot` ends it; every other step leaves token, count and
cancellation of the published entries alone (`SameCounts`), publishes an entry
that counts nobody, or drops a claim that is not the last.

**`CssSessionProofs`.** `TypeCorrect`; `Exclusive` (who believes to hold the
session is whom the entry names); `NoWakeupIsLost` (a free session with waiters
has a thread on its way); `KeysInOwnSession`, under the consumers' contract
(`EndsQuietly`, no undeclared consumers), without which `css_late` shows it
false. Its strengthening says that a thread between its session
check and the drive still holds the session. `DeadlinesAreFinal`: past its
deadline a `begin()` stays so, and each step it takes is one towards its return.

**`ScsiCommandProofs`.** For every set of threads and kinds of command, every
budget, ceiling and number of drive events, from `MaxRetriesPositive`,
`WaitPollsPositive`, `MaxEventsNat`, `NoneIsNothing` and `NoneIsNoResult`.

| theorem | says |
|---|---|
| `TypeCorrect` | `TypeOK` |
| `RepeatsAreExcluded` | `NotRepeated` |
| `DeliveriesEnd` | `DeliveriesAreBounded` |
| `RefusalsAreExplained` | `RefusalIsExplained` |
| `SwapsAreReported` | `SwapIsReported` |
| `AnsweringDevicesStay` | `AnsweringDeviceIsNotGone` |
| `FreeRoundsEarned` | `FreeRoundsAreEarned`: a free retry for each event of the drive, and one more |
| `DeliveriesCeiling` | `DeliveriesHaveACeiling`: so what one command delivers is bounded outright |
| `LoopsGoOn` | `LoopGoesOn`: each round is charged for |

The common invariant is `TypeOK` and

1. `LockInv`: who is in the loop holds `io_lock`, so a round of it has one run
   to speak of;
2. `RunInv`: between two attempts the run is `Counted` - every attempt spent was
   a CBW delivered or one never sent, every further delivery a free round, or
   a poll of the present wait or of one that a 06/28/00 ended - and once over it
   is `Closed`. The bound alone is not inductive: it does not say how much of
   the budget is left;
3. `RepeatInv`: what `not_ready`, as the command found it and as it is now,
   says of a command not to be repeated. Its free retry lowers the flag, and
   only a wait raises it, which needs `io_lock`; hence at most one;
4. `SwapInv`: a disc other than the one last heard of, or read from, is one the
   drive still has to announce. It holds of every state of the drive, not only
   when a read ends, which is what lets a swap and the read be many steps apart.

`FailureLeads` gathers what any branch of the loop does with any sense; the
three ways an attempt fails with sense then differ only in the drive.

`DeliveriesAreBounded` counts in free retries, which are not the code's to
bound: `FreeRoundsAreEarned` says what they cost. It rests on `EarnedInv`, which
adds to the retries of a run the 06/28/00 still pending and the coming up that
will raise one: what happens to the drive adds at most one to that sum, coming
up moves it from one place to the next, and `FailureCharges` shows that only a
06/28/00 is retried freely.

**`BotTransportProofs`.** For every set of lengths with a largest one, none of
them a CSW's own (`LensOk`), and any number of transactions, from `MaxTagsNat`
and `NoneIsNoCode`.

| theorem | says |
|---|---|
| `TypeCorrect` | `TypeOK` |
| `SuccessesAreOwn` | `SuccessIsOwn`: on a device that ignores resets too |
| `DataAreOwn` | `DataIsOwn` |
| `UnsentStaysUnexecuted` | `NotSentIsNeverExecuted` |
| `StatusesLeavePipesClean` | `StatusLeavesPipesClean` |
| `ObedientDevicesStayInStep` | `InStepBetweenCommands` |
| `ReturnsAreFinal` | `ReturnIsFinal`: what a return said of a command's execution stays true |
| `UnsentIsForGood` | `NotSentIsForGood`: not sent is not executed later either |

`SuccessIsOwn` speaks of the return, and says nothing of the packets of which
the return is made; the common invariant does:

1. `HostInv`, `DeviceInv`, `PacketsInv`: what the locals are at each place, and
   that nothing in the device or the pipes is of a transaction not begun;
2. `UnsentInv`: a command not executed has left no packet and no data, and one
   reported as not sent is not waiting in the device's buffer either, which is
   why it is not executed later;
3. `OwnInv`: once the command is executed, the pipe is `Placed`: `old` packets
   of earlier commands, `n` units of its own data, what ends its data phase, its
   CSW. Units executed are the ones counted as own and those `n`, so that when
   its CSW comes first in the pipe there are none left, and a residue of 0 means
   that all were counted;
4. `StepInv`: on a device that obeys resets `old` is 0;
5. `ResultInv`: the two properties of a result, and that the device is in step
   when there is a status - its CSW is the last packet, and taking it empties
   the pipe.

`GivenUpKeeps` covers every return without a status: the pipes are as they were,
or after a reset that the device obeyed or not. Reading a packet moves the
boundaries of `Placed` by one (`TailIsPlaced`).

`NotSentIsNeverExecuted` looks at a result while it is the last one; the retry
it allows comes after. `ReturnsAreFinal` is about all that follows: a command
that returned with a status, or as not sent - or at all, on a device that obeys
resets - is `Over`, in the device and in its Bulk-Out buffer, and no step brings
it back (`OverStays`). What it leaves out is what the code leaves open: a phase
error on a device that ignores resets, which may yet execute the command, and is
the failure after which `laser_scsi_cdb()` repeats nothing that changes keys.

**`ReadChunkedProofs`.** For every set of readers and requests, every bridge
limit, every set of bad sectors and any two transfer sizes, from
`CapsArePositive` (the smaller is positive and no larger than the other),
`RequestsTyped`, `DrivesTyped`, `NoneIsNoBlock`, `BoundsTyped` and
`NobodyReads` ("nobody" is not a reader's name).

| theorem | says |
|---|---|
| `TypeCorrect` | `TypeOK` |
| `CountedIsRead` | `ReturnedBlocksAreRead`: a count is a count of blocks read, each in its place |
| `CapShrinks` | `CapOnlyShrinks`: and never below the floor |
| `TurnsProgress` | `EveryTurnProgresses`: the variant of the loop |
| `ScratchesKeepTheSize` | `HealthyBridgeKeepsItsSize` |
| `MixturesAreTold` | `MixedReadWasTold`: one read |
| `WalksAreTold` | `WalkStaysOnOneDisc`: the reads of a consumer one after the other |

The common invariant is `TypeOK`, `CapInv` (a registered device's cap is not
below the floor) and `ReadsInv`: a read under way has its first `done` blocks in
their places (`Holds`), a chunk that fits the rest and the cap (`Progress`), and
one that has returned holds as many as it counts (`Ended`). That a failed chunk
does not spoil what a count later reaches into follows from `Holds` speaking of
the places below `done` only; that a chunk that came whole is in place, from
`AcceptedFits`: a sector of a kind the command accepts is as long as the stride.
`ScratchesKeepTheSize` needs `HealthInv` besides: as long as only bad sectors
fail commands, a size on trial has a bad sector ahead of the read and within
the range the larger size failed on, so that no trial is ever won.
`MixturesAreTold` and `WalksAreTold` need `MixInv`, of the blocks a read has, of
the disc its walk started on, and of the disc now in the drive (`Known`): any of
the former that is earlier than the latter is still followed by the pending
attention, by the device being gone, or by the report having gone elsewhere - to
another reader or to nobody. So the read cannot come to blocks of the new disc but
by the report going elsewhere or by being told, and being told ends it with
`MEDIA_GONE` (`GivenUp`), and the walk with it. That a consumer may have returned
and start again later is why the invariant speaks of reads that are over, too.

**`DriveStackProofs`.** For every set of devices and discs, any number of
consumers, any ceilings, bounds and number of events, from `CeilingsOrdered`,
`RegistrarIsNoConsumer`, `FirmwaresKnown`, `ProbeBounds`, `MachinesTyped`,
`NoneIsNoNumber`, `NoneIsNoCall`, `NoneIsNoWait`, `DiscsTyped` and `DiscsAsMade`.
The last says what discs there are, as the code takes it for granted: a zone or
a BDMV directory is looked for on a UDF volume only; a Blu-ray has no DVD zone
(`disc.c:145`); a Video CD is a data CD (`laser_disc.h:100`), so has neither.

| theorem | says |
|---|---|
| `TypeCorrect` | `TypeOK` |
| `ParkedDiscHasBeenAsked` | `ParkedDiscIsAsked` |
| `WaitHasItsBound` | `WaitIsBounded` |
| `RightUnitIsFound` | `DriveIsFound` |
| `AnswersRestOnOneDisc` | `RestsOnOneDisc`, the second half of `KindIsOfTheDisc` |
| `WaitsGoOn` | `WaitGoesOn`: every step of a wait ends it, leads down its ladder, or on along its clock or its count of attentions |
| `CallsGoOn` | `CallGoesOn`: an identification takes at most 19 steps, its wait apart |
| `KindsAreRight` | `KindIsOfTheDisc`: the kind is that of a disc left alone, whatever the disc, the firmware and the state it is found in |

The invariant has a part for each component. `MechInv`: a disc lies in a closed
drive, and its number is at most one ahead of the events, the tray having been
opened for it. `WaitInv` and `ParkedInv`: at each rung, which attentions have
been met, and what is left to try on a disc still parked - on the second rung at
most one attention is pending, on the plain shape the drive takes it, on LOEJ it
takes it or two attentions were met; on the polls everything has been tried.
`ProbeInv`: what a probe that lost no command `Knows` when it reaches a unit,
which is that no unit before is optical, and the type of the first; the end of
the loop and the first optical answer both follow from it. `WaitIsBounded` is
inductive with the types: each way to go round compares the clock with a
ceiling first, and the only one that does not leaves the clock where it was.
`StageInv` keeps the wait out of the way of a probe.

`AnswersRestOnOneDisc` needs `EvidenceInv`: as long as a call may still ask the
drive, each disc it has evidence of is the one in the drive now, or there is
`NewsOf` a later one - its `UNIT ATTENTION` is pending, the disc is still
loading, the drive is open, empty or unplugged (`PendingOn`), or somebody else
has been `ToldIn` `heard`. A command of the call that succeeds consumes what is
pending, by a free retry or with lost sense data if at all (else it would have
returned `MEDIA_GONE`), and so turns news into a report that went elsewhere
(`GetsPastTells`); `Frame` is what every step
of another actor leaves of the news. The two exceptions of the property come up
as its two gaps: `Wandering`, the Super Video CD lookup, which goes on after a
`MEDIA_GONE`; and `Deaf`, the UDF lookups after one, which issue no command and
may not add evidence. `OwnerInv` says that a wait belongs to a consumer at its
settling, who has no evidence for its own polls to spoil.

`KindsAreRight` follows one call through settling and probes. `KindInv` says of
a call that is `Fresh` - no event, no other disc, no last release since it
began - two things. First, how far settling has come (`SettleOK`): no two
attentions are ahead of START STOP UNIT while the drive is not ready, so that its
wait meets one at most (`Untried`) and, by `ParkedInv`, leaves the disc parked
only for want of the opcode; when the wait is over the drive is settled
(`SettledIn`): clear (ready, nothing to report), hopeless until something
happens, or `KeptOff`, on its way with `not_ready` raised - in which case
`RecheckReady` turns the call away. `not_ready` is everybody's, and another
consumer's free retry of a pending 06/28/00 lowers it even if the command then
fails on a disc still loading: hence `KeptOff` and `Untried` also say that nothing
is left to report by then unless the disc is ready. Past `RecheckReady` the drive is
clear or hopeless. Second, if it is
clear, every probe is answered, at once and by the same disc
(`ClearAnswers`), and what the call knows at each place is true of it (`Right`):
the medium, the TOC, the lookups that found nothing. Every step of another
actor is an event or another disc, which ends the freshness, or leaves a drive
clear, hopeless, or settled, and the disc, as they were, and adds no attention to
a drive not ready (`QuietFrame`). That the wait
of a call began no earlier than the call, and that `device_gone` is latched
only once the device is unplugged, are the parts of `KindInv` that hold of any
call.

**Termination.** Liveness and `ENABLED` are out of the prover's reach, and
`RegistryLockIsFreed`, `BeginReturns`, `IoLockIsFreed` and `IdentifyEnds` stay
with TLC. Their safety half is proved, for every value of the constants: that a
step of the one who is to get on always lessens something that cannot lessen
for ever, and that nobody else raises it. What is left to fairness is that the
steps are taken.

| checked by TLC | proved | what lessens |
|---|---|---|
| `RegistryLockIsFreed` | `RegistryKeepsGoing` | `StepsToUnlock`, at most 19; the drain's commands make no new attempt |
| `BeginReturns` | `DeadlinesAreFinal` | `StepsPastDeadline`, once time is up, at most 3 |
| `IoLockIsFreed` | `LoopsGoOn`, with `FreeRoundsEarned` | the attempts and polls left (`Spent`), or a free retry, of which the drive's events allow a number |
| `IdentifyEnds` | `CallsGoOn`; `WaitsGoOn` with `WaitHasItsBound` | `StepsLeft`, at most 19; within a wait, the clock up to its ceiling |

Nor can threads wait in a circle (`NoCircularWait`). The registry's `OwnerInv`, inductive
whatever consumers do, says that `io_lock` belongs to a call between its lock and
its unlock; none of those steps asks for a mutex, so `g_registry_lock` then
`io_lock` is the only order in which the two are ever held. In a chain of waits
through a teardown, the command at its end is on the cancelled entry, which is
where `RegistryKeepsGoing` takes over.

**Only model-checked.** The four liveness properties above, and the functions
of `Formats`, which are recursive.

## Not modelled, and why

* libudfread and libusb, which are external: a lookup on a UDF volume is one
  command of the drive, a bulk transfer succeeds, falls short or times out.
* `g_table_lock` as a lock: each of its critical sections is one step.
* Memory-order effects of the unlocked reads of `cancelled` and `device_gone`:
  a reader may see them one attempt late, which the interleavings of the model
  include.
* Log lines, throughput sampling, the log sink: nothing but wording depends on
  them.
* The build-time tool that hides symbols.

## Plan

1. `LaserStack`: registry, sessions and commands composed on one entry -
   teardown against sessions and queued commands, lock order.
2. The 06/28/00 branch replaying a key command, as a run.
