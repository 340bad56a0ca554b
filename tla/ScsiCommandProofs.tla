------------------------- MODULE ScsiCommandProofs -------------------------
(***************************************************************************)
(* What ScsiCommand promises, for every set of threads and kinds of        *)
(* command, every budget and ceiling, and every number of drive events.    *)
(***************************************************************************)
EXTENDS ScsiCommand, Integers, TLAPS

----------------------------------------------------------------------------
(* The inductive invariant. *)

\* Who runs the loop holds io_lock, and issues a command.
LockInv ==
    \A t \in Threads : /\ pc[t] = "loop" <=> io_lock = t
                       /\ pc[t] # "idle" => kind[t] \in Kinds

\* The rounds free of charge a run may have made waiting.
Waited(r) == WaitPolls * r.free + (IF r.becoming_ready THEN r.waited ELSE 0)

\* Between two attempts: each attempt made was one more CBW delivered or one
\* never sent, each free round one more delivered.
Counted(r) ==
    /\ r.cbw_never_sent < r.attempt
    /\ r.free = 0 /\ ~r.spun => r.cbw_never_sent + r.delivered < r.attempt
    /\ r.delivered < r.attempt + r.free + Waited(r)
    /\ r.last_sense \notin Refusals

\* The same when the attempt has been made and not yet been counted.
Attempted(r) ==
    /\ r.cbw_never_sent <= r.attempt
    /\ r.free = 0 /\ ~r.spun => r.cbw_never_sent + r.delivered <= r.attempt
    /\ r.delivered <= r.attempt + r.free + Waited(r)

Bounded(r) == r.delivered <= MaxRetries + r.free + WaitPolls * (r.free + 1)

Explained(r) ==
    /\ r.last_sense \in Refusals => r.result \in {Refusal[r.last_sense], "CANCELLED"}
    /\ r.result \in {Refusal[s] : s \in Refusals} => r.last_sense \in Refusals

Answered(r) == ~(r.delivered = 0 \/ r.spun \/ r.free > 0)

\* A run that is over.
Closed(r) ==
    /\ Bounded(r) /\ Explained(r)
    /\ r.result = "NO_DEVICE" /\ Answered(r) => ~drive.plugged

RunInv ==
    /\ run.result = None => Counted(run)
    /\ run.result # None => Closed(run)
    /\ io_lock = None => run.result = None

\* A command not to be repeated has one delivery, or two if not_ready was
\* raised when it began and has been lowered by its free retry.
OnlyOnce(r, raised) ==
    /\ ~r.becoming_ready
    /\ raised => r.stale
    /\ r.result = None => \/ r.delivered = 0
                          \/ r.delivered = 1 /\ r.stale /\ ~raised
    /\ r.delivered <= (IF r.stale THEN 2 ELSE 1)
RepeatInv ==
    \A t \in Threads : pc[t] = "loop" /\ ~Idempotent(kind[t]) => OnlyOnce(run, not_ready)

\* A disc other than the one last heard of, or read from, is one the drive
\* still has to announce - unless its announcement was swallowed.
Announced == drive.state \in {"loading", "empty"} \/ "changed" \in drive.attention
SwapInv ==
    /\ swallowed = {} /\ knownDisc \notin {None, drive.disc} => Announced
    /\ run.result = "OK" => /\ run.disc \in Nat
                            /\ run.disc # drive.disc => Announced
                            /\ swallowed = {} => knownDisc \in {None, run.disc}

Inv == TypeOK /\ LockInv /\ RunInv /\ RepeatInv /\ SwapInv

----------------------------------------------------------------------------
(* The records the loop makes. *)

Waiting(r, w) == [r EXCEPT !.becoming_ready = TRUE, !.spun = TRUE, !.waited = w]
NextAttempt(r) == [r EXCEPT !.attempt = r.attempt + 1]
Freed(r) == [r EXCEPT !.becoming_ready = FALSE, !.free = r.free + 1]
Delivered(sense) == [run EXCEPT !.delivered = run.delivered + 1, !.last_sense = sense]

LEMMA Products ==
  ASSUME NEW n \in Nat
  PROVE  /\ WaitPolls \in Nat /\ WaitPolls > 0 /\ WaitPolls * n \in Nat
         /\ WaitPolls * (n + 1) = WaitPolls * n + WaitPolls
<1>1. WaitPolls \in Nat \ {0}
  BY WaitPollsPositive
<1> QED  BY <1>1

LEMMA ResultsNotNone == \A x \in Results : x # None
  BY NoneIsNoResult

LEMMA RunIs ==
  ASSUME NEW r \in Run
  PROVE  /\ r.result \in Results \cup {None} /\ r.attempt \in 1 .. MaxRetries
         /\ r.cbw_never_sent \in 0 .. MaxRetries /\ r.becoming_ready \in BOOLEAN
         /\ r.waited \in 0 .. WaitPolls /\ r.last_sense \in Senses /\ r.delivered \in Nat
         /\ r.free \in Nat /\ r.spun \in BOOLEAN /\ r.stale \in BOOLEAN
         /\ r.disc \in Nat \cup {None}
         /\ MaxRetries \in Nat /\ r.attempt \in Nat /\ r.cbw_never_sent \in Nat
         /\ r.waited \in Nat
  BY MaxRetriesPositive, WaitPollsPositive DEF Run

LEMMA NewRunIs ==
  ASSUME NEW stale \in BOOLEAN
  PROVE  /\ NewRun(stale) \in Run /\ NewRun(stale).result = None
         /\ Counted(NewRun(stale)) /\ OnlyOnce(NewRun(stale), stale)
         /\ NewRun(stale).stale = stale
<1>1. NewRun(stale) \in Run
  BY MaxRetriesPositive, WaitPollsPositive DEF NewRun, Run, Senses
<1>2. "none" \notin Refusals
  BY DEF Refusals, Refusal
<1>3. WaitPolls * 0 = 0
  BY Products
<1>4. Counted(NewRun(stale))
  BY <1>2, <1>3 DEF NewRun, Counted, Waited
<1> QED  BY <1>1, <1>4 DEF NewRun, OnlyOnce

LEMMA OverIs ==
  ASSUME NEW r \in Run, NEW x \in Results
  PROVE  /\ Over(r, x) \in Run /\ Over(r, x).result = x
         /\ Over(r, x).attempt = r.attempt /\ Over(r, x).cbw_never_sent = r.cbw_never_sent
         /\ Over(r, x).becoming_ready = r.becoming_ready /\ Over(r, x).waited = r.waited
         /\ Over(r, x).last_sense = r.last_sense /\ Over(r, x).delivered = r.delivered
         /\ Over(r, x).free = r.free /\ Over(r, x).spun = r.spun
         /\ Over(r, x).stale = r.stale /\ Over(r, x).disc = r.disc
  BY DEF Over, Run

LEMMA WaitingIs ==
  ASSUME NEW r \in Run, NEW w \in 0 .. WaitPolls
  PROVE  LET x == Waiting(r, w)
         IN  /\ x \in Run /\ x.result = r.result /\ x.attempt = r.attempt
             /\ x.cbw_never_sent = r.cbw_never_sent /\ x.becoming_ready /\ x.waited = w
             /\ x.last_sense = r.last_sense /\ x.delivered = r.delivered
             /\ x.free = r.free /\ x.spun /\ x.stale = r.stale
  BY DEF Waiting, Run

LEMMA NextAttemptIs ==
  ASSUME NEW r \in Run, r.attempt < MaxRetries
  PROVE  LET x == NextAttempt(r)
         IN  /\ x \in Run /\ x.result = r.result /\ x.attempt = r.attempt + 1
             /\ x.cbw_never_sent = r.cbw_never_sent /\ x.becoming_ready = r.becoming_ready
             /\ x.waited = r.waited /\ x.last_sense = r.last_sense
             /\ x.delivered = r.delivered /\ x.free = r.free /\ x.spun = r.spun
             /\ x.stale = r.stale
<1>1. r.attempt + 1 \in 1 .. MaxRetries
  BY RunIs
<1> QED  BY <1>1 DEF NextAttempt, Run

LEMMA FreedIs ==
  ASSUME NEW r \in Run
  PROVE  LET x == Freed(r)
         IN  /\ x \in Run /\ x.result = r.result /\ x.attempt = r.attempt
             /\ x.cbw_never_sent = r.cbw_never_sent /\ ~x.becoming_ready
             /\ x.last_sense = r.last_sense /\ x.delivered = r.delivered
             /\ x.free = r.free + 1 /\ x.stale = r.stale
<1>1. r.free + 1 \in Nat
  BY RunIs
<1> QED  BY <1>1 DEF Freed, Run

LEMMA DeliveredIs ==
  ASSUME run \in Run, NEW sense \in Senses
  PROVE  LET x == Delivered(sense)
         IN  /\ x \in Run /\ x.result = run.result /\ x.attempt = run.attempt
             /\ x.cbw_never_sent = run.cbw_never_sent
             /\ x.becoming_ready = run.becoming_ready /\ x.waited = run.waited
             /\ x.last_sense = sense /\ x.delivered = run.delivered + 1
             /\ x.free = run.free /\ x.spun = run.spun /\ x.stale = run.stale
<1>1. run.delivered + 1 \in Nat
  BY RunIs
<1> QED  BY <1>1 DEF Delivered, Run

----------------------------------------------------------------------------
(* What the loop counts. *)

LEMMA RefusalsAre ==
  /\ Refusals = {"cp_scrambled", "cp_no_key", "cp_region", "cp_other", "illegal"}
  /\ \A s \in Refusals : Refusal[s] \in {"SCRAMBLED", "NO_KEY", "REGION", "REFUSED"}
  /\ \A s \in Refusals : Refusal[s] \in Results
  /\ Refusals \subseteq Senses
<1>1. Refusals = {"cp_scrambled", "cp_no_key", "cp_region", "cp_other", "illegal"}
  BY DEF Refusals, Refusal
<1>2. \A s \in Refusals : Refusal[s] \in {"SCRAMBLED", "NO_KEY", "REGION", "REFUSED"}
  BY <1>1 DEF Refusal
<1> QED  BY <1>1, <1>2 DEF Results, Senses

LEMMA WaitedIs ==
  ASSUME NEW r \in Run
  PROVE  /\ Waited(r) \in Nat
         /\ Waited(r) <= WaitPolls * (r.free + 1)
         /\ Waited(r) <= WaitPolls * r.free + WaitPolls
         /\ Waited(r) >= WaitPolls * r.free
         /\ WaitPolls * r.free \in Nat /\ WaitPolls \in Nat
         /\ r.becoming_ready => Waited(r) = WaitPolls * r.free + r.waited
         /\ ~r.becoming_ready => Waited(r) = WaitPolls * r.free
<1>1. /\ r.free \in Nat /\ r.waited \in 0 .. WaitPolls
  BY RunIs
<1>2. /\ WaitPolls \in Nat /\ WaitPolls * r.free \in Nat
      /\ WaitPolls * (r.free + 1) = WaitPolls * r.free + WaitPolls
  BY <1>1, Products
<1> DEFINE p == WaitPolls * r.free
           q == WaitPolls * (r.free + 1)
<1>3. p \in Nat /\ q = p + WaitPolls /\ WaitPolls \in Nat
  BY <1>2
<1>4. Waited(r) = p + (IF r.becoming_ready THEN r.waited ELSE 0)
  BY DEF Waited
<1> HIDE DEF p, q
<1>5. /\ Waited(r) \in Nat /\ Waited(r) <= q /\ Waited(r) <= p + WaitPolls /\ Waited(r) >= p
      /\ r.becoming_ready => Waited(r) = p + r.waited
      /\ ~r.becoming_ready => Waited(r) = p
  BY <1>1, <1>3, <1>4
<1> QED  BY <1>3, <1>5 DEF p, q

LEMMA AttemptedIsBounded ==
  ASSUME NEW r \in Run, Attempted(r)
  PROVE  Bounded(r)
<1>1. r.delivered \in Nat /\ r.attempt \in Nat /\ r.free \in Nat /\ r.attempt <= MaxRetries
      /\ MaxRetries \in Nat
  BY RunIs
<1>2. Waited(r) \in Nat /\ Waited(r) <= WaitPolls * (r.free + 1)
  BY WaitedIs
<1>3. r.free + 1 \in Nat
  BY <1>1
<1>4. WaitPolls * (r.free + 1) \in Nat
  BY <1>3, Products
<1> DEFINE q == WaitPolls * (r.free + 1)
<1>5. r.delivered <= r.attempt + r.free + Waited(r) /\ Waited(r) <= q /\ q \in Nat
  BY <1>2, <1>4 DEF Attempted
<1> HIDE DEF q
<1>6. r.delivered <= MaxRetries + r.free + q
  BY <1>1, <1>2, <1>5
<1> QED  BY <1>6 DEF q, Bounded

LEMMA CountedIsAttempted ==
  ASSUME NEW r \in Run, Counted(r)
  PROVE  Attempted(r) /\ Bounded(r)
<1>1. r.delivered \in Nat /\ r.attempt \in Nat /\ r.free \in Nat /\ r.cbw_never_sent \in Nat
      /\ Waited(r) \in Nat
  BY RunIs, WaitedIs
<1>2. Attempted(r)
  BY <1>1 DEF Counted, Attempted
<1> QED  BY <1>2, AttemptedIsBounded

\* One more delivered.
LEMMA DeliveredCounts ==
  ASSUME run \in Run, Counted(run), NEW sense \in Senses
  PROVE  /\ Attempted(Delivered(sense))
         /\ Delivered(sense).cbw_never_sent < Delivered(sense).attempt
<1> DEFINE x == Delivered(sense)
<1>1. /\ x \in Run /\ x.attempt = run.attempt /\ x.cbw_never_sent = run.cbw_never_sent
      /\ x.becoming_ready = run.becoming_ready /\ x.waited = run.waited
      /\ x.delivered = run.delivered + 1 /\ x.free = run.free /\ x.spun = run.spun
  BY DeliveredIs
<1>2. Waited(x) = Waited(run)
  BY <1>1 DEF Waited
<1>3. run.delivered \in Nat /\ run.attempt \in Nat /\ run.free \in Nat
      /\ run.cbw_never_sent \in Nat /\ Waited(run) \in Nat
  BY RunIs, WaitedIs
<1> HIDE DEF x
<1>4. Attempted(x) /\ x.cbw_never_sent < x.attempt
  BY <1>1, <1>2, <1>3 DEF Counted, Attempted
<1> QED  BY <1>4 DEF x

\* The attempt is counted...
LEMMA NextAttemptCounts ==
  ASSUME NEW r \in Run, Attempted(r), r.attempt < MaxRetries, r.last_sense \notin Refusals
  PROVE  Counted(NextAttempt(r))
<1> DEFINE x == NextAttempt(r)
<1>1. /\ x.attempt = r.attempt + 1 /\ x.cbw_never_sent = r.cbw_never_sent
      /\ x.becoming_ready = r.becoming_ready /\ x.waited = r.waited
      /\ x.last_sense = r.last_sense /\ x.delivered = r.delivered
      /\ x.free = r.free /\ x.spun = r.spun
  BY NextAttemptIs
<1>2. Waited(x) = Waited(r)
  BY <1>1 DEF Waited
<1>3. r.delivered \in Nat /\ r.attempt \in Nat /\ r.free \in Nat /\ r.cbw_never_sent \in Nat
      /\ Waited(r) \in Nat
  BY RunIs, WaitedIs
<1> HIDE DEF x
<1>4. Counted(x)
  BY <1>1, <1>2, <1>3 DEF Counted, Attempted
<1> QED  BY <1>4 DEF x

\* ... or is free of charge, to the polls of this wait...
LEMMA WaitingCounts ==
  ASSUME NEW r \in Run, Attempted(r), r.cbw_never_sent < r.attempt,
         r.last_sense \notin Refusals,
         NEW w \in 0 .. WaitPolls, w > (IF r.becoming_ready THEN r.waited ELSE 0)
  PROVE  Counted(Waiting(r, w))
<1> DEFINE x == Waiting(r, w)
<1>1. /\ x \in Run /\ x.attempt = r.attempt /\ x.cbw_never_sent = r.cbw_never_sent
      /\ x.becoming_ready /\ x.waited = w /\ x.last_sense = r.last_sense
      /\ x.delivered = r.delivered /\ x.free = r.free /\ x.spun
  BY WaitingIs
<1> DEFINE p == WaitPolls * r.free
<1>2. Waited(x) = p + w
  BY <1>1, WaitedIs
<1>3. /\ r.delivered \in Nat /\ r.attempt \in Nat /\ r.free \in Nat /\ r.cbw_never_sent \in Nat
      /\ Waited(r) \in Nat /\ p \in Nat /\ WaitPolls \in Nat /\ r.waited \in Nat
  BY RunIs, WaitedIs
<1>4. Waited(r) = p + (IF r.becoming_ready THEN r.waited ELSE 0)
  BY DEF Waited
<1> HIDE DEF x, p
<1>5. w \in Nat /\ Waited(r) < Waited(x)
  BY <1>2, <1>3, <1>4
<1>6. Counted(x)
  BY <1>1, <1>2, <1>3, <1>5 DEF Counted, Attempted
<1> QED  BY <1>6 DEF x

\* ... or to the retry that ends it.
LEMMA FreedCounts ==
  ASSUME NEW r \in Run, Attempted(r), r.cbw_never_sent < r.attempt,
         r.last_sense \notin Refusals
  PROVE  Counted(Freed(r))
<1> DEFINE x == Freed(r)
<1>1. /\ x \in Run /\ x.attempt = r.attempt /\ x.cbw_never_sent = r.cbw_never_sent
      /\ ~x.becoming_ready /\ x.last_sense = r.last_sense
      /\ x.delivered = r.delivered /\ x.free = r.free + 1
  BY FreedIs
<1>2. /\ r.delivered \in Nat /\ r.attempt \in Nat /\ r.free \in Nat /\ r.cbw_never_sent \in Nat
      /\ Waited(r) \in Nat
  BY RunIs, WaitedIs
<1>3. Waited(x) = WaitPolls * x.free /\ Waited(x) \in Nat
  BY <1>1, WaitedIs
<1>4. Waited(r) <= WaitPolls * (r.free + 1)
  BY WaitedIs
<1>5. Waited(r) <= Waited(x)
  BY <1>1, <1>3, <1>4
<1> HIDE DEF x
<1>6. Counted(x)
  BY <1>1, <1>2, <1>3, <1>5 DEF Counted, Attempted
<1> QED  BY <1>6 DEF x

----------------------------------------------------------------------------
(* Where an attempt leads. *)

\* The end of the loop: with its result, or with the verdict on CBWs that
\* never left.
LEMMA FinishIs ==
  ASSUME NEW r \in Run, NEW x \in Results, Finish(r, x), device_gone \in BOOLEAN
  PROVE  \E y \in {x, "NO_DEVICE"} :
            /\ run' = Over(r, y) /\ y \in Results
            /\ y # x => r.cbw_never_sent = r.attempt
            /\ device_gone' \in BOOLEAN
<1>1. "NO_DEVICE" \in Results
  BY DEF Results
<1>2. CASE Verdict(Over(r, x), r.attempt)
  <2>1. run' = Over(r, "NO_DEVICE") /\ device_gone' = TRUE
    BY <1>2 DEF Finish
  <2>2. r.cbw_never_sent = r.attempt
    BY <1>2, OverIs DEF Verdict
  <2> QED  BY <1>1, <2>1, <2>2
<1>3. CASE ~Verdict(Over(r, x), r.attempt)
  <2>1. run' = Over(r, x) /\ device_gone' = (device_gone \/ x = "NO_DEVICE")
    BY <1>3 DEF Finish
  <2> QED  BY <2>1
<1> QED  BY <1>2, <1>3

\* What a step of the loop may leave of the run.
Goes(r) ==
    \/ /\ run' = NextAttempt(r) /\ r.attempt < MaxRetries
       /\ UNCHANGED device_gone
    \/ \E x \in {"IO", "NO_DEVICE"} :
          /\ run' = Over(r, x) /\ device_gone' \in BOOLEAN
          /\ x = "NO_DEVICE" => r.cbw_never_sent = r.attempt

LEMMA SpendAttemptGoes ==
  ASSUME NEW r \in Run, SpendAttempt(r), device_gone \in BOOLEAN
  PROVE  Goes(r)
<1>1. CASE r.attempt < MaxRetries
  <2>1. run' = NextAttempt(r) /\ UNCHANGED device_gone
    BY <1>1 DEF SpendAttempt, NextAttempt
  <2> QED  BY <1>1, <2>1 DEF Goes
<1>2. CASE ~(r.attempt < MaxRetries)
  <2>1. Finish(r, "IO") /\ "IO" \in Results
    BY <1>2 DEF SpendAttempt, Results
  <2>2. PICK y \in {"IO", "NO_DEVICE"} :
            /\ run' = Over(r, y)
            /\ y # "IO" => r.cbw_never_sent = r.attempt
            /\ device_gone' \in BOOLEAN
    BY <2>1, FinishIs
  <2> QED  BY <2>2 DEF Goes
<1> QED  BY <1>1, <1>2

\* A run that goes on is counted, one that ends is bounded.
Sound(r) ==
    /\ r \in Run
    /\ r.result = None => Counted(r)
    /\ r.result # None => Bounded(r) /\ Explained(r)

LEMMA OverIsSound ==
  ASSUME NEW r \in Run, NEW x \in Results, Attempted(r),
         \/ r.last_sense \in Refusals /\ x \in {Refusal[r.last_sense], "CANCELLED"}
         \/ r.last_sense \notin Refusals
            /\ x \in {"OK", "IO", "MEDIA_GONE", "NO_DEVICE", "CANCELLED"}
  PROVE  Sound(Over(r, x)) /\ Over(r, x).result = x /\ x # None
<1> DEFINE o == Over(r, x)
<1>1. /\ o \in Run /\ o.result = x /\ o.last_sense = r.last_sense
      /\ o.delivered = r.delivered /\ o.free = r.free
  BY OverIs
<1>2. Bounded(o)
  BY <1>1, AttemptedIsBounded DEF Bounded
<1>3. x # None
  BY ResultsNotNone
<1> HIDE DEF o
<1>4. Explained(o)
  BY <1>1, RefusalsAre DEF Explained
<1>5. Sound(o) /\ o.result = x /\ x # None
  BY <1>1, <1>2, <1>3, <1>4 DEF Sound
<1> QED  BY <1>5 DEF o

\* What remains of a failed attempt once its sense has been looked at.
LEMMA GoesIsSound ==
  ASSUME NEW r \in Run, Attempted(r), r.result = None, r.last_sense \notin Refusals,
         Goes(r)
  PROVE  /\ Sound(run')
         /\ run'.delivered = r.delivered /\ run'.free = r.free /\ run'.spun = r.spun
         /\ run'.stale = r.stale /\ run'.becoming_ready = r.becoming_ready
         /\ run'.result \in {None, "IO", "NO_DEVICE"}
         /\ run'.result = "NO_DEVICE" => r.cbw_never_sent = r.attempt
<1>1. CASE run' = NextAttempt(r) /\ r.attempt < MaxRetries
  <2> DEFINE x == NextAttempt(r)
  <2>1. /\ x \in Run /\ x.result = None /\ x.delivered = r.delivered
        /\ x.free = r.free /\ x.spun = r.spun /\ x.stale = r.stale
        /\ x.becoming_ready = r.becoming_ready
    BY <1>1, NextAttemptIs
  <2>2. Counted(x)
    BY <1>1, NextAttemptCounts
  <2>3. None # "NO_DEVICE"
    BY ResultsNotNone DEF Results
  <2> HIDE DEF x
  <2>4. run' = x
    BY <1>1 DEF x
  <2> QED  BY <2>1, <2>2, <2>3, <2>4 DEF Sound
<1>2. ASSUME NEW y \in {"IO", "NO_DEVICE"}, run' = Over(r, y),
             y = "NO_DEVICE" => r.cbw_never_sent = r.attempt
      PROVE  /\ Sound(run')
             /\ run'.delivered = r.delivered /\ run'.free = r.free /\ run'.spun = r.spun
             /\ run'.stale = r.stale /\ run'.becoming_ready = r.becoming_ready
             /\ run'.result \in {None, "IO", "NO_DEVICE"}
             /\ run'.result = "NO_DEVICE" => r.cbw_never_sent = r.attempt
  <2>1. y \in Results
    BY DEF Results
  <2>2. Sound(Over(r, y)) /\ Over(r, y).result = y
    BY <2>1, OverIsSound
  <2>3. /\ Over(r, y).delivered = r.delivered /\ Over(r, y).free = r.free
        /\ Over(r, y).spun = r.spun /\ Over(r, y).stale = r.stale
        /\ Over(r, y).becoming_ready = r.becoming_ready
    BY <2>1, OverIs
  <2> QED  BY <1>2, <2>2, <2>3
<1> QED  BY <1>1, <1>2 DEF Goes

\* 02/04, for a command that may be repeated.
LEMMA AwaitReadyIsSound ==
  ASSUME NEW r \in Run, Attempted(r), r.result = None, r.cbw_never_sent < r.attempt,
         r.last_sense \notin Refusals, device_gone \in BOOLEAN, AwaitReady(r)
  PROVE  /\ Sound(run') /\ device_gone' \in BOOLEAN
         /\ run'.free = r.free /\ run'.result \in {None, "IO"}
<1> DEFINE waited == IF r.becoming_ready THEN r.waited ELSE 0
           s == [r EXCEPT !.becoming_ready = TRUE, !.spun = TRUE, !.waited = waited]
<1>1. waited \in 0 .. WaitPolls /\ waited \in Nat /\ WaitPolls \in Nat
  BY RunIs, WaitPollsPositive
<1>2. s = Waiting(r, waited)
  BY DEF Waiting
<1>3. CASE waited < WaitPolls
  <2>1. PICK w \in waited + 1 .. WaitPolls : run' = [s EXCEPT !.waited = w]
    BY <1>3 DEF AwaitReady
  <2>2. device_gone' = device_gone
    BY <1>3 DEF AwaitReady
  <2>3. w \in 0 .. WaitPolls /\ w > waited
    BY <1>1, <2>1
  <2>4. run' = Waiting(r, w)
    BY <2>1 DEF Waiting, Run
  <2>5. Counted(Waiting(r, w))
    BY <2>3, WaitingCounts
  <2>6. Waiting(r, w) \in Run /\ Waiting(r, w).result = None /\ Waiting(r, w).free = r.free
    BY <2>3, WaitingIs
  <2> QED  BY <2>2, <2>4, <2>5, <2>6 DEF Sound
<1>4. CASE ~(waited < WaitPolls)
  <2>1. SpendAttempt(s)
    BY <1>4 DEF AwaitReady
  <2>2. /\ s \in Run /\ s.result = None /\ s.attempt = r.attempt
        /\ s.cbw_never_sent = r.cbw_never_sent /\ s.becoming_ready /\ s.waited = waited
        /\ s.last_sense = r.last_sense /\ s.delivered = r.delivered
        /\ s.free = r.free /\ s.spun
    BY <1>1, <1>2, WaitingIs
  <2> HIDE DEF s
  <2>3. Waited(s) = Waited(r)
    BY <2>2 DEF Waited
  <2>4. Attempted(s)
    BY <2>2, <2>3 DEF Attempted
  <2>5. Goes(s)
    BY <2>1, <2>2, SpendAttemptGoes
  <2>6. /\ Sound(run') /\ run'.free = s.free
        /\ run'.result \in {None, "IO", "NO_DEVICE"}
        /\ run'.result = "NO_DEVICE" => s.cbw_never_sent = s.attempt
    BY <2>2, <2>4, <2>5, GoesIsSound
  <2>7. s.cbw_never_sent # s.attempt
    BY <2>2, RunIs
  <2>8. device_gone' \in BOOLEAN
    BY <2>5 DEF Goes
  <2> QED  BY <2>2, <2>6, <2>7, <2>8
<1> QED  BY <1>3, <1>4

\* A loop left with the result of an attempt whose CBW was received.
LEMMA FinishLeads ==
  ASSUME run \in Run, Counted(run), run.result = None, device_gone \in BOOLEAN,
         NEW sense \in Senses, NEW x \in Results, Finish(Delivered(sense), x),
         \/ sense \in Refusals /\ x = Refusal[sense]
         \/ sense \notin Refusals /\ x \in {"IO", "MEDIA_GONE"},
         NEW raised \in BOOLEAN
  PROVE  /\ Sound(run') /\ device_gone' \in BOOLEAN
         /\ run'.result = x /\ run'.free = run.free
         /\ OnlyOnce(run, raised) => OnlyOnce(run', raised)
<1> DEFINE r == Delivered(sense)
<1>1. /\ r \in Run /\ r.attempt = run.attempt /\ r.cbw_never_sent = run.cbw_never_sent
      /\ r.becoming_ready = run.becoming_ready /\ r.last_sense = sense
      /\ r.delivered = run.delivered + 1 /\ r.free = run.free /\ r.stale = run.stale
  BY DeliveredIs
<1>2. Attempted(r) /\ r.cbw_never_sent < r.attempt
  BY DeliveredCounts
<1> HIDE DEF r
<1>3. r.cbw_never_sent # r.attempt
  BY <1>1, <1>2, RunIs
<1>4. Finish(r, x)
  BY DEF r
<1>5. run' = Over(r, x) /\ device_gone' \in BOOLEAN
  BY <1>1, <1>3, <1>4, FinishIs
<1>6. Sound(Over(r, x)) /\ Over(r, x).result = x /\ x # None
  BY <1>1, <1>2, OverIsSound
<1>7. /\ Over(r, x).free = run.free /\ Over(r, x).stale = run.stale
      /\ Over(r, x).becoming_ready = run.becoming_ready
      /\ Over(r, x).delivered = run.delivered + 1
  BY <1>1, OverIs
<1>8. OnlyOnce(run, raised) => OnlyOnce(run', raised)
  BY <1>5, <1>6, <1>7 DEF OnlyOnce
<1> QED  BY <1>5, <1>6, <1>7, <1>8

\* The branches of the loop body, on a sense they are for.
LEMMA FailureLeads ==
  ASSUME run \in Run, Counted(run), run.result = None, device_gone \in BOOLEAN,
         not_ready \in BOOLEAN, NEW sense \in Senses, NEW t \in Threads,
         AfterFailure(t, Delivered(sense))
  PROVE  /\ Sound(run') /\ device_gone' \in BOOLEAN /\ not_ready' \in BOOLEAN
         /\ run'.result \notin {"OK", "NO_DEVICE"}
         /\ sense = "changed" /\ ~(run'.free > run.free) => run'.result = "MEDIA_GONE"
         /\ ~Idempotent(kind[t]) /\ OnlyOnce(run, not_ready) => OnlyOnce(run', not_ready')
<1> DEFINE r == Delivered(sense)
<1>1. /\ r \in Run /\ r.result = None /\ r.attempt = run.attempt
      /\ r.cbw_never_sent = run.cbw_never_sent
      /\ r.becoming_ready = run.becoming_ready /\ r.last_sense = sense
      /\ r.delivered = run.delivered + 1 /\ r.free = run.free /\ r.stale = run.stale
  BY DeliveredIs
<1>2. Attempted(r) /\ r.cbw_never_sent < r.attempt
  BY DeliveredCounts
<1>3. {"IO", "MEDIA_GONE"} \subseteq Results
  BY DEF Results
<1>4. run.free \in Nat /\ run.delivered \in Nat
  BY RunIs
<1>5. {"no_medium", "changed", "none", "becoming", "attention", "other"} \cap Refusals = {}
  BY RefusalsAre
<1> HIDE DEF r
<1>6. CASE NoMedium(r)
  <2>1. sense = "no_medium" /\ Finish(Delivered(sense), "MEDIA_GONE") /\ not_ready' = not_ready
    BY <1>1, <1>6 DEF NoMedium, r
  <2> QED  BY <1>3, <1>5, <2>1, FinishLeads
<1>7. CASE MayHaveChanged(r)
  <2>1. sense = "changed"
    BY <1>1, <1>7 DEF MayHaveChanged
  <2>2. CASE r.becoming_ready \/ not_ready
    <3>1. RetryFreely(r)
      BY <1>7, <2>2 DEF MayHaveChanged
    <3>2. run' = Freed(r) /\ not_ready' = FALSE /\ device_gone' = device_gone
      BY <3>1 DEF RetryFreely, Freed
    <3>3. /\ Freed(r) \in Run /\ Freed(r).result = None /\ ~Freed(r).becoming_ready
          /\ Freed(r).delivered = run.delivered + 1 /\ Freed(r).free = run.free + 1
          /\ Freed(r).stale = run.stale
      BY <1>1, FreedIs
    <3>4. Counted(Freed(r))
      BY <1>1, <1>2, <1>5, <2>1, FreedCounts
    <3>5. Sound(run')
      BY <3>2, <3>3, <3>4 DEF Sound
    <3>6. None # "OK" /\ None # "NO_DEVICE"
      BY ResultsNotNone DEF Results
    <3>7. OnlyOnce(run, not_ready) => OnlyOnce(run', not_ready')
      BY <1>1, <1>4, <2>2, <3>2, <3>3 DEF OnlyOnce
    <3>8. run'.free > run.free
      BY <1>4, <3>2, <3>3
    <3> QED  BY <3>2, <3>3, <3>5, <3>6, <3>7, <3>8
  <2>3. CASE ~(r.becoming_ready \/ not_ready)
    <3>1. Finish(Delivered(sense), "MEDIA_GONE") /\ not_ready' = not_ready
      BY <1>7, <2>3 DEF MayHaveChanged, r
    <3> QED  BY <1>3, <1>5, <2>1, <3>1, FinishLeads
  <2> QED  BY <2>2, <2>3
<1>8. CASE Refused(t, r)
  <2>1. sense \in Refusals /\ Finish(Delivered(sense), Refusal[sense]) /\ not_ready' = not_ready
    BY <1>1, <1>8 DEF Refused, r
  <2>2. Refusal[sense] \in Results /\ Refusal[sense] \notin {"OK", "NO_DEVICE"}
    BY <2>1, RefusalsAre
  <2>3. sense # "changed"
    BY <1>5, <2>1
  <2> QED  BY <2>1, <2>2, <2>3, FinishLeads
<1>9. CASE Unexplained(t, r)
  <2>1. sense \in {"none", "becoming", "attention", "other"} /\ not_ready' = not_ready
    BY <1>1, <1>9 DEF Unexplained
  <2>2. CASE ~Idempotent(kind[t])
    <3>1. Finish(Delivered(sense), "IO")
      BY <1>9, <2>2 DEF Unexplained, r
    <3> QED  BY <1>3, <1>5, <2>1, <3>1, FinishLeads
  <2>3. CASE Idempotent(kind[t])
    <3>0. None # "OK" /\ None # "NO_DEVICE"
      BY ResultsNotNone DEF Results
    <3>1. CASE AwaitReady(r)
      <4>1. /\ Sound(run') /\ device_gone' \in BOOLEAN /\ run'.result \in {None, "IO"}
        BY <1>1, <1>2, <1>5, <2>1, <3>1, AwaitReadyIsSound
      <4> QED  BY <2>1, <2>3, <3>0, <4>1
    <3>2. CASE SpendAttempt(r)
      <4>1. Goes(r) /\ device_gone' \in BOOLEAN
        BY <1>1, <3>2, SpendAttemptGoes DEF Goes
      <4>2. /\ Sound(run') /\ run'.result \in {None, "IO", "NO_DEVICE"}
            /\ run'.result = "NO_DEVICE" => r.cbw_never_sent = r.attempt
        BY <1>1, <1>2, <1>5, <2>1, <4>1, GoesIsSound
      <4>3. r.cbw_never_sent # r.attempt
        BY <1>1, <1>2, RunIs
      <4> QED  BY <2>1, <2>3, <3>0, <4>1, <4>2, <4>3
    <3> QED  BY <1>9, <2>3, <3>1, <3>2 DEF Unexplained
  <2> QED  BY <2>2, <2>3
<1> QED  BY <1>6, <1>7, <1>8, <1>9 DEF AfterFailure, r

----------------------------------------------------------------------------
(* The steps. *)

LEMMA InitInv == Init => Inv
<1> SUFFICES ASSUME Init PROVE Inv
  OBVIOUS
<1>1. /\ NewRun(FALSE) \in Run /\ NewRun(FALSE).result = None /\ Counted(NewRun(FALSE))
  BY NewRunIs
<1>2. run = NewRun(FALSE) /\ None \notin Threads
  BY NoneIsNothing DEF Init
<1>3. TypeOK
  <2>1. drive \in [state: DriveStates, plugged: {TRUE}, attention: {{}}, disc: {0}]
    BY DEF Init
  <2>2. /\ {TRUE} \subseteq BOOLEAN /\ {0} \subseteq Nat
        /\ {{}} \subseteq SUBSET {"changed", "attention"}
    OBVIOUS
  <2>3. drive \in [state: DriveStates, plugged: BOOLEAN,
                  attention: SUBSET {"changed", "attention"}, disc: Nat]
    BY <2>1, <2>2
  <2>4. /\ cancelled \in BOOLEAN /\ device_gone \in BOOLEAN /\ not_ready \in BOOLEAN
        /\ css_open \in BOOLEAN
    BY DEF Init
  <2>7. events \in 0 .. MaxEvents
    BY MaxEventsNat DEF Init
  <2>5. /\ pc \in [Threads -> {"idle", "check", "queue", "loop"}]
        /\ kind \in [Threads -> Kinds \cup {None}]
    BY DEF Init
  <2>6. io_lock = None /\ knownDisc = None /\ swallowed = {}
    BY DEF Init
  <2> QED  BY <1>1, <1>2, <2>3, <2>4, <2>5, <2>6, <2>7 DEF TypeOK
<1>4. LockInv
  BY <1>2 DEF Init, LockInv
<1>5. RunInv
  BY <1>1, <1>2 DEF RunInv
<1>6. RepeatInv
  BY DEF Init, RepeatInv
<1>7. SwapInv
  BY <1>1, <1>2, ResultsNotNone DEF Init, SwapInv, Results
<1> QED  BY <1>3, <1>4, <1>5, <1>6, <1>7 DEF Inv

\* Who is in the loop is the holder of io_lock, so there is one.
LEMMA HolderIs ==
  ASSUME Inv, NEW t \in Threads, pc[t] = "loop"
  PROVE  /\ io_lock = t /\ t # None /\ kind[t] \in Kinds
         /\ \A u \in Threads : pc[u] = "loop" => u = t
BY NoneIsNothing DEF Inv, LockInv

LEMMA NobodyRuns ==
  ASSUME Inv, io_lock = None
  PROVE  run.result = None /\ \A u \in Threads : pc[u] # "loop"
BY NoneIsNothing DEF Inv, LockInv, RunInv

\* A round of the loop, as far as the run goes.
LEMMA RoundKeeps ==
  ASSUME Inv, NEW t \in Threads, Running(t), UNCHANGED <<io_lock, pc, kind>>,
         Sound(run'),
         run'.result = "NO_DEVICE" /\ Answered(run') => ~drive'.plugged,
         ~Idempotent(kind[t]) /\ OnlyOnce(run, not_ready) => OnlyOnce(run', not_ready')
  PROVE  LockInv' /\ RunInv' /\ RepeatInv'
<1>1. /\ pc[t] = "loop" /\ io_lock = t /\ t # None
      /\ \A u \in Threads : pc[u] = "loop" => u = t
  BY HolderIs DEF Running
<1>2. LockInv'
  BY DEF Inv, LockInv
<1>3. RunInv'
  BY <1>1 DEF RunInv, Sound, Closed
<1>4. RepeatInv'
  BY <1>1 DEF Inv, RepeatInv
<1> QED  BY <1>2, <1>3, <1>4

\* A step that leaves the run alone, and nobody on the way in or out.
LEMMA OutsideKeeps ==
  ASSUME Inv, UNCHANGED <<io_lock, pc, kind, run>>,
         drive'.plugged => drive.plugged,
         not_ready' = not_ready \/ io_lock = None
  PROVE  LockInv' /\ RunInv' /\ RepeatInv'
<1>1. LockInv'
  BY DEF Inv, LockInv
<1>2. RunInv'
  BY DEF Inv, RunInv, Closed
<1>3. RepeatInv'
  <2>1. CASE not_ready' = not_ready
    BY <2>1 DEF Inv, RepeatInv
  <2>2. CASE io_lock = None
    BY <2>2, NobodyRuns DEF RepeatInv
  <2> QED  BY <2>1, <2>2
<1> QED  BY <1>1, <1>2, <1>3

LEMMA EntryKeeps ==
  ASSUME Inv, NEW t \in Threads,
         Refuse(t) \/ Queue(t) \/ \E k \in Kinds : Call(t, k)
  PROVE  Inv'
<1>1. /\ UNCHANGED <<cancelled, device_gone, not_ready, io_lock, css_open, drive, events,
                     knownDisc, swallowed, run>>
      /\ \E label \in {"idle", "check", "queue"} :
            pc' = [pc EXCEPT ![t] = label] /\ pc[t] # "loop"
      /\ \E k \in Kinds \cup {None} : kind' = [kind EXCEPT ![t] = k]
      /\ pc'[t] # "idle" => kind'[t] \in Kinds
  <2>1. CASE Refuse(t)
    BY <2>1 DEF Inv, TypeOK, Refuse, Goto, flags, outside, heard
  <2>2. CASE Queue(t)
    <3>1. kind[t] \in Kinds
      BY <2>2 DEF Inv, LockInv, Queue
    <3>2. kind' = [kind EXCEPT ![t] = kind[t]]
      BY <2>2 DEF Inv, TypeOK, Queue
    <3>3. kind'[t] \in Kinds
      BY <2>2, <3>1 DEF Queue
    <3> QED  BY <2>2, <3>1, <3>2, <3>3 DEF Queue, Goto, flags, outside, heard
  <2>3. CASE \E k \in Kinds : Call(t, k)
    BY <2>3 DEF Inv, TypeOK, Call, Goto, flags, outside, heard
  <2> QED  BY <2>1, <2>2, <2>3
<1>2. TypeOK'
  BY <1>1 DEF Inv, TypeOK
<1>3. \A u \in Threads : pc'[u] = "loop" <=> pc[u] = "loop"
  BY <1>1 DEF Inv, TypeOK
<1>4. \A u \in Threads : u # t => kind'[u] = kind[u] /\ pc'[u] = pc[u]
  BY <1>1 DEF Inv, TypeOK
<1>5. LockInv'
  BY <1>1, <1>3, <1>4 DEF Inv, LockInv
<1>6. RunInv'
  BY <1>1 DEF Inv, RunInv, Closed
<1>7. RepeatInv'
  BY <1>1, <1>3, <1>4 DEF Inv, RepeatInv
<1>8. SwapInv'
  BY <1>1 DEF Inv, SwapInv, Announced
<1> QED  BY <1>2, <1>5, <1>6, <1>7, <1>8 DEF Inv

LEMMA LockKeeps ==
  ASSUME Inv, NEW t \in Threads, Lock(t)
  PROVE  Inv'
<1>1. \A u \in Threads : pc[u] # "loop"
  BY NobodyRuns DEF Lock
<1>2. t # None /\ kind[t] \in Kinds
  BY NoneIsNothing DEF Inv, LockInv, Lock
<1>3. not_ready \in BOOLEAN
  BY DEF Inv, TypeOK
<1>4. /\ run' \in Run /\ run'.result = None /\ Counted(run') /\ OnlyOnce(run', not_ready)
  BY <1>3, NewRunIs DEF Lock
<1>5. TypeOK'
  BY <1>4 DEF Inv, TypeOK, Lock, Goto, flags, outside, heard
<1>6. \A u \in Threads : pc'[u] = "loop" <=> u = t
  BY <1>1 DEF Inv, TypeOK, Lock, Goto
<1>7. LockInv'
  <2>1. \A u \in Threads : pc'[u] = "loop" <=> io_lock' = u
    BY <1>6 DEF Lock
  <2>2. \A u \in Threads : pc'[u] # "idle" => kind'[u] \in Kinds
    BY <1>2 DEF Inv, TypeOK, LockInv, Lock, Goto
  <2> QED  BY <2>1, <2>2 DEF LockInv
<1>8. RunInv'
  BY <1>4 DEF RunInv
<1>9. RepeatInv'
  BY <1>4 DEF RepeatInv, Lock, flags
<1>10. SwapInv'
  BY <1>4, ResultsNotNone DEF Inv, SwapInv, Announced, Lock, outside, heard, Results
<1> QED  BY <1>5, <1>7, <1>8, <1>9, <1>10 DEF Inv

LEMMA UnlockKeeps ==
  ASSUME Inv, NEW t \in Threads, Unlock(t)
  PROVE  Inv'
<1>1. /\ io_lock = t /\ \A u \in Threads : pc[u] = "loop" => u = t
  BY HolderIs DEF Unlock
<1>2. /\ run' \in Run /\ run'.result = None /\ Counted(run')
  BY NewRunIs DEF Unlock
<1>3. run.result = "OK" => run.disc \in Nat
  BY DEF Inv, SwapInv
<1>4. TypeOK'
  BY <1>2, <1>3 DEF Inv, TypeOK, Unlock, Goto, flags, heard
<1>5. \A u \in Threads : pc'[u] # "loop" /\ (pc'[u] # "idle" => u # t /\ pc'[u] = pc[u])
  BY <1>1 DEF Inv, TypeOK, Unlock, Goto
<1>6. LockInv'
  <2>1. \A u \in Threads : pc'[u] = "loop" <=> io_lock' = u
    BY <1>5, NoneIsNothing DEF Unlock
  <2>2. \A u \in Threads : pc'[u] # "idle" => kind'[u] \in Kinds
    BY <1>5 DEF Inv, TypeOK, LockInv, Unlock
  <2> QED  BY <2>1, <2>2 DEF LockInv
<1>7. RunInv'
  BY <1>2 DEF RunInv
<1>8. RepeatInv'
  BY <1>5 DEF RepeatInv
<1>9. SwapInv'
  <2>1. run'.result # "OK" /\ drive' = drive
    BY <1>2, ResultsNotNone DEF Results, Unlock
  <2>2. CASE run.result = "OK" /\ kind[t] = "read"
    BY <2>1, <2>2 DEF Inv, SwapInv, Announced, Unlock
  <2>3. CASE ~(run.result = "OK" /\ kind[t] = "read")
    BY <2>1, <2>3 DEF Inv, SwapInv, Announced, Unlock, heard
  <2> QED  BY <2>2, <2>3
<1> QED  BY <1>4, <1>6, <1>7, <1>8, <1>9 DEF Inv

\* What a round leaves alone.
LEMMA RoundTypes ==
  ASSUME Inv, UNCHANGED <<cancelled, io_lock, pc, kind, css_open, events>>,
         run' \in Run, device_gone' \in BOOLEAN, not_ready' \in BOOLEAN,
         drive' \in [state: DriveStates, plugged: BOOLEAN,
                     attention: SUBSET {"changed", "attention"}, disc: Nat],
         knownDisc' \in {None, knownDisc}, swallowed' \subseteq {"free", "lost"}
  PROVE  TypeOK'
BY DEF Inv, TypeOK

LEMMA RunningIs ==
  ASSUME Inv, NEW t \in Threads, Running(t)
  PROVE  /\ run \in Run /\ run.result = None /\ Counted(run)
         /\ device_gone \in BOOLEAN /\ not_ready \in BOOLEAN
         /\ drive \in [state: DriveStates, plugged: BOOLEAN,
                       attention: SUBSET {"changed", "attention"}, disc: Nat]
         /\ swallowed \subseteq {"free", "lost"}
BY DEF Inv, TypeOK, RunInv, Running

LEMMA CancelledKeeps ==
  ASSUME Inv, NEW t \in Threads, LoopCancelled(t)
  PROVE  Inv'
<1>1. Running(t) /\ run' = Over(run, "CANCELLED") /\ UNCHANGED <<flags, io_lock, pc, kind, outside>>
  BY DEF LoopCancelled
<1>2. run \in Run /\ run.result = None /\ Counted(run) /\ run.last_sense \notin Refusals
  BY <1>1, RunningIs DEF Counted
<1>3. "CANCELLED" \in Results
  BY DEF Results
<1>4. Sound(run') /\ run'.result = "CANCELLED"
  BY <1>1, <1>2, <1>3, CountedIsAttempted, OverIsSound
<1>5. OnlyOnce(run, not_ready) => OnlyOnce(run', not_ready)
  BY <1>1, <1>2, <1>3, <1>4, OverIs, ResultsNotNone DEF OnlyOnce
<1>6. LockInv' /\ RunInv' /\ RepeatInv'
  BY <1>1, <1>4, <1>5, RoundKeeps DEF flags
<1>7. TypeOK'
  BY <1>1, <1>4 DEF Inv, TypeOK, Sound, flags, outside, heard
<1>8. SwapInv'
  BY <1>1, <1>4 DEF Inv, SwapInv, Announced, outside, heard
<1> QED  BY <1>6, <1>7, <1>8 DEF Inv

LEMMA NotSentKeeps ==
  ASSUME Inv, NEW t \in Threads, AttemptNotSent(t)
  PROVE  Inv'
<1> DEFINE s == [run EXCEPT !.cbw_never_sent = @ + 1, !.last_sense = "none"]
<1>1. /\ Running(t) /\ SpendAttempt(s)
      /\ UNCHANGED <<cancelled, not_ready, io_lock, pc, kind, outside>>
  BY DEF AttemptNotSent, Attempting
<1>2. run \in Run /\ run.result = None /\ Counted(run) /\ device_gone \in BOOLEAN
  BY <1>1, RunningIs
<1>3. run.cbw_never_sent + 1 \in 0 .. MaxRetries /\ "none" \in Senses /\ "none" \notin Refusals
  BY <1>2, RunIs, RefusalsAre DEF Counted, Senses
<1>4. /\ s \in Run /\ s.result = None /\ s.attempt = run.attempt
      /\ s.cbw_never_sent = run.cbw_never_sent + 1 /\ s.last_sense = "none"
      /\ s.becoming_ready = run.becoming_ready /\ s.waited = run.waited
      /\ s.delivered = run.delivered /\ s.free = run.free /\ s.spun = run.spun
      /\ s.stale = run.stale
  BY <1>2, <1>3 DEF Run
<1> HIDE DEF s
<1>5. Waited(s) = Waited(run)
  BY <1>4 DEF Waited
<1>6. run.delivered \in Nat /\ run.attempt \in Nat /\ run.free \in Nat
      /\ run.cbw_never_sent \in Nat /\ Waited(run) \in Nat
  BY <1>2, RunIs, WaitedIs
<1>7. Attempted(s)
  BY <1>2, <1>4, <1>5, <1>6 DEF Counted, Attempted
<1>8. Goes(s)
  BY <1>1, <1>2, <1>4, SpendAttemptGoes
<1>9. /\ Sound(run') /\ run'.delivered = s.delivered /\ run'.free = s.free
      /\ run'.spun = s.spun /\ run'.stale = s.stale /\ run'.becoming_ready = s.becoming_ready
      /\ run'.result \in {None, "IO", "NO_DEVICE"}
      /\ run'.result = "NO_DEVICE" => s.cbw_never_sent = s.attempt
  BY <1>3, <1>4, <1>7, <1>8, GoesIsSound
<1>10. device_gone' \in BOOLEAN
  BY <1>2, <1>8 DEF Goes
<1>11. run'.result = "NO_DEVICE" => ~Answered(run')
  BY <1>4, <1>6, <1>7, <1>9 DEF Attempted, Answered
<1>12. OnlyOnce(run, not_ready) => OnlyOnce(run', not_ready')
  BY <1>1, <1>2, <1>4, <1>9 DEF OnlyOnce
<1>13. LockInv' /\ RunInv' /\ RepeatInv'
  BY <1>1, <1>9, <1>11, <1>12, RoundKeeps
<1>14. TypeOK'
  BY <1>1, <1>9, <1>10 DEF Inv, TypeOK, Sound, outside, heard
<1>15. SwapInv'
  BY <1>1, <1>9, ResultsNotNone DEF Inv, SwapInv, Announced, outside, heard, Results
<1> QED  BY <1>13, <1>14, <1>15 DEF Inv

LEMMA NoDeviceKeeps ==
  ASSUME Inv, NEW t \in Threads, AttemptNoDevice(t)
  PROVE  Inv'
<1>1. /\ Running(t) /\ ~drive.plugged /\ Finish(run, "NO_DEVICE")
      /\ UNCHANGED <<cancelled, not_ready, io_lock, pc, kind, outside>>
  BY DEF AttemptNoDevice, Attempting
<1>2. /\ run \in Run /\ run.result = None /\ Counted(run) /\ run.last_sense \notin Refusals
      /\ device_gone \in BOOLEAN
  BY <1>1, RunningIs DEF Counted
<1>3. "NO_DEVICE" \in Results
  BY DEF Results
<1>4. run' = Over(run, "NO_DEVICE") /\ device_gone' \in BOOLEAN
  BY <1>1, <1>2, <1>3, FinishIs
<1>5. Sound(run') /\ run'.result = "NO_DEVICE"
  BY <1>2, <1>3, <1>4, CountedIsAttempted, OverIsSound
<1>6. OnlyOnce(run, not_ready) => OnlyOnce(run', not_ready)
  BY <1>2, <1>3, <1>4, <1>5, OverIs, ResultsNotNone DEF OnlyOnce
<1>7. LockInv' /\ RunInv' /\ RepeatInv'
  BY <1>1, <1>5, <1>6, RoundKeeps DEF outside
<1>8. TypeOK'
  BY <1>1, <1>4, <1>5 DEF Inv, TypeOK, Sound, outside, heard
<1>9. SwapInv'
  BY <1>1, <1>5 DEF Inv, SwapInv, Announced, outside, heard
<1> QED  BY <1>7, <1>8, <1>9 DEF Inv

LEMMA OKKeeps ==
  ASSUME Inv, NEW t \in Threads, AttemptOK(t)
  PROVE  Inv'
<1> DEFINE r == Delivered("none")
<1>1. /\ Running(t) /\ drive.attention = {} /\ drive.state = "ready"
      /\ run' = [Over(r, "OK") EXCEPT !.disc = drive.disc]
      /\ UNCHANGED <<flags, io_lock, pc, kind, outside>>
  BY DEF AttemptOK, Attempting, Received, Delivered
<1>2. /\ run \in Run /\ run.result = None /\ Counted(run) /\ drive.disc \in Nat
  BY <1>1, RunningIs
<1>3. "OK" \in Results /\ "none" \in Senses /\ "none" \notin Refusals
  BY RefusalsAre DEF Results, Senses
<1>4. /\ r \in Run /\ r.last_sense = "none" /\ r.becoming_ready = run.becoming_ready
      /\ r.delivered = run.delivered + 1 /\ r.stale = run.stale
  BY <1>2, <1>3, DeliveredIs
<1>5. Attempted(r)
  BY <1>2, <1>3, DeliveredCounts
<1> DEFINE o == Over(r, "OK")
<1> HIDE DEF r
<1>6. Sound(o) /\ o \in Run /\ o.result = "OK" /\ o.becoming_ready = r.becoming_ready
      /\ o.delivered = r.delivered /\ o.stale = r.stale /\ o.last_sense = r.last_sense
  BY <1>3, <1>4, <1>5, OverIsSound, OverIs
<1> HIDE DEF o
<1>7. /\ run' \in Run /\ run'.disc = drive.disc /\ run'.result = "OK"
      /\ run'.delivered = o.delivered /\ run'.free = o.free /\ run'.last_sense = o.last_sense
      /\ run'.stale = o.stale /\ run'.becoming_ready = o.becoming_ready
  BY <1>1, <1>2, <1>6 DEF o, Run
<1>8. Sound(run')
  BY <1>3, <1>6, <1>7, ResultsNotNone DEF Sound, Bounded, Explained
<1>9. OnlyOnce(run, not_ready) => OnlyOnce(run', not_ready)
  BY <1>2, <1>3, <1>4, <1>6, <1>7, RunIs, ResultsNotNone DEF OnlyOnce
<1>10. LockInv' /\ RunInv' /\ RepeatInv'
  BY <1>1, <1>7, <1>8, <1>9, RoundKeeps DEF flags
<1>11. TypeOK'
  BY <1>1, <1>7 DEF Inv, TypeOK, flags, outside, heard
<1>12. SwapInv'
  BY <1>1, <1>2, <1>7 DEF Inv, SwapInv, Announced, outside, heard
<1> QED  BY <1>10, <1>11, <1>12 DEF Inv

\* A command answered with sense: the drive and what is heard of it differ
\* between the three ways to get there, the rest of the step is the same.
LEMMA FailureKeeps ==
  ASSUME Inv, NEW t \in Threads, Running(t), NEW sense \in Senses,
         AfterFailure(t, Delivered(sense)),
         UNCHANGED <<cancelled, io_lock, pc, kind, css_open, events>>,
         NEW a \in SUBSET drive.attention, drive' = [drive EXCEPT !.attention = a],
         knownDisc' \in {None, knownDisc}, swallowed' \subseteq {"free", "lost"}
  PROVE  /\ TypeOK' /\ LockInv' /\ RunInv' /\ RepeatInv'
         /\ drive'.state = drive.state /\ drive'.disc = drive.disc /\ drive'.attention = a
         /\ run'.result # "OK"
         /\ sense = "changed" /\ ~(run'.free > run.free) => run'.result = "MEDIA_GONE"
<1>1. /\ run \in Run /\ run.result = None /\ Counted(run)
      /\ device_gone \in BOOLEAN /\ not_ready \in BOOLEAN
      /\ drive \in [state: DriveStates, plugged: BOOLEAN,
                    attention: SUBSET {"changed", "attention"}, disc: Nat]
  BY RunningIs
<1>2. /\ Sound(run') /\ device_gone' \in BOOLEAN /\ not_ready' \in BOOLEAN
      /\ run'.result \notin {"OK", "NO_DEVICE"}
      /\ sense = "changed" /\ ~(run'.free > run.free) => run'.result = "MEDIA_GONE"
      /\ ~Idempotent(kind[t]) /\ OnlyOnce(run, not_ready) => OnlyOnce(run', not_ready')
  BY <1>1, FailureLeads
<1>3. a \in SUBSET {"changed", "attention"}
  BY <1>1
<1>4. /\ drive'.state = drive.state /\ drive'.disc = drive.disc /\ drive'.attention = a
      /\ drive' \in [state: DriveStates, plugged: BOOLEAN,
                     attention: SUBSET {"changed", "attention"}, disc: Nat]
  BY <1>1, <1>3
<1>5. LockInv' /\ RunInv' /\ RepeatInv'
  BY <1>2, RoundKeeps
<1>6. TypeOK'
  BY <1>2, <1>4, RoundTypes DEF Sound
<1> QED  BY <1>2, <1>4, <1>5, <1>6

LEMMA HearIs ==
  ASSUME NEW free \in BOOLEAN, Hear(free), swallowed \subseteq {"free", "lost"}
  PROVE  /\ knownDisc' \in {None, knownDisc} /\ swallowed' \subseteq {"free", "lost"}
         /\ run'.result = "MEDIA_GONE" => knownDisc' = None
         /\ run'.result # "MEDIA_GONE" => /\ knownDisc' = knownDisc
                                          /\ swallowed' = {} => swallowed = {} /\ ~free
BY DEF Hear

LEMMA UnexplainedKeeps ==
  ASSUME Inv, NEW t \in Threads, AttemptUnexplained(t)
  PROVE  Inv'
<1>1. /\ Running(t) /\ AfterFailure(t, Delivered("none"))
      /\ UNCHANGED <<cancelled, io_lock, pc, kind, css_open, events, knownDisc>>
  BY DEF AttemptUnexplained, Attempting, Received, Delivered
<1>2. PICK a \in SUBSET drive.attention :
          /\ drive' = [drive EXCEPT !.attention = a]
          /\ swallowed' = IF "changed" \in drive.attention \ a
                          THEN swallowed \cup {"lost"} ELSE swallowed
  BY DEF AttemptUnexplained
<1>3. "none" \in Senses
  BY DEF Senses
<1>4. swallowed' \subseteq {"free", "lost"}
  BY <1>1, <1>2, RunningIs
<1>5. /\ TypeOK' /\ LockInv' /\ RunInv' /\ RepeatInv'
      /\ drive'.state = drive.state /\ drive'.disc = drive.disc /\ drive'.attention = a
      /\ run'.result # "OK"
  BY <1>1, <1>2, <1>3, <1>4, FailureKeeps
<1>6. swallowed' = {} => swallowed = {} /\ ("changed" \in drive.attention => "changed" \in a)
  BY <1>2
<1>7. SwapInv'
  BY <1>1, <1>5, <1>6 DEF Inv, SwapInv, Announced
<1> QED  BY <1>5, <1>7 DEF Inv

LEMMA AttentionKeeps ==
  ASSUME Inv, NEW t \in Threads, AttemptAttention(t)
  PROVE  Inv'
<1>1. /\ Running(t) /\ Hear(run'.free > run.free)
      /\ UNCHANGED <<cancelled, io_lock, pc, kind, css_open, events>>
  BY DEF AttemptAttention, Attempting
<1>2. PICK sense \in drive.attention :
          /\ AfterFailure(t, Delivered(sense))
          /\ drive' = [drive EXCEPT !.attention = @ \ {sense}]
  BY <1>1, RunningIs DEF AttemptAttention, Received, Delivered, Run
<1>3. sense \in {"changed", "attention"} /\ sense \in Senses
  BY <1>1, <1>2, RunningIs DEF Senses
<1> DEFINE a == drive.attention \ {sense}
           free == run'.free > run.free
<1>4. a \in SUBSET drive.attention /\ drive' = [drive EXCEPT !.attention = a]
  BY <1>2
<1>5. free \in BOOLEAN /\ Hear(free)
  BY <1>1
<1> HIDE DEF free
<1>6. swallowed \subseteq {"free", "lost"}
  BY <1>1, RunningIs
<1>7. /\ knownDisc' \in {None, knownDisc} /\ swallowed' \subseteq {"free", "lost"}
      /\ run'.result = "MEDIA_GONE" => knownDisc' = None
      /\ run'.result # "MEDIA_GONE" => /\ knownDisc' = knownDisc
                                       /\ swallowed' = {} => swallowed = {} /\ ~free
  BY <1>5, <1>6, HearIs
<1>8. /\ TypeOK' /\ LockInv' /\ RunInv' /\ RepeatInv'
      /\ drive'.state = drive.state /\ drive'.disc = drive.disc /\ drive'.attention = a
      /\ run'.result # "OK"
      /\ sense = "changed" /\ ~free => run'.result = "MEDIA_GONE"
  BY <1>1, <1>2, <1>3, <1>4, <1>7, FailureKeeps DEF free
<1>9. SwapInv'
  BY <1>3, <1>7, <1>8 DEF Inv, SwapInv, Announced
<1> QED  BY <1>8, <1>9 DEF Inv

LEMMA NotReadyKeeps ==
  ASSUME Inv, NEW t \in Threads, AttemptNotReady(t)
  PROVE  Inv'
<1> DEFINE sense == IF drive.state = "empty" THEN "no_medium" ELSE "becoming"
<1>1. /\ Running(t) /\ AfterFailure(t, Delivered(sense)) /\ Hear(FALSE)
      /\ UNCHANGED <<cancelled, io_lock, pc, kind, css_open, drive, events>>
  BY RunningIs DEF AttemptNotReady, Attempting, Received, Delivered, Run
<1>2. sense \in Senses
  BY DEF Senses
<1> DEFINE a == drive.attention
<1>3. a \in SUBSET drive.attention /\ drive' = [drive EXCEPT !.attention = a]
  BY <1>1, RunningIs
<1>4. /\ knownDisc' \in {None, knownDisc} /\ swallowed' \subseteq {"free", "lost"}
      /\ run'.result = "MEDIA_GONE" => knownDisc' = None
      /\ run'.result # "MEDIA_GONE" => /\ knownDisc' = knownDisc
                                       /\ swallowed' = {} => swallowed = {}
  BY <1>1, RunningIs, HearIs
<1> HIDE DEF sense, a
<1>5. /\ TypeOK' /\ LockInv' /\ RunInv' /\ RepeatInv' /\ run'.result # "OK"
  BY <1>1, <1>2, <1>3, <1>4, FailureKeeps
<1>6. SwapInv'
  BY <1>1, <1>4, <1>5 DEF Inv, SwapInv, Announced
<1> QED  BY <1>5, <1>6 DEF Inv

LEMMA RefusedKeeps ==
  ASSUME Inv, NEW t \in Threads, AttemptRefused(t)
  PROVE  Inv'
<1>1. /\ Running(t) /\ UNCHANGED <<cancelled, io_lock, pc, kind, outside>>
  BY DEF AttemptRefused, Attempting
<1>2. PICK sense \in Refusals \cup {"other"} : AfterFailure(t, Delivered(sense))
  BY <1>1, RunningIs DEF AttemptRefused, Received, Delivered, Run
<1>3. sense \in Senses
  BY <1>2, RefusalsAre DEF Senses
<1> DEFINE a == drive.attention
<1>4. a \in SUBSET drive.attention /\ drive' = [drive EXCEPT !.attention = a]
  BY <1>1, RunningIs DEF outside
<1>5. swallowed' \subseteq {"free", "lost"}
  BY <1>1, RunningIs DEF outside, heard
<1> HIDE DEF a
<1>6. /\ TypeOK' /\ LockInv' /\ RunInv' /\ RepeatInv' /\ run'.result # "OK"
  BY <1>1, <1>2, <1>3, <1>4, <1>5, FailureKeeps DEF outside, heard
<1>7. SwapInv'
  BY <1>1, <1>6 DEF Inv, SwapInv, Announced, outside, heard
<1> QED  BY <1>6, <1>7 DEF Inv

LEMMA SettleKeeps ==
  ASSUME Inv, SettleBeforeIdentify
  PROVE  Inv'
<1>1. /\ io_lock = None /\ knownDisc' = None /\ swallowed' = {}
      /\ UNCHANGED <<cancelled, device_gone, io_lock, css_open, pc, kind, run, events>>
      /\ not_ready' = not_ready \/ not_ready' = TRUE
  BY DEF SettleBeforeIdentify
<1>2. PICK a \in SUBSET drive.attention : drive' = [drive EXCEPT !.attention = a]
  BY DEF SettleBeforeIdentify
<1>3. drive \in [state: DriveStates, plugged: BOOLEAN,
                 attention: SUBSET {"changed", "attention"}, disc: Nat]
  BY DEF Inv, TypeOK
<1>4. /\ drive'.plugged = drive.plugged
      /\ drive' \in [state: DriveStates, plugged: BOOLEAN,
                     attention: SUBSET {"changed", "attention"}, disc: Nat]
  BY <1>2, <1>3
<1>5. LockInv' /\ RunInv' /\ RepeatInv'
  BY <1>1, <1>4, OutsideKeeps
<1>6. TypeOK'
  BY <1>1, <1>4 DEF Inv, TypeOK
<1>7. run'.result # "OK"
  BY <1>1, NobodyRuns, ResultsNotNone DEF Results
<1>8. SwapInv'
  BY <1>1, <1>7 DEF SwapInv
<1> QED  BY <1>5, <1>6, <1>8 DEF Inv

LEMMA OthersKeep ==
  ASSUME Inv, LastRelease \/ ToggleSession
  PROVE  Inv'
<1>1. /\ UNCHANGED <<device_gone, not_ready, io_lock, pc, kind, run, drive, events,
                     knownDisc, swallowed>>
      /\ cancelled' \in BOOLEAN /\ css_open' \in BOOLEAN
  BY DEF Inv, TypeOK, LastRelease, ToggleSession, flags, outside, heard
<1>2. LockInv' /\ RunInv' /\ RepeatInv'
  BY <1>1, OutsideKeeps
<1>3. TypeOK'
  BY <1>1 DEF Inv, TypeOK
<1>4. SwapInv'
  BY <1>1 DEF Inv, SwapInv, Announced
<1> QED  BY <1>2, <1>3, <1>4 DEF Inv

\* A new disc comes announced, and an announcement stays until it is taken.
LEMMA DriveKeeps ==
  ASSUME Inv, Eject \/ Insert \/ SpinDown \/ RaiseAttention \/ Unplug \/ Loaded
  PROVE  Inv'
<1>1. /\ UNCHANGED <<cancelled, device_gone, not_ready, io_lock, css_open, pc, kind, run,
                     knownDisc, swallowed>>
      /\ events' \in {events, events + 1}
      /\ events' # events => events < MaxEvents
  BY DEF Eject, Insert, SpinDown, RaiseAttention, Unplug, Loaded, DriveEvent, flags, heard
<1>2. /\ drive \in [state: DriveStates, plugged: BOOLEAN,
                    attention: SUBSET {"changed", "attention"}, disc: Nat]
      /\ events \in 0 .. MaxEvents
  BY DEF Inv, TypeOK
<1>3. events' \in 0 .. MaxEvents
  BY <1>1, <1>2, MaxEventsNat
<1>4. /\ drive' \in [state: DriveStates, plugged: BOOLEAN,
                     attention: SUBSET {"changed", "attention"}, disc: Nat]
      /\ drive'.plugged => drive.plugged
      /\ Announced => Announced'
      /\ drive'.disc # drive.disc => Announced'
  <2>1. CASE Eject
    <3>1. drive' = [drive EXCEPT !.state = "empty"]
      BY <2>1 DEF Eject, DriveEvent
    <3> QED  BY <1>2, <3>1 DEF Announced, DriveStates
  <2>2. CASE Insert
    <3>1. drive' = [drive EXCEPT !.state = "loading", !.disc = drive.disc + 1]
      BY <2>2 DEF Insert, DriveEvent
    <3>2. drive.disc + 1 \in Nat
      BY <1>2
    <3> QED  BY <1>2, <3>1, <3>2 DEF Announced, DriveStates
  <2>3. CASE SpinDown
    <3>1. drive' = [drive EXCEPT !.state = "waking"] /\ drive.state = "ready"
      BY <2>3 DEF SpinDown, DriveEvent
    <3> QED  BY <1>2, <3>1 DEF Announced, DriveStates
  <2>4. CASE RaiseAttention
    <3>1. drive' = [drive EXCEPT !.attention = drive.attention \cup {"attention"}]
      BY <2>4 DEF RaiseAttention, DriveEvent
    <3> QED  BY <1>2, <3>1 DEF Announced
  <2>5. CASE Unplug
    <3>1. drive' = [drive EXCEPT !.plugged = FALSE]
      BY <2>5 DEF Unplug, DriveEvent
    <3> QED  BY <1>2, <3>1 DEF Announced
  <2>6. CASE Loaded
    <3>1. PICK a \in {{}, {"changed"}} :
             /\ drive.state = "loading" => a # {}
             /\ drive' = [drive EXCEPT !.state = "ready", !.attention = drive.attention \cup a]
      BY <2>6 DEF Loaded
    <3>2. drive.state \in {"loading", "waking"}
      BY <2>6 DEF Loaded
    <3>3. a \subseteq {"changed"} /\ (a # {} => "changed" \in a)
      BY <3>1
    <3>4. /\ drive'.attention = drive.attention \cup a /\ drive'.disc = drive.disc
          /\ drive'.plugged = drive.plugged
          /\ drive' \in [state: DriveStates, plugged: BOOLEAN,
                         attention: SUBSET {"changed", "attention"}, disc: Nat]
      BY <1>2, <3>1, <3>3 DEF DriveStates
    <3> QED  BY <3>1, <3>2, <3>3, <3>4 DEF Announced
  <2> QED  BY <2>1, <2>2, <2>3, <2>4, <2>5, <2>6
<1>5. LockInv' /\ RunInv' /\ RepeatInv'
  BY <1>1, <1>4, OutsideKeeps
<1>6. TypeOK'
  BY <1>1, <1>3, <1>4 DEF Inv, TypeOK
<1>7. SwapInv'
  BY <1>1, <1>4 DEF Inv, SwapInv
<1> QED  BY <1>5, <1>6, <1>7 DEF Inv

LEMMA StutterKeeps ==
  ASSUME Inv, UNCHANGED vars
  PROVE  Inv'
<1>1. UNCHANGED <<cancelled, device_gone, not_ready, io_lock, css_open, pc, kind, run, drive,
                  events, knownDisc, swallowed>>
  BY DEF vars
<1>2. TypeOK' /\ LockInv'
  BY <1>1 DEF Inv, TypeOK, LockInv
<1>3. RunInv' /\ RepeatInv' /\ SwapInv'
  BY <1>1 DEF Inv, RunInv, Closed, RepeatInv, SwapInv, Announced
<1> QED  BY <1>2, <1>3 DEF Inv

LEMMA InvStep == Inv /\ [Next]_vars => Inv'
<1> SUFFICES ASSUME Inv, [Next]_vars PROVE Inv'
  OBVIOUS
<1>1. ASSUME NEW t \in Threads, Refuse(t) \/ Queue(t) \/ \E k \in Kinds : Call(t, k)
      PROVE  Inv'
  BY <1>1, EntryKeeps
<1>2. ASSUME NEW t \in Threads, Lock(t) PROVE Inv'
  BY <1>2, LockKeeps
<1>3. ASSUME NEW t \in Threads, Loop(t) PROVE Inv'
  BY <1>3, CancelledKeeps, NotSentKeeps, NoDeviceKeeps, UnexplainedKeeps, AttentionKeeps,
     NotReadyKeeps, RefusedKeeps, OKKeeps, UnlockKeeps DEF Loop
<1>4. CASE Environment
  BY <1>4, SettleKeeps, OthersKeep, DriveKeeps DEF Environment
<1>5. CASE UNCHANGED vars
  BY <1>5, StutterKeeps
<1> QED  BY <1>1, <1>2, <1>3, <1>4, <1>5 DEF Next, Step

LEMMA InvAlways == Spec => []Inv
  BY InitInv, InvStep, PTL DEF Spec

----------------------------------------------------------------------------
(* The theorems. *)

\* Every field of the entry, local of the loop and state of the drive keeps
\* its type; attempt and the count of unsent CBWs stay within the budget.
THEOREM TypeCorrect == Spec => []TypeOK
<1>1. Inv => TypeOK
  BY DEF Inv
<1> QED  BY <1>1, InvAlways, PTL

\* laser_scsi_cdb() delivers a command that is not safe to repeat at most
\* once - twice if not_ready was raised when it began.
THEOREM RepeatsAreExcluded == Spec => []NotRepeated
<1>1. Inv => NotRepeated
  BY DEF Inv, RepeatInv, NotRepeated, OnlyOnce
<1> QED  BY <1>1, InvAlways, PTL

\* The retry loop delivers no more commands than its budget, the polls of
\* its waits and its free rounds after 06/28/00 allow.
THEOREM DeliveriesEnd == Spec => []DeliveriesAreBounded
<1>1. ASSUME Inv PROVE DeliveriesAreBounded
  <2>1. run \in Run
    BY <1>1 DEF Inv, TypeOK
  <2>2. CASE run.result = None
    BY <1>1, <2>1, <2>2, CountedIsAttempted DEF Inv, RunInv, Bounded, DeliveriesAreBounded
  <2>3. CASE run.result # None
    BY <1>1, <2>3 DEF Inv, RunInv, Closed, Bounded, DeliveriesAreBounded
  <2> QED  BY <2>2, <2>3
<1> QED  BY <1>1, InvAlways, PTL

\* A refusal of the drive comes back as the error code it stands for.
THEOREM RefusalsAreExplained == Spec => []RefusalIsExplained
<1>1. ASSUME Inv PROVE RefusalIsExplained
  <2>1. CASE run.result = None
    <3>1. run.result \notin {Refusal[s] : s \in Refusals}
      BY <2>1, RefusalsAre, ResultsNotNone
    <3> QED  BY <2>1, <3>1 DEF RefusalIsExplained
  <2>2. CASE run.result # None
    BY <1>1, <2>2 DEF Inv, RunInv, Closed, Explained, RefusalIsExplained
  <2> QED  BY <2>1, <2>2
<1> QED  BY <1>1, InvAlways, PTL

\* A swapped disc is reported before it is read, unless a free retry or the
\* bus swallowed its 06/28/00.
THEOREM SwapsAreReported == Spec => []SwapIsReported
<1>1. Inv => SwapIsReported
  BY DEF Inv, SwapInv, SwapIsReported, StrangeDiscRead, Ended
<1> QED  BY <1>1, InvAlways, PTL

\* A device that answered, on no free round, is not declared gone.
THEOREM AnsweringDevicesStay == Spec => []AnsweringDeviceIsNotGone
<1>1. ASSUME Inv, DeclaredGone
      PROVE  run.delivered = 0 \/ run.spun \/ run.free > 0
  <2>1. run.result = "NO_DEVICE" /\ drive.plugged /\ run.result # None
    BY <1>1, ResultsNotNone DEF DeclaredGone, Ended, Results
  <2> QED  BY <1>1, <2>1 DEF Inv, RunInv, Closed, Answered
<1>2. Inv => AnsweringDeviceIsNotGone
  BY <1>1 DEF AnsweringDeviceIsNotGone
<1> QED  BY <1>2, InvAlways, PTL

----------------------------------------------------------------------------
(* Every round of the loop is one less to go. *)

\* What a run has used up since its last free retry: attempts, and the polls
\* of the wait it is in.
Spent(r) == r.attempt + (IF r.becoming_ready THEN r.waited ELSE 0)

Charged ==
    \/ run.free < run'.free
    \/ run.free = run'.free /\ Spent(run) < Spent(run')

(***************************************************************************)
(* A round of the retry loop ends the command or is charged for: to the    *)
(* attempts, to the polls of this wait, or to a free retry.  Who holds     *)
(* io_lock is the only one to touch it, and a finished run, in one step    *)
(* more, gives it back.                                                    *)
(***************************************************************************)
LoopGoesOn ==
    [][\A t \in Threads :
          /\ Loop(t) => \/ io_lock' = None
                        \/ run.result = None /\ (run'.result # None \/ Charged)
          /\ io_lock = t /\ ~Loop(t) => UNCHANGED <<io_lock, run>>]_vars

One(b) == IF b THEN 1 ELSE 0

\* A free retry takes a 06/28/00, which only a drive that comes up raises,
\* and it comes up once an event, and once more if it was found at it.
Pending == One("changed" \in drive.attention) + One(drive.state \in {"loading", "waking"})
EarnedInv == run.free + Pending <= events + 1

(***************************************************************************)
(* The free retries of one command are no more than what has happened to   *)
(* the drive: with DeliveriesAreBounded, a ceiling on what it delivers.    *)
(***************************************************************************)
FreeRoundsAreEarned == run.free <= events + 1

LEMMA SpentIs ==
  ASSUME NEW r \in Run
  PROVE  /\ Spent(r) \in Nat
         /\ r.becoming_ready => Spent(r) = r.attempt + r.waited
         /\ ~r.becoming_ready => Spent(r) = r.attempt
BY RunIs DEF Spent

\* An attempt spent, and the polls of a wait.
LEMMA SpendAttemptCharges ==
  ASSUME NEW r \in Run, r.result = None, Goes(r)
  PROVE  /\ run'.free = r.free
         /\ run'.result # None \/ Spent(r) < Spent(run')
<1>1. CASE run' = NextAttempt(r) /\ r.attempt < MaxRetries
  <2>1. /\ run' \in Run /\ run'.attempt = r.attempt + 1 /\ run'.free = r.free
        /\ run'.becoming_ready = r.becoming_ready /\ run'.waited = r.waited
    BY <1>1, NextAttemptIs
  <2>2. r.attempt \in Nat /\ r.waited \in Nat /\ r.becoming_ready \in BOOLEAN
    BY RunIs
  <2>3. Spent(r) < Spent(run')
    BY <2>1, <2>2 DEF Spent
  <2> QED  BY <2>1, <2>3
<1>2. ASSUME NEW x \in {"IO", "NO_DEVICE"}, run' = Over(r, x)
      PROVE  run'.free = r.free /\ run'.result # None
  BY <1>2, OverIs, ResultsNotNone DEF Results
<1> QED  BY <1>1, <1>2 DEF Goes

LEMMA AwaitReadyCharges ==
  ASSUME NEW r \in Run, r.result = None, device_gone \in BOOLEAN, AwaitReady(r)
  PROVE  /\ run'.free = r.free
         /\ run'.result # None \/ Spent(r) < Spent(run')
<1> DEFINE waited == IF r.becoming_ready THEN r.waited ELSE 0
           s == [r EXCEPT !.becoming_ready = TRUE, !.spun = TRUE, !.waited = waited]
<1>1. waited \in 0 .. WaitPolls /\ waited \in Nat /\ WaitPolls \in Nat /\ r.attempt \in Nat
  BY RunIs, WaitPollsPositive
<1>2. s = Waiting(r, waited)
  BY DEF Waiting
<1>3. Spent(r) = r.attempt + waited
  BY DEF Spent
<1>4. CASE waited < WaitPolls
  <2>1. PICK w \in waited + 1 .. WaitPolls : run' = [s EXCEPT !.waited = w]
    BY <1>4 DEF AwaitReady
  <2>2. w \in 0 .. WaitPolls /\ w > waited /\ w \in Nat
    BY <1>1, <2>1
  <2>3. run' = Waiting(r, w)
    BY <2>1 DEF Waiting, Run
  <2>4. /\ run'.attempt = r.attempt /\ run'.becoming_ready /\ run'.waited = w
        /\ run'.free = r.free
    BY <2>2, <2>3, WaitingIs
  <2>5. Spent(run') = r.attempt + w
    BY <2>4 DEF Spent
  <2> HIDE DEF waited
  <2> QED  BY <1>1, <1>3, <2>2, <2>4, <2>5
<1>5. CASE ~(waited < WaitPolls)
  <2>1. SpendAttempt(s)
    BY <1>5 DEF AwaitReady
  <2>2. /\ s \in Run /\ s.result = None /\ s.attempt = r.attempt
        /\ s.becoming_ready /\ s.waited = waited /\ s.free = r.free
    BY <1>1, <1>2, WaitingIs
  <2> HIDE DEF s
  <2>3. Spent(s) = Spent(r)
    BY <1>3, <2>2 DEF Spent
  <2>4. Goes(s)
    BY <2>1, <2>2, SpendAttemptGoes
  <2> QED  BY <2>2, <2>3, <2>4, SpendAttemptCharges
<1> QED  BY <1>4, <1>5

\* Every branch of the loop body, on a sense it is for: the free retry is
\* the one of 06/28/00.
LEMMA FailureCharges ==
  ASSUME run \in Run, Counted(run), run.result = None, device_gone \in BOOLEAN,
         not_ready \in BOOLEAN, NEW sense \in Senses, NEW t \in Threads,
         AfterFailure(t, Delivered(sense))
  PROVE  /\ run'.result # None \/ Charged
         /\ run'.free = run.free \/ (sense = "changed" /\ run'.free = run.free + 1)
<1> DEFINE r == Delivered(sense)
<1>1. /\ r \in Run /\ r.result = None /\ r.attempt = run.attempt
      /\ r.becoming_ready = run.becoming_ready /\ r.waited = run.waited
      /\ r.last_sense = sense /\ r.free = run.free
  BY DeliveredIs
<1>2. {"IO", "MEDIA_GONE"} \subseteq Results /\ run.free \in Nat
  BY RunIs DEF Results
<1>3. {"no_medium", "changed", "none", "becoming", "attention", "other"} \cap Refusals = {}
  BY RefusalsAre
<1> HIDE DEF r
<1>4. Spent(r) = Spent(run)
  BY <1>1 DEF Spent
<1>5. ASSUME NEW x \in Results, Finish(r, x),
             \/ sense \in Refusals /\ x = Refusal[sense]
             \/ sense \notin Refusals /\ x \in {"IO", "MEDIA_GONE"}
      PROVE  run'.result # None /\ run'.free = run.free
  <2>1. Finish(Delivered(sense), x)
    BY <1>5 DEF r
  <2>2. run'.result = x /\ run'.free = run.free
    BY <1>5, <2>1, FinishLeads
  <2> QED  BY <2>2, ResultsNotNone
<1>6. CASE NoMedium(r)
  <2>1. sense = "no_medium" /\ Finish(r, "MEDIA_GONE")
    BY <1>1, <1>6 DEF NoMedium
  <2> QED  BY <1>2, <1>3, <1>5, <2>1
<1>7. CASE MayHaveChanged(r)
  <2>1. sense = "changed"
    BY <1>1, <1>7 DEF MayHaveChanged
  <2>2. CASE r.becoming_ready \/ not_ready
    <3>1. RetryFreely(r)
      BY <1>7, <2>2 DEF MayHaveChanged
    <3>2. run' = Freed(r)
      BY <3>1 DEF RetryFreely, Freed
    <3>3. run'.free = run.free + 1
      BY <1>1, <3>2, FreedIs
    <3> QED  BY <1>2, <2>1, <3>3 DEF Charged
  <2>3. CASE ~(r.becoming_ready \/ not_ready)
    <3>1. Finish(r, "MEDIA_GONE")
      BY <1>7, <2>3 DEF MayHaveChanged
    <3> QED  BY <1>2, <1>3, <1>5, <2>1, <3>1
  <2> QED  BY <2>2, <2>3
<1>8. CASE Refused(t, r)
  <2>1. sense \in Refusals /\ Finish(r, Refusal[sense]) /\ Refusal[sense] \in Results
    BY <1>1, <1>8, RefusalsAre DEF Refused
  <2> QED  BY <1>5, <2>1
<1>9. CASE Unexplained(t, r)
  <2>1. sense \in {"none", "becoming", "attention", "other"}
    BY <1>1, <1>9 DEF Unexplained
  <2>2. CASE Finish(r, "IO")
    BY <1>2, <1>3, <1>5, <2>1, <2>2
  <2>3. CASE AwaitReady(r)
    BY <1>1, <1>4, <2>3, AwaitReadyCharges DEF Charged
  <2>4. CASE SpendAttempt(r)
    BY <1>1, <1>4, <2>4, SpendAttemptGoes, SpendAttemptCharges DEF Charged
  <2> QED  BY <1>9, <2>2, <2>3, <2>4 DEF Unexplained
<1> QED  BY <1>6, <1>7, <1>8, <1>9 DEF AfterFailure, r

LEMMA LoopCharges ==
  ASSUME Inv, NEW t \in Threads, Loop(t)
  PROVE  \/ io_lock' = None
         \/ run.result = None /\ (run'.result # None \/ Charged)
<1>1. CASE Unlock(t)
  BY <1>1 DEF Unlock
<1>2. CASE Running(t)
  <2>1. /\ run \in Run /\ run.result = None /\ Counted(run)
        /\ device_gone \in BOOLEAN /\ not_ready \in BOOLEAN
        /\ drive.attention \in SUBSET {"changed", "attention"}
    BY <1>2, RunningIs
  <2>2. ASSUME NEW sense \in Senses, AfterFailure(t, Delivered(sense))
        PROVE  run'.result # None \/ Charged
    BY <2>1, <2>2, FailureCharges
  <2>3. CASE LoopCancelled(t)
    <3>1. run' = Over(run, "CANCELLED") /\ "CANCELLED" \in Results
      BY <2>3 DEF LoopCancelled, Results
    <3> QED  BY <2>1, <3>1, OverIs, ResultsNotNone
  <2>4. CASE AttemptNotSent(t)
    <3> DEFINE s == [run EXCEPT !.cbw_never_sent = @ + 1, !.last_sense = "none"]
    <3>1. SpendAttempt(s)
      BY <2>4 DEF AttemptNotSent
    <3>2. run.cbw_never_sent + 1 \in 0 .. MaxRetries /\ "none" \in Senses
      BY <2>1, RunIs DEF Counted, Senses
    <3>3. /\ s \in Run /\ s.result = None /\ s.attempt = run.attempt /\ s.free = run.free
          /\ s.becoming_ready = run.becoming_ready /\ s.waited = run.waited
      BY <2>1, <3>2 DEF Run
    <3> HIDE DEF s
    <3>4. Spent(s) = Spent(run)
      BY <3>3 DEF Spent
    <3> QED  BY <2>1, <3>1, <3>3, <3>4, SpendAttemptGoes, SpendAttemptCharges DEF Charged
  <2>5. CASE AttemptNoDevice(t)
    <3>1. Finish(run, "NO_DEVICE") /\ "NO_DEVICE" \in Results
      BY <2>5 DEF AttemptNoDevice, Results
    <3>2. run' = Over(run, "NO_DEVICE")
      BY <2>1, <3>1, FinishIs
    <3> QED  BY <2>1, <3>1, <3>2, OverIs, ResultsNotNone
  <2>6. CASE AttemptUnexplained(t)
    <3>1. AfterFailure(t, Delivered("none")) /\ "none" \in Senses
      BY <2>6 DEF AttemptUnexplained, Received, Delivered, Senses
    <3> QED  BY <2>1, <2>2, <3>1
  <2>7. CASE AttemptAttention(t)
    <3>1. PICK sense \in drive.attention : AfterFailure(t, Delivered(sense))
      BY <2>1, <2>7 DEF AttemptAttention, Received, Delivered, Run
    <3>2. sense \in Senses
      BY <2>1, <3>1 DEF Senses
    <3> QED  BY <2>1, <2>2, <3>1, <3>2
  <2>8. CASE AttemptNotReady(t)
    <3> DEFINE sense == IF drive.state = "empty" THEN "no_medium" ELSE "becoming"
    <3>1. AfterFailure(t, Delivered(sense)) /\ sense \in Senses
      BY <2>1, <2>8 DEF AttemptNotReady, Received, Delivered, Run, Senses
    <3> QED  BY <2>1, <2>2, <3>1
  <2>9. CASE AttemptRefused(t)
    <3>1. PICK sense \in Refusals \cup {"other"} : AfterFailure(t, Delivered(sense))
      BY <2>1, <2>9 DEF AttemptRefused, Received, Delivered, Run
    <3>2. sense \in Senses
      BY <3>1, RefusalsAre DEF Senses
    <3> QED  BY <2>1, <2>2, <3>1, <3>2
  <2>10. CASE AttemptOK(t)
    <3>1. run' = [Over(Delivered("none"), "OK") EXCEPT !.disc = drive.disc]
      BY <2>10 DEF AttemptOK, Received, Delivered
    <3>2. Delivered("none") \in Run /\ "OK" \in Results
      BY <2>1, DeliveredIs DEF Senses, Results
    <3>3. Over(Delivered("none"), "OK") \in Run /\ Over(Delivered("none"), "OK").result = "OK"
      BY <3>2, OverIs
    <3>4. run'.result = "OK"
      BY <3>1, <3>3 DEF Run
    <3> QED  BY <2>1, <3>2, <3>4, ResultsNotNone
  <2> QED  BY <1>2, <2>3, <2>4, <2>5, <2>6, <2>7, <2>8, <2>9, <2>10
            DEF Loop, Unlock, Running
<1>3. Unlock(t) \/ Running(t)
  BY DEF Loop, LoopCancelled, AttemptNotSent, AttemptNoDevice, AttemptUnexplained,
         AttemptAttention, AttemptNotReady, AttemptRefused, AttemptOK, Attempting
<1> QED  BY <1>1, <1>2, <1>3

\* Everything but the loops of the threads and the way into them.
LEMMA OthersLeaveTheRun ==
  ASSUME Environment \/ UNCHANGED vars
           \/ \E u \in Threads : Refuse(u) \/ Queue(u) \/ \E k \in Kinds : Call(u, k)
  PROVE  UNCHANGED <<io_lock, run>>
BY DEF Environment, LastRelease, ToggleSession, SettleBeforeIdentify, Eject, Insert, SpinDown,
       RaiseAttention, Unplug, Loaded, DriveEvent, Refuse, Queue, Call, vars

LEMMA HolderIsAlone ==
  ASSUME Inv, [Next]_vars, NEW t \in Threads, io_lock = t, ~Loop(t)
  PROVE  UNCHANGED <<io_lock, run>>
<1>1. ASSUME NEW u \in Threads, Loop(u) PROVE FALSE
  <2>1. pc[u] = "loop"
    BY <1>1 DEF Loop, LoopCancelled, AttemptNotSent, AttemptNoDevice, AttemptUnexplained,
         AttemptAttention, AttemptNotReady, AttemptRefused, AttemptOK, Attempting, Unlock, Running
  <2>2. io_lock = u
    BY <2>1, HolderIs
  <2> QED  BY <1>1, <2>2
<1>2. ASSUME NEW u \in Threads, Lock(u) PROVE FALSE
  BY <1>2, NoneIsNothing DEF Lock
<1> QED  BY <1>1, <1>2, OthersLeaveTheRun DEF Next, Step

\* Whoever holds io_lock is a round nearer to dropping it with every round,
\* and nobody else can move it back.
THEOREM LoopsGoOn == Spec => LoopGoesOn
<1>1. ASSUME Inv, [Next]_vars, NEW t \in Threads
      PROVE  /\ Loop(t) => \/ io_lock' = None
                           \/ run.result = None /\ (run'.result # None \/ Charged)
             /\ io_lock = t /\ ~Loop(t) => UNCHANGED <<io_lock, run>>
  BY <1>1, LoopCharges, HolderIsAlone
<1>2. Inv /\ [Next]_vars =>
        [\A t \in Threads :
          /\ Loop(t) => \/ io_lock' = None
                        \/ run.result = None /\ (run'.result # None \/ Charged)
          /\ io_lock = t /\ ~Loop(t) => UNCHANGED <<io_lock, run>>]_vars
  BY <1>1
<1> QED  BY <1>2, InvAlways, PTL DEF Spec, LoopGoesOn

LEMMA PendingIs ==
  /\ Pending \in Nat
  /\ One("changed" \in drive.attention) \in {0, 1}
  /\ One(drive.state \in {"loading", "waking"}) \in {0, 1}
BY DEF Pending, One

LEMMA EarnedInit == Init => EarnedInv
<1> SUFFICES ASSUME Init PROVE EarnedInv
  OBVIOUS
<1>1. drive.attention = {} /\ events = 0 /\ run.free = 0
  BY DEF Init, NewRun
<1>2. One("changed" \in drive.attention) = 0
  BY <1>1 DEF One
<1> QED  BY <1>1, <1>2, PendingIs DEF EarnedInv, Pending

\* A round of the loop: a free retry takes the 06/28/00 it is made for.
LEMMA RoundEarns ==
  ASSUME Inv, EarnedInv, NEW t \in Threads, Loop(t)
  PROVE  EarnedInv'
<1>1. run.free \in Nat /\ events \in Nat
  BY RunIs DEF Inv, TypeOK
<1>2. ASSUME run'.free \in Nat, run'.free + Pending' <= run.free + Pending, events' = events
      PROVE  EarnedInv'
  BY <1>1, <1>2, PendingIs DEF EarnedInv, Pending, One
<1>3. CASE Unlock(t)
  <2>1. run'.free = 0 /\ events' = events /\ drive' = drive
    BY <1>3 DEF Unlock, NewRun
  <2>2. Pending' = Pending
    BY <2>1 DEF Pending
  <2> QED  BY <1>1, <1>2, <2>1, <2>2, PendingIs
<1>4. CASE Running(t)
  <2>1. /\ run \in Run /\ run.result = None /\ Counted(run)
        /\ device_gone \in BOOLEAN /\ not_ready \in BOOLEAN
        /\ drive \in [state: DriveStates, plugged: BOOLEAN,
                      attention: SUBSET {"changed", "attention"}, disc: Nat]
    BY <1>4, RunningIs
  <2>2. ASSUME run'.free = run.free, events' = events,
               drive'.state = drive.state, drive'.attention \subseteq drive.attention
        PROVE  EarnedInv'
    <3>1. /\ One("changed" \in drive'.attention) <= One("changed" \in drive.attention)
          /\ One(drive'.state \in {"loading", "waking"})
                = One(drive.state \in {"loading", "waking"})
      BY <2>2 DEF One
    <3>2. One("changed" \in drive'.attention) \in {0, 1}
      BY DEF One
    <3>3. Pending' <= Pending /\ Pending' \in Nat
      BY <3>1, <3>2, PendingIs DEF Pending
    <3> QED  BY <1>1, <1>2, <2>2, <3>3, PendingIs
  <2>3. ASSUME NEW sense \in Senses, AfterFailure(t, Delivered(sense)), sense # "changed"
        PROVE  run'.free = run.free
    BY <2>1, <2>3, FailureCharges
  <2>4. CASE LoopCancelled(t)
    <3>1. run' = Over(run, "CANCELLED") /\ "CANCELLED" \in Results
          /\ events' = events /\ drive' = drive
      BY <2>4 DEF LoopCancelled, Results, outside
    <3>2. run'.free = run.free
      BY <2>1, <3>1, OverIs
    <3> QED  BY <2>2, <3>1, <3>2
  <2>5. CASE AttemptNotSent(t)
    <3> DEFINE s == [run EXCEPT !.cbw_never_sent = @ + 1, !.last_sense = "none"]
    <3>1. SpendAttempt(s) /\ events' = events /\ drive' = drive
      BY <2>5 DEF AttemptNotSent, outside
    <3>2. run.cbw_never_sent + 1 \in 0 .. MaxRetries /\ "none" \in Senses
      BY <2>1, RunIs DEF Counted, Senses
    <3>3. s \in Run /\ s.result = None /\ s.free = run.free
      BY <2>1, <3>2 DEF Run
    <3> HIDE DEF s
    <3>4. run'.free = run.free
      BY <2>1, <3>1, <3>3, SpendAttemptGoes, SpendAttemptCharges
    <3> QED  BY <2>2, <3>1, <3>4
  <2>6. CASE AttemptNoDevice(t)
    <3>1. Finish(run, "NO_DEVICE") /\ "NO_DEVICE" \in Results
          /\ events' = events /\ drive' = drive
      BY <2>6 DEF AttemptNoDevice, Results, outside
    <3>2. run' = Over(run, "NO_DEVICE")
      BY <2>1, <3>1, FinishIs
    <3>3. run'.free = run.free
      BY <2>1, <3>1, <3>2, OverIs
    <3> QED  BY <2>2, <3>1, <3>3
  <2>7. CASE AttemptUnexplained(t)
    <3>1. AfterFailure(t, Delivered("none")) /\ "none" \in Senses /\ events' = events
      BY <2>7 DEF AttemptUnexplained, Received, Delivered, Senses
    <3>2. PICK a \in SUBSET drive.attention : drive' = [drive EXCEPT !.attention = a]
      BY <2>7 DEF AttemptUnexplained
    <3>3. drive'.state = drive.state /\ drive'.attention \subseteq drive.attention
      BY <2>1, <3>2
    <3> QED  BY <2>2, <2>3, <3>1, <3>3
  <2>8. CASE AttemptAttention(t)
    <3>1. PICK sense \in drive.attention :
             /\ AfterFailure(t, Delivered(sense))
             /\ drive' = [drive EXCEPT !.attention = @ \ {sense}]
      BY <2>1, <2>8 DEF AttemptAttention, Received, Delivered, Run
    <3>2. sense \in Senses /\ events' = events
      BY <2>1, <2>8, <3>1 DEF Senses, AttemptAttention
    <3>3. drive'.state = drive.state /\ drive'.attention = drive.attention \ {sense}
      BY <2>1, <3>1
    <3>4. CASE run'.free = run.free
      BY <2>2, <3>2, <3>3, <3>4
    <3>5. CASE sense = "changed" /\ run'.free = run.free + 1
      <4>1. /\ One("changed" \in drive.attention) = 1 /\ One("changed" \in drive'.attention) = 0
            /\ One(drive'.state \in {"loading", "waking"})
                  = One(drive.state \in {"loading", "waking"})
        BY <3>1, <3>3, <3>5 DEF One
      <4>2. Pending = Pending' + 1 /\ Pending' \in Nat
        BY <4>1, PendingIs DEF Pending
      <4> QED  BY <1>1, <1>2, <3>2, <3>5, <4>2
    <3> QED  BY <2>1, <3>1, <3>2, <3>4, <3>5, FailureCharges
  <2>9. CASE AttemptNotReady(t)
    <3> DEFINE sense == IF drive.state = "empty" THEN "no_medium" ELSE "becoming"
    <3>1. AfterFailure(t, Delivered(sense)) /\ sense \in Senses /\ sense # "changed"
      BY <2>1, <2>9 DEF AttemptNotReady, Received, Delivered, Run, Senses
    <3>2. events' = events /\ drive' = drive
      BY <2>9 DEF AttemptNotReady
    <3> QED  BY <2>2, <2>3, <3>1, <3>2
  <2>10. CASE AttemptRefused(t)
    <3>1. PICK sense \in Refusals \cup {"other"} : AfterFailure(t, Delivered(sense))
      BY <2>1, <2>10 DEF AttemptRefused, Received, Delivered, Run
    <3>2. sense \in Senses /\ sense # "changed" /\ events' = events /\ drive' = drive
      BY <2>10, <3>1, RefusalsAre DEF Senses, AttemptRefused, outside
    <3> QED  BY <2>2, <2>3, <3>1, <3>2
  <2>11. CASE AttemptOK(t)
    <3>1. run' = [Over(Delivered("none"), "OK") EXCEPT !.disc = drive.disc]
          /\ events' = events /\ drive' = drive
      BY <2>11 DEF AttemptOK, Received, Delivered, outside
    <3>2. Delivered("none") \in Run /\ Delivered("none").free = run.free /\ "OK" \in Results
      BY <2>1, DeliveredIs DEF Senses, Results
    <3>3. /\ Over(Delivered("none"), "OK") \in Run
          /\ Over(Delivered("none"), "OK").free = run.free
      BY <3>2, OverIs
    <3>4. run'.free = run.free
      BY <3>1, <3>3 DEF Run
    <3> QED  BY <2>2, <3>1, <3>4
  <2> QED  BY <1>4, <2>4, <2>5, <2>6, <2>7, <2>8, <2>9, <2>10, <2>11
            DEF Loop, Unlock, Running
<1>5. Unlock(t) \/ Running(t)
  BY DEF Loop, LoopCancelled, AttemptNotSent, AttemptNoDevice, AttemptUnexplained,
         AttemptAttention, AttemptNotReady, AttemptRefused, AttemptOK, Attempting
<1> QED  BY <1>3, <1>4, <1>5

\* What happens outside: a drive comes up once for each event that made it
\* come up, and a command begins with no free retry behind it.
LEMMA OutsideEarns ==
  ASSUME Inv, EarnedInv, Environment
  PROVE  EarnedInv'
<1>1. /\ run.free \in Nat /\ events \in Nat
      /\ drive \in [state: DriveStates, plugged: BOOLEAN,
                    attention: SUBSET {"changed", "attention"}, disc: Nat]
  BY RunIs DEF Inv, TypeOK
<1>2. run' = run
  BY OthersLeaveTheRun
<1> DEFINE c == One("changed" \in drive.attention)
           u == One(drive.state \in {"loading", "waking"})
           cc == One("changed" \in drive'.attention)
           uu == One(drive'.state \in {"loading", "waking"})
<1>3. /\ c \in {0, 1} /\ u \in {0, 1} /\ cc \in {0, 1} /\ uu \in {0, 1}
      /\ Pending = c + u /\ Pending' = cc + uu
  BY DEF One, Pending
<1>4. \/ cc + uu <= c + u /\ events' = events
      \/ cc + uu <= c + u + 1 /\ events' = events + 1
  <2>1. CASE LastRelease \/ ToggleSession
    <3>1. drive' = drive /\ events' = events
      BY <2>1 DEF LastRelease, ToggleSession, outside
    <3> QED  BY <1>3, <3>1
  <2>2. CASE SettleBeforeIdentify
    <3>1. PICK a \in SUBSET drive.attention : drive' = [drive EXCEPT !.attention = a]
      BY <2>2 DEF SettleBeforeIdentify
    <3>2. events' = events
      BY <2>2 DEF SettleBeforeIdentify
    <3>3. drive'.state = drive.state /\ drive'.attention \subseteq drive.attention
      BY <1>1, <3>1
    <3>4. cc <= c /\ uu = u
      BY <3>3 DEF One
    <3> HIDE DEF c, u, cc, uu
    <3> QED  BY <1>3, <3>2, <3>4
  <2>3. CASE Eject \/ Insert \/ SpinDown \/ RaiseAttention \/ Unplug
    <3>1. events' = events + 1
      BY <2>3 DEF Eject, Insert, SpinDown, RaiseAttention, Unplug, DriveEvent
    <3>2. "changed" \in drive'.attention => "changed" \in drive.attention
      <4>1. \/ \E x \in {"empty", "waking"} : drive' = [drive EXCEPT !.state = x]
            \/ drive' = [drive EXCEPT !.state = "loading", !.disc = drive.disc + 1]
            \/ drive' = [drive EXCEPT !.attention = drive.attention \cup {"attention"}]
            \/ drive' = [drive EXCEPT !.plugged = FALSE]
        BY <2>3 DEF Eject, Insert, SpinDown, RaiseAttention, Unplug, DriveEvent
      <4> QED  BY <1>1, <4>1
    <3>3. cc <= c
      BY <3>2 DEF One
    <3> HIDE DEF c, u, cc, uu
    <3> QED  BY <1>3, <3>1, <3>3
  <2>4. CASE Loaded
    <3>1. PICK a \in {{}, {"changed"}} :
             drive' = [drive EXCEPT !.state = "ready", !.attention = drive.attention \cup a]
      BY <2>4 DEF Loaded
    <3>2. drive.state \in {"loading", "waking"} /\ events' = events
      BY <2>4 DEF Loaded
    <3>3. drive'.state = "ready"
      BY <1>1, <3>1
    <3>4. u = 1 /\ uu = 0
      BY <3>2, <3>3 DEF One
    <3> HIDE DEF c, u, cc, uu
    <3> QED  BY <1>3, <3>2, <3>4
  <2> QED  BY <2>1, <2>2, <2>3, <2>4 DEF Environment
<1> HIDE DEF c, u, cc, uu
<1>5. run'.free + Pending' <= events' + 1
  BY <1>1, <1>2, <1>3, <1>4 DEF EarnedInv
<1> QED  BY <1>5 DEF EarnedInv

LEMMA EarnedStep == Inv /\ EarnedInv /\ [Next]_vars => EarnedInv'
<1> SUFFICES ASSUME Inv, EarnedInv, [Next]_vars PROVE EarnedInv'
  OBVIOUS
<1>1. ASSUME run'.free \in {0, run.free}, UNCHANGED <<drive, events>> PROVE EarnedInv'
  <2>1. run.free \in Nat /\ events \in Nat
    BY RunIs DEF Inv, TypeOK
  <2>2. Pending' = Pending
    BY <1>1 DEF Pending
  <2>3. run'.free + Pending' <= events' + 1
    BY <1>1, <2>1, <2>2, PendingIs DEF EarnedInv
  <2> QED  BY <2>3 DEF EarnedInv
<1>2. ASSUME NEW t \in Threads, Refuse(t) \/ Queue(t) \/ \E k \in Kinds : Call(t, k)
      PROVE  EarnedInv'
  <2>1. run' = run /\ UNCHANGED <<drive, events>>
    BY <1>2 DEF Refuse, Queue, Call, outside
  <2> QED  BY <1>1, <2>1
<1>3. ASSUME NEW t \in Threads, Lock(t) PROVE EarnedInv'
  <2>1. run'.free = 0 /\ UNCHANGED <<drive, events>>
    BY <1>3 DEF Lock, NewRun, outside
  <2> QED  BY <1>1, <2>1
<1>4. ASSUME NEW t \in Threads, Loop(t) PROVE EarnedInv'
  BY <1>4, RoundEarns
<1>5. CASE Environment
  BY <1>5, OutsideEarns
<1>6. CASE UNCHANGED vars
  <2>1. run' = run /\ UNCHANGED <<drive, events>>
    BY <1>6 DEF vars
  <2> QED  BY <1>1, <2>1
<1> QED  BY <1>2, <1>3, <1>4, <1>5, <1>6 DEF Next, Step

\* Each free retry of a command was paid for with something that happened to
\* the drive, the loading it may have been found at apart.
THEOREM FreeRoundsEarned == Spec => []FreeRoundsAreEarned
<1>1. Inv /\ EarnedInv => FreeRoundsAreEarned
  <2> SUFFICES ASSUME Inv, EarnedInv PROVE FreeRoundsAreEarned
    OBVIOUS
  <2>1. run.free \in Nat /\ events \in Nat
    BY RunIs DEF Inv, TypeOK
  <2> QED  BY <2>1, PendingIs DEF EarnedInv, FreeRoundsAreEarned
<1> QED  BY <1>1, EarnedInit, EarnedStep, InvAlways, PTL DEF Spec

LEMMA Monotone ==
  ASSUME NEW n \in Nat, NEW x \in Nat, NEW y \in Nat, x <= y
  PROVE  n * x <= n * y
<1>1. PICK d \in Nat : y = x + d
  <2>1. y - x \in Nat /\ y = x + (y - x)
    OBVIOUS
  <2> QED  BY <2>1
<1>2. n * y = n * x + n * d /\ n * d \in Nat /\ n * x \in Nat
  BY <1>1
<1> QED  BY <1>2

(***************************************************************************)
(* The ceiling in full: the budget, a free retry for each event of the     *)
(* drive and one for the loading it was found at, and the polls of the     *)
(* waits before, between and after them.                                   *)
(***************************************************************************)
DeliveriesHaveACeiling ==
    run.delivered <= MaxRetries + (events + 1) + WaitPolls * (events + 2)

\* However the drive answers, laser_scsi_cdb() sends it no more CBWs than the
\* loop's constants and what has happened to it allow.
THEOREM DeliveriesCeiling == Spec => []DeliveriesHaveACeiling
<1>1. Inv /\ DeliveriesAreBounded /\ FreeRoundsAreEarned => DeliveriesHaveACeiling
  <2> SUFFICES ASSUME Inv, DeliveriesAreBounded, FreeRoundsAreEarned
               PROVE  DeliveriesHaveACeiling
    OBVIOUS
  <2>1. /\ run.free \in Nat /\ events \in Nat /\ run.delivered \in Nat
        /\ MaxRetries \in Nat /\ WaitPolls \in Nat
    BY RunIs, WaitPollsPositive DEF Inv, TypeOK
  <2>2. run.free + 1 \in Nat /\ events + 2 \in Nat /\ run.free + 1 <= events + 2
        /\ run.free <= events + 1
    BY <2>1 DEF FreeRoundsAreEarned
  <2> DEFINE p == WaitPolls * (run.free + 1)
             q == WaitPolls * (events + 2)
  <2>3. p <= q /\ p \in Nat /\ q \in Nat
    BY <2>1, <2>2, Monotone
  <2>4. run.delivered <= MaxRetries + run.free + p
    BY DEF DeliveriesAreBounded
  <2> HIDE DEF p, q
  <2>5. run.delivered <= MaxRetries + (events + 1) + q
    BY <2>1, <2>2, <2>3, <2>4
  <2> QED  BY <2>5 DEF q, DeliveriesHaveACeiling
<1> QED  BY <1>1, InvAlways, DeliveriesEnd, FreeRoundsEarned, PTL

============================================================================
