------------------------- MODULE ReadChunkedProofs -------------------------
(***************************************************************************)
(* What ReadChunked promises, for every set of readers and requests, every *)
(* bridge, every transfer size and every number of faults and swaps.       *)
(***************************************************************************)
EXTENDS ReadChunked, TLAPS

-----------------------------------------------------------------------------
(* The inductive invariant: where a read stands, what its buffer holds up  *)
(* to there, and what it returned.                                         *)

\* The first m places of the buffer hold the first m sectors asked for.
Holds(r, m) ==
    \A i \in 0 .. m - 1 :
        i \in DOMAIN r.buf /\ r.buf[i] \in Blocks /\ r.buf[i][2] = r.lba + i

\* A read under way: what is left to read, and the size on trial.
Progress(r) ==
    /\ r.kind # "unknown" /\ r.n > 0
    /\ DOMAIN r.buf = 0 .. r.n - 1
    /\ r.done <= r.n
    /\ r.pc \in {"choosing", "sending"} => r.done < r.n
    /\ r.pc = "sending" => /\ r.chunk > 0 /\ r.done + r.chunk <= r.n
                           /\ r.chunk = 1 \/ Bytes(r) <= MaxTransfer
    /\ r.pc = "lowering" => r.trial_cap > 0 /\ r.done > 0
    /\ r.trial_cap > 0 => r.trial_cap >= MinTransfer

\* A read that has returned.
Ended(r) ==
    /\ r.ret \in [st : Statuses, n : Nat]
    /\ r.ret.n > 0 => r.ret.n <= r.n
    /\ Holds(r, r.ret.n)
    /\ r.ret = Count(0) => r.n <= 0

ReadInv(r) ==
    /\ r.pc # "done" => Progress(r) /\ Holds(r, r.done)
    /\ r.pc = "done" => Ended(r)

ReadsTyped == DOMAIN rd = Readers /\ \A t \in Readers : rd[t] = None \/ ReadOK(rd[t])
ReadsInv == \A t \in Readers : rd[t] # None => ReadInv(rd[t])

\* The cap of a registered device.
CapInv == reg # "free" => cap >= MinTransfer

Inv == TypeOK /\ ReadsInv /\ CapInv

-----------------------------------------------------------------------------
(* Sizes. *)

LEMMA BlockSizes == \A kind : BlockSize(kind) \in {2048, 2352}
  BY DEF BlockSize

\* A sector of a form the command accepts comes in the size of its stride.
LEMMA AcceptedFits ==
  ASSUME NEW kind \in Kinds, kind # "unknown", NEW form \in Expected(kind)
  PROVE  SectorBytes(form, Fields(kind)) = BlockSize(kind)
  BY DEF Kinds, Expected, SectorBytes, Fields, BlockSize, SectorForms

\* A chunk has at least one sector, does not reach past the read, and fits
\* the cap unless it is a single sector.
LEMMA ChunkBounds ==
  ASSUME NEW r, r.kind \in Kinds, r.n \in Nat, r.done \in Nat, r.done < r.n,
         r.trial_cap \in Nat, cap \in 0 .. MaxTransfer
  PROVE  /\ ChunkFor(r) \in Nat /\ ChunkFor(r) > 0
         /\ r.done + ChunkFor(r) <= r.n
         /\ ChunkFor(r) = 1 \/ ChunkFor(r) * BlockSize(r.kind) <= MaxTransfer
<1>1. CapSeen(r) \in Nat /\ CapSeen(r) <= MaxTransfer
  BY CapsArePositive DEF CapSeen, Least
<1>2. CASE BlockSize(r.kind) = 2048
  <2>1. CapSeen(r) \div 2048 \in Nat /\ (CapSeen(r) \div 2048) * 2048 <= CapSeen(r)
    BY <1>1
  <2> QED  BY <1>1, <1>2, <2>1, CapsArePositive DEF ChunkFor, Least, Largest
<1>3. CASE BlockSize(r.kind) = 2352
  <2>1. CapSeen(r) \div 2352 \in Nat /\ (CapSeen(r) \div 2352) * 2352 <= CapSeen(r)
    BY <1>1
  <2> QED  BY <1>1, <1>3, <2>1, CapsArePositive DEF ChunkFor, Least, Largest
<1> QED  BY <1>2, <1>3, BlockSizes

\* Half a chunk that failed, but for the floor, is a smaller chunk.
LEMMA HalfIsSmaller ==
  ASSUME NEW r, NEW chunk \in Nat, chunk > 1, r.kind \in Kinds,
         r.n \in Nat, r.done \in Nat, r.done < r.n, cap \in 0 .. MaxTransfer,
         chunk * BlockSize(r.kind) > MinTransfer,
         r.trial_cap = Largest((chunk * BlockSize(r.kind)) \div 2, MinTransfer)
  PROVE  ChunkFor(r) < chunk
<1>0. MinTransfer \in Nat /\ MinTransfer > 0 /\ MaxTransfer \in Nat
  BY CapsArePositive
<1>1. ASSUME NEW size \in {2048, 2352}, size = BlockSize(r.kind)
      PROVE  ChunkFor(r) < chunk
  <2>1. r.trial_cap \in Nat /\ r.trial_cap > 0 /\ r.trial_cap < chunk * size
    BY <1>0, <1>1 DEF Largest
  <2>2. CapSeen(r) \in Nat /\ CapSeen(r) < chunk * size
    BY <1>0, <2>1 DEF CapSeen, Least
  <2>3. CapSeen(r) \div size < chunk
    <3>1. CASE size = 2048  BY <2>2, <3>1
    <3>2. CASE size = 2352  BY <2>2, <3>2
    <3> QED  BY <3>1, <3>2
  <2>4. CapSeen(r) \div size \in Nat
    <3>1. CASE size = 2048  BY <2>2, <3>1
    <3>2. CASE size = 2352  BY <2>2, <3>2
    <3> QED  BY <3>1, <3>2
  <2> QED  BY <1>1, <2>3, <2>4 DEF ChunkFor, Least, Largest
<1> QED  BY <1>1, BlockSizes

-----------------------------------------------------------------------------
(* A step of one read. *)

LEMMA OneRead ==
  ASSUME NEW t \in Readers, NEW x, rd' = [rd EXCEPT ![t] = x],
         ReadsTyped, ReadsInv, ReadOK(x), ReadInv(x)
  PROVE  ReadsTyped' /\ ReadsInv'
  BY DEF ReadsTyped, ReadsInv

\* What Return leaves of a read.
Left(r, ret) ==
    [r EXCEPT !.pc = "done", !.ret = ret, !.sees = FALSE, !.done = 0,
              !.chunk = 0, !.trial_cap = 0, !.trial_end = 0,
              !.buf = [i \in {j \in DOMAIN @ : j < ret.n} |-> @[i]]]

\* The type of a read with a buffer from among bufs.
TypedWith(bufs) ==
    [pc : {"choosing", "sending", "lowering", "done"},
     kind : Kinds, lba : Nat, n : Int, sees : BOOLEAN,
     done : Nat, chunk : Nat, trial_cap : Nat, trial_end : Nat, buf : bufs,
     walk : (0 .. MaxSwaps) \cup {None},
     ret : {None} \cup [st : Statuses, n : Nat]]

LEMMA ReadOKIs ==
  ASSUME NEW r
  PROVE  ReadOK(r) <=> /\ DOMAIN r.buf \subseteq Nat
                       /\ r \in TypedWith([DOMAIN r.buf -> Blocks \cup {None}])
  BY DEF ReadOK, TypedWith

\* A read with another buffer.
LEMMA Rebuffered ==
  ASSUME NEW r, ReadOK(r), NEW b, DOMAIN b \subseteq Nat,
         b \in [DOMAIN b -> Blocks \cup {None}]
  PROVE  LET x == [r EXCEPT !.buf = b]
         IN  /\ ReadOK(x)
             /\ x.buf = b /\ x.pc = r.pc /\ x.kind = r.kind /\ x.lba = r.lba /\ x.n = r.n
             /\ x.sees = r.sees /\ x.done = r.done /\ x.chunk = r.chunk
             /\ x.trial_cap = r.trial_cap /\ x.trial_end = r.trial_end
             /\ x.walk = r.walk /\ x.ret = r.ret
<1> DEFINE x == [r EXCEPT !.buf = b]
           A == [DOMAIN r.buf -> Blocks \cup {None}]
           B == [DOMAIN b -> Blocks \cup {None}]
<1>1. r \in TypedWith(A) /\ b \in B
  BY ReadOKIs
<1> HIDE DEF A, B
<1>2. x \in TypedWith(B)
  BY <1>1 DEF TypedWith
<1>3. /\ x.buf = b /\ x.pc = r.pc /\ x.kind = r.kind /\ x.lba = r.lba /\ x.n = r.n
      /\ x.sees = r.sees /\ x.done = r.done /\ x.chunk = r.chunk
      /\ x.trial_cap = r.trial_cap /\ x.trial_end = r.trial_end
      /\ x.walk = r.walk /\ x.ret = r.ret
  BY <1>1 DEF TypedWith
<1> HIDE DEF x
<1>4. ReadOK(x)
  BY <1>2, <1>3, ReadOKIs DEF B
<1> QED  BY <1>3, <1>4 DEF x

LEMMA LeftIs ==
  ASSUME NEW r, NEW ret, ReadOK(r), ret \in [st : Statuses, n : Nat]
  PROVE  LET x == Left(r, ret)
         IN  /\ ReadOK(x)
             /\ x.pc = "done" /\ x.ret = ret /\ x.kind = r.kind /\ x.lba = r.lba
             /\ x.n = r.n /\ x.walk = r.walk /\ x.trial_cap = 0
             /\ DOMAIN x.buf = {j \in DOMAIN r.buf : j < ret.n}
             /\ \A i \in DOMAIN x.buf : x.buf[i] = r.buf[i]
<1> DEFINE b == [i \in {j \in DOMAIN r.buf : j < ret.n} |-> r.buf[i]]
           B == [DOMAIN b -> Blocks \cup {None}]
           A == [DOMAIN r.buf -> Blocks \cup {None}]
           x == Left(r, ret)
<1>1. b \in B /\ DOMAIN b \subseteq Nat
  BY DEF ReadOK
<1>2. x = [r EXCEPT !.pc = "done", !.ret = ret, !.sees = FALSE, !.done = 0,
              !.chunk = 0, !.trial_cap = 0, !.trial_end = 0, !.buf = b]
  BY DEF Left
<1>3. r \in TypedWith(A)
  BY ReadOKIs
<1>4. DOMAIN b = {j \in DOMAIN r.buf : j < ret.n} /\ \A i \in DOMAIN b : b[i] = r.buf[i]
  OBVIOUS
<1> HIDE DEF A, B, b, x
<1>5. /\ x.pc = "done" /\ x.ret = ret /\ x.kind = r.kind /\ x.lba = r.lba
      /\ x.n = r.n /\ x.walk = r.walk /\ x.trial_cap = 0 /\ x.buf = b
  BY <1>2, <1>3 DEF TypedWith
<1>6. x \in TypedWith(B)
  BY <1>1, <1>2, <1>3 DEF TypedWith
<1>7. ReadOK(x)
  BY <1>1, <1>5, <1>6, ReadOKIs DEF B
<1> QED  BY <1>4, <1>5, <1>7 DEF x

LEMMA ReturnKeeps ==
  ASSUME NEW t \in Readers, NEW r, NEW ret, ReadOK(r),
         ret \in [st : Statuses, n : Nat],
         ret.n > 0 => ret.n <= r.n, Holds(r, ret.n), ret = Count(0) => r.n <= 0,
         ReadsTyped, ReadsInv, Return(t, r, ret)
  PROVE  ReadsTyped' /\ ReadsInv'
<1> DEFINE x == Left(r, ret)
<1>1. rd' = [rd EXCEPT ![t] = x]
  BY DEF Return, Left
<1> HIDE DEF x
<1>2. /\ ReadOK(x)
      /\ x.pc = "done" /\ x.ret = ret /\ x.kind = r.kind /\ x.lba = r.lba
      /\ x.n = r.n /\ x.walk = r.walk
      /\ DOMAIN x.buf = {j \in DOMAIN r.buf : j < ret.n}
      /\ \A i \in DOMAIN x.buf : x.buf[i] = r.buf[i]
  BY LeftIs DEF x
<1>3. Holds(x, ret.n)
  BY <1>2 DEF Holds, ReadOK
<1>4. ReadInv(x)
  BY <1>2, <1>3 DEF ReadInv, Ended
<1> QED  BY <1>1, <1>2, <1>4, OneRead

\* An error is no count.
LEMMA StatusIsNoCount ==
  ASSUME NEW st \in Statuses, st # "OK"
  PROVE  /\ Status(st) \in [st : Statuses, n : Nat]
         /\ Status(st).n = 0 /\ Status(st) # Count(0)
<1>1. Status(st).st = st /\ Count(0).st = "OK" /\ Status(st).n = 0
  BY DEF Status, Count
<1> QED  BY <1>1 DEF Status

LEMMA CountIs ==
  ASSUME NEW n \in Nat
  PROVE  /\ Count(n) \in [st : Statuses, n : Nat]
         /\ Count(n).n = n /\ (Count(n) = Count(0) => n = 0)
<1>1. Count(n).n = n /\ Count(0).n = 0
  BY DEF Count
<1> QED  BY <1>1 DEF Count, Statuses

LEMMA HoldsNothing == \A r : Holds(r, 0)
  BY DEF Holds

-----------------------------------------------------------------------------
(* Start and Choose. *)

LEMMA NotReadIs ==
  ASSUME NEW n \in Int
  PROVE  /\ NotRead(n) \in [DOMAIN NotRead(n) -> Blocks \cup {None}]
         /\ DOMAIN NotRead(n) = 0 .. n - 1 /\ DOMAIN NotRead(n) \subseteq Nat
  BY DEF NotRead

Walks == (0 .. MaxSwaps) \cup {None}

LEMMA WalkOnIs ==
  ASSUME NEW t \in Readers, ReadsTyped, ReadsInv, ~InProgress(t)
  PROVE  WalkOn(rd[t]) \in Walks
<1> DEFINE r == rd[t]
<1>1. r = None \/ (ReadOK(r) /\ Ended(r))
  BY DEF ReadsTyped, ReadsInv, ReadInv, InProgress
<1> HIDE DEF r
<1>2. CASE r = None \/ r.ret.st = "MEDIA_GONE"
  BY <1>2 DEF WalkOn, Walks, r
<1>3. CASE r # None /\ r.ret.st # "MEDIA_GONE"
  <2>1. ReadOK(r) /\ Ended(r)
    BY <1>1, <1>3
  <2>2. r.walk \in Walks /\ r.ret.n \in Nat
    BY <2>1 DEF ReadOK, Ended, Walks
  <2>3. r.ret.n > 0 => r.buf[0][1] \in Walks
    <3>1. r.ret.n > 0 => 0 \in 0 .. r.ret.n - 1
      BY <2>2
    <3>2. r.ret.n > 0 => r.buf[0] \in Blocks
      BY <2>1, <3>1 DEF Ended, Holds
    <3> QED  BY <3>2 DEF Blocks, Walks
  <2> QED  BY <1>3, <2>2, <2>3 DEF WalkOn, r
<1> QED  BY <1>2, <1>3

LEMMA NewReadIs ==
  ASSUME NEW q, q.kind \in Kinds, q.lba \in Nat, q.n \in Int, NEW walk \in Walks
  PROVE  ReadOK(NewRead(q, walk))
<1> DEFINE b == NotRead(q.n)
<1>1. b \in [DOMAIN b -> Blocks \cup {None}] /\ DOMAIN b \subseteq Nat
  BY NotReadIs
<1> HIDE DEF b
<1>2. NewRead(q, walk) = [pc |-> "choosing", kind |-> q.kind, lba |-> q.lba, n |-> q.n,
     sees |-> reg # "free", done |-> 0, chunk |-> 0,
     trial_cap |-> 0, trial_end |-> 0,
     buf |-> b, walk |-> walk, ret |-> None]
  BY DEF NewRead, b
<1> QED  BY <1>1, <1>2 DEF ReadOK, Walks

LEMMA AtOnceIs ==
  ASSUME NEW q, q.kind \in Kinds, q.lba \in Nat, q.n \in Int, NEW walk \in Walks,
         NEW ret, ret \in [st : Statuses, n : Nat], ret.n = 0,
         ret = Count(0) => q.n <= 0
  PROVE  LET x == ReturnedAtOnce(q, walk, ret)
         IN  ReadOK(x) /\ ReadInv(x) /\ x.pc = "done" /\ x.ret = ret /\ x.walk = walk
<1> DEFINE b == NotRead(0)
           y == NewRead(q, walk)
           x == ReturnedAtOnce(q, walk, ret)
<1>1. b \in [DOMAIN b -> Blocks \cup {None}] /\ DOMAIN b \subseteq Nat
  BY NotReadIs
<1>2. ReadOK(y) /\ y.n = q.n /\ y.walk = walk
  BY NewReadIs DEF NewRead
<1>3. x = [y EXCEPT !.pc = "done", !.sees = FALSE, !.buf = b, !.ret = ret]
  BY DEF ReturnedAtOnce
<1> HIDE DEF b, x, y
<1>4. /\ ReadOK(x)
      /\ x.pc = "done" /\ x.ret = ret /\ x.n = q.n /\ x.walk = walk
  <2> DEFINE z == [y EXCEPT !.buf = b]
             B == [DOMAIN b -> Blocks \cup {None}]
  <2>1. ReadOK(z) /\ z.buf = b /\ z.n = q.n /\ z.walk = walk
    BY <1>1, <1>2, Rebuffered
  <2>2. y \in TypedWith([DOMAIN y.buf -> Blocks \cup {None}])
    BY <1>2, ReadOKIs
  <2>3. x = [z EXCEPT !.pc = "done", !.sees = FALSE, !.ret = ret]
    BY <1>3, <2>2 DEF TypedWith
  <2> HIDE DEF z
  <2>4. z \in TypedWith(B)
    BY <2>1, ReadOKIs
  <2> HIDE DEF B
  <2>5. x \in TypedWith(B) /\ x.buf = b /\ x.pc = "done" /\ x.ret = ret
        /\ x.n = q.n /\ x.walk = walk
    BY <2>1, <2>3, <2>4 DEF TypedWith
  <2> QED  BY <1>1, <2>5, ReadOKIs DEF B
<1>5. ReadInv(x)
  BY <1>4 DEF ReadInv, Ended, Holds
<1> QED  BY <1>4, <1>5 DEF x

\* What a call starts as: refused, over at once, or about to choose a chunk.
StartsWith(t, q, walk) ==
    \/ q.kind = "unknown" /\ rd' = [rd EXCEPT ![t] = ReturnedAtOnce(q, walk, Status("INVALID"))]
    \/ /\ q.kind # "unknown" /\ q.n <= 0
       /\ rd' = [rd EXCEPT ![t] = ReturnedAtOnce(q, walk, Count(0))]
    \/ q.kind # "unknown" /\ q.n > 0 /\ rd' = [rd EXCEPT ![t] = NewRead(q, walk)]

LEMMA StartIs ==
  ASSUME NEW t \in Readers, ReadsTyped, ReadsInv, Start(t)
  PROVE  \E q \in Requests : StartsWith(t, q, WalkOn(rd[t]))
<1> DEFINE walk == WalkOn(rd[t])
<1>1. PICK q \in Requests :
          rd' = [rd EXCEPT ![t] =
                   IF q.kind = "unknown" THEN ReturnedAtOnce(q, walk, Status("INVALID"))
                   ELSE IF q.n <= 0 THEN ReturnedAtOnce(q, walk, Count(0))
                   ELSE NewRead(q, walk)]
  BY DEF Start
<1>2. q.n \in Int
  BY RequestsTyped
<1> HIDE DEF walk
<1>3. ~(q.n <= 0) <=> q.n > 0
  BY <1>2
<1>4. StartsWith(t, q, walk)
  BY <1>1, <1>3 DEF StartsWith
<1> QED  BY <1>4 DEF walk

LEMMA StartKeeps ==
  ASSUME NEW t \in Readers, ReadsTyped, ReadsInv, Start(t)
  PROVE  ReadsTyped' /\ ReadsInv'
<1> DEFINE walk == WalkOn(rd[t])
<1>0. walk \in Walks
  BY WalkOnIs DEF Start
<1>1. PICK q \in Requests : StartsWith(t, q, walk)
  BY StartIs
<1>2. q.kind \in Kinds /\ q.lba \in Nat /\ q.n \in Int
  BY RequestsTyped
<1> HIDE DEF walk
<1>3. CASE rd' = [rd EXCEPT ![t] = ReturnedAtOnce(q, walk, Status("INVALID"))]
  <2>2. Status("INVALID") # Count(0) /\ Status("INVALID").n = 0
        /\ Status("INVALID") \in [st : Statuses, n : Nat]
    BY StatusIsNoCount DEF Statuses
  <2>3. LET x == ReturnedAtOnce(q, walk, Status("INVALID")) IN ReadOK(x) /\ ReadInv(x)
    BY <1>0, <1>2, <2>2, AtOnceIs
  <2> QED  BY <1>3, <2>3, OneRead
<1>4. CASE q.n <= 0 /\ rd' = [rd EXCEPT ![t] = ReturnedAtOnce(q, walk, Count(0))]
  <2>2. Count(0).n = 0 /\ Count(0) \in [st : Statuses, n : Nat]
    BY CountIs
  <2>3. LET x == ReturnedAtOnce(q, walk, Count(0)) IN ReadOK(x) /\ ReadInv(x)
    BY <1>0, <1>2, <1>4, <2>2, AtOnceIs
  <2> QED  BY <1>4, <2>3, OneRead
<1>5. CASE q.kind # "unknown" /\ q.n > 0 /\ rd' = [rd EXCEPT ![t] = NewRead(q, walk)]
  <2>2. ReadOK(NewRead(q, walk))
    BY <1>0, <1>2, NewReadIs
  <2>3. ReadInv(NewRead(q, walk))
    BY <1>2, <1>5, NotReadIs DEF ReadInv, Progress, Holds, NewRead
  <2> QED  BY <1>5, <2>2, <2>3, OneRead
<1> QED  BY <1>1, <1>3, <1>4, <1>5 DEF StartsWith

LEMMA ChooseKeeps ==
  ASSUME NEW t \in Readers, TypeOK, ReadsTyped, ReadsInv, Choose(t)
  PROVE  ReadsTyped' /\ ReadsInv'
<1> DEFINE r == rd[t]
           x == [r EXCEPT !.chunk = ChunkFor(r), !.pc = "sending"]
<1>1. rd' = [rd EXCEPT ![t] = x]
  BY DEF Choose
<1>2. /\ ReadOK(r) /\ r.pc = "choosing" /\ Progress(r) /\ Holds(r, r.done)
  BY DEF Choose, ReadsTyped, ReadsInv, ReadInv
<1>3. /\ ChunkFor(r) \in Nat /\ ChunkFor(r) > 0
      /\ r.done + ChunkFor(r) <= r.n
      /\ ChunkFor(r) = 1 \/ ChunkFor(r) * BlockSize(r.kind) <= MaxTransfer
  BY <1>2, ChunkBounds DEF ReadOK, Progress, TypeOK
<1> HIDE DEF r
<1>4. /\ ReadOK(x)
      /\ x.pc = "sending" /\ x.chunk = ChunkFor(r) /\ x.kind = r.kind /\ x.n = r.n
      /\ x.lba = r.lba /\ x.done = r.done /\ x.buf = r.buf /\ x.walk = r.walk
      /\ x.trial_cap = r.trial_cap
  BY <1>2, <1>3 DEF ReadOK
<1> HIDE DEF x
<1>5. ReadInv(x)
  BY <1>2, <1>3, <1>4 DEF ReadInv, Progress, Holds, Bytes
<1> QED  BY <1>1, <1>4, <1>5, OneRead

-----------------------------------------------------------------------------
(* What a command makes of a read. *)

\* r is s with another buffer past what it has read.
SameUpTo(r, s) ==
    /\ ReadOK(r)
    /\ r.pc = s.pc /\ r.kind = s.kind /\ r.lba = s.lba /\ r.n = s.n /\ r.sees = s.sees
    /\ r.done = s.done /\ r.chunk = s.chunk
    /\ r.trial_cap = s.trial_cap /\ r.trial_end = s.trial_end /\ r.walk = s.walk
    /\ DOMAIN r.buf = DOMAIN s.buf
    /\ \A i \in 0 .. s.done - 1 : i \in DOMAIN s.buf => r.buf[i] = s.buf[i]

LEMMA SameHolds ==
  ASSUME NEW r, NEW s, SameUpTo(r, s), ReadOK(s), Holds(s, s.done)
  PROVE  Holds(r, r.done)
  BY DEF SameUpTo, Holds, ReadOK

LEMMA SendingIs ==
  ASSUME NEW t \in Readers, ReadsTyped, ReadsInv, Sending(t)
  PROVE  LET r == rd[t]
         IN  /\ ReadOK(r) /\ r.pc = "sending" /\ Progress(r) /\ Holds(r, r.done)
             /\ r # None
             /\ r.kind \in Kinds /\ r.kind # "unknown" /\ r.lba \in Nat /\ r.n \in Nat
             /\ r.done \in Nat /\ r.chunk \in Nat /\ r.chunk > 0 /\ r.done + r.chunk <= r.n
             /\ r.trial_cap \in Nat /\ r.trial_end \in Nat
  BY DEF Sending, ReadsTyped, ReadsInv, ReadInv, Progress, ReadOK

LEMMA HalvedIs ==
  ASSUME NEW r, ReadOK(r)
  PROVE  LET x == Halved(r)
         IN  /\ ReadOK(x)
             /\ x.pc = "choosing" /\ x.kind = r.kind /\ x.lba = r.lba /\ x.n = r.n
             /\ x.sees = r.sees /\ x.done = r.done /\ x.chunk = r.chunk /\ x.buf = r.buf
             /\ x.walk = r.walk
             /\ x.trial_end = IF r.trial_cap = 0 THEN r.done + r.chunk ELSE r.trial_end
             /\ x.trial_cap = Largest(Bytes(r) \div 2, MinTransfer)
             /\ x.trial_cap >= MinTransfer /\ x.trial_cap \in Nat /\ x.trial_cap > 0
<1> DEFINE x == Halved(r)
           A == [DOMAIN r.buf -> Blocks \cup {None}]
           end == IF r.trial_cap = 0 THEN r.done + r.chunk ELSE r.trial_end
           c == Largest(Bytes(r) \div 2, MinTransfer)
<1>1. r \in TypedWith(A)
  BY ReadOKIs
<1> HIDE DEF A
<1>2. end \in Nat
  BY <1>1 DEF TypedWith
<1>3. Bytes(r) \in Nat
  BY <1>1, BlockSizes DEF Bytes, TypedWith
<1>4. Bytes(r) \div 2 \in Nat
  BY <1>3
<1>5. c \in Nat /\ c >= MinTransfer /\ c > 0
  BY <1>4, CapsArePositive DEF Largest
<1>6. x = [r EXCEPT !.pc = "choosing", !.trial_end = end, !.trial_cap = c]
  BY <1>1 DEF Halved, TypedWith
<1> HIDE DEF x, end, c
<1>7. /\ x.pc = "choosing" /\ x.kind = r.kind /\ x.lba = r.lba /\ x.n = r.n
      /\ x.sees = r.sees /\ x.done = r.done /\ x.chunk = r.chunk /\ x.buf = r.buf
      /\ x.walk = r.walk /\ x.trial_end = end /\ x.trial_cap = c
  BY <1>1, <1>6 DEF TypedWith
<1>8. x \in TypedWith(A)
  BY <1>1, <1>2, <1>5, <1>6 DEF TypedWith
<1>9. ReadOK(x)
  BY <1>7, <1>8, ReadOKIs DEF A
<1> QED  BY <1>5, <1>7, <1>9 DEF x, end, c

\* What the failure of a chunk turns a read into: a stop, smaller commands, or
\* the count of what came before it.
FailsWith(t, st, r) ==
    /\ SameUpTo(r, rd[t])
    /\ \/ st \in Stops /\ Return(t, r, Status(st))
       \/ st \notin Stops /\ WorthHalving(r, st) /\ rd' = [rd EXCEPT ![t] = Halved(r)]
       \/ st \notin Stops /\ Return(t, r, IF r.done > 0 THEN Count(r.done) ELSE Status(st))

LEMMA FailedIs ==
  ASSUME NEW t \in Readers, NEW st \in Statuses, ReadsTyped, ReadsInv,
         Sending(t), ChunkFailed(t, st)
  PROVE  \E r : FailsWith(t, st, r)
<1> DEFINE s == rd[t]
           b == Garbled(s)
           r == [s EXCEPT !.buf = b]
<1>1. ReadOK(s) /\ s.done \in Nat /\ s.chunk \in Nat
  BY SendingIs
<1> HIDE DEF s
<1>3. /\ b \in [DOMAIN b -> Blocks \cup {None}] /\ DOMAIN b \subseteq Nat
      /\ DOMAIN b = DOMAIN s.buf
      /\ \A i \in 0 .. s.done - 1 : i \in DOMAIN s.buf => b[i] = s.buf[i]
  BY <1>1 DEF Garbled, Places, ReadOK
<1> HIDE DEF b
<1>4. /\ ReadOK(r)
      /\ r.buf = b /\ r.pc = s.pc /\ r.kind = s.kind /\ r.lba = s.lba /\ r.n = s.n
      /\ r.sees = s.sees /\ r.done = s.done /\ r.chunk = s.chunk
      /\ r.trial_cap = s.trial_cap /\ r.trial_end = s.trial_end /\ r.walk = s.walk
  BY <1>1, <1>3, Rebuffered
<1>5. LET q == r
      IN  IF st \in Stops THEN Return(t, q, Status(st))
          ELSE IF WorthHalving(q, st) THEN rd' = [rd EXCEPT ![t] = Halved(q)]
          ELSE Return(t, q, IF q.done > 0 THEN Count(q.done) ELSE Status(st))
  BY DEF ChunkFailed, b, s
<1> HIDE DEF r
<1>6. SameUpTo(r, s)
  BY <1>3, <1>4 DEF SameUpTo
<1> QED  BY <1>5, <1>6 DEF FailsWith, s

LEMMA FailedKeeps ==
  ASSUME NEW t \in Readers, NEW st \in Statuses, st # "OK", ReadsTyped, ReadsInv,
         Sending(t), ChunkFailed(t, st)
  PROVE  ReadsTyped' /\ ReadsInv'
<1>1. PICK r : FailsWith(t, st, r)
  BY FailedIs
<1> DEFINE s == rd[t]
<1>2. /\ ReadOK(s) /\ Progress(s) /\ Holds(s, s.done) /\ s.pc = "sending"
      /\ s.done \in Nat /\ s.n \in Nat /\ s.chunk \in Nat
  BY SendingIs
<1>3. SameUpTo(r, s) /\ ReadOK(r)
  BY <1>1 DEF FailsWith, SameUpTo
<1> HIDE DEF s
<1>4. Holds(r, r.done) /\ Holds(r, 0)
  BY <1>2, <1>3, SameHolds, HoldsNothing
<1>5. /\ Status(st) \in [st : Statuses, n : Nat]
      /\ Status(st).n = 0 /\ Status(st) # Count(0)
  BY StatusIsNoCount
<1>6. CASE st \in Stops /\ Return(t, r, Status(st))
  BY <1>3, <1>4, <1>5, <1>6, ReturnKeeps
<1>7. CASE st \notin Stops /\ WorthHalving(r, st) /\ rd' = [rd EXCEPT ![t] = Halved(r)]
  <2> DEFINE x == Halved(r)
  <2>1. /\ ReadOK(x)
        /\ x.pc = "choosing" /\ x.kind = r.kind /\ x.lba = r.lba /\ x.n = r.n
        /\ x.done = r.done /\ x.buf = r.buf /\ x.walk = r.walk /\ x.trial_cap >= MinTransfer
    BY <1>3, HalvedIs
  <2>2. rd' = [rd EXCEPT ![t] = x]
    BY <1>7
  <2> HIDE DEF x
  <2>4. Progress(x) /\ Holds(x, x.done)
    BY <1>2, <1>3, <1>4, <2>1 DEF Progress, SameUpTo, Holds
  <2>5. ReadInv(x)
    BY <2>1, <2>4 DEF ReadInv
  <2> QED  BY <2>1, <2>2, <2>5, OneRead
<1>8. CASE st \notin Stops /\ Return(t, r, IF r.done > 0 THEN Count(r.done) ELSE Status(st))
  <2>2. r.done \in Nat /\ r.done <= r.n
    BY <1>2, <1>3 DEF SameUpTo, Progress
  <2>3. CASE r.done > 0
    <3>1. /\ Count(r.done) \in [st : Statuses, n : Nat] /\ Count(r.done).n = r.done
          /\ Count(r.done) # Count(0)
      BY <2>2, <2>3, CountIs
    <3>2. Return(t, r, Count(r.done))
      BY <1>8, <2>3
    <3> QED  BY <1>3, <1>4, <2>2, <3>1, <3>2, ReturnKeeps
  <2>4. CASE ~(r.done > 0)
    <3>1. Return(t, r, Status(st))
      BY <1>8, <2>4
    <3> QED  BY <1>3, <1>4, <1>5, <3>1, ReturnKeeps
  <2> QED  BY <2>3, <2>4
<1> QED  BY <1>1, <1>6, <1>7, <1>8 DEF FailsWith

\* The buffer after a chunk of which this many sectors came, len bytes each.
Filled(s, sectors, len) ==
    [i \in DOMAIN s.buf |->
        IF i \notin Places(s) THEN s.buf[i]
        ELSE IF i - s.done < sectors /\ (len = BlockSize(s.kind) \/ i = s.done)
        THEN <<drive.disc, s.lba + i>>
        ELSE None]

LEMMA FilledIs ==
  ASSUME NEW s, NEW sectors, NEW len, TypeOK, ReadOK(s)
  PROVE  LET r == [s EXCEPT !.buf = Filled(s, sectors, len)]
         IN  /\ SameUpTo(r, s)
             /\ len = BlockSize(s.kind) =>
                  \A i \in DOMAIN s.buf : i \in Places(s) /\ i - s.done < sectors =>
                     r.buf[i] = <<drive.disc, s.lba + i>>
<1> DEFINE b == Filled(s, sectors, len)
           r == [s EXCEPT !.buf = b]
           disc == drive.disc
<1>1. /\ s.done \in Nat /\ s.chunk \in Nat /\ s.lba \in Nat /\ DOMAIN s.buf \subseteq Nat
      /\ \A i \in DOMAIN s.buf : s.buf[i] \in Blocks \cup {None}
  BY DEF ReadOK
<1>2. disc \in 0 .. MaxSwaps
  BY DEF TypeOK
<1> HIDE DEF disc
<1>3. /\ b = [i \in DOMAIN s.buf |->
              IF i \notin Places(s) THEN s.buf[i]
              ELSE IF i - s.done < sectors /\ (len = BlockSize(s.kind) \/ i = s.done)
              THEN <<disc, s.lba + i>>
              ELSE None]
  BY DEF Filled, disc
<1> HIDE DEF b
<1>4. \A i \in DOMAIN s.buf : <<disc, s.lba + i>> \in Blocks
  BY <1>1, <1>2 DEF Blocks
<1>5. \A i \in DOMAIN s.buf : b[i] \in Blocks \cup {None}
  <2> TAKE i \in DOMAIN s.buf
  <2>1. b[i] \in {s.buf[i], <<disc, s.lba + i>>, None}
    BY <1>3
  <2> QED  BY <1>1, <1>4, <2>1
<1>6. /\ b \in [DOMAIN b -> Blocks \cup {None}] /\ DOMAIN b \subseteq Nat
      /\ DOMAIN b = DOMAIN s.buf
  BY <1>1, <1>3, <1>5
<1>7. \A i \in 0 .. s.done - 1 : i \in DOMAIN s.buf => b[i] = s.buf[i]
  <2>1. \A i \in 0 .. s.done - 1 : i \notin Places(s)
    BY <1>1 DEF Places
  <2> QED  BY <1>3, <2>1
<1>8. len = BlockSize(s.kind) =>
         \A i \in DOMAIN s.buf : i \in Places(s) /\ i - s.done < sectors =>
            b[i] = <<disc, s.lba + i>>
  BY <1>3
<1>9. /\ ReadOK(r)
      /\ r.buf = b /\ r.pc = s.pc /\ r.kind = s.kind /\ r.lba = s.lba /\ r.n = s.n
      /\ r.sees = s.sees /\ r.done = s.done /\ r.chunk = s.chunk
      /\ r.trial_cap = s.trial_cap /\ r.trial_end = s.trial_end /\ r.walk = s.walk
  BY <1>6, Rebuffered
<1> HIDE DEF r
<1>10. SameUpTo(r, s)
  BY <1>6, <1>7, <1>9 DEF SameUpTo
<1> QED  BY <1>8, <1>9, <1>10 DEF r, b, disc

\* Its two halves.
LEMMA FilledSame ==
  ASSUME NEW s, NEW sectors, NEW len, TypeOK, ReadOK(s)
  PROVE  SameUpTo([s EXCEPT !.buf = Filled(s, sectors, len)], s)
  BY FilledIs

LEMMA FilledPlaces ==
  ASSUME NEW s, NEW sectors, TypeOK, ReadOK(s)
  PROVE  \A i \in DOMAIN s.buf : i \in Places(s) /\ i - s.done < sectors =>
            [s EXCEPT !.buf = Filled(s, sectors, BlockSize(s.kind))].buf[i]
               = <<drive.disc, s.lba + i>>
<1> DEFINE b == Filled(s, sectors, BlockSize(s.kind))
<1>1. \A i \in DOMAIN s.buf : i \in Places(s) /\ i - s.done < sectors =>
         b[i] = <<drive.disc, s.lba + i>>
  BY DEF Filled
<1> HIDE DEF b
<1>2. [s EXCEPT !.buf = b].buf = b
  BY DEF ReadOK
<1> QED  BY <1>1, <1>2 DEF b

\* Sectors of the stride's size fill the buffer from where the read stood.
LEMMA FilledHolds ==
  ASSUME NEW s, NEW sectors \in Nat, TypeOK, ReadOK(s),
         s.n \in Nat, DOMAIN s.buf = 0 .. s.n - 1, s.done + s.chunk <= s.n,
         Holds(s, s.done), sectors <= s.chunk
  PROVE  LET r == [s EXCEPT !.buf = Filled(s, sectors, BlockSize(s.kind))]
         IN  /\ Holds(r, s.done + sectors)
             /\ \A i \in s.done .. s.done + sectors - 1 :
                   r.buf[i] = <<drive.disc, s.lba + i>>
<1> DEFINE r == [s EXCEPT !.buf = Filled(s, sectors, BlockSize(s.kind))]
           disc == drive.disc
<1>1. s.done \in Nat /\ s.chunk \in Nat /\ s.lba \in Nat
  BY DEF ReadOK
<1>2. /\ SameUpTo(r, s)
      /\ \A i \in DOMAIN s.buf : i \in Places(s) /\ i - s.done < sectors =>
            r.buf[i] = <<disc, s.lba + i>>
  BY FilledSame, FilledPlaces
<1>3. disc \in 0 .. MaxSwaps
  BY DEF TypeOK
<1> HIDE DEF r, disc
<1>4. \A i \in s.done .. s.done + sectors - 1 :
         i \in DOMAIN s.buf /\ i \in Places(s) /\ i - s.done < sectors
  BY <1>1 DEF Places
<1>5. \A i \in s.done .. s.done + sectors - 1 : r.buf[i] = <<disc, s.lba + i>>
  BY <1>2, <1>4
<1>6. \A i \in 0 .. s.done + sectors - 1 :
         i \in DOMAIN r.buf /\ r.buf[i] \in Blocks /\ r.buf[i][2] = r.lba + i
  <2> TAKE i \in 0 .. s.done + sectors - 1
  <2>0. DOMAIN r.buf = 0 .. s.n - 1 /\ r.lba = s.lba
    BY <1>2 DEF SameUpTo
  <2>1. i \in DOMAIN r.buf /\ i \in DOMAIN s.buf /\ r.lba = s.lba /\ i \in Nat
    BY <1>1, <2>0
  <2>2. CASE i < s.done
    <3>1. i \in 0 .. s.done - 1
      BY <1>1, <2>1, <2>2
    <3>2. s.buf[i] \in Blocks /\ s.buf[i][2] = s.lba + i
      BY <3>1 DEF Holds
    <3>3. r.buf[i] = s.buf[i]
      BY <1>2, <2>1, <3>1 DEF SameUpTo
    <3> QED  BY <2>1, <3>2, <3>3
  <2>3. CASE i >= s.done
    <3>1. r.buf[i] = <<disc, s.lba + i>>
      BY <1>1, <1>5, <2>1, <2>3
    <3>2. <<disc, s.lba + i>> \in Blocks /\ <<disc, s.lba + i>>[2] = s.lba + i
      BY <1>1, <1>3, <2>1 DEF Blocks
    <3> QED  BY <2>1, <3>1, <3>2
  <2>4. i < s.done \/ i >= s.done
    BY <1>1, <2>1
  <2> QED  BY <2>2, <2>3, <2>4
<1>7. Holds(r, s.done + sectors)
  <2>1. 0 .. s.done + sectors - 1 = 0 .. (s.done + sectors) - 1
    BY <1>1
  <2> QED  BY <1>6, <2>1 DEF Holds
<1> QED  BY <1>5, <1>7 DEF r, disc

\* A read that has brought its chunk.
Advanced(r, pc) == [r EXCEPT !.done = r.done + r.chunk, !.pc = pc]

LEMMA AdvancedIs ==
  ASSUME NEW r, ReadOK(r), NEW pc \in {"choosing", "sending", "lowering", "done"}
  PROVE  LET x == Advanced(r, pc)
         IN  /\ ReadOK(x)
             /\ x.pc = pc /\ x.kind = r.kind /\ x.lba = r.lba /\ x.n = r.n
             /\ x.sees = r.sees /\ x.done = r.done + r.chunk /\ x.chunk = r.chunk
             /\ x.buf = r.buf /\ x.walk = r.walk
             /\ x.trial_cap = r.trial_cap /\ x.trial_end = r.trial_end
<1> DEFINE x == Advanced(r, pc)
           A == [DOMAIN r.buf -> Blocks \cup {None}]
           d == r.done + r.chunk
<1>1. r \in TypedWith(A)
  BY ReadOKIs
<1>2. d \in Nat
  BY <1>1 DEF TypedWith
<1> HIDE DEF A, d
<1>3. x = [r EXCEPT !.done = d, !.pc = pc]
  BY DEF Advanced, d
<1> HIDE DEF x
<1>4. /\ x \in TypedWith(A)
      /\ x.pc = pc /\ x.kind = r.kind /\ x.lba = r.lba /\ x.n = r.n
      /\ x.sees = r.sees /\ x.done = d /\ x.chunk = r.chunk
      /\ x.buf = r.buf /\ x.walk = r.walk
      /\ x.trial_cap = r.trial_cap /\ x.trial_end = r.trial_end
  BY <1>1, <1>2, <1>3 DEF TypedWith
<1>5. ReadOK(x)
  BY <1>1, <1>4, ReadOKIs DEF A
<1> QED  BY <1>4, <1>5 DEF x, d

\* What a whole chunk turns a read into: the end of a trial, the end of the
\* read, or another round.
CompletesWith(t, r) ==
    LET whole == Advanced(r, "sending")
    IN  \/ TrialWon(whole) /\ rd' = [rd EXCEPT ![t] = Advanced(r, "lowering")]
        \/ /\ ~TrialWon(whole) /\ whole.done >= whole.n
           /\ Return(t, whole, Count(whole.done))
        \/ /\ ~TrialWon(whole) /\ ~(whole.done >= whole.n)
           /\ rd' = [rd EXCEPT ![t] = Advanced(r, "choosing")]

LEMMA ReadsIs ==
  ASSUME NEW t \in Readers, TypeOK, ReadsTyped, ReadsInv, CommandReads(t)
  PROVE  LET s == rd[t]
             r == [s EXCEPT !.buf = Filled(s, s.chunk, BlockSize(s.kind))]
         IN  /\ SameUpTo(r, s)
             /\ Holds(r, s.done + s.chunk)
             /\ \A i \in s.done .. s.done + s.chunk - 1 : r.buf[i] = <<drive.disc, s.lba + i>>
             /\ CompletesWith(t, r)
<1> DEFINE s == rd[t]
           size == BlockSize(s.kind)
           r == [s EXCEPT !.buf = Filled(s, s.chunk, size)]
<1>1. /\ Sending(t) /\ drive.form \in Expected(s.kind)
      /\ ChunkCame(t, s.chunk, SectorBytes(drive.form, Fields(s.kind)))
  BY DEF CommandReads
<1>2. /\ ReadOK(s) /\ s.kind \in Kinds /\ s.kind # "unknown" /\ s.pc = "sending"
      /\ s.done \in Nat /\ s.chunk \in Nat /\ s.n \in Nat /\ s.done + s.chunk <= s.n
      /\ DOMAIN s.buf = 0 .. s.n - 1 /\ Holds(s, s.done)
  BY <1>1, SendingIs DEF Progress
<1>3. SectorBytes(drive.form, Fields(s.kind)) = size
  BY <1>1, <1>2, AcceptedFits
<1>4. ChunkCame(t, s.chunk, size)
  BY <1>1, <1>3
<1>5. SameUpTo(r, s)
  BY <1>2, FilledIs
<1>6. /\ Holds(r, s.done + s.chunk)
      /\ \A i \in s.done .. s.done + s.chunk - 1 : r.buf[i] = <<drive.disc, s.lba + i>>
  <2> HIDE DEF s
  <2>1. s.chunk <= s.chunk
    BY <1>2
  <2> QED  BY <1>2, <2>1, FilledHolds
<1>7. CompletesWith(t, r)
  <2> DEFINE whole == [r EXCEPT !.done = @ + r.chunk]
  <2>1. r.pc = "sending" /\ ReadOK(r) /\ Bytes(r) = s.chunk * size
    BY <1>2, <1>5 DEF SameUpTo, Bytes
  <2>2. \/ TrialWon(whole) /\ rd' = [rd EXCEPT ![t] = [whole EXCEPT !.pc = "lowering"]]
        \/ ~TrialWon(whole) /\ whole.done >= whole.n /\ Return(t, whole, Count(whole.done))
        \/ ~TrialWon(whole) /\ ~(whole.done >= whole.n)
           /\ rd' = [rd EXCEPT ![t] = [whole EXCEPT !.pc = "choosing"]]
    <3>1. LET q == [s EXCEPT !.buf = Filled(s, s.chunk, size)]
              w == [q EXCEPT !.done = @ + q.chunk]
          IN  IF s.chunk * size # Bytes(q)
              THEN Return(t, q, ShortOf(q.done + (s.chunk * size) \div size))
              ELSE IF TrialWon(w)
              THEN rd' = [rd EXCEPT ![t] = [w EXCEPT !.pc = "lowering"]]
              ELSE IF w.done >= w.n THEN Return(t, w, Count(w.done))
              ELSE rd' = [rd EXCEPT ![t] = [w EXCEPT !.pc = "choosing"]]
      BY <1>4 DEF ChunkCame, Filled
    <3> HIDE DEF s
    <3> QED  BY <2>1, <3>1
  <2> HIDE DEF r
  <2>3. /\ whole = Advanced(r, "sending")
        /\ [whole EXCEPT !.pc = "lowering"] = Advanced(r, "lowering")
        /\ [whole EXCEPT !.pc = "choosing"] = Advanced(r, "choosing")
    <3> DEFINE A == [DOMAIN r.buf -> Blocks \cup {None}]
    <3>1. r \in TypedWith(A)
      BY <2>1, ReadOKIs
    <3> HIDE DEF A
    <3> QED  BY <2>1, <3>1 DEF Advanced, TypedWith
  <2> HIDE DEF whole
  <2> QED  BY <2>2, <2>3 DEF CompletesWith
<1> QED  BY <1>5, <1>6, <1>7

LEMMA HoldsSame ==
  ASSUME NEW r, NEW x, NEW m, Holds(r, m), x.buf = r.buf, x.lba = r.lba
  PROVE  Holds(x, m)
  BY DEF Holds

LEMMA ReadsKeeps ==
  ASSUME NEW t \in Readers, TypeOK, ReadsTyped, ReadsInv, CommandReads(t)
  PROVE  ReadsTyped' /\ ReadsInv'
<1> DEFINE s == rd[t]
           r == [s EXCEPT !.buf = Filled(s, s.chunk, BlockSize(s.kind))]
           m == s.done + s.chunk
<1>1. /\ SameUpTo(r, s) /\ Holds(r, m) /\ CompletesWith(t, r)
  BY ReadsIs
<1>2. /\ Progress(s) /\ s.pc = "sending" /\ s.kind # "unknown"
      /\ s.done \in Nat /\ s.chunk \in Nat /\ s.n \in Nat /\ m <= s.n /\ s.chunk > 0
      /\ DOMAIN s.buf = 0 .. s.n - 1
  BY SendingIs DEF Progress, CommandReads
<1>3. s.trial_cap > 0 => s.trial_cap >= MinTransfer
  BY <1>2 DEF Progress
<1>4. m \in Nat /\ m > 0
  BY <1>2
<1> HIDE DEF s, r
<1>5. ReadOK(r) /\ r.done + r.chunk = m /\ r.n = s.n /\ r.kind = s.kind
      /\ r.trial_cap = s.trial_cap /\ DOMAIN r.buf = 0 .. s.n - 1
  BY <1>1, <1>2 DEF SameUpTo
<1> HIDE DEF m
<1> DEFINE whole == Advanced(r, "sending")
<1>6. whole.done = m /\ whole.n = s.n /\ whole.trial_cap = r.trial_cap /\ ReadOK(whole)
      /\ whole.buf = r.buf /\ whole.lba = r.lba
  BY <1>1, <1>5, AdvancedIs
<1>7. CASE TrialWon(whole) /\ rd' = [rd EXCEPT ![t] = Advanced(r, "lowering")]
  <2> DEFINE x == Advanced(r, "lowering")
  <2>1. /\ ReadOK(x) /\ x.pc = "lowering" /\ x.kind = s.kind /\ x.n = s.n /\ x.done = m
        /\ x.lba = r.lba /\ x.buf = r.buf /\ x.trial_cap = r.trial_cap
    BY <1>1, <1>5, AdvancedIs
  <2>2. r.trial_cap > 0
    BY <1>6, <1>7 DEF TrialWon
  <2> HIDE DEF x, whole
  <2>3. Progress(x)
    BY <1>2, <1>3, <1>4, <1>5, <2>1, <2>2 DEF Progress
  <2>4. ReadInv(x)
    BY <1>1, <2>1, <2>3, HoldsSame DEF ReadInv
  <2> QED  BY <1>7, <2>1, <2>4, OneRead DEF x
<1>8. CASE ~TrialWon(whole) /\ ~(whole.done >= whole.n)
           /\ rd' = [rd EXCEPT ![t] = Advanced(r, "choosing")]
  <2> DEFINE x == Advanced(r, "choosing")
  <2>1. /\ ReadOK(x) /\ x.pc = "choosing" /\ x.kind = s.kind /\ x.n = s.n /\ x.done = m
        /\ x.lba = r.lba /\ x.buf = r.buf /\ x.trial_cap = r.trial_cap
    BY <1>1, <1>5, AdvancedIs
  <2>2. ~(m >= s.n)
    BY <1>6, <1>8
  <2> HIDE DEF x, whole
  <2>3. Progress(x)
    BY <1>2, <1>3, <1>4, <1>5, <2>1, <2>2 DEF Progress
  <2>4. ReadInv(x)
    BY <1>1, <2>1, <2>3, HoldsSame DEF ReadInv
  <2> QED  BY <1>8, <2>1, <2>4, OneRead DEF x
<1>9. CASE /\ ~TrialWon(whole) /\ whole.done >= whole.n
           /\ Return(t, whole, Count(whole.done))
  <2> HIDE DEF whole
  <2>1. Holds(whole, m)
    BY <1>1, <1>6, HoldsSame
  <2>2. Count(m) \in [st : Statuses, n : Nat] /\ Count(m).n = m /\ Count(m) # Count(0)
    BY <1>4, CountIs
  <2>3. Return(t, whole, Count(m)) /\ m <= whole.n
    BY <1>2, <1>6, <1>9
  <2> QED  BY <1>6, <2>1, <2>2, <2>3, ReturnKeeps
<1> QED  BY <1>1, <1>7, <1>8, <1>9 DEF CompletesWith

LEMMA FallsShortIs ==
  ASSUME NEW t \in Readers, TypeOK, ReadsTyped, ReadsInv, CommandFallsShort(t)
  PROVE  \E sectors \in 0 .. rd[t].chunk - 1 :
            LET s == rd[t]
                r == [s EXCEPT !.buf = Filled(s, sectors, BlockSize(s.kind))]
            IN  /\ SameUpTo(r, s) /\ Holds(r, s.done + sectors)
                /\ \A i \in s.done .. s.done + sectors - 1 :
                      r.buf[i] = <<drive.disc, s.lba + i>>
                /\ Return(t, r, ShortOf(s.done + sectors))
<1> DEFINE s == rd[t]
           size == BlockSize(s.kind)
<1>1. PICK sectors \in 0 .. s.chunk - 1 :
         ChunkCame(t, sectors, SectorBytes(drive.form, Fields(s.kind)))
  BY DEF CommandFallsShort
<1>2. Sending(t) /\ drive.form \in Expected(s.kind)
  BY DEF CommandFallsShort
<1>3. /\ ReadOK(s) /\ s.kind \in Kinds /\ s.kind # "unknown" /\ s.pc = "sending"
      /\ s.done \in Nat /\ s.chunk \in Nat /\ s.n \in Nat /\ s.done + s.chunk <= s.n
      /\ DOMAIN s.buf = 0 .. s.n - 1 /\ Holds(s, s.done)
  BY <1>2, SendingIs DEF Progress
<1>4. SectorBytes(drive.form, Fields(s.kind)) = size
  BY <1>2, <1>3, AcceptedFits
<1> DEFINE r == [s EXCEPT !.buf = Filled(s, sectors, size)]
<1>5. SameUpTo(r, s)
  <2> HIDE DEF s, size
  <2> QED  BY <1>3, FilledSame
<1>6. /\ Holds(r, s.done + sectors)
      /\ \A i \in s.done .. s.done + sectors - 1 : r.buf[i] = <<drive.disc, s.lba + i>>
  <2>1. sectors \in Nat /\ sectors <= s.chunk
    BY <1>1, <1>3
  <2> HIDE DEF s
  <2> QED  BY <1>3, <2>1, FilledHolds
<1>7. sectors * size # Bytes(r) /\ (sectors * size) \div size = sectors /\ r.done = s.done
  <2>1. r.done = s.done /\ Bytes(r) = s.chunk * size
    BY <1>5 DEF SameUpTo, Bytes
  <2>2. size \in {2048, 2352}
    BY BlockSizes
  <2> HIDE DEF size, r
  <2>3. CASE size = 2048
    BY <1>1, <1>3, <2>1, <2>3
  <2>4. CASE size = 2352
    BY <1>1, <1>3, <2>1, <2>4
  <2> QED  BY <2>2, <2>3, <2>4
<1>8. Return(t, r, ShortOf(s.done + sectors))
  <2>1. LET q == [s EXCEPT !.buf = Filled(s, sectors, size)]
            w == [q EXCEPT !.done = @ + q.chunk]
        IN  IF sectors * size # Bytes(q)
            THEN Return(t, q, ShortOf(q.done + (sectors * size) \div size))
            ELSE IF TrialWon(w)
            THEN rd' = [rd EXCEPT ![t] = [w EXCEPT !.pc = "lowering"]]
            ELSE IF w.done >= w.n THEN Return(t, w, Count(w.done))
            ELSE rd' = [rd EXCEPT ![t] = [w EXCEPT !.pc = "choosing"]]
    <3>1. ChunkCame(t, sectors, size)
      BY <1>1, <1>4
    <3> QED  BY <3>1 DEF ChunkCame, Filled
  <2>2. Return(t, r, ShortOf(r.done + (sectors * size) \div size))
    <3> HIDE DEF s, size
    <3> QED  BY <1>7, <2>1
  <2> HIDE DEF r, size
  <2> QED  BY <1>7, <2>2
<1> QED  BY <1>1, <1>5, <1>6, <1>8

LEMMA FallsShortKeeps ==
  ASSUME NEW t \in Readers, TypeOK, ReadsTyped, ReadsInv, CommandFallsShort(t)
  PROVE  ReadsTyped' /\ ReadsInv'
<1> DEFINE s == rd[t]
<1>1. PICK sectors \in 0 .. s.chunk - 1 :
         LET r == [s EXCEPT !.buf = Filled(s, sectors, BlockSize(s.kind))]
         IN  /\ SameUpTo(r, s) /\ Holds(r, s.done + sectors)
             /\ Return(t, r, ShortOf(s.done + sectors))
  BY FallsShortIs
<1> DEFINE r == [s EXCEPT !.buf = Filled(s, sectors, BlockSize(s.kind))]
           m == s.done + sectors
<1>2. s.done \in Nat /\ s.chunk \in Nat /\ s.n \in Nat /\ s.done + s.chunk <= s.n
  BY SendingIs DEF CommandFallsShort
<1>3. SameUpTo(r, s) /\ Holds(r, m) /\ Return(t, r, ShortOf(m))
  BY <1>1
<1> HIDE DEF r, s
<1>4. ReadOK(r) /\ r.n = s.n
  BY <1>3 DEF SameUpTo
<1>5. m \in Nat /\ m <= s.n
  BY <1>1, <1>2
<1> HIDE DEF m
<1>6. CASE m = 0
  <2>1. /\ Status("IO") \in [st : Statuses, n : Nat]
        /\ Status("IO").n = 0 /\ Status("IO") # Count(0)
    BY StatusIsNoCount DEF Statuses
  <2>2. Return(t, r, Status("IO"))
    BY <1>3, <1>6 DEF ShortOf
  <2> QED  BY <1>3, <1>4, <1>6, <2>1, <2>2, ReturnKeeps
<1>7. CASE m # 0
  <2>1. Count(m) \in [st : Statuses, n : Nat] /\ Count(m).n = m /\ Count(m) # Count(0)
    BY <1>5, <1>7, CountIs
  <2>2. Return(t, r, Count(m))
    BY <1>3, <1>7 DEF ShortOf
  <2> QED  BY <1>3, <1>4, <1>5, <2>1, <2>2, ReturnKeeps
<1> QED  BY <1>6, <1>7

-----------------------------------------------------------------------------
(* The end of a trial, and the invariant. *)

\* A read whose trial is over.
Settled(r, pc) == [r EXCEPT !.trial_cap = 0, !.pc = pc]

LEMMA SettledIs ==
  ASSUME NEW r, ReadOK(r), NEW pc \in {"choosing", "sending", "lowering", "done"}
  PROVE  LET x == Settled(r, pc)
         IN  /\ ReadOK(x)
             /\ x.pc = pc /\ x.kind = r.kind /\ x.lba = r.lba /\ x.n = r.n
             /\ x.sees = r.sees /\ x.done = r.done /\ x.chunk = r.chunk
             /\ x.buf = r.buf /\ x.walk = r.walk /\ x.trial_cap = 0
<1> DEFINE x == Settled(r, pc)
           A == [DOMAIN r.buf -> Blocks \cup {None}]
<1>1. r \in TypedWith(A)
  BY ReadOKIs
<1> HIDE DEF A
<1>2. /\ x \in TypedWith(A)
      /\ x.pc = pc /\ x.kind = r.kind /\ x.lba = r.lba /\ x.n = r.n
      /\ x.sees = r.sees /\ x.done = r.done /\ x.chunk = r.chunk
      /\ x.buf = r.buf /\ x.walk = r.walk /\ x.trial_cap = 0
  BY <1>1 DEF TypedWith, Settled
<1> HIDE DEF x
<1>3. ReadOK(x)
  BY <1>1, <1>2, ReadOKIs DEF A
<1> QED  BY <1>2, <1>3 DEF x

LEMMA LowerIs ==
  ASSUME NEW t \in Readers, ReadsTyped, ReadsInv, LowerTransferCap(t)
  PROVE  LET s == rd[t]
         IN  /\ ReadOK(s) /\ Progress(s) /\ s.pc = "lowering" /\ Holds(s, s.done)
             /\ s # None
             /\ \/ s.done >= s.n /\ Return(t, Settled(s, "lowering"), Count(s.done))
                \/ s.done < s.n /\ rd' = [rd EXCEPT ![t] = Settled(s, "choosing")]
<1> DEFINE s == rd[t]
           r == [s EXCEPT !.trial_cap = 0]
<1>1. /\ ReadOK(s) /\ Progress(s) /\ s.pc = "lowering" /\ Holds(s, s.done) /\ s # None
  BY DEF LowerTransferCap, ReadsTyped, ReadsInv, ReadInv
<1>2. IF r.done >= r.n THEN Return(t, r, Count(r.done))
      ELSE rd' = [rd EXCEPT ![t] = [r EXCEPT !.pc = "choosing"]]
  BY DEF LowerTransferCap
<1> HIDE DEF s
<1> DEFINE A == [DOMAIN s.buf -> Blocks \cup {None}]
<1>3. s \in TypedWith(A)
  BY <1>1, ReadOKIs
<1> HIDE DEF A
<1>4. r.done = s.done /\ r.n = s.n /\ r = Settled(s, "lowering")
      /\ [r EXCEPT !.pc = "choosing"] = Settled(s, "choosing")
  BY <1>1, <1>3 DEF TypedWith, Settled
<1>5. s.done \in Nat /\ s.n \in Int
  BY <1>3 DEF TypedWith
<1> HIDE DEF r
<1>6. s.done >= s.n \/ s.done < s.n
  BY <1>5
<1>7. s.done < s.n => ~(s.done >= s.n)
  BY <1>5
<1> QED  BY <1>1, <1>2, <1>4, <1>6, <1>7 DEF s

LEMMA LowerKeeps ==
  ASSUME NEW t \in Readers, ReadsTyped, ReadsInv, LowerTransferCap(t)
  PROVE  ReadsTyped' /\ ReadsInv'
<1> DEFINE s == rd[t]
<1>1. /\ ReadOK(s) /\ Progress(s) /\ s.pc = "lowering" /\ Holds(s, s.done)
      /\ \/ s.done >= s.n /\ Return(t, Settled(s, "lowering"), Count(s.done))
         \/ s.done < s.n /\ rd' = [rd EXCEPT ![t] = Settled(s, "choosing")]
  BY LowerIs
<1>2. /\ s.done \in Nat /\ s.done > 0 /\ s.done <= s.n /\ s.n \in Int
      /\ DOMAIN s.buf = 0 .. s.n - 1 /\ s.kind # "unknown" /\ s.n > 0
  BY <1>1 DEF Progress, ReadOK
<1> HIDE DEF s
<1>3. CASE Return(t, Settled(s, "lowering"), Count(s.done))
  <2> DEFINE r == Settled(s, "lowering")
  <2>1. /\ ReadOK(r) /\ r.lba = s.lba /\ r.n = s.n /\ r.buf = s.buf
    BY <1>1, SettledIs
  <2> HIDE DEF r
  <2>2. Holds(r, s.done)
    BY <1>1, <2>1, HoldsSame
  <2>3. /\ Count(s.done) \in [st : Statuses, n : Nat] /\ Count(s.done).n = s.done
        /\ Count(s.done) # Count(0)
    BY <1>2, CountIs
  <2>4. Return(t, r, Count(s.done))
    BY <1>3 DEF r
  <2> QED  BY <1>2, <2>1, <2>2, <2>3, <2>4, ReturnKeeps
<1>4. CASE s.done < s.n /\ rd' = [rd EXCEPT ![t] = Settled(s, "choosing")]
  <2> DEFINE x == Settled(s, "choosing")
  <2>1. /\ ReadOK(x) /\ x.pc = "choosing" /\ x.lba = s.lba /\ x.n = s.n /\ x.buf = s.buf
        /\ x.kind = s.kind /\ x.done = s.done /\ x.trial_cap = 0
    BY <1>1, SettledIs
  <2>2. rd' = [rd EXCEPT ![t] = x]
    BY <1>4
  <2> HIDE DEF x
  <2>3. Progress(x)
    BY <1>2, <1>4, <2>1 DEF Progress
  <2>4. ReadInv(x)
    BY <1>1, <2>1, <2>3, HoldsSame DEF ReadInv
  <2> QED  BY <2>1, <2>2, <2>4, OneRead
<1> QED  BY <1>1, <1>3, <1>4

LEMMA CommandKeeps ==
  ASSUME NEW t \in Readers, TypeOK, ReadsTyped, ReadsInv, Command(t)
  PROVE  ReadsTyped' /\ ReadsInv'
<1>1. \A st \in Statuses \ {"OK"} :
         Sending(t) /\ ChunkFailed(t, st) => ReadsTyped' /\ ReadsInv'
  BY FailedKeeps
<1>2. {"NO_SUCH_TOKEN", "CANCELLED", "NO_DEVICE", "MEDIA_GONE", "REFUSED", "IO"} = Statuses \ {"OK", "INVALID"}
  BY DEF Statuses
<1>3. CASE CommandFindsNoToken(t)
  BY <1>1, <1>2, <1>3 DEF CommandFindsNoToken
<1>4. CASE CommandIsCancelled(t)
  BY <1>1, <1>2, <1>4 DEF CommandIsCancelled
<1>5. CASE CommandFindsNoDevice(t)
  BY <1>1, <1>2, <1>5 DEF CommandFindsNoDevice
<1>6. CASE CommandReportsSwap(t)
  BY <1>1, <1>2, <1>6 DEF CommandReportsSwap
<1>7. CASE CommandIsRefused(t)
  BY <1>1, <1>2, <1>7 DEF CommandIsRefused
<1>8. CASE CommandFails(t)
  BY <1>1, <1>2, <1>8 DEF CommandFails
<1>9. CASE CommandReads(t)
  BY <1>9, ReadsKeeps
<1>10. CASE CommandFallsShort(t)
  BY <1>10, FallsShortKeeps
<1> QED  BY <1>3, <1>4, <1>5, <1>6, <1>7, <1>8, <1>9, <1>10 DEF Command

Drives == [limit : Limits, form : Forms, bad : BadSectors \cup {{}},
           disc : 0 .. MaxSwaps, attention : BOOLEAN, gone : BOOLEAN]

LEMMA InvInit == Init => Inv
<1> SUFFICES ASSUME Init PROVE Inv
  OBVIOUS
<1>1. PICK limit \in Limits, form \in Forms, bad \in BadSectors, pending \in {FALSE, not_ready} :
         drive = [limit |-> limit, form |-> form, bad |-> bad,
                  disc |-> 0, attention |-> pending, gone |-> FALSE]
  BY DEF Init
<1>2. pending \in BOOLEAN /\ not_ready \in BOOLEAN
  BY DEF Init
<1>3. drive \in Drives
  BY <1>1, <1>2, BoundsTyped DEF Drives
<1>4. cap \in 0 .. MaxTransfer /\ cap >= MinTransfer
  BY CapsArePositive DEF Init
<1>5. ReadsTyped /\ ReadsInv
  BY DEF Init, ReadsTyped, ReadsInv
<1>6. /\ reg \in {"up", "cancelled", "free"} /\ faults \in 0 .. MaxFaults
      /\ told \subseteq (1 .. MaxSwaps) \X (Readers \cup {"nobody"})
  BY BoundsTyped DEF Init
<1> QED  BY <1>2, <1>3, <1>4, <1>5, <1>6 DEF Inv, TypeOK, ReadsTyped, CapInv, Drives

\* The rest of the state: the registration, the cap, the drive.
Around ==
    /\ reg \in {"up", "cancelled", "free"}
    /\ cap \in 0 .. MaxTransfer
    /\ not_ready \in BOOLEAN
    /\ drive \in Drives
    /\ faults \in 0 .. MaxFaults
    /\ told \subseteq (1 .. MaxSwaps) \X (Readers \cup {"nobody"})

LEMMA TypeOKIs == TypeOK <=> Around /\ ReadsTyped
  BY DEF TypeOK, Around, ReadsTyped, Drives

LEMMA TypeOKNext == TypeOK' <=> Around' /\ ReadsTyped'
  BY DEF TypeOK, Around, ReadsTyped, Drives

LEMMA ReportAround ==
  ASSUME Around, NEW who \in Readers \cup {"nobody"}, ReportGoesTo(who)
  PROVE  drive' \in Drives /\ told' \subseteq (1 .. MaxSwaps) \X (Readers \cup {"nobody"})
<1>1. drive' \in Drives
  BY DEF ReportGoesTo, Around, Drives
<1>2. {<<d, who>> : d \in 1 .. drive.disc} \subseteq (1 .. MaxSwaps) \X (Readers \cup {"nobody"})
  <2>1. drive.disc \in 0 .. MaxSwaps
    BY DEF Around, Drives
  <2>2. 1 .. drive.disc \subseteq 1 .. MaxSwaps
    BY <2>1, BoundsTyped
  <2> QED  BY <2>2
<1> QED  BY <1>1, <1>2 DEF ReportGoesTo, Around

LEMMA PastAround ==
  ASSUME Around, GetsPastReports
  PROVE  /\ drive' \in Drives /\ told' \subseteq (1 .. MaxSwaps) \X (Readers \cup {"nobody"})
         /\ not_ready' \in BOOLEAN
<1>1. CASE ReportGoesTo("nobody")
  <2>1. drive' \in Drives /\ told' \subseteq (1 .. MaxSwaps) \X (Readers \cup {"nobody"})
    BY <1>1, ReportAround
  <2> QED  BY <2>1 DEF GetsPastReports, Around
<1>2. CASE UNCHANGED <<drive, told, not_ready>>
  BY <1>2 DEF Around
<1> QED  BY <1>1, <1>2 DEF GetsPastReports

\* What a command leaves of the report of a swap.
LEMMA CommandReports ==
  ASSUME NEW t \in Readers, Command(t)
  PROVE  \/ UNCHANGED <<drive, told, not_ready>> \/ GetsPastReports
         \/ ReportGoesTo(t) /\ UNCHANGED not_ready
<1>1. CASE CommandFindsNoToken(t) \/ CommandIsCancelled(t) \/ CommandFindsNoDevice(t)
  BY <1>1 DEF CommandFindsNoToken, CommandIsCancelled, CommandFindsNoDevice
<1>2. CASE CommandReportsSwap(t)
  BY <1>2 DEF CommandReportsSwap
<1>3. CASE CommandIsRefused(t) \/ CommandFails(t) \/ CommandReads(t) \/ CommandFallsShort(t)
  BY <1>3 DEF CommandIsRefused, CommandFails, CommandReads, CommandFallsShort
<1> QED  BY <1>1, <1>2, <1>3 DEF Command

LEMMA CommandAround ==
  ASSUME NEW t \in Readers, Inv, Command(t)
  PROVE  Around' /\ CapInv' /\ reg' = reg /\ cap' = cap
<1>1. Around /\ CapInv
  BY TypeOKIs DEF Inv
<1>2. /\ drive' \in Drives /\ told' \subseteq (1 .. MaxSwaps) \X (Readers \cup {"nobody"})
      /\ not_ready' \in BOOLEAN
  <2>1. CASE UNCHANGED <<drive, told, not_ready>>
    BY <1>1, <2>1 DEF Around
  <2>2. CASE GetsPastReports
    BY <1>1, <2>2, PastAround
  <2>3. CASE ReportGoesTo(t) /\ UNCHANGED not_ready
    <3>1. drive' \in Drives /\ told' \subseteq (1 .. MaxSwaps) \X (Readers \cup {"nobody"})
      BY <1>1, <2>3, ReportAround
    <3> QED  BY <1>1, <2>3, <3>1 DEF Around
  <2> QED  BY <2>1, <2>2, <2>3, CommandReports
<1>3. reg' = reg /\ cap' = cap /\ (faults' = faults \/ (faults < MaxFaults /\ faults' = faults + 1))
  <2>1. CASE CommandFails(t) \/ CommandFallsShort(t)
    BY <2>1 DEF CommandFails, CommandFallsShort
  <2>2. CASE ~(CommandFails(t) \/ CommandFallsShort(t))
    BY <2>2 DEF Command, CommandFindsNoToken, CommandIsCancelled, CommandFindsNoDevice,
       CommandReportsSwap, CommandIsRefused, CommandReads
  <2> QED  BY <2>1, <2>2
<1>4. faults' \in 0 .. MaxFaults
  BY <1>1, <1>3, BoundsTyped DEF Around
<1> QED  BY <1>1, <1>2, <1>3, <1>4 DEF Around, CapInv

LEMMA LowerAround ==
  ASSUME NEW t \in Readers, Inv, LowerTransferCap(t)
  PROVE  Around' /\ CapInv' /\ reg' = reg /\ cap' <= cap
<1>1. Around /\ CapInv /\ ReadsTyped /\ ReadsInv
  BY TypeOKIs DEF Inv
<1>2. rd[t].trial_cap \in Nat /\ rd[t].trial_cap >= MinTransfer
  BY <1>1, LowerIs DEF Progress, ReadOK
<1>3. cap' \in 0 .. MaxTransfer /\ cap' <= cap /\ (cap >= MinTransfer => cap' >= MinTransfer)
  BY <1>1, <1>2, CapsArePositive DEF LowerTransferCap, CapAfter, Around
<1> QED  BY <1>1, <1>3 DEF LowerTransferCap, Around, CapInv

LEMMA OthersAround ==
  ASSUME Inv, LastRelease \/ TeardownEnds \/ Swap \/ Unplug \/ AnotherSettles
  PROVE  Inv'
<1>1. Around /\ CapInv /\ ReadsTyped /\ ReadsInv
  BY TypeOKIs DEF Inv
<1>2. rd' = rd
  BY DEF LastRelease, TeardownEnds, Swap, Unplug, AnotherSettles
<1>3. ReadsTyped' /\ ReadsInv'
  BY <1>1, <1>2 DEF ReadsTyped, ReadsInv
<1>4. Around' /\ CapInv'
  <2>1. CASE LastRelease
    BY <1>1, <2>1 DEF LastRelease, Around, CapInv
  <2>2. CASE TeardownEnds
    <3>1. reg' \in {"up", "cancelled", "free"} /\ CapInv'
      BY <2>2 DEF TeardownEnds, CapInv
    <3>2. cap' \in 0 .. MaxTransfer
      BY <2>2, CapsArePositive DEF TeardownEnds
    <3>3. not_ready' \in BOOLEAN /\ UNCHANGED <<drive, faults, told>>
      BY <2>2 DEF TeardownEnds
    <3> QED  BY <1>1, <3>1, <3>2, <3>3 DEF Around
  <2>3. CASE Swap
    <3>1. drive' \in Drives
      <4> DEFINE Discs == 0 .. MaxSwaps
                 next == drive.disc + 1
      <4>1. next \in Discs
        BY <1>1, <2>3, BoundsTyped DEF Swap, Around, Drives
      <4>2. drive' = [drive EXCEPT !.disc = next, !.bad = {}, !.attention = TRUE]
        BY <2>3 DEF Swap
      <4>3. drive \in [limit : Limits, form : Forms, bad : BadSectors \cup {{}},
                  disc : Discs, attention : BOOLEAN, gone : BOOLEAN]
        BY <1>1 DEF Around, Drives
      <4> HIDE DEF Discs, next
      <4>4. drive' \in [limit : Limits, form : Forms, bad : BadSectors \cup {{}},
                  disc : Discs, attention : BOOLEAN, gone : BOOLEAN]
        BY <4>1, <4>2, <4>3
      <4> QED  BY <4>4 DEF Discs, Drives
    <3>2. UNCHANGED <<reg, cap, not_ready, faults, told>>
      BY <2>3 DEF Swap
    <3> QED  BY <1>1, <3>1, <3>2 DEF Around, CapInv
  <2>4. CASE Unplug
    <3>1. drive' \in Drives
      BY <1>1, <2>4 DEF Unplug, Around, Drives
    <3>2. UNCHANGED <<reg, cap, not_ready, faults, told>>
      BY <2>4 DEF Unplug
    <3> QED  BY <1>1, <3>1, <3>2 DEF Around, CapInv
  <2>5. CASE AnotherSettles
    <3>1. /\ drive' \in Drives
          /\ told' \subseteq (1 .. MaxSwaps) \X (Readers \cup {"nobody"})
      <4>1. CASE ReportGoesTo("nobody")
        BY <1>1, <4>1, ReportAround
      <4>2. CASE UNCHANGED <<drive, told>>
        BY <1>1, <4>2 DEF Around
      <4> QED  BY <2>5, <4>1, <4>2 DEF AnotherSettles
    <3>2. not_ready' \in BOOLEAN /\ UNCHANGED <<reg, cap, faults>>
      BY <2>5 DEF AnotherSettles
    <3> QED  BY <1>1, <3>1, <3>2 DEF Around, CapInv
  <2> QED  BY <2>1, <2>2, <2>3, <2>4, <2>5
<1> QED  BY <1>3, <1>4, TypeOKNext DEF Inv

LEMMA InvNext == Inv /\ [Next]_vars => Inv'
<1> SUFFICES ASSUME Inv, [Next]_vars PROVE Inv'
  OBVIOUS
<1>1. TypeOK /\ ReadsTyped /\ ReadsInv /\ CapInv /\ Around
  BY TypeOKIs DEF Inv
<1>2. ASSUME NEW t \in Readers, Start(t) \/ Choose(t) PROVE Inv'
  <2>1. ReadsTyped' /\ ReadsInv'
    BY <1>1, <1>2, StartKeeps, ChooseKeeps
  <2>2. Around' /\ CapInv'
    BY <1>1, <1>2 DEF Start, Choose, Around, CapInv
  <2> QED  BY <2>1, <2>2, TypeOKNext DEF Inv
<1>3. ASSUME NEW t \in Readers, Command(t) PROVE Inv'
  BY <1>1, <1>3, CommandKeeps, CommandAround, TypeOKNext DEF Inv
<1>4. ASSUME NEW t \in Readers, LowerTransferCap(t) PROVE Inv'
  BY <1>1, <1>4, LowerKeeps, LowerAround, TypeOKNext DEF Inv
<1>5. CASE LastRelease \/ TeardownEnds \/ Swap \/ Unplug \/ AnotherSettles
  BY <1>5, OthersAround
<1>6. CASE UNCHANGED vars
  BY <1>6 DEF vars, Inv, TypeOK, ReadsInv, CapInv
<1> QED  BY <1>2, <1>3, <1>4, <1>5, <1>6 DEF Next, Loop

LEMMA InvAlways == Spec => []Inv
  BY InvInit, InvNext, PTL DEF Spec

-----------------------------------------------------------------------------
(* Theorems. *)

\* The types of the reads' locals, of the cap and of the drive, through every
\* interleaving of read_chunked() in several threads with a teardown.
THEOREM TypeCorrect == Spec => []TypeOK
<1>1. Inv => TypeOK
  BY DEF Inv
<1> QED  BY <1>1, InvAlways, PTL

\* What laser_read_blocks() and laser_read_cd_blocks() count is in the buffer,
\* each sector at its place, and a count of 0 comes only of a read of nothing.
THEOREM CountedIsRead == Spec => []ReturnedBlocksAreRead
<1>1. Inv => ReturnedBlocksAreRead
  <2> SUFFICES ASSUME Inv, NEW t \in Readers, Returned(t)
               PROVE  LET r == rd[t]
                      IN  /\ r.ret.n > 0 => r.ret.n <= r.n
                          /\ \A i \in 0 .. r.ret.n - 1 : r.buf[i] # None /\ r.buf[i][2] = r.lba + i
                          /\ r.ret = Count(0) => r.n <= 0
    BY DEF ReturnedBlocksAreRead
  <2>1. Ended(rd[t])
    BY DEF Inv, ReadsInv, ReadInv, Returned
  <2>2. None \notin Blocks
    BY NoneIsNoBlock DEF Blocks
  <2> QED  BY <2>1, <2>2 DEF Ended, Holds
<1> QED  BY <1>1, InvAlways, PTL

\* lower_transfer_cap() only lowers the cap, and never below the floor,
\* whichever trial of several readers ends first.
THEOREM CapShrinks == Spec => CapOnlyShrinks
<1>1. Inv /\ [Next]_vars => [reg' = "up" => cap' <= cap /\ cap' >= MinTransfer]_vars
  <2> SUFFICES ASSUME Inv, Next, reg' = "up"
               PROVE  cap' <= cap /\ cap' >= MinTransfer
    OBVIOUS
  <2>1. CapInv' /\ cap \in 0 .. MaxTransfer
    BY InvNext DEF Inv, TypeOK
  <2>2. cap' >= MinTransfer
    BY <2>1 DEF CapInv
  <2>3. ASSUME NEW t \in Readers, Start(t) \/ Choose(t) PROVE cap' = cap
    BY <2>3 DEF Start, Choose
  <2>4. ASSUME NEW t \in Readers, Command(t) PROVE cap' = cap
    BY <2>4, CommandAround
  <2>5. ASSUME NEW t \in Readers, LowerTransferCap(t) PROVE cap' <= cap
    BY <2>5, LowerAround
  <2>6. CASE LastRelease \/ TeardownEnds \/ Swap \/ Unplug \/ AnotherSettles
    <3>1. ~TeardownEnds
      BY DEF TeardownEnds
    <3>2. cap' = cap
      BY <2>6, <3>1 DEF LastRelease, Swap, Unplug, AnotherSettles
    <3> QED  BY <2>1, <2>2, <3>2
  <2> QED  BY <2>1, <2>2, <2>3, <2>4, <2>5, <2>6 DEF Next, Loop
<1>2. CapOnlyShrinks <=> [][reg' = "up" => cap' <= cap /\ cap' >= MinTransfer]_vars
  BY DEF CapOnlyShrinks
<1> QED  BY <1>1, <1>2, InvAlways, PTL DEF Spec

-----------------------------------------------------------------------------
(* Every turn of the loop makes progress. *)

LEMMA ReturnEnds ==
  ASSUME NEW t \in Readers, NEW r, NEW ret, ReadOK(r), ret \in [st : Statuses, n : Nat],
         ReadsTyped, Return(t, r, ret)
  PROVE  /\ rd'[t] = Left(r, ret)
         /\ rd'[t].pc = "done" /\ rd'[t].ret = ret /\ rd'[t].trial_cap = 0
         /\ rd'[t].kind = r.kind /\ rd'[t].walk = r.walk
         /\ \A i \in DOMAIN r.buf : i < ret.n => rd'[t].buf[i] = r.buf[i]
<1>1. rd' = [rd EXCEPT ![t] = Left(r, ret)]
  BY DEF Return, Left
<1>2. rd'[t] = Left(r, ret)
  BY <1>1 DEF ReadsTyped
<1> QED  BY <1>2, LeftIs

\* A read is touched by its own thread only.
LEMMA OnlyOwn ==
  ASSUME NEW u \in Readers, Start(u) \/ Loop(u), ReadsTyped, NEW t \in Readers, t # u
  PROVE  rd'[t] = rd[t]
<1>1. \A x : rd' = [rd EXCEPT ![u] = x] => rd'[t] = rd[t]
  BY DEF ReadsTyped
<1>2. \A r, ret : Return(u, r, ret) => rd'[t] = rd[t]
  BY <1>1 DEF Return
<1>3. \A st : ChunkFailed(u, st) => rd'[t] = rd[t]
  BY <1>1, <1>2 DEF ChunkFailed
<1>4. \A sectors, len : ChunkCame(u, sectors, len) => rd'[t] = rd[t]
  BY <1>1, <1>2 DEF ChunkCame
<1>5. CASE Start(u)
  BY <1>1, <1>5 DEF Start
<1>6. CASE Choose(u)
  BY <1>1, <1>6 DEF Choose
<1>7. CASE Command(u)
  BY <1>3, <1>4, <1>7 DEF Command, CommandFindsNoToken, CommandIsCancelled, CommandFindsNoDevice,
     CommandReportsSwap, CommandIsRefused, CommandFails, CommandReads, CommandFallsShort
<1>8. CASE LowerTransferCap(u)
  BY <1>1, <1>2, <1>8 DEF LowerTransferCap
<1> QED  BY <1>5, <1>6, <1>7, <1>8 DEF Loop

\* A chunk that fails ends the read or leaves it with smaller commands to try.
LEMMA FailureProgresses ==
  ASSUME NEW t \in Readers, NEW st \in Statuses, st # "OK", Inv, cap' = cap,
         Sending(t), ChunkFailed(t, st)
  PROVE  rd'[t].pc = "done" \/ ChunkFor(rd[t])' < rd[t].chunk
<1>1. TypeOK /\ ReadsTyped /\ ReadsInv /\ cap \in 0 .. MaxTransfer
  BY TypeOKIs DEF Inv, Around
<1>2. PICK r : FailsWith(t, st, r)
  BY <1>1, FailedIs
<1> DEFINE s == rd[t]
<1>3. /\ s.kind \in Kinds /\ s.n \in Nat /\ s.done \in Nat /\ s.chunk \in Nat
      /\ s.done < s.n
  BY <1>1, SendingIs
<1>4. /\ ReadOK(r) /\ r.kind = s.kind /\ r.n = s.n /\ r.done = s.done /\ r.chunk = s.chunk
  BY <1>2 DEF FailsWith, SameUpTo
<1> HIDE DEF s
<1>5. CASE rd' = [rd EXCEPT ![t] = Halved(r)] /\ WorthHalving(r, st)
  <2> DEFINE x == Halved(r)
  <2>1. /\ x.kind = s.kind /\ x.n = s.n /\ x.done = s.done
        /\ x.trial_cap = Largest(Bytes(r) \div 2, MinTransfer)
    BY <1>4, HalvedIs
  <2>2. rd'[t] = x
    BY <1>1, <1>5 DEF ReadsTyped
  <2> HIDE DEF x
  <2>3. r.chunk > 1 /\ Bytes(r) > MinTransfer
    BY <1>5 DEF WorthHalving
  <2>4. s.chunk > 1 /\ s.chunk * BlockSize(x.kind) > MinTransfer
        /\ x.trial_cap = Largest((s.chunk * BlockSize(x.kind)) \div 2, MinTransfer)
    BY <1>4, <2>1, <2>3 DEF Bytes
  <2>5. ChunkFor(x) < s.chunk
    BY <1>1, <1>3, <2>1, <2>4, HalfIsSmaller
  <2>6. ChunkFor(rd[t])' = ChunkFor(x)
    BY <2>2 DEF ChunkFor, CapSeen
  <2> QED  BY <2>5, <2>6 DEF s
<1>6. \A ret : Return(t, r, ret) => rd'[t].pc = "done"
  <2> SUFFICES ASSUME NEW ret, Return(t, r, ret) PROVE rd'[t].pc = "done"
    OBVIOUS
  <2>1. rd'[t] = Left(r, ret)
    BY <1>1 DEF Return, Left, ReadsTyped
  <2>2. r \in TypedWith([DOMAIN r.buf -> Blocks \cup {None}])
    BY <1>4, ReadOKIs
  <2>3. Left(r, ret).pc = "done"
    BY <2>2 DEF Left, TypedWith
  <2> QED  BY <2>1, <2>3
<1> QED  BY <1>2, <1>5, <1>6 DEF FailsWith

\* A chunk that comes ends the read or takes it on.
LEMMA ReadingProgresses ==
  ASSUME NEW t \in Readers, Inv, CommandReads(t) \/ CommandFallsShort(t)
  PROVE  rd'[t].pc = "done" \/ rd'[t].done > rd[t].done
<1>1. TypeOK /\ ReadsTyped /\ ReadsInv
  BY DEF Inv, TypeOK, ReadsTyped
<1> DEFINE s == rd[t]
<1>2. Sending(t)
  BY DEF CommandReads, CommandFallsShort
<1>3. s.done \in Nat /\ s.chunk \in Nat /\ s.chunk > 0
  BY <1>1, <1>2, SendingIs
<1>4. \A r, ret : ReadOK(r) /\ Return(t, r, ret) => rd'[t].pc = "done"
  <2> SUFFICES ASSUME NEW r, NEW ret, ReadOK(r), Return(t, r, ret) PROVE rd'[t].pc = "done"
    OBVIOUS
  <2>1. rd'[t] = Left(r, ret)
    BY <1>1 DEF Return, Left, ReadsTyped
  <2>2. r \in TypedWith([DOMAIN r.buf -> Blocks \cup {None}])
    BY ReadOKIs
  <2>3. Left(r, ret).pc = "done"
    BY <2>2 DEF Left, TypedWith
  <2> QED  BY <2>1, <2>3
<1>5. CASE CommandReads(t)
  <2> DEFINE r == [s EXCEPT !.buf = Filled(s, s.chunk, BlockSize(s.kind))]
  <2>1. SameUpTo(r, s) /\ CompletesWith(t, r)
    BY <1>1, <1>5, ReadsIs
  <2> HIDE DEF r, s
  <2>2. ReadOK(r) /\ r.done = s.done /\ r.chunk = s.chunk
    BY <2>1 DEF SameUpTo
  <2>3. /\ ReadOK(Advanced(r, "sending"))
        /\ Advanced(r, "lowering").done = s.done + s.chunk
        /\ Advanced(r, "choosing").done = s.done + s.chunk
    BY <2>2, AdvancedIs
  <2>4. \A x : rd' = [rd EXCEPT ![t] = x] => rd'[t] = x
    BY <1>1 DEF ReadsTyped
  <2>5. s.done + s.chunk > s.done
    BY <1>3
  <2> QED  BY <1>4, <2>1, <2>3, <2>4, <2>5 DEF CompletesWith, s
<1>6. CASE CommandFallsShort(t)
  <2>1. \E r, ret : ReadOK(r) /\ Return(t, r, ret)
    BY <1>1, <1>6, FallsShortIs DEF SameUpTo
  <2> QED  BY <1>4, <2>1
<1> QED  BY <1>5, <1>6

\* read_chunked() cannot go round for ever: a command that leaves the read in
\* progress has brought sectors or is followed by a smaller one.
THEOREM TurnsProgress == Spec => EveryTurnProgresses
<1> DEFINE A == \A t \in Readers : Sending(t) /\ ~Sending(t)' /\ InProgress(t)' =>
                   \/ rd'[t].done > rd[t].done
                   \/ ChunkFor(rd[t])' < rd[t].chunk
<1>1. Inv /\ [Next]_vars => [A]_vars
  <2> SUFFICES ASSUME Inv, Next, NEW t \in Readers, Sending(t), ~Sending(t)', InProgress(t)'
               PROVE  rd'[t].done > rd[t].done \/ ChunkFor(rd[t])' < rd[t].chunk
    OBVIOUS
  <2>1. TypeOK /\ ReadsTyped /\ ReadsInv
    BY DEF Inv, TypeOK, ReadsTyped
  <2>2. rd'[t] # rd[t]
    BY DEF Sending
  <2>3. ~(LastRelease \/ TeardownEnds \/ Swap \/ Unplug \/ AnotherSettles)
    BY <2>2 DEF LastRelease, TeardownEnds, Swap, Unplug, AnotherSettles
  <2>4. Start(t) \/ Loop(t)
    BY <2>1, <2>2, <2>3, OnlyOwn DEF Next
  <2>5. Command(t)
    BY <2>4 DEF Loop, Start, Choose, LowerTransferCap, Sending, InProgress
  <2>6. rd'[t].pc # "done"
    BY DEF InProgress
  <2>7. cap' = cap
    BY <2>5, CommandAround
  <2>8. ASSUME NEW st \in Statuses, st # "OK", ChunkFailed(t, st)
        PROVE  ChunkFor(rd[t])' < rd[t].chunk
    BY <2>6, <2>7, <2>8, FailureProgresses
  <2>9. {"NO_SUCH_TOKEN", "CANCELLED", "NO_DEVICE", "MEDIA_GONE", "REFUSED", "IO"}
           = Statuses \ {"OK", "INVALID"}
    BY DEF Statuses
  <2>10. CASE CommandReads(t) \/ CommandFallsShort(t)
    BY <2>6, <2>10, ReadingProgresses
  <2>11. CASE CommandFindsNoToken(t) \/ CommandIsCancelled(t) \/ CommandFindsNoDevice(t)
    BY <2>8, <2>9, <2>11 DEF CommandFindsNoToken, CommandIsCancelled, CommandFindsNoDevice
  <2>12. CASE CommandReportsSwap(t) \/ CommandIsRefused(t) \/ CommandFails(t)
    BY <2>8, <2>9, <2>12 DEF CommandReportsSwap, CommandIsRefused, CommandFails
  <2> QED  BY <2>5, <2>10, <2>11, <2>12 DEF Command
<1>2. EveryTurnProgresses <=> [][A]_vars
  BY DEF EveryTurnProgresses
<1> HIDE DEF A
<1> QED  BY <1>1, <1>2, InvAlways, PTL DEF Spec

-----------------------------------------------------------------------------
(* The cap of a bridge that carries everything.  As long as nothing but bad *)
(* sectors fails a command, a read with a size on trial has one of them    *)
(* before it, in the range on which the larger size failed: no trial is    *)
(* ever won.                                                               *)

BadAhead(r) == \E b \in drive.bad : r.lba + r.done <= b /\ b < r.lba + r.trial_end

NoTrialWon(r) ==
    /\ r.pc # "lowering"
    /\ ~drive.gone /\ r.trial_cap > 0 => BadAhead(r)

\* The same of a read after a step.
NoTrialNext(r) ==
    /\ r.pc # "lowering"
    /\ ~drive'.gone /\ r.trial_cap > 0 =>
          \E b \in drive'.bad : r.lba + r.done <= b /\ b < r.lba + r.trial_end

OnlyScratches == faults = 0 /\ drive.disc = 0 /\ drive.limit >= MaxTransfer

HealthInv ==
    OnlyScratches => /\ reg # "free" => cap = MaxTransfer
                     /\ \A t \in Readers : rd[t] # None => NoTrialWon(rd[t])

\* What a command leaves of the drive: the disc, and its bad sectors.
SameDisc == /\ drive'.bad = drive.bad /\ drive'.gone = drive.gone
            /\ drive'.disc = drive.disc /\ drive'.limit = drive.limit

LEMMA Carried ==
  ASSUME NEW x, SameDisc, NoTrialWon(x)
  PROVE  NoTrialNext(x)
  BY DEF SameDisc, NoTrialWon, BadAhead, NoTrialNext

LEMMA CommandSameDisc ==
  ASSUME NEW t \in Readers, Inv, Command(t)
  PROVE  SameDisc
<1>1. drive \in Drives
  BY DEF Inv, TypeOK, Drives
<1>2. drive' = drive \/ drive' = [drive EXCEPT !.attention = FALSE]
  BY CommandReports DEF GetsPastReports, ReportGoesTo
<1> QED  BY <1>1, <1>2 DEF SameDisc, Drives

\* Only an I/O error is worth smaller commands.
LEMMA OtherFailuresEnd ==
  ASSUME NEW t \in Readers, NEW st \in Statuses, st # "OK", Inv,
         Sending(t), ChunkFailed(t, st)
  PROVE  \/ rd'[t].pc = "done" /\ rd'[t].trial_cap = 0
         \/ st = "IO" /\ \E r : SameUpTo(r, rd[t]) /\ rd'[t] = Halved(r) /\ r.chunk > 1
<1>1. TypeOK /\ ReadsTyped /\ ReadsInv
  BY DEF Inv, TypeOK, ReadsTyped
<1>2. PICK r : FailsWith(t, st, r)
  BY <1>1, FailedIs
<1>3. SameUpTo(r, rd[t]) /\ ReadOK(r)
  BY <1>2 DEF FailsWith, SameUpTo
<1>4. r.done \in Nat
  BY <1>3 DEF ReadOK
<1>5. CASE rd' = [rd EXCEPT ![t] = Halved(r)] /\ WorthHalving(r, st)
  <2>1. rd'[t] = Halved(r)
    BY <1>1, <1>5 DEF ReadsTyped
  <2> QED  BY <1>3, <1>5, <2>1 DEF WorthHalving
<1>6. ASSUME NEW ret \in [st : Statuses, n : Nat], Return(t, r, ret)
      PROVE  rd'[t].pc = "done" /\ rd'[t].trial_cap = 0
  BY <1>1, <1>3, <1>6, ReturnEnds
<1>7. Status(st) \in [st : Statuses, n : Nat] /\ Count(r.done) \in [st : Statuses, n : Nat]
  BY <1>4, StatusIsNoCount, CountIs
<1> QED  BY <1>2, <1>5, <1>6, <1>7 DEF FailsWith

LEMMA CommandHealth ==
  ASSUME NEW t \in Readers, Inv, HealthInv, Command(t), OnlyScratches'
  PROVE  /\ OnlyScratches
         /\ NoTrialNext(rd'[t])
<1>1. TypeOK /\ ReadsTyped /\ ReadsInv /\ SameDisc
  BY CommandSameDisc DEF Inv, TypeOK, ReadsTyped
<1>2. faults \in Nat /\ faults' >= faults
  BY <1>1, BoundsTyped DEF TypeOK, Command, CommandFindsNoToken, CommandIsCancelled,
     CommandFindsNoDevice, CommandReportsSwap, CommandIsRefused, CommandFails, CommandReads,
     CommandFallsShort
<1>3. OnlyScratches
  BY <1>1, <1>2 DEF OnlyScratches, SameDisc
<1> SUFFICES NoTrialNext(rd'[t])
  BY <1>3
<1> DEFINE s == rd[t]
<1>4. Sending(t)
  BY DEF Command, CommandFindsNoToken, CommandIsCancelled, CommandFindsNoDevice,
     CommandReportsSwap, CommandIsRefused, CommandFails, CommandReads, CommandFallsShort
<1>5. /\ NoTrialWon(s) /\ Progress(s) /\ s.pc = "sending"
      /\ s.lba \in Nat /\ s.done \in Nat /\ s.chunk \in Nat /\ s.chunk > 0
      /\ s.trial_cap \in Nat /\ s.trial_end \in Nat
  BY <1>1, <1>3, <1>4, SendingIs DEF HealthInv
<1>6. ASSUME rd'[t].pc = "done", rd'[t].trial_cap = 0
      PROVE  NoTrialNext(rd'[t])
  BY <1>6 DEF NoTrialNext
<1>7. ASSUME NEW st \in Statuses, st # "OK", st # "IO", ChunkFailed(t, st)
      PROVE  NoTrialNext(rd'[t])
  BY <1>4, <1>6, <1>7, OtherFailuresEnd
<1>8. {"NO_SUCH_TOKEN", "CANCELLED", "NO_DEVICE", "MEDIA_GONE", "REFUSED"}
         = Statuses \ {"OK", "INVALID", "IO"}
  BY DEF Statuses
<1>9. CASE CommandFindsNoToken(t) \/ CommandIsCancelled(t) \/ CommandFindsNoDevice(t)
           \/ CommandReportsSwap(t) \/ CommandIsRefused(t)
  <2>1. \E st \in {"NO_SUCH_TOKEN", "CANCELLED", "NO_DEVICE", "MEDIA_GONE", "REFUSED"} :
           ChunkFailed(t, st)
    BY <1>9 DEF CommandFindsNoToken, CommandIsCancelled, CommandFindsNoDevice,
       CommandReportsSwap, CommandIsRefused
  <2> QED  BY <1>7, <1>8, <2>1
<1>10. CASE CommandFails(t)
  <2>1. ChunkFailed(t, "IO") /\ MustFail(s)
    <3>1. faults' = 0
      BY DEF OnlyScratches
    <3>2. faults + 1 # 0
      BY <1>2
    <3>3. ChunkFailed(t, "IO") /\ (MustFail(s) \/ faults' = faults + 1)
      BY <1>10 DEF CommandFails
    <3> QED  BY <3>1, <3>2, <3>3
  <2>2. CASE rd'[t].pc = "done" /\ rd'[t].trial_cap = 0
    BY <1>6, <2>2
  <2>3. CASE \E r : SameUpTo(r, s) /\ rd'[t] = Halved(r) /\ r.chunk > 1
    <3>1. PICK r : SameUpTo(r, s) /\ rd'[t] = Halved(r) /\ r.chunk > 1
      BY <2>3
    <3> HIDE DEF s
    <3> DEFINE x == Halved(r)
    <3>2. /\ ReadOK(r) /\ r.lba = s.lba /\ r.done = s.done /\ r.chunk = s.chunk
          /\ r.trial_cap = s.trial_cap /\ r.trial_end = s.trial_end
      BY <3>1 DEF SameUpTo
    <3>3. /\ x.pc = "choosing" /\ x.lba = s.lba /\ x.done = s.done
          /\ x.trial_end = IF s.trial_cap = 0 THEN s.done + s.chunk ELSE s.trial_end
      BY <3>2, HalvedIs
    <3> HIDE DEF x
    <3>4. Bytes(s) <= MaxTransfer
      BY <1>5, <3>1, <3>2 DEF Progress
    <3>5. PICK b \in drive.bad : b \in Asked(s)
      <4>1. drive.limit \in Nat /\ MaxTransfer \in Nat /\ Bytes(s) \in Nat
        <5>1. drive.limit \in Nat /\ MaxTransfer \in Nat
          BY <1>1, DrivesTyped, CapsArePositive DEF TypeOK
        <5>2. BlockSize(s.kind) \in Nat
          BY BlockSizes
        <5> QED  BY <1>5, <5>1, <5>2 DEF Bytes
      <4>2. ~(Bytes(s) > drive.limit)
        BY <1>3, <3>4, <4>1 DEF OnlyScratches
      <4> QED  BY <2>1, <4>2 DEF MustFail
    <3>6. s.lba + s.done <= b /\ b < s.lba + s.done + s.chunk /\ b \in Int
      BY <1>5, <3>5 DEF Asked
    <3>7. ~drive.gone
      BY <1>10 DEF CommandFails, Reachable
    <3>8. BadAhead(x)
      <4>1. CASE s.trial_cap = 0
        BY <1>5, <3>3, <3>5, <3>6, <4>1 DEF BadAhead
      <4>2. CASE s.trial_cap # 0
        <5>1. BadAhead(s)
          BY <1>5, <3>7, <4>2 DEF NoTrialWon
        <5> QED  BY <3>3, <4>2, <5>1 DEF BadAhead
      <4> QED  BY <4>1, <4>2
    <3>9. NoTrialWon(x)
      BY <3>3, <3>8 DEF NoTrialWon
    <3>10. rd'[t] = x
      BY <3>1 DEF x
    <3> HIDE DEF x
    <3> QED  BY <1>1, <3>9, <3>10, Carried
  <2>4. "IO" \in Statuses
    BY DEF Statuses
  <2> QED  BY <1>4, <2>1, <2>2, <2>3, <2>4, OtherFailuresEnd
<1>11. CASE CommandReads(t)
  <2> DEFINE r == [s EXCEPT !.buf = Filled(s, s.chunk, BlockSize(s.kind))]
  <2>1. SameUpTo(r, s) /\ CompletesWith(t, r)
    BY <1>1, <1>11, ReadsIs
  <2>2. ~drive.gone /\ Asked(s) \cap drive.bad = {}
    BY <1>11 DEF CommandReads, Reachable, MustFail
  <2> HIDE DEF r, s
  <2>3. /\ ReadOK(r) /\ r.lba = s.lba /\ r.done = s.done /\ r.chunk = s.chunk
        /\ r.trial_cap = s.trial_cap /\ r.trial_end = s.trial_end
    BY <2>1 DEF SameUpTo
  <2>4. s.trial_cap > 0 =>
           \E b \in drive.bad : s.lba + s.done + s.chunk <= b /\ b < s.lba + s.trial_end
    <3> SUFFICES ASSUME s.trial_cap > 0
                 PROVE  \E b \in drive.bad : s.lba + s.done + s.chunk <= b /\ b < s.lba + s.trial_end
      OBVIOUS
    <3>1. PICK b \in drive.bad : s.lba + s.done <= b /\ b < s.lba + s.trial_end
      BY <1>5, <2>2 DEF NoTrialWon, BadAhead
    <3>2. b \in Nat
      BY <1>1, DrivesTyped DEF TypeOK
    <3>3. ~(b \in Asked(s))
      BY <2>2
    <3>4. s.lba + s.done + s.chunk <= b
      BY <1>5, <3>1, <3>2, <3>3 DEF Asked
    <3> QED  BY <3>1, <3>4
  <2> DEFINE whole == Advanced(r, "sending")
             x == Advanced(r, "choosing")
  <2>5. /\ ReadOK(whole) /\ whole.done = s.done + s.chunk
        /\ whole.trial_cap = s.trial_cap /\ whole.trial_end = s.trial_end
    BY <2>3, AdvancedIs
  <2>6. /\ x.pc = "choosing" /\ x.lba = s.lba /\ x.done = s.done + s.chunk
        /\ x.trial_cap = s.trial_cap /\ x.trial_end = s.trial_end
    BY <2>3, AdvancedIs
  <2> HIDE DEF whole, x
  <2>7. ~TrialWon(whole)
    <3>1. \A b \in drive.bad : b \in Nat
      BY <1>1, DrivesTyped DEF TypeOK
    <3> QED  BY <1>5, <2>4, <2>5, <3>1 DEF TrialWon
  <2>8. CASE Return(t, whole, Count(whole.done))
    <3>1. Count(whole.done) \in [st : Statuses, n : Nat]
      BY <1>5, <2>5, CountIs
    <3>2. rd'[t].pc = "done" /\ rd'[t].trial_cap = 0
      BY <1>1, <2>5, <2>8, <3>1, ReturnEnds
    <3> QED  BY <1>6, <3>2
  <2>9. CASE rd' = [rd EXCEPT ![t] = x]
    <3>1. rd'[t] = x
      BY <1>1, <2>9 DEF ReadsTyped
    <3>2. x.trial_cap > 0 => BadAhead(x)
      <4>1. \A b \in drive.bad : s.lba + s.done + s.chunk <= b => s.lba + (s.done + s.chunk) <= b
        <5>1. \A b \in drive.bad : b \in Nat
          BY <1>1, DrivesTyped DEF TypeOK
        <5> QED  BY <1>5, <5>1
      <4> QED  BY <2>4, <2>6, <4>1 DEF BadAhead
    <3>3. NoTrialWon(x)
      BY <2>6, <3>2 DEF NoTrialWon
    <3> QED  BY <1>1, <3>1, <3>3, Carried
  <2> QED  BY <2>1, <2>7, <2>8, <2>9 DEF CompletesWith, whole, x
<1>12. CASE CommandFallsShort(t)
  <2>1. faults' > 0
    BY <1>2, <1>12 DEF CommandFallsShort
  <2> QED  BY <2>1 DEF OnlyScratches
<1> QED  BY <1>3, <1>9, <1>10, <1>11, <1>12 DEF Command

LEMMA HealthNext == Inv /\ HealthInv /\ [Next]_vars => HealthInv'
<1> SUFFICES ASSUME Inv, HealthInv, [Next]_vars, OnlyScratches'
             PROVE  /\ reg' # "free" => cap' = MaxTransfer
                    /\ \A t \in Readers : rd'[t] # None => NoTrialNext(rd'[t])
  BY DEF HealthInv, NoTrialNext, NoTrialWon, BadAhead
<1>1. TypeOK /\ ReadsTyped /\ ReadsInv
  BY DEF Inv, TypeOK, ReadsTyped
<1>2. ASSUME NEW u \in Readers, Start(u) \/ Loop(u), OnlyScratches, SameDisc,
             cap' = cap, reg' = reg, NoTrialNext(rd'[u])
      PROVE  /\ reg' # "free" => cap' = MaxTransfer
             /\ \A t \in Readers : rd'[t] # None => NoTrialNext(rd'[t])
  <2>1. ASSUME NEW t \in Readers, t # u, rd'[t] # None PROVE NoTrialNext(rd'[t])
    <3>1. rd'[t] = rd[t]
      BY <1>1, <1>2, <2>1, OnlyOwn
    <3>2. NoTrialWon(rd[t])
      BY <1>2, <2>1, <3>1 DEF HealthInv
    <3> QED  BY <1>2, <3>1, <3>2, Carried
  <2> QED  BY <1>2, <2>1 DEF HealthInv
<1>3. ASSUME NEW u \in Readers, Start(u)
      PROVE  /\ OnlyScratches /\ SameDisc /\ cap' = cap /\ reg' = reg
             /\ NoTrialNext(rd'[u])
  <2>1. /\ OnlyScratches /\ SameDisc /\ cap' = cap /\ reg' = reg
    BY <1>3 DEF Start, OnlyScratches, SameDisc
  <2> DEFINE walk == WalkOn(rd[u])
  <2>2. PICK q \in Requests : StartsWith(u, q, walk)
    BY <1>1, <1>3, StartIs
  <2> HIDE DEF walk
  <2>3. /\ NewRead(q, walk).pc = "choosing" /\ NewRead(q, walk).trial_cap = 0
        /\ \A ret : /\ ReturnedAtOnce(q, walk, ret).pc = "done"
                    /\ ReturnedAtOnce(q, walk, ret).trial_cap = 0
    BY DEF NewRead, ReturnedAtOnce
  <2>4. rd'[u].pc \in {"choosing", "done"} /\ rd'[u].trial_cap = 0
    <3>1. \A x : rd' = [rd EXCEPT ![u] = x] => rd'[u] = x
      BY <1>1 DEF ReadsTyped
    <3> QED  BY <2>2, <2>3, <3>1 DEF StartsWith
  <2> QED  BY <2>1, <2>4 DEF NoTrialNext
<1>4. ASSUME NEW u \in Readers, Choose(u)
      PROVE  /\ OnlyScratches /\ SameDisc /\ cap' = cap /\ reg' = reg
             /\ NoTrialNext(rd'[u])
  <2>1. /\ OnlyScratches /\ SameDisc /\ cap' = cap /\ reg' = reg
    BY <1>4 DEF Choose, OnlyScratches, SameDisc
  <2> DEFINE s == rd[u]
  <2>2. ReadOK(s) /\ NoTrialWon(s)
    BY <1>1, <1>4, <2>1 DEF Choose, ReadsTyped, HealthInv
  <2>3. rd'[u] = [s EXCEPT !.chunk = ChunkFor(s), !.pc = "sending"]
    BY <1>1, <1>4 DEF Choose, ReadsTyped
  <2>4. s \in TypedWith([DOMAIN s.buf -> Blocks \cup {None}])
    BY <2>2, ReadOKIs
  <2> HIDE DEF s
  <2>5. /\ rd'[u].pc = "sending" /\ rd'[u].lba = s.lba /\ rd'[u].done = s.done
        /\ rd'[u].trial_cap = s.trial_cap /\ rd'[u].trial_end = s.trial_end
    BY <2>3, <2>4 DEF TypedWith
  <2> QED  BY <2>1, <2>2, <2>5 DEF SameDisc, NoTrialWon, BadAhead, NoTrialNext
<1>5. ASSUME NEW u \in Readers, Command(u)
      PROVE  /\ OnlyScratches /\ SameDisc /\ cap' = cap /\ reg' = reg
             /\ NoTrialNext(rd'[u])
  BY <1>5, CommandHealth, CommandSameDisc, CommandAround
<1>6. ASSUME NEW u \in Readers, LowerTransferCap(u) PROVE FALSE
  <2>1. OnlyScratches
    BY <1>6 DEF LowerTransferCap, OnlyScratches
  <2> QED  BY <1>6, <2>1 DEF LowerTransferCap, HealthInv, NoTrialWon
<1>7. CASE LastRelease \/ TeardownEnds \/ UNCHANGED vars
  <2>1. OnlyScratches /\ rd' = rd /\ drive' = drive
    BY <1>7 DEF LastRelease, TeardownEnds, vars, OnlyScratches
  <2>2. reg' # "free" => reg # "free" /\ cap' = cap
    BY <1>7 DEF LastRelease, TeardownEnds, vars
  <2> QED  BY <2>1, <2>2 DEF HealthInv, NoTrialWon, BadAhead, NoTrialNext
<1>8. CASE Swap
  <2>1. drive.disc \in Nat /\ drive'.disc = drive.disc + 1
    BY <1>1, <1>8, BoundsTyped DEF TypeOK, Swap
  <2> QED  BY <2>1 DEF OnlyScratches
<1>9. CASE Unplug
  <2>1. drive'.gone /\ drive'.disc = drive.disc /\ drive'.limit = drive.limit
    BY <1>1, <1>9 DEF TypeOK, Unplug
  <2>2. OnlyScratches /\ rd' = rd /\ cap' = cap /\ reg' = reg
    BY <1>9, <2>1 DEF Unplug, OnlyScratches
  <2> QED  BY <2>1, <2>2 DEF HealthInv, NoTrialWon, NoTrialNext
<1>10. CASE AnotherSettles
  <2>1. drive' = drive \/ drive' = [drive EXCEPT !.attention = FALSE]
    BY <1>10 DEF AnotherSettles, ReportGoesTo
  <2>2. SameDisc
    BY <1>1, <2>1 DEF SameDisc, TypeOK
  <2>3. OnlyScratches /\ rd' = rd /\ cap' = cap /\ reg' = reg
    BY <1>10, <2>2 DEF AnotherSettles, OnlyScratches, SameDisc
  <2> QED  BY <2>2, <2>3, Carried DEF HealthInv
<1> QED  BY <1>2, <1>3, <1>4, <1>5, <1>6, <1>7, <1>8, <1>9, <1>10 DEF Next, Loop

\* Unreadable sectors alone never lower max_transfer_bytes of a bridge that
\* carries the largest data phase there is.
THEOREM ScratchesKeepTheSize == Spec => []HealthyBridgeKeepsItsSize
<1>1. Init => HealthInv
  BY DEF Init, HealthInv
<1>2. HealthInv => HealthyBridgeKeepsItsSize
  BY DEF HealthInv, OnlyScratches, HealthyBridgeKeepsItsSize
<1> QED  BY <1>1, <1>2, InvAlways, HealthNext, PTL DEF Spec

-----------------------------------------------------------------------------
(* Two discs in one read, or in one walk.  After a block of an earlier     *)
(* disc than the one in the drive, the report of the swap is still to come *)
(* unless it went elsewhere already; so that no block of the new disc can  *)
(* come before that.                                                       *)

Consumers == Readers \cup {"nobody"}
Elsewhere(d, t, T) == \E who \in Consumers \ {t} : <<d, who>> \in T

\* Nothing hides from t that the disc in the drive is not e any more.
Known(e, t, dr, T) ==
    /\ e \in Nat /\ e <= dr.disc
    /\ dr.attention \/ dr.gone \/ \A d \in e + 1 .. dr.disc : Elsewhere(d, t, T)

\* Of the first m blocks of a buffer, those of different discs.
Mixed(buf, m, t, T) ==
    \A i, j \in 0 .. m - 1 : \A d \in buf[i][1] + 1 .. buf[j][1] : Elsewhere(d, t, T)

\* Of the first m blocks and the disc in the drive dr.
Fresh(buf, m, t, dr, T) == \A i \in 0 .. m - 1 : Known(buf[i][1], t, dr, T)

\* Of the first m blocks and the disc e that the walk started on.
Walked(buf, m, e, t, T) ==
    \A i \in 0 .. m - 1 : \A d \in e + 1 .. buf[i][1] : Elsewhere(d, t, T)

\* What a read has to show so far, or has returned.
Taken(x) == IF x.pc = "done" THEN x.ret.n ELSE x.done

\* The walk has ended with this read.
GivenUp(x) == x.pc = "done" /\ x.ret.st = "MEDIA_GONE"

MixedRead(x, t, dr, T) ==
    /\ Mixed(x.buf, Taken(x), t, T)
    /\ Fresh(x.buf, Taken(x), t, dr, T)
    /\ x.walk # None => /\ Walked(x.buf, Taken(x), x.walk, t, T)
                        /\ GivenUp(x) \/ Known(x.walk, t, dr, T)

MixInv == \A t \in Readers : rd[t] # None => MixedRead(rd[t], t, drive, told)

\* What s has is kept, and only blocks of the disc in the drive are added.
Extends(x, s, dr) ==
    /\ Taken(x) \in Nat /\ x.walk = s.walk
    /\ \A i \in 0 .. Taken(x) - 1 :
          IF i < s.done THEN x.buf[i] = s.buf[i] ELSE x.buf[i][1] = dr.disc
    /\ Taken(x) <= s.done \/ (~dr.attention /\ ~dr.gone)

LEMMA ExtensionIsMixed ==
  ASSUME NEW t, NEW x, NEW s, NEW dr, NEW T, s.done \in Nat, dr.disc \in Nat,
         s.pc # "done", MixedRead(s, t, dr, T), Extends(x, s, dr)
  PROVE  MixedRead(x, t, dr, T)
<1> DEFINE m == Taken(x)
           k == s.done
           e == dr.disc
           w == s.walk
<1>1. /\ m \in Nat /\ k \in Nat /\ e \in Nat /\ x.walk = w
      /\ \A i \in 0 .. m - 1 : IF i < k THEN x.buf[i] = s.buf[i] ELSE x.buf[i][1] = e
      /\ m <= k \/ (~dr.attention /\ ~dr.gone)
  BY DEF Extends
<1>0. Taken(s) = k /\ ~GivenUp(s)
  BY DEF Taken, GivenUp
<1>2. \A i \in 0 .. k - 1 : Known(s.buf[i][1], t, dr, T)
  BY <1>0 DEF MixedRead, Fresh
<1>3. \A i, j \in 0 .. k - 1 : \A d \in s.buf[i][1] + 1 .. s.buf[j][1] : Elsewhere(d, t, T)
  BY <1>0 DEF MixedRead, Mixed
<1>4. w # None => /\ \A i \in 0 .. k - 1 : \A d \in w + 1 .. s.buf[i][1] : Elsewhere(d, t, T)
                  /\ Known(w, t, dr, T)
  BY <1>0 DEF MixedRead, Walked
<1>5. Known(e, t, dr, T)
  <2>1. e + 1 .. e = {}
    BY <1>1
  <2> QED  BY <1>1, <2>1 DEF Known
<1>6. \A b : Known(b, t, dr, T) =>
         /\ b \in Nat /\ b <= e
         /\ dr.attention \/ dr.gone \/ \A d \in b + 1 .. e : Elsewhere(d, t, T)
  BY DEF Known
<1> HIDE DEF m, k, e, w
<1>7. \A i \in 0 .. m - 1 : Known(x.buf[i][1], t, dr, T)
  <2> TAKE i \in 0 .. m - 1
  <2>1. CASE i < k
    <3>1. i \in 0 .. k - 1 /\ x.buf[i] = s.buf[i]
      BY <1>1, <2>1
    <3> QED  BY <1>2, <3>1
  <2>2. CASE ~(i < k)
    BY <1>1, <1>5, <2>2
  <2> QED  BY <2>1, <2>2
<1>8. \A i, j \in 0 .. m - 1 : \A d \in x.buf[i][1] + 1 .. x.buf[j][1] : Elsewhere(d, t, T)
  <2> TAKE i, j \in 0 .. m - 1
  <2>1. CASE i < k /\ j < k
    <3>1. i \in 0 .. k - 1 /\ j \in 0 .. k - 1 /\ x.buf[i] = s.buf[i] /\ x.buf[j] = s.buf[j]
      BY <1>1, <2>1
    <3> QED  BY <1>3, <3>1
  <2>2. CASE ~(j < k)
    <3>1. x.buf[j][1] = e /\ ~dr.attention /\ ~dr.gone
      BY <1>1, <2>2
    <3> QED  BY <1>6, <1>7, <3>1
  <2>3. CASE ~(i < k)
    <3>1. x.buf[i][1] = e
      BY <1>1, <2>3
    <3>2. x.buf[j][1] \in Nat /\ x.buf[j][1] <= e
      BY <1>6, <1>7
    <3>3. e + 1 .. x.buf[j][1] = {}
      BY <1>1, <3>2
    <3> QED  BY <3>1, <3>3
  <2> QED  BY <2>1, <2>2, <2>3
<1>9. ASSUME w # None
      PROVE  \A i \in 0 .. m - 1 : \A d \in w + 1 .. x.buf[i][1] : Elsewhere(d, t, T)
  <2> TAKE i \in 0 .. m - 1
  <2>1. CASE i < k
    <3>1. i \in 0 .. k - 1 /\ x.buf[i] = s.buf[i]
      BY <1>1, <2>1
    <3> QED  BY <1>4, <1>9, <3>1
  <2>2. CASE ~(i < k)
    <3>1. x.buf[i][1] = e /\ ~dr.attention /\ ~dr.gone
      BY <1>1, <2>2
    <3> QED  BY <1>4, <1>6, <1>9, <3>1
  <2> QED  BY <2>1, <2>2
<1>10. Mixed(x.buf, m, t, T) /\ Fresh(x.buf, m, t, dr, T)
  BY <1>7, <1>8 DEF Mixed, Fresh
<1>11. x.walk # None => Walked(x.buf, m, x.walk, t, T) /\ Known(x.walk, t, dr, T)
  BY <1>1, <1>4, <1>9 DEF Walked
<1> QED  BY <1>10, <1>11 DEF MixedRead, m

\* A report that went to somebody else, a swap, an unplugging: each leaves a
\* read as explained as it was.
Passes(t) ==
    /\ told \subseteq told'
    /\ drive.disc \in Nat /\ drive'.disc \in Nat /\ drive'.disc >= drive.disc
    /\ \/ drive'.gone
       \/ drive'.attention
       \/ drive' = drive
       \/ /\ drive'.disc = drive.disc
          /\ \A d \in 1 .. drive.disc : Elsewhere(d, t, told')

LEMMA KnownPasses ==
  ASSUME NEW t, NEW b, Known(b, t, drive, told), Passes(t)
  PROVE  Known(b, t, drive', told')
<1> DEFINE e == drive.disc
           f == drive'.disc
<1>1. b \in Nat /\ b <= e /\ e \in Nat /\ f \in Nat /\ f >= e
  BY DEF Known, Passes
<1>2. \A d : Elsewhere(d, t, told) => Elsewhere(d, t, told')
  BY DEF Elsewhere, Passes
<1>3. CASE drive'.gone \/ drive'.attention
  BY <1>1, <1>3 DEF Known
<1>4. CASE drive' = drive
  BY <1>2, <1>4 DEF Known
<1>5. CASE f = e /\ \A d \in 1 .. e : Elsewhere(d, t, told')
  <2>1. \A d \in b + 1 .. f : d \in 1 .. e
    BY <1>1, <1>5
  <2> QED  BY <1>1, <1>5, <2>1 DEF Known
<1> QED  BY <1>3, <1>4, <1>5 DEF Passes

LEMMA PassingIsMixed ==
  ASSUME NEW t, NEW x, MixedRead(x, t, drive, told), Passes(t)
  PROVE  MixedRead(x, t, drive', told')
<1>1. \A d : Elsewhere(d, t, told) => Elsewhere(d, t, told')
  BY DEF Elsewhere, Passes
<1>2. Mixed(x.buf, Taken(x), t, told')
  BY <1>1 DEF MixedRead, Mixed
<1>3. Fresh(x.buf, Taken(x), t, drive', told')
  BY KnownPasses DEF MixedRead, Fresh
<1>4. x.walk # None => /\ Walked(x.buf, Taken(x), x.walk, t, told')
                       /\ GivenUp(x) \/ Known(x.walk, t, drive', told')
  BY <1>1, KnownPasses DEF MixedRead, Walked
<1> QED  BY <1>2, <1>3, <1>4 DEF MixedRead

\* A report passes whoever did not get it.
LEMMA ReportPasses ==
  ASSUME Around, NEW who \in Consumers, ReportGoesTo(who), NEW t, t # who
  PROVE  Passes(t)
<1>1. drive.disc \in Nat /\ drive'.disc = drive.disc
  BY BoundsTyped DEF ReportGoesTo, Around, Drives
<1>2. told' = told \cup {<<d, who>> : d \in 1 .. drive.disc}
  BY DEF ReportGoesTo
<1>3. \A d \in 1 .. drive.disc : Elsewhere(d, t, told')
  <2>1. \A d \in 1 .. drive.disc : <<d, who>> \in told'
    BY <1>2
  <2> QED  BY <2>1 DEF Elsewhere
<1> QED  BY <1>1, <1>2, <1>3 DEF Passes

LEMMA SamePasses ==
  ASSUME Around, UNCHANGED <<drive, told>>, NEW t
  PROVE  Passes(t)
<1>1. drive.disc \in Nat /\ drive' = drive /\ told' = told
  BY BoundsTyped DEF Around, Drives
<1>2. drive'.disc = drive.disc
  BY <1>1
<1> QED  BY <1>1, <1>2 DEF Passes

LEMMA PastPasses ==
  ASSUME Around, GetsPastReports, NEW t \in Readers
  PROVE  Passes(t)
<1>1. "nobody" \in Consumers /\ t # "nobody"
  BY NobodyReads DEF Consumers
<1> QED  BY <1>1, ReportPasses, SamePasses DEF GetsPastReports

LEMMA NothingIsMixed ==
  ASSUME NEW x, Taken(x) = 0, NEW t, NEW dr, NEW T,
         x.walk = None \/ GivenUp(x) \/ Known(x.walk, t, dr, T)
  PROVE  MixedRead(x, t, dr, T)
<1>1. 0 .. Taken(x) - 1 = {}
  OBVIOUS
<1> QED  BY <1>1 DEF MixedRead, Mixed, Fresh, Walked

\* What the steps of a read make of it.
LEMMA FailureExtends ==
  ASSUME NEW t \in Readers, NEW st \in Statuses, st # "OK", Inv,
         Sending(t), ChunkFailed(t, st)
  PROVE  /\ \A dr : Extends(rd'[t], rd[t], dr)
         /\ st \in Stops => Taken(rd'[t]) = 0
         /\ st = "MEDIA_GONE" => GivenUp(rd'[t])
<1> DEFINE s == rd[t]
           x == rd'[t]
<1>1. TypeOK /\ ReadsTyped /\ ReadsInv
  BY DEF Inv, TypeOK, ReadsTyped
<1>2. PICK r : FailsWith(t, st, r)
  BY <1>1, FailedIs
<1>3. /\ s.done \in Nat /\ s.chunk \in Nat /\ s.n \in Nat /\ s.done + s.chunk <= s.n
      /\ DOMAIN s.buf = 0 .. s.n - 1
  BY <1>1, SendingIs DEF Progress
<1>4. /\ ReadOK(r) /\ r.done = s.done /\ DOMAIN r.buf = 0 .. s.n - 1 /\ r.walk = s.walk
      /\ \A i \in 0 .. s.done - 1 : i \in DOMAIN s.buf => r.buf[i] = s.buf[i]
  BY <1>2, <1>3 DEF FailsWith, SameUpTo
<1>5. \A i \in 0 .. s.done - 1 : i \in DOMAIN s.buf /\ i \in DOMAIN r.buf /\ i < s.done
  BY <1>3, <1>4
<1>6. ASSUME NEW ret, ret \in {Count(s.done), Status(st)}, Return(t, r, ret)
      PROVE  /\ Taken(x) = ret.n /\ ret.n \in {0, s.done} /\ x.walk = s.walk
             /\ x.pc = "done" /\ x.ret = ret
             /\ \A i \in 0 .. Taken(x) - 1 : x.buf[i] = s.buf[i]
  <2>1. ret \in [st : Statuses, n : Nat] /\ ret.n \in {0, s.done}
    BY <1>3, <1>6, CountIs, StatusIsNoCount
  <2> HIDE DEF s
  <2>2. /\ x.pc = "done" /\ x.ret = ret /\ x.walk = r.walk
        /\ \A i \in DOMAIN r.buf : i < ret.n => x.buf[i] = r.buf[i]
    <3>1. ReadsTyped /\ ReadOK(r) /\ ret \in [st : Statuses, n : Nat] /\ Return(t, r, ret)
      BY <1>1, <1>4, <1>6, <2>1
    <3> QED  BY <3>1, ReturnEnds
  <2> HIDE DEF x
  <2>3. Taken(x) = ret.n
    BY <2>2 DEF Taken
  <2>4. \A i \in 0 .. ret.n - 1 : i \in 0 .. s.done - 1 /\ i < ret.n
    BY <1>3, <2>1
  <2> QED  BY <1>4, <1>5, <2>1, <2>2, <2>3, <2>4
<1>7. ASSUME rd' = [rd EXCEPT ![t] = Halved(r)]
      PROVE  /\ Taken(x) = s.done /\ x.walk = s.walk
             /\ \A i \in 0 .. Taken(x) - 1 : x.buf[i] = s.buf[i]
  <2>1. x = Halved(r)
    BY <1>1, <1>7 DEF ReadsTyped
  <2>2. x.pc = "choosing" /\ x.done = r.done /\ x.buf = r.buf /\ x.walk = r.walk
    BY <1>4, <2>1, HalvedIs
  <2> HIDE DEF x, s
  <2> QED  BY <1>4, <1>5, <2>2 DEF Taken
<1>8. ASSUME Taken(x) \in {0, s.done}, x.walk = s.walk,
             \A i \in 0 .. Taken(x) - 1 : x.buf[i] = s.buf[i]
      PROVE  \A dr : Extends(x, s, dr)
  <2> HIDE DEF x, s
  <2> QED  BY <1>3, <1>8 DEF Extends
<1>9. CASE st \in Stops
  <2>1. Return(t, r, Status(st)) /\ Status(st).n = 0 /\ Status(st).st = st
    BY <1>2, <1>9, StatusIsNoCount DEF FailsWith, Status
  <2>2. GivenUp(x) \/ st # "MEDIA_GONE"
    BY <1>6, <2>1 DEF GivenUp
  <2> QED  BY <1>6, <1>8, <2>1, <2>2
<1>10. CASE st \notin Stops
  <2>1. \/ Return(t, r, Count(s.done)) \/ Return(t, r, Status(st))
        \/ rd' = [rd EXCEPT ![t] = Halved(r)]
    BY <1>2, <1>4, <1>10 DEF FailsWith
  <2>2. /\ Taken(x) \in {0, s.done} /\ x.walk = s.walk
        /\ \A i \in 0 .. Taken(x) - 1 : x.buf[i] = s.buf[i]
    BY <1>6, <1>7, <2>1
  <2> QED  BY <1>8, <1>10, <2>2 DEF Stops
<1> QED  BY <1>9, <1>10

\* The blocks of a buffer that the drive has filled from done on.
LEMMA FilledExtends ==
  ASSUME NEW x, NEW s, NEW r, NEW dr, NEW m \in Nat, s.done \in Nat, s.lba \in Nat,
         SameUpTo(r, s), DOMAIN s.buf = 0 .. s.n - 1, s.n \in Nat, m <= s.n,
         \A i \in s.done .. m - 1 : r.buf[i] = <<dr.disc, s.lba + i>>,
         Taken(x) = m, x.walk = r.walk, \A i \in DOMAIN r.buf : i < m => x.buf[i] = r.buf[i],
         ~dr.attention, ~dr.gone
  PROVE  Extends(x, s, dr)
<1>1. r.walk = s.walk /\ \A i \in 0 .. s.done - 1 : i \in DOMAIN s.buf => r.buf[i] = s.buf[i]
  BY DEF SameUpTo
<1>2. DOMAIN r.buf = 0 .. s.n - 1
  BY DEF SameUpTo
<1> SUFFICES ASSUME NEW i \in 0 .. m - 1
             PROVE  IF i < s.done THEN x.buf[i] = s.buf[i] ELSE x.buf[i][1] = dr.disc
  BY <1>1 DEF Extends
<1>3. x.buf[i] = r.buf[i]
  BY <1>2
<1>4. CASE i < s.done
  <2>1. i \in 0 .. s.done - 1 /\ i \in DOMAIN s.buf
    BY <1>4
  <2> QED  BY <1>1, <1>3, <1>4, <2>1
<1>5. CASE ~(i < s.done)
  <2>1. i \in s.done .. m - 1
    BY <1>5
  <2>2. r.buf[i] = <<dr.disc, s.lba + i>>
    BY <2>1
  <2> QED  BY <1>3, <1>5, <2>2
<1> QED  BY <1>4, <1>5

\* A command that reads has no report of the disc it reads before it.
LEMMA PastIsClear ==
  ASSUME Inv, Reachable, GetsPastReports
  PROVE  drive'.disc = drive.disc /\ ~drive'.attention /\ ~drive'.gone
<1>1. drive \in Drives
  BY DEF Inv, TypeOK, Drives
<1>2. \/ drive' = drive /\ ~drive.attention
      \/ drive' = [drive EXCEPT !.attention = FALSE]
  BY DEF GetsPastReports, ReportGoesTo
<1> QED  BY <1>1, <1>2 DEF Reachable, Drives

LEMMA ReadingExtends ==
  ASSUME NEW t \in Readers, Inv, CommandReads(t)
  PROVE  Extends(rd'[t], rd[t], drive')
<1> DEFINE s == rd[t]
           x == rd'[t]
           dr == drive'
           r == [s EXCEPT !.buf = Filled(s, s.chunk, BlockSize(s.kind))]
           m == s.done + s.chunk
<1>1. TypeOK /\ ReadsTyped /\ ReadsInv /\ Sending(t)
  BY DEF Inv, TypeOK, ReadsTyped, CommandReads
<1>9. dr.disc = drive.disc /\ ~dr.attention /\ ~dr.gone
  BY PastIsClear DEF CommandReads
<1>2. /\ SameUpTo(r, s) /\ \A i \in s.done .. s.done + s.chunk - 1 : r.buf[i] = <<drive.disc, s.lba + i>>
      /\ CompletesWith(t, r)
  BY <1>1, ReadsIs
<1>3. /\ s.done \in Nat /\ s.chunk \in Nat /\ s.n \in Nat /\ s.lba \in Nat
      /\ DOMAIN s.buf = 0 .. s.n - 1 /\ s.done + s.chunk <= s.n
  BY <1>1, SendingIs DEF Progress
<1> HIDE DEF s, r, x, dr
<1>4. ReadOK(r) /\ r.done = s.done /\ r.chunk = s.chunk
  BY <1>2 DEF SameUpTo
<1>5. \A pc \in {"choosing", "sending", "lowering"} :
         /\ ReadOK(Advanced(r, pc)) /\ Advanced(r, pc).pc = pc
         /\ Advanced(r, pc).done = m /\ Advanced(r, pc).buf = r.buf
         /\ Advanced(r, pc).walk = r.walk
  BY <1>4, AdvancedIs
<1>6. m \in Nat /\ m <= s.n /\ \A i \in s.done .. m - 1 : r.buf[i] = <<dr.disc, s.lba + i>>
  BY <1>2, <1>3, <1>9
<1> HIDE DEF m
<1>7. /\ Taken(x) = m /\ x.walk = r.walk
      /\ \A i \in DOMAIN r.buf : i < m => x.buf[i] = r.buf[i]
  <2>1. ASSUME NEW pc \in {"choosing", "lowering"}, rd' = [rd EXCEPT ![t] = Advanced(r, pc)]
        PROVE  /\ Taken(x) = m /\ x.walk = r.walk
               /\ \A i \in DOMAIN r.buf : i < m => x.buf[i] = r.buf[i]
    <3>1. x = Advanced(r, pc)
      BY <1>1, <2>1 DEF ReadsTyped, x
    <3>2. x.pc = pc /\ pc # "done" /\ x.done = m /\ x.buf = r.buf /\ x.walk = r.walk
      BY <1>5, <3>1
    <3> QED  BY <3>2 DEF Taken
  <2>2. ASSUME Return(t, Advanced(r, "sending"), Count(Advanced(r, "sending").done))
        PROVE  /\ Taken(x) = m /\ x.walk = r.walk
               /\ \A i \in DOMAIN r.buf : i < m => x.buf[i] = r.buf[i]
    <3> DEFINE w == Advanced(r, "sending")
    <3>1. ReadOK(w) /\ w.done = m /\ w.buf = r.buf /\ w.walk = r.walk
      BY <1>5
    <3>2. Return(t, w, Count(m))
      BY <2>2, <3>1
    <3> HIDE DEF w
    <3>3. Count(m) \in [st : Statuses, n : Nat] /\ Count(m).n = m
      BY <1>6, CountIs
    <3>4. /\ rd'[t].pc = "done" /\ rd'[t].ret = Count(m) /\ rd'[t].walk = w.walk
          /\ \A i \in DOMAIN w.buf : i < Count(m).n => rd'[t].buf[i] = w.buf[i]
      BY <1>1, <3>1, <3>2, <3>3, ReturnEnds
    <3>5. Taken(x) = m
      BY <3>3, <3>4 DEF Taken, x
    <3> QED  BY <3>1, <3>3, <3>4, <3>5 DEF x
  <2> QED  BY <1>2, <2>1, <2>2 DEF CompletesWith
<1>8. Extends(x, s, dr)
  BY <1>9, <1>2, <1>3, <1>6, <1>7, FilledExtends
<1> QED  BY <1>8 DEF x, s, dr

LEMMA FallingShortExtends ==
  ASSUME NEW t \in Readers, Inv, CommandFallsShort(t)
  PROVE  Extends(rd'[t], rd[t], drive')
<1> DEFINE s == rd[t]
           x == rd'[t]
           dr == drive'
<1>1. TypeOK /\ ReadsTyped /\ ReadsInv /\ Sending(t)
  BY DEF Inv, TypeOK, ReadsTyped, CommandFallsShort
<1>11. dr.disc = drive.disc /\ ~dr.attention /\ ~dr.gone
  BY PastIsClear DEF CommandFallsShort
<1>10. PICK sectors \in 0 .. s.chunk - 1 : \E r :
         /\ SameUpTo(r, s)
         /\ \A i \in s.done .. s.done + sectors - 1 : r.buf[i] = <<drive.disc, s.lba + i>>
         /\ Return(t, r, ShortOf(s.done + sectors))
  BY <1>1, FallsShortIs
<1>2. PICK r :
         /\ SameUpTo(r, s)
         /\ \A i \in s.done .. s.done + sectors - 1 : r.buf[i] = <<drive.disc, s.lba + i>>
         /\ Return(t, r, ShortOf(s.done + sectors))
  BY <1>10
<1>3. /\ s.done \in Nat /\ s.chunk \in Nat /\ s.n \in Nat /\ s.lba \in Nat
      /\ DOMAIN s.buf = 0 .. s.n - 1 /\ s.done + s.chunk <= s.n
  BY <1>1, SendingIs DEF Progress
<1> HIDE DEF s, x, dr
<1> DEFINE m == s.done + sectors
<1>4. m \in Nat /\ m <= s.n /\ \A i \in s.done .. m - 1 : r.buf[i] = <<dr.disc, s.lba + i>>
  <2>1. m \in Nat /\ m <= s.n
    BY <1>3
  <2>2. s.done .. m - 1 = s.done .. s.done + sectors - 1
    <3>1. sectors \in Int /\ s.done \in Int
      BY <1>3
    <3> QED  BY <3>1
  <2>3. \A i \in s.done .. s.done + sectors - 1 : r.buf[i] = <<drive.disc, s.lba + i>>
    BY <1>2
  <2> QED  BY <1>11, <2>1, <2>2, <2>3
<1>5. Return(t, r, ShortOf(m)) /\ ReadOK(r)
  BY <1>2 DEF SameUpTo
<1> HIDE DEF m
<1>6. ShortOf(m) \in [st : Statuses, n : Nat] /\ ShortOf(m).n = m
  <2>1. "IO" \in Statuses
    BY DEF Statuses
  <2> QED  BY <1>4, <2>1, CountIs, StatusIsNoCount DEF ShortOf
<1>7. /\ x.pc = "done" /\ x.ret = ShortOf(m) /\ x.walk = r.walk
      /\ \A i \in DOMAIN r.buf : i < m => x.buf[i] = r.buf[i]
  BY <1>1, <1>5, <1>6, ReturnEnds DEF x
<1>8. Taken(x) = m
  BY <1>6, <1>7 DEF Taken
<1>9. Extends(x, s, dr)
  BY <1>11, <1>2, <1>3, <1>4, <1>7, <1>8, FilledExtends
<1> QED  BY <1>9 DEF x, s, dr

LEMMA CommandMixed ==
  ASSUME NEW t \in Readers, Inv, MixInv, Command(t)
  PROVE  /\ MixedRead(rd'[t], t, drive', told')
         /\ \A u \in Readers \ {t} : Passes(u)
<1> DEFINE s == rd[t]
<1>1. TypeOK /\ ReadsTyped /\ ReadsInv /\ Around
  BY TypeOKIs DEF Inv
<1>2. Sending(t)
  BY DEF Command, CommandFindsNoToken, CommandIsCancelled, CommandFindsNoDevice,
     CommandReportsSwap, CommandIsRefused, CommandFails, CommandReads, CommandFallsShort
<1>3. /\ s.pc = "sending" /\ s.done \in Nat /\ s # None
  BY <1>1, <1>2, SendingIs
<1>4. drive'.disc \in Nat
  BY CommandSameDisc, <1>1, BoundsTyped DEF SameDisc, Around, Drives
<1>5. MixedRead(s, t, drive, told)
  BY <1>3 DEF MixInv
<1>6. ASSUME Extends(rd'[t], s, drive'), Passes(t)
      PROVE  MixedRead(rd'[t], t, drive', told')
  <2> DEFINE x == rd'[t]
             dr == drive'
             T == told'
  <2>1. MixedRead(s, t, dr, T)
    <3> HIDE DEF s
    <3> QED  BY <1>5, <1>6, PassingIsMixed
  <2>2. Extends(x, s, dr) /\ dr.disc \in Nat
    BY <1>4, <1>6
  <2> HIDE DEF x, s, dr, T
  <2>3. MixedRead(x, t, dr, T)
    BY <1>3, <2>1, <2>2, ExtensionIsMixed
  <2> QED  BY <2>3 DEF x, dr, T
<1>8. {"NO_SUCH_TOKEN", "CANCELLED", "NO_DEVICE", "MEDIA_GONE", "REFUSED", "IO"}
         = Statuses \ {"OK", "INVALID"}
  BY DEF Statuses
<1>9. ASSUME NEW st \in Statuses, st # "OK", ChunkFailed(t, st)
      PROVE  /\ Extends(rd'[t], s, drive') /\ (st \in Stops => Taken(rd'[t]) = 0)
             /\ st = "MEDIA_GONE" => GivenUp(rd'[t])
  BY <1>2, <1>9, FailureExtends
<1>10. CASE CommandFindsNoToken(t) \/ CommandIsCancelled(t) \/ CommandFindsNoDevice(t)
            \/ CommandIsRefused(t) \/ CommandFails(t)
  <2>1. UNCHANGED <<drive, told>> \/ GetsPastReports
    BY <1>10 DEF CommandFindsNoToken, CommandIsCancelled, CommandFindsNoDevice,
       CommandIsRefused, CommandFails
  <2>2. \E st \in {"NO_SUCH_TOKEN", "CANCELLED", "NO_DEVICE", "REFUSED", "IO"} :
           ChunkFailed(t, st)
    BY <1>10 DEF CommandFindsNoToken, CommandIsCancelled, CommandFindsNoDevice,
       CommandIsRefused, CommandFails
  <2>3. Extends(rd'[t], s, drive')
    BY <1>8, <1>9, <2>2
  <2>4. \A u \in Readers : Passes(u)
    BY <1>1, <2>1, SamePasses, PastPasses
  <2> QED  BY <1>6, <2>3, <2>4
<1>11. CASE CommandReportsSwap(t)
  <2>1. Taken(rd'[t]) = 0 /\ GivenUp(rd'[t])
    BY <1>8, <1>9, <1>11 DEF CommandReportsSwap, Stops
  <2>2. t \in Consumers /\ ReportGoesTo(t)
    BY <1>11 DEF CommandReportsSwap, Consumers
  <2>3. \A u \in Readers \ {t} : Passes(u)
    BY <1>1, <2>2, ReportPasses
  <2> QED  BY <2>1, <2>3, NothingIsMixed
<1>12. CASE CommandReads(t)
  <2>1. Extends(rd'[t], s, drive')
    BY <1>12, ReadingExtends
  <2>2. \A u \in Readers : Passes(u)
    BY <1>1, <1>12, PastPasses DEF CommandReads
  <2> QED  BY <1>6, <2>1, <2>2
<1>13. CASE CommandFallsShort(t)
  <2>1. Extends(rd'[t], s, drive')
    BY <1>13, FallingShortExtends
  <2>2. \A u \in Readers : Passes(u)
    BY <1>1, <1>13, PastPasses DEF CommandFallsShort
  <2> QED  BY <1>6, <2>1, <2>2
<1> QED  BY <1>10, <1>11, <1>12, <1>13 DEF Command

\* Where the walk of the next read starts, the consumer was not told to stop.
LEMMA WalkIsKnown ==
  ASSUME NEW t \in Readers, Inv, MixInv, ~InProgress(t)
  PROVE  WalkOn(rd[t]) = None \/ Known(WalkOn(rd[t]), t, drive, told)
<1> DEFINE r == rd[t]
<1>1. r = None \/ (r.pc = "done" /\ Ended(r) /\ MixedRead(r, t, drive, told))
  BY DEF Inv, ReadsInv, ReadInv, MixInv, InProgress
<1> HIDE DEF r
<1>2. CASE r = None \/ r.ret.st = "MEDIA_GONE"
  BY <1>2 DEF WalkOn, r
<1>3. CASE r # None /\ r.ret.st # "MEDIA_GONE" /\ r.walk = None /\ r.ret.n > 0
  <2>1. Taken(r) = r.ret.n /\ r.ret.n \in Nat
    BY <1>1, <1>3 DEF Taken, Ended
  <2>2. 0 \in 0 .. Taken(r) - 1
    BY <1>3, <2>1
  <2>3. Known(r.buf[0][1], t, drive, told)
    BY <1>1, <1>3, <2>2 DEF MixedRead, Fresh
  <2> QED  BY <1>3, <2>3 DEF WalkOn, r
<1>4. CASE r # None /\ r.ret.st # "MEDIA_GONE" /\ ~(r.walk = None /\ r.ret.n > 0)
  <2>1. WalkOn(rd[t]) = r.walk
    BY <1>4 DEF WalkOn, r
  <2>2. r.walk = None \/ Known(r.walk, t, drive, told)
    BY <1>1, <1>4 DEF MixedRead, GivenUp
  <2> QED  BY <2>1, <2>2
<1> QED  BY <1>2, <1>3, <1>4

LEMMA MixNext == Inv /\ MixInv /\ [Next]_vars => MixInv'
<1> SUFFICES ASSUME Inv, MixInv, [Next]_vars
             PROVE  \A t \in Readers : rd'[t] # None => MixedRead(rd'[t], t, drive', told')
  BY DEF MixInv, MixedRead, Mixed, Fresh, Walked, Known, Taken, GivenUp, Elsewhere, Consumers
<1>1. TypeOK /\ ReadsTyped /\ ReadsInv /\ Around
  BY TypeOKIs DEF Inv
<1>2. drive.disc \in Nat /\ drive \in Drives
  BY <1>1, BoundsTyped DEF Around, Drives
<1>3. ASSUME NEW t \in Readers, rd'[t] = rd[t], rd[t] # None, Passes(t)
      PROVE  MixedRead(rd'[t], t, drive', told')
  <2> DEFINE x == rd[t]
  <2>1. MixedRead(x, t, drive, told)
    BY <1>3 DEF MixInv
  <2> HIDE DEF x
  <2>2. MixedRead(x, t, drive', told')
    BY <1>3, <2>1, PassingIsMixed
  <2> QED  BY <1>3, <2>2 DEF x
<1>4. ASSUME NEW u \in Readers, Start(u) \/ Loop(u),
             \A t \in Readers \ {u} : Passes(t),
             MixedRead(rd'[u], u, drive', told')
      PROVE  \A t \in Readers : rd'[t] # None => MixedRead(rd'[t], t, drive', told')
  <2> SUFFICES ASSUME NEW t \in Readers, t # u, rd'[t] # None
               PROVE  MixedRead(rd'[t], t, drive', told')
    BY <1>4
  <2>1. rd'[t] = rd[t]
    BY <1>1, <1>4, OnlyOwn
  <2> QED  BY <1>3, <1>4, <2>1
<1>5. ASSUME NEW u \in Readers, Start(u)
      PROVE  MixedRead(rd'[u], u, drive', told') /\ drive' = drive /\ told' = told
  <2> DEFINE walk == WalkOn(rd[u])
             x == rd'[u]
  <2>1. PICK q \in Requests : StartsWith(u, q, walk)
    BY <1>1, <1>5, StartIs
  <2>2. walk = None \/ Known(walk, u, drive, told)
    BY <1>5, WalkIsKnown DEF Start
  <2>3. drive' = drive /\ told' = told
    BY <1>5 DEF Start
  <2>4. \A y : rd' = [rd EXCEPT ![u] = y] => x = y
    BY <1>1 DEF ReadsTyped
  <2> HIDE DEF walk, x
  <2>5. /\ NewRead(q, walk).pc = "choosing" /\ NewRead(q, walk).done = 0
        /\ NewRead(q, walk).walk = walk
        /\ \A ret : /\ ReturnedAtOnce(q, walk, ret).pc = "done"
                    /\ ReturnedAtOnce(q, walk, ret).ret = ret
                    /\ ReturnedAtOnce(q, walk, ret).walk = walk
    BY DEF NewRead, ReturnedAtOnce
  <2>6. Status("INVALID").n = 0 /\ Count(0).n = 0
    BY DEF Status, Count
  <2>7. Taken(x) = 0 /\ x.walk = walk
    BY <2>1, <2>4, <2>5, <2>6 DEF StartsWith, Taken
  <2>8. MixedRead(x, u, drive, told)
    BY <2>2, <2>7, NothingIsMixed
  <2> QED  BY <2>3, <2>8 DEF x
<1>6. ASSUME NEW u \in Readers, Choose(u)
      PROVE  MixedRead(rd'[u], u, drive', told') /\ drive' = drive /\ told' = told
  <2> DEFINE s == rd[u]
             x == rd'[u]
  <2>1. ReadOK(s) /\ s.pc = "choosing" /\ MixedRead(s, u, drive, told)
    BY <1>1, <1>6 DEF Choose, ReadsTyped, MixInv
  <2>2. x = [s EXCEPT !.chunk = ChunkFor(s), !.pc = "sending"]
    BY <1>1, <1>6 DEF Choose, ReadsTyped
  <2>3. s \in TypedWith([DOMAIN s.buf -> Blocks \cup {None}])
    BY <2>1, ReadOKIs
  <2>4. drive' = drive /\ told' = told
    BY <1>6 DEF Choose
  <2> HIDE DEF s, x
  <2>5. x.pc = "sending" /\ x.done = s.done /\ x.buf = s.buf /\ x.walk = s.walk
    BY <2>2, <2>3 DEF TypedWith
  <2>6. Taken(x) = Taken(s) /\ ~GivenUp(s)
    BY <2>1, <2>5 DEF Taken, GivenUp
  <2>7. MixedRead(x, u, drive, told)
    BY <2>1, <2>5, <2>6 DEF MixedRead
  <2> QED  BY <2>4, <2>7 DEF x
<1>7. ASSUME NEW u \in Readers, LowerTransferCap(u)
      PROVE  MixedRead(rd'[u], u, drive', told') /\ drive' = drive /\ told' = told
  <2> DEFINE s == rd[u]
             x == rd'[u]
  <2>1. /\ ReadOK(s) /\ Progress(s) /\ s.pc = "lowering" /\ s # None
        /\ \/ s.done >= s.n /\ Return(u, Settled(s, "lowering"), Count(s.done))
           \/ s.done < s.n /\ rd' = [rd EXCEPT ![u] = Settled(s, "choosing")]
    BY <1>1, <1>7, LowerIs
  <2>2. MixedRead(s, u, drive, told)
    BY <2>1 DEF MixInv
  <2>3. drive' = drive /\ told' = told
    BY <1>7 DEF LowerTransferCap
  <2> HIDE DEF s
  <2>4. s.done \in Nat /\ s.done <= s.n /\ s.n \in Int /\ DOMAIN s.buf = 0 .. s.n - 1
    BY <2>1 DEF ReadOK, Progress
  <2>5. \A i \in 0 .. s.done - 1 : i \in DOMAIN s.buf /\ i < s.done
    BY <2>4
  <2>6. Taken(x) = s.done /\ x.walk = s.walk /\ \A i \in 0 .. s.done - 1 : x.buf[i] = s.buf[i]
    <3>1. CASE Return(u, Settled(s, "lowering"), Count(s.done))
      <4> DEFINE r == Settled(s, "lowering")
      <4>1. ReadOK(r) /\ r.buf = s.buf /\ r.walk = s.walk
        BY <2>1, SettledIs
      <4>2. Count(s.done) \in [st : Statuses, n : Nat] /\ Count(s.done).n = s.done
        BY <2>4, CountIs
      <4>3. Return(u, r, Count(s.done))
        BY <3>1
      <4> HIDE DEF r
      <4>4. /\ x.pc = "done" /\ x.ret = Count(s.done) /\ x.walk = r.walk
            /\ \A i \in DOMAIN r.buf : i < Count(s.done).n => x.buf[i] = r.buf[i]
        BY <1>1, <4>1, <4>2, <4>3, ReturnEnds
      <4> HIDE DEF x
      <4> QED  BY <2>5, <4>1, <4>2, <4>4 DEF Taken
    <3>2. CASE rd' = [rd EXCEPT ![u] = Settled(s, "choosing")]
      <4>1. x = Settled(s, "choosing")
        BY <1>1, <3>2 DEF ReadsTyped
      <4>2. x.pc = "choosing" /\ x.done = s.done /\ x.buf = s.buf /\ x.walk = s.walk
        BY <2>1, <4>1, SettledIs
      <4> HIDE DEF x
      <4> QED  BY <4>2 DEF Taken
    <3> QED  BY <2>1, <3>1, <3>2
  <2> HIDE DEF x
  <2>7. Extends(x, s, drive)
    BY <2>4, <2>6 DEF Extends
  <2>8. MixedRead(x, u, drive, told)
    BY <1>2, <2>1, <2>2, <2>4, <2>7, ExtensionIsMixed
  <2> QED  BY <2>3, <2>8 DEF x
<1>8. ASSUME NEW u \in Readers, Command(u)
      PROVE  /\ MixedRead(rd'[u], u, drive', told')
             /\ \A t \in Readers \ {u} : Passes(t)
  BY <1>8, CommandMixed
<1>9. ASSUME drive' = drive, told' = told PROVE \A t \in Readers : Passes(t)
  BY <1>1, <1>9, SamePasses
<1>10. ASSUME UNCHANGED rd, \A t \in Readers : Passes(t)
       PROVE  \A t \in Readers : rd'[t] # None => MixedRead(rd'[t], t, drive', told')
  BY <1>3, <1>10
<1>11. CASE LastRelease \/ TeardownEnds \/ UNCHANGED vars
  <2>1. UNCHANGED <<rd, drive, told>>
    BY <1>11 DEF LastRelease, TeardownEnds, vars
  <2> QED  BY <1>9, <1>10, <2>1
<1>12. CASE Swap
  <2>1. drive'.disc = drive.disc + 1 /\ drive'.attention /\ UNCHANGED <<rd, told>>
    BY <1>2, <1>12 DEF Swap, Drives
  <2>2. \A t \in Readers : Passes(t)
    BY <1>2, <2>1 DEF Passes
  <2> QED  BY <1>10, <2>1, <2>2
<1>13. CASE Unplug
  <2>1. drive'.disc = drive.disc /\ drive'.gone /\ UNCHANGED <<rd, told>>
    BY <1>2, <1>13 DEF Unplug, Drives
  <2>2. \A t \in Readers : Passes(t)
    BY <1>2, <2>1 DEF Passes
  <2> QED  BY <1>10, <2>1, <2>2
<1>14. CASE AnotherSettles
  <2>1. "nobody" \in Consumers /\ \A t \in Readers : t # "nobody"
    BY NobodyReads DEF Consumers
  <2>2. ReportGoesTo("nobody") \/ UNCHANGED <<drive, told>>
    BY <1>14 DEF AnotherSettles
  <2>3. \A t \in Readers : Passes(t)
    BY <1>1, <2>1, <2>2, ReportPasses, SamePasses
  <2>4. UNCHANGED rd
    BY <1>14 DEF AnotherSettles
  <2> QED  BY <1>10, <2>3, <2>4
<1>15. ASSUME NEW u \in Readers, Start(u) \/ Loop(u)
       PROVE  \A t \in Readers : rd'[t] # None => MixedRead(rd'[t], t, drive', told')
  <2>1. CASE Start(u) \/ Choose(u) \/ LowerTransferCap(u)
    BY <1>4, <1>5, <1>6, <1>7, <1>9, <1>15, <2>1
  <2>2. CASE Command(u)
    BY <1>4, <1>8, <1>15, <2>2
  <2> QED  BY <1>15, <2>1, <2>2 DEF Loop
<1> QED  BY <1>11, <1>12, <1>13, <1>14, <1>15 DEF Next

LEMMA MixAlways == Spec => []MixInv
<1>1. Init => MixInv
  BY DEF Init, MixInv
<1> QED  BY <1>1, InvAlways, MixNext, PTL DEF Spec

\* A read returns sectors of two discs only if the report of the swap between
\* them went to another reader, or into a free retry, a lost sense or a settle.
THEOREM MixturesAreTold == Spec => []MixedReadWasTold
<1>1. MixInv => MixedReadWasTold
  BY DEF MixInv, MixedReadWasTold, MixedRead, Mixed, Taken, Returned, ToldOther,
     Elsewhere, Consumers
<1> QED  BY <1>1, MixAlways, PTL

\* Read after read, a consumer gets sectors of another disc than the one its
\* walk started on only if the report of the swap went elsewhere: a MEDIA_GONE
\* that came to one of its own chunks has ended the walk.
THEOREM WalksAreTold == Spec => []WalkStaysOnOneDisc
<1>1. MixInv => WalkStaysOnOneDisc
  BY DEF MixInv, WalkStaysOnOneDisc, MixedRead, Walked, Taken, Returned, ToldOther,
     Elsewhere, Consumers
<1> QED  BY <1>1, MixAlways, PTL

=============================================================================
