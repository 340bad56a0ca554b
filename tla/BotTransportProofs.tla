------------------------- MODULE BotTransportProofs -------------------------
(***************************************************************************)
(* What BotTransport promises, for commands of any lengths and any number  *)
(* of transactions.                                                        *)
(***************************************************************************)
EXTENDS BotTransport, SequenceTheorems, TLAPS

----------------------------------------------------------------------------
(* The inductive invariant. *)

Busy == device.mode \in {"data", "status"}
InReply == host.pc \in {"data", "csw", "csw_again"}
Places == 1 .. Len(inPipe)
Mine(p) == p.tag = tag

\* The locals of the transaction.
HostInv ==
    /\ host.pc # "idle" => rc = NoRc /\ tag \in 1 .. MaxTags
    /\ host.own <= host.got /\ host.got <= host.len
    /\ host.pc = "cbw" => host.got = 0
    /\ host.pc = "data" => host.got < host.len
    /\ host.dir = "out" => host.own = host.got

\* Whose command the device works on, and whose CBW it has yet to take.
DeviceInv ==
    /\ Busy => /\ device.tag \in 1 .. tag
               /\ executed[device.tag] = 1 + device.sent
               /\ host.pc # "idle" /\ Mine(device)
                     => device.len = host.len /\ device.dir = host.dir
    /\ cbw # <<>> => /\ cbw[1].tag \in 1 .. tag
                     /\ Mine(cbw[1]) => executed[tag] = 0
                     /\ host.pc # "idle" /\ Mine(cbw[1])
                           => cbw[1].len = host.len /\ cbw[1].dir = host.dir
    /\ \A k \in tag + 1 .. MaxTags : executed[k] = 0

\* A command not executed has left no trace; one not sent is not waiting.
UnsentInv ==
    /\ executed[tag] = 0 => /\ \A i \in Places : ~Mine(inPipe[i])
                            /\ Busy => ~Mine(device)
                            /\ host.pc # "idle" => host.own = 0
    /\ host.pc = "cbw" \/ rc.code = "NOT_SENT"
          => executed[tag] = 0 /\ (cbw # <<>> => ~Mine(cbw[1]))

\* The pipe holds old packets of earlier commands, then n units of this
\* command's data, then what ends its data phase, then its CSW.
Placed(pipe, mine, old, n) ==
    /\ old + n <= Len(pipe)
    /\ \A i \in 1 .. Len(pipe) :
          /\ pipe[i].tag = mine <=> i > old
          /\ i > old => (pipe[i].kind = "data" <=> i <= old + n)

OwnInv ==
    host.pc # "idle" /\ executed[tag] > 0 =>
        /\ cbw = <<>>
        /\ device.mode = "ready" \/ (Busy /\ Mine(device))
        /\ \E old, n \in Nat :
              Placed(inPipe, tag, old, n) /\ (host.dir = "in" => executed[tag] = 1 + host.own + n)
        /\ \A i \in Places : Mine(inPipe[i]) =>
              /\ device.mode = "data" => inPipe[i].kind = "data"
              /\ inPipe[i].kind = "csw" =>
                    /\ i = Len(inPipe) /\ device.mode = "ready" /\ ~halted
                    /\ host.dir = "in" /\ inPipe[i].residue = 0 => executed[tag] > host.len

\* On a device that obeys resets nothing is left of earlier commands.
StepInv ==
    obeys =>
        /\ ~InReply /\ rc.code # "NO_DEVICE" => InStep
        /\ InReply =>
              /\ \A i \in Places : Mine(inPipe[i])
              /\ cbw # <<>> => Mine(cbw[1])
              /\ device.mode # "invalid" /\ (Busy => Mine(device))
              /\ \/ host.got = host.own
                 \/ inPipe = <<>> /\ device.mode = "ready" /\ executed[tag] > 0

ResultInv ==
    /\ rc.code \in {"OK", "FAILED"} => InStep
    /\ SuccessIsOwn /\ DataIsOwn

PacketsInv == \A i \in Places : inPipe[i].tag \in 1 .. tag

Inv == /\ TypeOK /\ HostInv /\ DeviceInv /\ PacketsInv /\ UnsentInv /\ OwnInv
       /\ StepInv /\ ResultInv

----------------------------------------------------------------------------
(* Lengths, packets and the pipe. *)

LEMMA MaxLenIs == MaxLen \in Lens /\ MaxLen \in Nat /\ \A m \in Lens : m <= MaxLen /\ m \in Nat
<1>1. PICK n \in Lens : \A m \in Lens : m <= n
  BY LensOk
<1>2. MaxLen \in Lens /\ \A m \in Lens : m <= MaxLen
  BY <1>1 DEF MaxLen
<1> QED  BY <1>2, LensOk

\* What the type invariant says of the records.
LEMMA Typed ==
  ASSUME TypeOK
  PROVE  /\ host.pc \in {"idle", "cbw", "data", "csw", "csw_again"} /\ host.dir \in Directions
         /\ host.len \in 0 .. MaxLen /\ host.len \in Nat
         /\ host.got \in Nat /\ host.own \in Nat
         /\ device.mode \in {"ready", "data", "status", "invalid"} /\ device.tag \in Nat
         /\ device.len \in 0 .. MaxLen /\ device.len \in Nat
         /\ device.dir \in Directions /\ device.sent \in 0 .. MaxLen + 1 /\ device.sent \in Nat
         /\ MaxLen \in Nat /\ tag \in Nat /\ MaxTags \in Nat /\ tag <= MaxTags
         /\ Len(inPipe) \in Nat
BY MaxLenIs, MaxTagsNat DEF TypeOK, Host, Device

LEMMA ExecutedIs ==
  ASSUME TypeOK, NEW k \in 1 .. MaxTags
  PROVE  executed[k] \in Nat /\ executed[k] <= MaxLen + 2 /\ (executed[k] # 0 => executed[k] > 0)
<1>1. executed[k] \in 0 .. MaxLen + 2 /\ MaxLen \in Nat
  BY MaxLenIs DEF TypeOK
<1> QED  BY <1>1

LEMMA ReadyDeviceTyped == ReadyDevice \in Device /\ ReadyDevice.mode = "ready"
BY MaxLenIs DEF ReadyDevice, Device, Directions

LEMMA IdleHostTyped ==
  /\ IdleHost \in Host /\ IdleHost.pc = "idle" /\ IdleHost.len = 0 /\ IdleHost.got = 0
  /\ IdleHost.own = 0 /\ IdleHost.dir = "in"
BY MaxLenIs DEF IdleHost, Host, Directions

LEMMA NoRcTyped ==
  /\ NoRc \in [code: Codes \cup {None}, status: {None, "pass", "fail", "phase"},
               residue: Nat, actual: 0 .. MaxLen + 1, own: 0 .. MaxLen + 1]
  /\ NoRc.code = None /\ None \notin Codes
<1>1. 0 \in 0 .. MaxLen + 1
  BY MaxLenIs
<1> QED  BY <1>1, NoneIsNoCode DEF NoRc, Codes

\* The host took the oldest packet.
LEMMA TookIs ==
  ASSUME inPipe \in Seq(Packet), inPipe # <<>>, inPipe' = Tail(inPipe)
  PROVE  /\ inPipe' \in Seq(Packet) /\ Len(inPipe) \in Nat /\ Len(inPipe) >= 1
         /\ Len(inPipe') = Len(inPipe) - 1
         /\ 1 \in Places /\ Oldest = inPipe[1] /\ Oldest \in Packet
         /\ \A i \in Places' : i \in Nat /\ i + 1 \in Places /\ inPipe'[i] = inPipe[i + 1]
<1>1. /\ Len(inPipe) \in Nat /\ Len(inPipe) >= 1 /\ Len(inPipe') = Len(inPipe) - 1
      /\ inPipe' \in Seq(Packet)
      /\ \A i \in 1 .. Len(inPipe) - 1 : inPipe'[i] = inPipe[i + 1]
  BY HeadTailProperties, EmptySeq, LenProperties
<1>2. Oldest = inPipe[1]
  BY DEF Oldest
<1>3. inPipe[1] \in Packet
  BY <1>1, ElementOfSeq
<1> QED  BY <1>1, <1>2, <1>3 DEF Places

\* The device put one behind the others.
LEMMA EmittedIs ==
  ASSUME inPipe \in Seq(Packet), NEW p \in Packet, inPipe' = Append(inPipe, p)
  PROVE  /\ inPipe' \in Seq(Packet) /\ Len(inPipe) \in Nat
         /\ Len(inPipe') = Len(inPipe) + 1
         /\ Places' = Places \cup {Len(inPipe) + 1}
         /\ inPipe'[Len(inPipe) + 1] = p
         /\ \A i \in Places : inPipe'[i] = inPipe[i] /\ i \in Nat /\ i <= Len(inPipe)
<1>1. /\ Len(inPipe) \in Nat /\ inPipe' \in Seq(Packet) /\ Len(inPipe') = Len(inPipe) + 1
      /\ \A i \in 1 .. Len(inPipe) : inPipe'[i] = inPipe[i]
      /\ inPipe'[Len(inPipe) + 1] = p
  BY AppendProperties, LenProperties
<1> QED  BY <1>1 DEF Places

----------------------------------------------------------------------------
(* The host. *)

LEMMA PacketIs ==
  ASSUME NEW p \in Packet
  PROVE  /\ p.kind \in {"data", "short", "csw"} /\ p.tag \in Nat
         /\ p.kind = "csw" => p.status \in {"pass", "fail", "phase"} /\ p.residue \in Nat
BY DEF Packet

\* What is behind the first packet is as well placed, counted from it.
LEMMA TailIsPlaced ==
  ASSUME NEW pipe, NEW rest, NEW mine, NEW old \in Nat, NEW n \in Nat, NEW o \in Nat, NEW m \in Nat,
         Placed(pipe, mine, old, n),
         Len(pipe) \in Nat, Len(pipe) >= 1, Len(rest) = Len(pipe) - 1,
         \A i \in 1 .. Len(rest) : rest[i] = pipe[i + 1],
         \/ old = o + 1 /\ m = n
         \/ old = 0 /\ o = old /\ n = m + 1
         \/ old = 0 /\ o = old /\ n = 0 /\ m = n
  PROVE  Placed(rest, mine, o, m)
<1>1. o + m <= Len(rest)
  BY DEF Placed
<1>2. ASSUME NEW i \in 1 .. Len(rest)
      PROVE  /\ rest[i].tag = mine <=> i > o
             /\ i > o => (rest[i].kind = "data" <=> i <= o + m)
  <2> DEFINE j == i + 1
  <2>1. j \in 1 .. Len(pipe) /\ rest[i] = pipe[j]
    BY <1>2
  <2>2. /\ i > o => j > old
        /\ i > o \/ old = 0 => (j > old /\ i > o)
        /\ ~(i > o) => ~(j > old)
        /\ i > o => (i <= o + m <=> j <= old + n)
    OBVIOUS
  <2> HIDE DEF j
  <2>3. /\ pipe[j].tag = mine <=> j > old
        /\ j > old => (pipe[j].kind = "data" <=> j <= old + n)
    BY <2>1 DEF Placed
  <2> QED  BY <2>1, <2>2, <2>3
<1> QED  BY <1>1, <1>2 DEF Placed

LEMMA InitInv == Init => Inv
<1> SUFFICES ASSUME Init PROVE Inv
  OBVIOUS
<1>1. /\ tag = 0 /\ host = IdleHost /\ rc = NoRc /\ device = ReadyDevice
      /\ cbw = <<>> /\ inPipe = <<>> /\ ~halted /\ halted \in BOOLEAN /\ obeys \in BOOLEAN
      /\ executed = [k \in 1 .. MaxTags |-> 0]
  BY DEF Init
<1>2. Len(inPipe) = 0 /\ inPipe \in Seq(Packet) /\ cbw \in Seq(Cbw) /\ Len(cbw) <= 1
  BY <1>1, EmptySeq
<1>3. Places = {} /\ ~Busy
  BY <1>1, <1>2, ReadyDeviceTyped DEF Places, Busy
<1>4. TypeOK
  <2>1. executed \in [1 .. MaxTags -> 0 .. MaxLen + 2]
    BY <1>1, MaxLenIs
  <2>2. tag \in 0 .. MaxTags
    BY <1>1, MaxTagsNat
  <2> QED  BY <1>1, <1>2, <2>1, <2>2, ReadyDeviceTyped, IdleHostTyped, NoRcTyped DEF TypeOK
<1>5. HostInv
  BY <1>1, IdleHostTyped DEF HostInv
<1>6. DeviceInv
  BY <1>1, <1>3 DEF DeviceInv
<1>7. PacketsInv
  BY <1>3 DEF PacketsInv
<1>8. UnsentInv
  BY <1>1, <1>3, IdleHostTyped, NoRcTyped DEF UnsentInv, Codes
<1>9. OwnInv
  BY <1>1, IdleHostTyped DEF OwnInv
<1>10. InStep
  BY <1>1, ReadyDeviceTyped DEF InStep
<1>11. StepInv
  BY <1>1, <1>10, IdleHostTyped DEF StepInv, InReply
<1>12. ResultInv
  BY <1>10, <1>1, NoRcTyped DEF ResultInv, SuccessIsOwn, DataIsOwn, Codes
<1> QED  BY <1>4, <1>5, <1>6, <1>7, <1>8, <1>9, <1>11, <1>12 DEF Inv

LEMMA StartKeeps ==
  ASSUME Inv, NEW len \in Lens, NEW dir \in Directions, Start(len, dir)
  PROVE  Inv'
<1>1. /\ host.pc = "idle" /\ rc.code # "NO_DEVICE" /\ tag < MaxTags /\ tag' = tag + 1
      /\ host' = [IdleHost EXCEPT !.pc = "cbw", !.len = len, !.dir = dir] /\ rc' = NoRc
      /\ UNCHANGED <<device, obeys, cbw, inPipe, halted, executed>>
  BY DEF Start, dev
<1>2. /\ len \in 0 .. MaxLen /\ len \in Nat
  BY MaxLenIs
<1>3. /\ host' \in Host /\ host'.pc = "cbw" /\ host'.len = len /\ host'.dir = dir
      /\ host'.got = 0 /\ host'.own = 0
  BY <1>1, <1>2, IdleHostTyped DEF Host
<1>4. TypeOK /\ tag \in Nat /\ MaxTags \in Nat /\ tag' \in 1 .. MaxTags
  BY <1>1, Typed DEF Inv
<1>5. TypeOK'
  BY <1>1, <1>3, <1>4, NoRcTyped DEF TypeOK
<1>6. HostInv'
  BY <1>1, <1>2, <1>3, <1>4 DEF HostInv
<1>7. executed[tag'] = 0 /\ \A k \in tag' + 1 .. MaxTags : executed[k] = 0
  BY <1>1, <1>4 DEF Inv, DeviceInv
<1>8. /\ Busy' = Busy /\ Places' = Places
      /\ Busy => device.tag \in 1 .. tag /\ ~Mine(device)'
      /\ cbw # <<>> => cbw[1].tag \in 1 .. tag /\ ~Mine(cbw[1])'
      /\ \A i \in Places : inPipe[i].tag \in 1 .. tag /\ ~Mine(inPipe[i])'
  BY <1>1, <1>4 DEF Inv, DeviceInv, PacketsInv, Busy, Places, Mine
<1>9. DeviceInv'
  BY <1>1, <1>4, <1>7, <1>8 DEF Inv, DeviceInv
<1>10. PacketsInv'
  BY <1>1, <1>4, <1>8 DEF PacketsInv
<1>11. UnsentInv'
  BY <1>1, <1>3, <1>7, <1>8 DEF UnsentInv
<1>12. OwnInv'
  BY <1>1, <1>7 DEF OwnInv
<1>13. StepInv'
  BY <1>1, <1>3, NoRcTyped DEF Inv, StepInv, InReply, InStep
<1>14. ResultInv'
  BY <1>1, NoRcTyped DEF ResultInv, SuccessIsOwn, DataIsOwn, Codes
<1> QED  BY <1>5, <1>6, <1>9, <1>10, <1>11, <1>12, <1>13, <1>14 DEF Inv

LEMMA CbwSentKeeps ==
  ASSUME Inv, CbwSent
  PROVE  Inv'
<1> DEFINE c == [tag |-> tag, len |-> host.len, dir |-> host.dir]
           pc == IF host.len > 0 THEN "data" ELSE "csw"
<1>1. /\ host.pc = "cbw" /\ cbw = <<>> /\ cbw' = <<c>> /\ host' = [host EXCEPT !.pc = pc]
      /\ UNCHANGED <<tag, rc, obeys, device, inPipe, halted, executed>>
  BY DEF CbwSent, Goto
<1>2. TypeOK /\ tag \in 1 .. MaxTags /\ rc = NoRc
  BY <1>1 DEF Inv, HostInv
<1>3. /\ host' \in Host /\ host'.pc = pc /\ host'.len = host.len /\ host'.dir = host.dir
      /\ host'.got = 0 /\ host.got = 0 /\ host'.own = host.own /\ host.own = 0
      /\ host.len \in Nat
  <2>1. host.got = 0 /\ host.own = 0 /\ host.len \in Nat
    BY <1>1, <1>2, Typed DEF Inv, HostInv
  <2> QED  BY <1>1, <1>2, <2>1 DEF TypeOK, Host
<1>4. c \in Cbw /\ c.tag = tag /\ c.len = host.len /\ c.dir = host.dir
  BY <1>2, Typed DEF Cbw
<1> HIDE DEF c
<1>5. cbw' \in Seq(Cbw) /\ Len(cbw') = 1 /\ cbw'[1] = c /\ cbw' # <<>>
  BY <1>1, <1>4
<1>6. TypeOK'
  BY <1>1, <1>2, <1>3, <1>5 DEF TypeOK
<1>7. HostInv'
  BY <1>1, <1>2, <1>3 DEF HostInv
<1>8. executed[tag] = 0
  BY <1>1 DEF Inv, UnsentInv
<1>9. Busy' = Busy /\ Places' = Places /\ pc \in {"data", "csw"}
  BY <1>1 DEF Busy, Places
<1>10. DeviceInv'
  <2>1. c.tag \in 1 .. tag
    BY <1>2, <1>4, Typed
  <2>2. Busy => ~Mine(device)
    BY <1>8 DEF Inv, UnsentInv
  <2> QED  BY <1>1, <1>3, <1>4, <1>5, <1>8, <1>9, <2>1, <2>2 DEF Inv, DeviceInv, Mine
<1>11. PacketsInv'
  BY <1>1, <1>9 DEF Inv, PacketsInv
<1>12. UnsentInv'
  BY <1>1, <1>2, <1>3, <1>8, <1>9, NoRcTyped DEF Inv, UnsentInv, Mine, Codes
<1>13. OwnInv'
  BY <1>1, <1>8 DEF OwnInv
<1>14. StepInv'
  <2>1. SUFFICES ASSUME obeys PROVE StepInv'
    BY <1>1 DEF StepInv
  <2>2. InStep
    BY <1>1, <1>2, <2>1, NoRcTyped DEF Inv, StepInv, InReply, Codes
  <2>3. Places = {}
    BY <2>2, EmptySeq DEF InStep, Places
  <2>4. device.mode = "ready" /\ ~Busy
    BY <2>2 DEF InStep, Busy
  <2> QED  BY <1>1, <1>3, <1>4, <1>5, <1>9, <2>3, <2>4 DEF StepInv, InReply, Mine
<1>15. ResultInv'
  BY <1>1, <1>2, NoRcTyped DEF ResultInv, SuccessIsOwn, DataIsOwn, Codes
<1> QED  BY <1>6, <1>7, <1>10, <1>11, <1>12, <1>13, <1>14, <1>15 DEF Inv

\* A transaction given up: the pipes as they were, or after a reset that the
\* device obeyed or not.
GivenUp ==
    /\ obeys' = obeys
    /\ \/ device' = ReadyDevice /\ cbw' = <<>> /\ inPipe' = <<>> /\ halted' = FALSE
       \/ /\ UNCHANGED <<cbw, inPipe>> /\ halted' \in {halted, FALSE}
          /\ \/ device' = device
             \/ device.mode = "ready" /\ device' = [device EXCEPT !.mode = "invalid"]

LEMMA GivenUpKeeps ==
  ASSUME Inv, NEW code \in {"NOT_SENT", "NO_DEVICE", "PHASE_ERROR"},
         NEW status \in {None, "phase"}, Return(code, status, 0, 0), GivenUp,
         host.pc # "idle", code = "NOT_SENT" => host.pc = "cbw",
         obeys /\ code # "NO_DEVICE" => InStep'
  PROVE  Inv'
<1>1. /\ host' = IdleHost /\ rc'.code = code /\ rc'.actual = 0 /\ tag' = tag
      /\ executed' = executed
      /\ rc' = [code |-> code, status |-> status, residue |-> 0, actual |-> 0, own |-> host.own]
  BY DEF Return
<1>2. TypeOK /\ tag \in 1 .. MaxTags /\ rc = NoRc
  BY DEF Inv, HostInv
<1>3. host'.pc = "idle" /\ host' \in Host /\ host'.len = 0 /\ host'.got = 0 /\ host'.own = 0
  BY <1>1, IdleHostTyped
<1>4. /\ device' \in Device /\ cbw' \in Seq(Cbw) /\ Len(cbw') <= 1
      /\ inPipe' \in Seq(Packet) /\ halted' \in BOOLEAN /\ obeys' \in BOOLEAN
  <2>1. CASE cbw' = <<>> /\ inPipe' = <<>> /\ device' = ReadyDevice /\ halted' = FALSE
    <3>1. /\ <<>> \in Seq(Cbw) /\ <<>> \in Seq(Packet)
      BY EmptySeq
    <3>2. cbw' \in Seq(Cbw) /\ inPipe' \in Seq(Packet) /\ Len(cbw') <= 1
      BY <2>1, <3>1, EmptySeq
    <3>3. halted' \in BOOLEAN /\ obeys' \in BOOLEAN
      BY <1>2, <2>1 DEF TypeOK, GivenUp
    <3> QED  BY <2>1, <3>2, <3>3, ReadyDeviceTyped
  <2>2. CASE UNCHANGED <<cbw, inPipe>> /\ halted' \in {halted, FALSE} /\ device' = device
    BY <1>2, <2>2 DEF TypeOK, GivenUp
  <2>3. CASE /\ UNCHANGED <<cbw, inPipe>> /\ halted' \in {halted, FALSE}
             /\ device' = [device EXCEPT !.mode = "invalid"]
    BY <1>2, <2>3 DEF TypeOK, GivenUp, Device
  <2> QED  BY <2>1, <2>2, <2>3 DEF GivenUp
<1>5. /\ Busy' => Busy /\ device' = device
      /\ cbw' = cbw \/ cbw' = <<>>
      /\ \A i \in Places' : i \in Places /\ inPipe'[i] = inPipe[i]
  <2>1. CASE device' = ReadyDevice /\ cbw' = <<>> /\ inPipe' = <<>>
    BY <2>1, ReadyDeviceTyped, EmptySeq DEF Busy, Places
  <2>2. CASE UNCHANGED <<cbw, inPipe>> /\ device' = device
    BY <2>2 DEF Busy, Places
  <2>3. CASE /\ UNCHANGED <<cbw, inPipe>> /\ device' = [device EXCEPT !.mode = "invalid"]
    BY <1>2, <2>3 DEF Busy, Places, TypeOK, Device
  <2> QED  BY <2>1, <2>2, <2>3 DEF GivenUp
<1>6. TypeOK'
  <2>1. host.own \in 0 .. MaxLen + 1 /\ 0 \in 0 .. MaxLen + 1
    BY <1>2, MaxLenIs DEF TypeOK, Host
  <2>2. rc' \in [code: Codes \cup {None}, status: {None, "pass", "fail", "phase"},
                 residue: Nat, actual: 0 .. MaxLen + 1, own: 0 .. MaxLen + 1]
    BY <1>1, <2>1 DEF Codes
  <2> QED  BY <1>1, <1>2, <1>3, <1>4, <2>2 DEF TypeOK
<1>7. HostInv'
  BY <1>1, <1>3, IdleHostTyped DEF HostInv
<1>8. DeviceInv'
  BY <1>1, <1>3, <1>5 DEF Inv, DeviceInv, Mine
<1>9. PacketsInv'
  BY <1>1, <1>5 DEF Inv, PacketsInv
<1>10. UnsentInv'
  <2>1. code = "NOT_SENT" => executed[tag] = 0 /\ (cbw' # <<>> => ~Mine(cbw[1]))
    BY <1>5 DEF Inv, UnsentInv
  <2> QED  BY <1>1, <1>3, <1>5, <2>1 DEF Inv, UnsentInv, Mine
<1>11. OwnInv'
  BY <1>3 DEF OwnInv
<1>12. StepInv'
  BY <1>1, <1>3 DEF StepInv, InReply, GivenUp
<1>13. ResultInv'
  BY <1>1 DEF ResultInv, SuccessIsOwn, DataIsOwn
<1> QED  BY <1>6, <1>7, <1>8, <1>9, <1>10, <1>11, <1>12, <1>13 DEF Inv

LEMMA ResetClears ==
  ASSUME ResetRecovery
  PROVE  GivenUp /\ (obeys => InStep')
BY ReadyDeviceTyped DEF ResetRecovery, GivenUp, InStep

LEMMA PhaseErrorKeeps ==
  ASSUME Inv, PhaseError, host.pc # "idle"
  PROVE  Inv'
BY ResetClears, GivenUpKeeps DEF PhaseError, ReturnBare

LEMMA CswPhaseErrorKeeps ==
  ASSUME Inv, CswPhaseError
  PROVE  Inv'
<1>1. host.pc # "idle" /\ ResetRecovery /\ Return("PHASE_ERROR", "phase", 0, 0)
  BY DEF CswPhaseError, InCsw
<1> QED  BY <1>1, ResetClears, GivenUpKeeps

LEMMA CbwFailureKeeps ==
  ASSUME Inv, CbwNotSent \/ CbwRejected
  PROVE  Inv'
<1>1. host.pc = "cbw" /\ Return("NOT_SENT", None, 0, 0) /\ rc = NoRc
  BY DEF CbwNotSent, CbwRejected, ReturnBare, Inv, HostInv
<1>2. CASE CbwNotSent
  <2>1. UNCHANGED dev
    BY <1>2 DEF CbwNotSent
  <2>2. obeys => InStep
    BY <1>1, NoRcTyped DEF Inv, StepInv, InReply, Codes
  <2>3. GivenUp /\ (obeys => InStep')
    BY <2>1, <2>2 DEF GivenUp, InStep, dev
  <2> QED  BY <1>1, <2>3, GivenUpKeeps
<1>3. CASE CbwRejected
  <2>1. GivenUp /\ (obeys => InStep')
    BY <1>3, ReadyDeviceTyped DEF CbwRejected, GivenUp, InStep
  <2> QED  BY <1>1, <2>1, GivenUpKeeps
<1> QED  BY <1>2, <1>3

LEMMA GoneKeeps ==
  ASSUME Inv, DeviceGone
  PROVE  Inv'
<1>1. host.pc # "idle" /\ Return("NO_DEVICE", None, 0, 0) /\ GivenUp
  BY DEF DeviceGone, ReturnBare, GivenUp, dev
<1> QED  BY <1>1, GivenUpKeeps

\* The host read a packet in its data phase, and counted it or not.
LEMMA ReadKeeps ==
  ASSUME Inv, host.pc = "data", host.dir = "in", inPipe # <<>>, Took,
         UNCHANGED <<tag, rc, executed>>,
         host'.pc \in {"data", "csw"}, host'.len = host.len, host'.dir = host.dir,
         host'.got \in Nat, host'.own \in Nat, host' = [host EXCEPT !.pc = host'.pc,
                                                !.got = host'.got, !.own = host'.own],
         host'.own <= host'.got, host'.got <= host.len,
         host'.pc = "data" => host'.got < host.len,
         host'.own = host.own + (IF Oldest.kind = "data" /\ Mine(Oldest) THEN 1 ELSE 0),
         obeys => \/ host'.got - host.got = host'.own - host.own
                  \/ Oldest.kind = "csw"
  PROVE  Inv'
<1> DEFINE got == host'.got
           own == host'.own
           pc == host'.pc
<1>1. TypeOK /\ tag \in 1 .. MaxTags /\ rc = NoRc
  BY DEF Inv, HostInv
<1>2. /\ inPipe' \in Seq(Packet) /\ Len(inPipe) \in Nat /\ Len(inPipe) >= 1
      /\ Len(inPipe') = Len(inPipe) - 1
      /\ 1 \in Places /\ Oldest = inPipe[1] /\ Oldest \in Packet
      /\ \A i \in Places' : i \in Nat /\ i + 1 \in Places /\ inPipe'[i] = inPipe[i + 1]
  BY <1>1, TookIs DEF TypeOK, Took
<1>3. UNCHANGED <<device, obeys, cbw, halted>>
  BY DEF Took
<1>4. host.len \in 0 .. MaxLen /\ host.len \in Nat /\ MaxLen \in Nat /\ host.own \in Nat
      /\ host.got \in Nat
  BY <1>1, Typed
<1>5. /\ host' \in Host /\ host'.pc = pc /\ host'.got = got /\ host'.own = own
      /\ host'.len = host.len /\ host'.dir = "in" /\ pc \in {"data", "csw"}
      /\ got \in Nat /\ own \in Nat /\ own <= got /\ got <= host.len
      /\ pc = "data" => got < host.len
      /\ own = host.own + (IF Oldest.kind = "data" /\ Mine(Oldest) THEN 1 ELSE 0)
      /\ obeys => got - host.got = own - host.own \/ Oldest.kind = "csw"
  <2>1. got \in 0 .. MaxLen + 1 /\ own \in 0 .. MaxLen + 1
    BY <1>4
  <2> QED  BY <1>1, <2>1 DEF TypeOK, Host
<1> HIDE DEF got, own, pc
<1>6. TypeOK'
  BY <1>1, <1>2, <1>3, <1>5 DEF TypeOK
<1>7. HostInv'
  BY <1>1, <1>5 DEF HostInv
<1>8. Busy' = Busy
  BY <1>3 DEF Busy
<1>9. DeviceInv'
  BY <1>3, <1>5, <1>8 DEF Inv, DeviceInv, Mine
<1>10. PacketsInv'
  BY <1>2 DEF Inv, PacketsInv
<1>11. UnsentInv'
  <2>1. ASSUME executed[tag] = 0 PROVE own = 0
    <3>1. ~Mine(Oldest) /\ host.own = 0
      BY <1>2, <2>1 DEF Inv, UnsentInv
    <3> QED  BY <1>5, <3>1
  <2>2. rc.code # "NOT_SENT"
    BY <1>1, NoRcTyped DEF Codes
  <2> QED  BY <1>2, <1>3, <1>5, <1>8, <2>1, <2>2 DEF Inv, UnsentInv, Mine
<1>12. OwnInv'
  <2> SUFFICES ASSUME executed[tag] > 0 PROVE OwnInv'
    BY DEF OwnInv
  <2>1. /\ cbw = <<>> /\ (device.mode = "ready" \/ (Busy /\ Mine(device)))
        /\ \A i \in Places : Mine(inPipe[i]) =>
              /\ device.mode = "data" => inPipe[i].kind = "data"
              /\ inPipe[i].kind = "csw" =>
                    /\ i = Len(inPipe) /\ device.mode = "ready" /\ ~halted
                    /\ host.dir = "in" /\ inPipe[i].residue = 0 => executed[tag] > host.len
    BY DEF Inv, OwnInv
  <2>2. PICK old, n \in Nat : Placed(inPipe, tag, old, n) /\ executed[tag] = 1 + host.own + n
    BY DEF Inv, OwnInv
  <2>3. /\ old + n <= Len(inPipe)
        /\ \A i \in Places : /\ Mine(inPipe[i]) <=> i > old
                             /\ i > old => (inPipe[i].kind = "data" <=> i <= old + n)
    BY <2>2 DEF Placed, Places, Mine
  <2>7. \A i \in Places' : inPipe'[i].tag = tag =>
              /\ device.mode = "data" => inPipe'[i].kind = "data"
              /\ inPipe'[i].kind = "csw" =>
                    /\ i = Len(inPipe') /\ device.mode = "ready" /\ ~halted
                    /\ inPipe'[i].residue = 0 => executed[tag] > host.len
    <3> SUFFICES ASSUME NEW i \in Places', inPipe'[i].tag = tag
                 PROVE  /\ device.mode = "data" => inPipe'[i].kind = "data"
                        /\ inPipe'[i].kind = "csw" =>
                              /\ i = Len(inPipe') /\ device.mode = "ready" /\ ~halted
                              /\ inPipe'[i].residue = 0 => executed[tag] > host.len
      OBVIOUS
    <3>1. i \in Nat /\ i + 1 \in Places /\ inPipe'[i] = inPipe[i + 1]
      BY <1>2
    <3> DEFINE j == i + 1
    <3>2. j \in Places /\ inPipe'[i] = inPipe[j] /\ Mine(inPipe[j])
      BY <3>1 DEF Mine
    <3>3. j = Len(inPipe) => i = Len(inPipe')
      BY <1>2, <3>1
    <3> HIDE DEF j
    <3> QED  BY <2>1, <3>2, <3>3
  <2>9. \A i \in 1 .. Len(inPipe') : inPipe'[i] = inPipe[i + 1]
    BY <1>2 DEF Places
  <2>8. (\E o, m \in Nat : Placed(inPipe', tag', o, m) /\ executed[tag] = 1 + own + m)
           => OwnInv'
    <3>1. /\ tag' = tag /\ executed' = executed /\ cbw' = cbw /\ device' = device
          /\ halted' = halted /\ host'.own = own /\ host'.len = host.len
      BY <1>3, <1>5
    <3> QED  BY <1>8, <2>1, <2>7, <3>1 DEF OwnInv, Mine
  <2>4. CASE old > 0
    <3>1. ~Mine(Oldest) /\ own = host.own
      <4>1. ~(1 > old)
        BY <2>4
      <4>2. ~Mine(Oldest)
        BY <1>2, <2>3, <4>1
      <4> QED  BY <1>4, <1>5, <4>2
    <3>2. old - 1 \in Nat
      BY <2>4
    <3>3. Placed(inPipe', tag', old - 1, n)
      <4> DEFINE o == old - 1
      <4>1. o \in Nat /\ old = o + 1
        BY <2>4
      <4>2. Placed(inPipe, tag, old, n) /\ tag' = tag
        BY <2>2
      <4> HIDE DEF o
      <4>3. Placed(inPipe', tag, o, n)
        BY <1>2, <2>9, <4>1, <4>2, TailIsPlaced
      <4> QED  BY <4>2, <4>3 DEF o
    <3>4. \E o, m \in Nat : Placed(inPipe', tag', o, m) /\ executed[tag] = 1 + own + m
      BY <2>2, <3>1, <3>2, <3>3
    <3> QED  BY <2>8, <3>4
  <2>5. CASE old = 0 /\ n > 0
    <3>1. Mine(Oldest) /\ Oldest.kind = "data" /\ own = host.own + 1
      <4>1. 1 > old /\ 1 <= old + n
        BY <2>5
      <4>2. Mine(Oldest) /\ Oldest.kind = "data"
        BY <1>2, <2>3, <4>1
      <4> QED  BY <1>5, <4>2
    <3>2. n - 1 \in Nat /\ executed[tag] = 1 + own + (n - 1)
      BY <1>4, <1>5, <2>2, <2>5, <3>1
    <3>3. Placed(inPipe', tag', 0, n - 1)
      <4> DEFINE m == n - 1
      <4>1. m \in Nat /\ n = m + 1 /\ old = 0
        BY <2>5
      <4>2. Placed(inPipe, tag, old, n) /\ tag' = tag
        BY <2>2
      <4> HIDE DEF m
      <4>3. /\ Len(inPipe) \in Nat /\ Len(inPipe) >= 1 /\ Len(inPipe') = Len(inPipe) - 1
            /\ old \in Nat /\ n \in Nat
        BY <1>2
      <4>4. Placed(inPipe', tag, old, m)
        BY <2>9, <4>1, <4>2, <4>3, TailIsPlaced
      <4> QED  BY <4>1, <4>2, <4>4 DEF m
    <3>4. \E o, m \in Nat : Placed(inPipe', tag', o, m) /\ executed[tag] = 1 + own + m
      BY <3>2, <3>3
    <3> QED  BY <2>8, <3>4
  <2>6. CASE old = 0 /\ n = 0
    <3>1. Oldest.kind # "data" /\ own = host.own
      <4>1. 1 > old /\ ~(1 <= old + n)
        BY <2>6
      <4>2. Oldest.kind # "data"
        BY <1>2, <2>3, <4>1
      <4> QED  BY <1>4, <1>5, <4>2
    <3>2. Placed(inPipe', tag', 0, 0)
      BY <1>2, <2>2, <2>6, <2>9, TailIsPlaced
    <3>3. \E o, m \in Nat : Placed(inPipe', tag', o, m) /\ executed[tag] = 1 + own + m
      BY <2>2, <2>6, <3>1, <3>2
    <3> QED  BY <2>8, <3>3
  <2> QED  BY <2>2, <2>4, <2>5, <2>6
<1>13. StepInv'
  <2> SUFFICES ASSUME obeys PROVE StepInv'
    BY <1>3 DEF StepInv
  <2>1. /\ \A i \in Places : Mine(inPipe[i])
        /\ cbw # <<>> => Mine(cbw[1])
        /\ device.mode # "invalid" /\ (Busy => Mine(device))
        /\ \/ host.got = host.own
           \/ inPipe = <<>> /\ device.mode = "ready" /\ executed[tag] > 0
    BY DEF Inv, StepInv, InReply
  <2>2. Mine(Oldest) /\ host.got = host.own
    BY <1>2, <2>1
  <2>3. CASE got = own
    BY <1>2, <1>3, <1>5, <1>8, <2>1, <2>3 DEF StepInv, InReply, Mine
  <2>4. CASE got # own
    <3>1. Oldest.kind = "csw"
      BY <1>4, <1>5, <2>2, <2>4
    <3>2. executed[tag] > 0
      <4>1. executed[tag] # 0
        BY <1>2, <2>2 DEF Inv, UnsentInv
      <4>2. executed[tag] \in Nat
        BY <1>1, <1>4 DEF TypeOK
      <4> QED  BY <4>1, <4>2
    <3>3. Len(inPipe) = 1 /\ device.mode = "ready"
      BY <1>2, <2>2, <3>1, <3>2 DEF Inv, OwnInv
    <3>4. Len(inPipe') = 0
      BY <1>2, <3>3
    <3>5. inPipe' = <<>>
      BY <1>2, <3>4, EmptySeq
    <3> QED  BY <1>2, <1>3, <1>5, <1>8, <2>1, <3>2, <3>3, <3>5 DEF StepInv, InReply, Mine
  <2> QED  BY <2>3, <2>4
<1>14. ResultInv'
  BY <1>1, NoRcTyped DEF ResultInv, SuccessIsOwn, DataIsOwn, Codes
<1> QED  BY <1>6, <1>7, <1>9, <1>10, <1>11, <1>12, <1>13, <1>14 DEF Inv

LEMMA DataInKeeps ==
  ASSUME Inv, DataIn \/ DataInShort
  PROVE  Inv'
<1>1. /\ host.pc = "data" /\ host.dir = "in" /\ inPipe # <<>> /\ Took
      /\ UNCHANGED <<tag, rc, executed>>
  BY DEF DataIn, DataInShort, Arrived
<1>2. /\ host.got \in Nat /\ host.own \in Nat /\ host.len \in Nat /\ host \in Host
      /\ host.own <= host.got /\ host.got < host.len
  BY <1>1, Typed DEF Inv, HostInv, TypeOK
<1>3. CASE DataIn
  <2> DEFINE pc == IF host.got + 1 = host.len THEN "csw" ELSE "data"
             own == IF Oldest.tag = tag THEN host.own + 1 ELSE host.own
             got == host.got + 1
  <2>1. Oldest.kind = "data" /\ host' = [host EXCEPT !.pc = pc, !.got = got, !.own = own]
    BY <1>2, <1>3 DEF DataIn, Arrived, Host
  <2>2. /\ pc \in {"data", "csw"} /\ got \in Nat /\ own \in Nat /\ own <= got
        /\ got <= host.len /\ (pc = "data" => got < host.len)
        /\ own = host.own + (IF Oldest.kind = "data" /\ Mine(Oldest) THEN 1 ELSE 0)
    BY <1>2, <2>1 DEF Mine
  <2>3. obeys => Mine(Oldest)
    BY <1>1, TookIs DEF Inv, TypeOK, StepInv, InReply, Took
  <2>4. obeys => got - host.got = own - host.own
    BY <1>2, <2>3 DEF Mine
  <2>5. /\ host'.pc = pc /\ host'.got = got /\ host'.own = own
        /\ host'.len = host.len /\ host'.dir = host.dir
        /\ host' = [host EXCEPT !.pc = host'.pc, !.got = host'.got, !.own = host'.own]
    BY <1>2, <2>1 DEF Host
  <2> HIDE DEF pc, own, got
  <2> QED  BY <1>1, <2>1, <2>2, <2>4, <2>5, ReadKeeps
<1>4. CASE DataInShort
  <2> DEFINE got == IF Oldest.kind = "csw" THEN host.got + 1 ELSE host.got
             own == host.own
  <2>1. /\ Oldest.kind \in {"short", "csw"}
        /\ host' = [host EXCEPT !.pc = "csw", !.got = got, !.own = own]
    BY <1>2, <1>4 DEF DataInShort, Arrived, Host
  <2>2. /\ got \in Nat /\ own \in Nat /\ own <= got /\ got <= host.len
        /\ own = host.own + (IF Oldest.kind = "data" /\ Mine(Oldest) THEN 1 ELSE 0)
        /\ \/ got - host.got = own - host.own
           \/ got = host.got + 1 /\ own = host.own /\ Oldest.kind = "csw"
    BY <1>2, <2>1
  <2>3. /\ host'.pc = "csw" /\ host'.got = got /\ host'.own = own
        /\ host'.len = host.len /\ host'.dir = host.dir
        /\ host' = [host EXCEPT !.pc = host'.pc, !.got = host'.got, !.own = host'.own]
    BY <1>2, <2>1 DEF Host
  <2> HIDE DEF own, got
  <2> QED  BY <1>1, <2>1, <2>2, <2>3, ReadKeeps
<1> QED  BY <1>3, <1>4

LEMMA StalledKeeps ==
  ASSUME Inv, DataStalled \/ CswStalled
  PROVE  Inv'
<1>1. /\ host.pc \in {"data", "csw"} /\ halted' = FALSE
      /\ \E pc \in {"csw", "csw_again"} : host' = [host EXCEPT !.pc = pc]
      /\ UNCHANGED <<tag, rc, obeys, device, cbw, inPipe, executed>>
  BY DEF DataStalled, CswStalled, Goto
<1>2. TypeOK /\ rc = NoRc
  BY <1>1 DEF Inv, HostInv
<1>3. /\ host' \in Host /\ host'.pc \in {"csw", "csw_again"} /\ host'.len = host.len
      /\ host'.dir = host.dir /\ host'.got = host.got /\ host'.own = host.own
  BY <1>1, <1>2 DEF TypeOK, Host
<1>4. TypeOK'
  BY <1>1, <1>2, <1>3 DEF TypeOK
<1>5. HostInv'
  BY <1>1, <1>3 DEF Inv, HostInv
<1>6. Busy' = Busy /\ Places' = Places
  BY <1>1 DEF Busy, Places
<1>7. DeviceInv' /\ PacketsInv'
  BY <1>1, <1>3, <1>6 DEF Inv, DeviceInv, PacketsInv, Mine
<1>8. UnsentInv'
  BY <1>1, <1>2, <1>3, <1>6, NoRcTyped DEF Inv, UnsentInv, Mine, Codes
<1>9. OwnInv'
  BY <1>1, <1>3, <1>6 DEF Inv, OwnInv, Mine
<1>10. StepInv'
  BY <1>1, <1>3, <1>6 DEF Inv, StepInv, InReply, Mine
<1>11. ResultInv'
  BY <1>1, <1>2, NoRcTyped DEF ResultInv, SuccessIsOwn, DataIsOwn, Codes
<1> QED  BY <1>4, <1>5, <1>7, <1>8, <1>9, <1>10, <1>11 DEF Inv

LEMMA DataOutKeeps ==
  ASSUME Inv, DataOut
  PROVE  Inv'
<1>1. /\ host.pc = "data" /\ host.dir = "out" /\ device.mode = "data" /\ device.tag = tag
      /\ device' = [device EXCEPT !.mode = "status"]
      /\ UNCHANGED <<tag, rc, obeys, cbw, inPipe, halted, executed>>
  BY DEF DataOut
<1>2. PICK n \in 0 .. host.len : host' = [host EXCEPT !.pc = "csw", !.got = n, !.own = n]
  BY DEF DataOut
<1>3. TypeOK /\ rc = NoRc /\ tag \in 1 .. MaxTags
  BY <1>1 DEF Inv, HostInv
<1>4. n \in Nat /\ n <= host.len /\ n \in 0 .. MaxLen + 1
  BY <1>3, Typed
<1>5. /\ host' \in Host /\ host'.pc = "csw" /\ host'.len = host.len
      /\ host'.dir = "out" /\ host'.got = n /\ host'.own = n
  BY <1>1, <1>2, <1>3, <1>4 DEF TypeOK, Host
<1>6. /\ device' \in Device /\ device'.mode = "status" /\ device'.tag = tag
      /\ device'.len = device.len /\ device'.dir = device.dir /\ device'.sent = device.sent
  BY <1>1, <1>3 DEF TypeOK, Device
<1>7. TypeOK'
  BY <1>1, <1>3, <1>5, <1>6 DEF TypeOK
<1>8. HostInv'
  BY <1>1, <1>3, <1>4, <1>5 DEF HostInv
<1>9. Busy /\ Busy' /\ Places' = Places
  BY <1>1, <1>6 DEF Busy, Places
<1>10. DeviceInv' /\ PacketsInv'
  BY <1>1, <1>3, <1>5, <1>6, <1>9 DEF Inv, DeviceInv, PacketsInv, Mine
<1>11. executed[tag] # 0
  BY <1>1, <1>9 DEF Inv, UnsentInv, Mine
<1>12. UnsentInv'
  BY <1>1, <1>3, <1>5, <1>11, NoRcTyped DEF UnsentInv, Codes
<1>13. OwnInv'
  <2>1. \A i \in Places : Mine(inPipe[i]) => inPipe[i].kind # "csw"
    <3>1. executed[tag] > 0
      BY <1>3, <1>11, ExecutedIs
    <3> QED  BY <1>1, <3>1 DEF Inv, OwnInv
  <2> QED  BY <1>1, <1>5, <1>6, <1>9, <2>1 DEF Inv, OwnInv, Mine
<1>14. StepInv'
  BY <1>1, <1>5, <1>6, <1>9 DEF Inv, StepInv, InReply, Mine
<1>15. ResultInv'
  BY <1>1, <1>3, NoRcTyped DEF ResultInv, SuccessIsOwn, DataIsOwn, Codes
<1> QED  BY <1>7, <1>8, <1>10, <1>12, <1>13, <1>14, <1>15 DEF Inv

\* Reading this command's own CSW: everything it was sent has been read.
LEMMA OwnCswIs ==
  ASSUME Inv, InCsw, inPipe # <<>>, OwnCsw(Oldest), Took
  PROVE  /\ InStep' /\ executed[tag] > 0
         /\ inPipe' \in Seq(Packet)
         /\ Oldest.residue = 0 /\ host.dir = "in" => host.got <= host.own
         /\ obeys => host.got = host.own
         /\ Oldest.residue \in Nat /\ Oldest.status \in {"pass", "fail", "phase"}
<1>1. host.pc \in {"csw", "csw_again"} /\ Oldest.kind = "csw" /\ Mine(Oldest) /\ TypeOK
  BY DEF InCsw, OwnCsw, Mine, Inv
<1>2. /\ inPipe' \in Seq(Packet) /\ Len(inPipe) \in Nat /\ Len(inPipe) >= 1
      /\ Len(inPipe') = Len(inPipe) - 1
      /\ 1 \in Places /\ Oldest = inPipe[1] /\ Oldest \in Packet
  BY <1>1, TookIs DEF TypeOK, Took
<1>3. executed[tag] # 0
  BY <1>1, <1>2 DEF Inv, UnsentInv
<1>4. tag \in 1 .. MaxTags /\ host.got <= host.len
  BY <1>1 DEF Inv, HostInv
<1>5. executed[tag] > 0 /\ executed[tag] \in Nat /\ host.got \in Nat /\ host.own \in Nat
      /\ host.len \in Nat
  BY <1>1, <1>3, <1>4, Typed, ExecutedIs
<1>6. /\ 1 = Len(inPipe) /\ device.mode = "ready" /\ ~halted /\ cbw = <<>>
      /\ host.dir = "in" /\ Oldest.residue = 0 => executed[tag] > host.len
  BY <1>1, <1>2, <1>5 DEF Inv, OwnInv
<1>7. InStep'
  <2>1. Len(inPipe) = 1
    BY <1>6
  <2>2. Len(inPipe') = 0
    BY <1>2, <2>1
  <2>3. inPipe' = <<>>
    BY <1>2, <2>2, EmptySeq
  <2> QED  BY <1>6, <2>3 DEF InStep, Took
<1>8. ASSUME Oldest.residue = 0, host.dir = "in" PROVE host.got <= host.own
  <2>1. PICK old, n \in Nat : Placed(inPipe, tag, old, n) /\ executed[tag] = 1 + host.own + n
    BY <1>1, <1>5, <1>8 DEF Inv, OwnInv
  <2>2. n = 0
    BY <1>1, <1>2, <2>1 DEF Placed, Places, Mine
  <2>3. executed[tag] > host.len /\ executed[tag] = 1 + host.own
    BY <1>5, <1>6, <1>8, <2>1, <2>2
  <2> QED  BY <1>4, <1>5, <2>3
<1>9. obeys => host.got = host.own
  BY <1>1 DEF Inv, StepInv, InReply
<1> QED  BY <1>1, <1>2, <1>5, <1>7, <1>8, <1>9, PacketIs

\* *actual_len is part of what the data phase moved.
LEMMA ActualIs ==
  ASSUME NEW len \in Nat, NEW got \in Nat, NEW residue \in Nat, residue <= len
  PROVE  Actual(len, got, residue) \in Nat /\ Actual(len, got, residue) <= got
BY DEF Actual

LEMMA StatusKeeps ==
  ASSUME Inv, CswMeaningless \/ CswGood
  PROVE  Inv'
<1>1. /\ InCsw /\ inPipe # <<>> /\ OwnCsw(Oldest) /\ Took /\ Oldest.status # "phase"
  BY DEF CswMeaningless, CswGood
<1>2. /\ InStep' /\ executed[tag] > 0 /\ inPipe' \in Seq(Packet)
      /\ Oldest.residue = 0 /\ host.dir = "in" => host.got <= host.own
      /\ obeys => host.got = host.own
      /\ Oldest.residue \in Nat /\ Oldest.status \in {"pass", "fail", "phase"}
  BY <1>1, OwnCswIs
<1>3. /\ TypeOK /\ host.got \in Nat /\ host.own \in Nat /\ host.len \in Nat
      /\ host.got <= host.len /\ host.own <= host.got /\ host.len <= MaxLen /\ MaxLen \in Nat
      /\ host.dir \in {"in", "out"} /\ (host.dir = "out" => host.own = host.got)
      /\ tag \in 1 .. MaxTags
  BY <1>1, Typed DEF Inv, HostInv, InCsw, Directions
<1>4. \E code \in {"OK", "FAILED"} : \E actual \in Nat :
         /\ Return(code, Oldest.status, Oldest.residue, actual) /\ actual <= host.got
         /\ code = "OK" => Oldest.status = "pass"
  <2>1. CASE CswMeaningless
    <3>1. Return("FAILED", Oldest.status, Oldest.residue, host.got)
      BY <2>1 DEF CswMeaningless
    <3> QED  BY <1>3, <3>1
  <2>2. CASE CswGood
    <3> DEFINE code == IF Oldest.status = "pass" THEN "OK" ELSE "FAILED"
               actual == Actual(host.len, host.got, Oldest.residue)
    <3>1. Return(code, Oldest.status, Oldest.residue, actual) /\ Oldest.residue <= host.len
      BY <2>2 DEF CswGood
    <3>2. actual \in Nat /\ actual <= host.got
      BY <1>2, <1>3, <3>1, ActualIs
    <3>3. code \in {"OK", "FAILED"} /\ (code = "OK" => Oldest.status = "pass")
      OBVIOUS
    <3> HIDE DEF code, actual
    <3> QED  BY <3>1, <3>2, <3>3
  <2> QED  BY <2>1, <2>2
<1>5. PICK code \in {"OK", "FAILED"}, actual \in Nat :
         /\ Return(code, Oldest.status, Oldest.residue, actual) /\ actual <= host.got
         /\ code = "OK" => Oldest.status = "pass"
  BY <1>4
<1>6. /\ host' = IdleHost /\ tag' = tag /\ executed' = executed
      /\ rc' = [code |-> code, status |-> Oldest.status, residue |-> Oldest.residue,
                actual |-> actual, own |-> host.own]
      /\ UNCHANGED <<device, obeys, cbw, halted>>
  BY <1>1, <1>5 DEF Return, Took
<1>7. host' \in Host /\ host'.pc = "idle" /\ host'.len = 0 /\ host'.got = 0 /\ host'.own = 0
  BY <1>6, IdleHostTyped
<1>8. /\ device'.mode = "ready" /\ cbw' = <<>> /\ inPipe' = <<>> /\ ~halted' /\ ~Busy'
  BY <1>2 DEF InStep, Busy
<1>9. Places' = {}
  BY <1>8, EmptySeq DEF Places
<1>10. TypeOK'
  <2>1. actual \in 0 .. MaxLen + 1 /\ host.own \in 0 .. MaxLen + 1
    BY <1>3, <1>5
  <2>2. rc' \in [code: Codes \cup {None}, status: {None, "pass", "fail", "phase"},
                 residue: Nat, actual: 0 .. MaxLen + 1, own: 0 .. MaxLen + 1]
    BY <1>2, <1>6, <2>1 DEF Codes
  <2> QED  BY <1>2, <1>3, <1>6, <1>7, <2>2 DEF TypeOK
<1>11. HostInv'
  BY <1>6, <1>7, IdleHostTyped DEF HostInv
<1>12. DeviceInv'
  BY <1>6, <1>8 DEF Inv, DeviceInv
<1>13. PacketsInv'
  BY <1>9 DEF PacketsInv
<1>14. UnsentInv'
  BY <1>2, <1>5, <1>6, <1>7 DEF UnsentInv
<1>15. OwnInv'
  BY <1>7 DEF OwnInv
<1>16. StepInv'
  BY <1>2, <1>7 DEF StepInv, InReply
<1>17. ResultInv'
  <2>1. SuccessIsOwn'
    <3>1. Oldest.residue = 0 => actual <= host.own
      BY <1>2, <1>3, <1>5
    <3> QED  BY <1>2, <1>5, <1>6, <3>1 DEF SuccessIsOwn
  <2>2. DataIsOwn'
    BY <1>2, <1>3, <1>5, <1>6 DEF DataIsOwn
  <2> QED  BY <1>2, <2>1, <2>2 DEF ResultInv
<1> QED  BY <1>10, <1>11, <1>12, <1>13, <1>14, <1>15, <1>16, <1>17 DEF Inv

----------------------------------------------------------------------------
(* The device. *)

\* What no step of the device disturbs, all of them being out of step.
LEMMA DeviceLeaves ==
  ASSUME Inv, Quiet, ~InStep
  PROVE  /\ HostInv' /\ ResultInv'
         /\ obeys => InReply \/ rc.code = "NO_DEVICE"
<1>1. UNCHANGED <<tag, host, rc, obeys>>
  BY DEF Quiet
<1>2. HostInv'
  BY <1>1 DEF Inv, HostInv
<1>3. rc.code \notin {"OK", "FAILED"}
  BY DEF Inv, ResultInv
<1>4. ResultInv'
  BY <1>1, <1>3 DEF ResultInv, SuccessIsOwn, DataIsOwn
<1>5. obeys => InReply \/ rc.code = "NO_DEVICE"
  BY DEF Inv, StepInv
<1> QED  BY <1>2, <1>4, <1>5

\* The device takes its command to its end, or a step towards it, and tells
\* the host nothing in the pipe.
LEMMA SilentKeeps ==
  ASSUME Inv, Quiet, Busy, device' = [device EXCEPT !.mode = "status"],
         halted' \in BOOLEAN, UNCHANGED <<cbw, inPipe, executed>>
  PROVE  Inv'
<1>1. UNCHANGED <<tag, host, rc, obeys>> /\ TypeOK
  BY DEF Quiet, Inv
<1>2. /\ device' \in Device /\ device'.mode = "status" /\ device'.tag = device.tag
      /\ device'.len = device.len /\ device'.dir = device.dir /\ device'.sent = device.sent
  BY <1>1 DEF TypeOK, Device
<1>3. TypeOK'
  BY <1>1, <1>2 DEF TypeOK
<1>4. ~InStep /\ Busy' /\ Places' = Places /\ device.mode # "ready"
  BY <1>2 DEF Busy, InStep, Places
<1>5. HostInv' /\ ResultInv' /\ (obeys => InReply \/ rc.code = "NO_DEVICE")
  BY <1>4, DeviceLeaves
<1>6. DeviceInv' /\ PacketsInv'
  BY <1>1, <1>2, <1>4 DEF Inv, DeviceInv, PacketsInv, Mine
<1>7. UnsentInv'
  BY <1>1, <1>2, <1>4 DEF Inv, UnsentInv, Mine
<1>8. OwnInv'
  <2>1. host.pc # "idle" /\ executed[tag] > 0
           => \A i \in Places : Mine(inPipe[i]) => inPipe[i].kind # "csw"
    BY <1>4 DEF Inv, OwnInv
  <2> QED  BY <1>1, <1>2, <1>4, <2>1 DEF Inv, OwnInv, Mine
<1>9. StepInv'
  BY <1>1, <1>2, <1>4, <1>5 DEF Inv, StepInv, InReply, Mine
<1> QED  BY <1>3, <1>5, <1>6, <1>7, <1>8, <1>9 DEF Inv

\* It sends what ends its data phase, or its CSW.
LEMMA EndingKeeps ==
  ASSUME Inv, Quiet, Busy, NEW p \in Packet, Emit(p), p.tag = device.tag,
         UNCHANGED <<cbw, halted, executed>>,
         \/ p.kind = "short" /\ device' = [device EXCEPT !.mode = "status"]
         \/ /\ p.kind = "csw" /\ device' = ReadyDevice /\ ~halted
            /\ p.residue \in {Residue, MaxLen + 1}
  PROVE  Inv'
<1>1. UNCHANGED <<tag, host, rc, obeys>> /\ TypeOK
  BY DEF Quiet, Inv
<1>2. /\ inPipe' \in Seq(Packet) /\ Len(inPipe) \in Nat
      /\ Len(inPipe') = Len(inPipe) + 1
      /\ Places' = Places \cup {Len(inPipe) + 1}
      /\ inPipe'[Len(inPipe) + 1] = p
      /\ \A i \in Places : inPipe'[i] = inPipe[i] /\ i \in Nat /\ i <= Len(inPipe)
  BY <1>1, EmittedIs DEF TypeOK, Emit
<1>3. /\ device' \in Device /\ device'.mode \in {"status", "ready"}
      /\ Busy' => /\ device'.tag = device.tag /\ device'.len = device.len
                  /\ device'.dir = device.dir /\ device'.sent = device.sent
      /\ p.kind = "csw" => device'.mode = "ready"
  <2>1. CASE device' = [device EXCEPT !.mode = "status"] /\ p.kind = "short"
    BY <1>1, <2>1 DEF TypeOK, Device
  <2>2. CASE device' = ReadyDevice
    BY <2>2, ReadyDeviceTyped DEF Busy
  <2> QED  BY <2>1, <2>2
<1>4. ~InStep /\ device.mode # "ready" /\ p.kind \in {"short", "csw"}
  BY DEF Busy, InStep
<1>5. HostInv' /\ ResultInv' /\ (obeys => InReply \/ rc.code = "NO_DEVICE")
  BY <1>4, DeviceLeaves
<1>6. TypeOK'
  BY <1>1, <1>2, <1>3 DEF TypeOK
<1>7. DeviceInv'
  BY <1>1, <1>3 DEF Inv, DeviceInv, Mine
<1>8. PacketsInv'
  <2>1. device.tag \in 1 .. tag
    BY DEF Inv, DeviceInv
  <2> QED  BY <1>1, <1>2, <2>1 DEF Inv, PacketsInv
<1>9. UnsentInv'
  BY <1>1, <1>2, <1>3 DEF Inv, UnsentInv, Mine
<1>10. OwnInv'
  <2> SUFFICES ASSUME host.pc # "idle", executed[tag] > 0 PROVE OwnInv'
    BY <1>1 DEF OwnInv
  <2>1. /\ cbw = <<>> /\ Mine(device)
        /\ \A i \in Places : Mine(inPipe[i]) => inPipe[i].kind # "csw"
    BY <1>4 DEF Inv, OwnInv
  <2>2. PICK old, n \in Nat :
           Placed(inPipe, tag, old, n) /\ (host.dir = "in" => executed[tag] = 1 + host.own + n)
    BY DEF Inv, OwnInv
  <2>3. Placed(inPipe', tag, old, n)
    <3>1. p.tag = tag /\ p.kind # "data" /\ old + n <= Len(inPipe)
      BY <1>4, <2>1, <2>2 DEF Mine, Placed
    <3>2. \A i \in Places : /\ inPipe[i].tag = tag <=> i > old
                            /\ i > old => (inPipe[i].kind = "data" <=> i <= old + n)
      BY <2>2 DEF Placed, Places
    <3>3. \A i \in Places' : /\ inPipe'[i].tag = tag <=> i > old
                             /\ i > old => (inPipe'[i].kind = "data" <=> i <= old + n)
      BY <1>2, <3>1, <3>2
    <3> QED  BY <1>2, <3>1, <3>3 DEF Placed, Places
  <2>4. ASSUME p.kind = "csw", host.dir = "in", p.residue = 0 PROVE executed[tag] > host.len
    <3>1. /\ device.len = host.len /\ device.dir = "in" /\ executed[tag] = 1 + device.sent
      BY <2>1, <2>4 DEF Inv, DeviceInv, Mine
    <3>2. MaxLen \in Nat /\ device.sent \in Nat /\ device.len \in Nat
      BY <1>1, Typed
    <3>3. p.residue = Residue
      BY <2>4, <3>2
    <3>4. device.sent >= device.len
      BY <2>4, <3>1, <3>2, <3>3 DEF Residue
    <3> QED  BY <3>1, <3>2, <3>4
  <2>5. \A i \in Places' : inPipe'[i].tag = tag =>
              /\ device'.mode = "data" => inPipe'[i].kind = "data"
              /\ inPipe'[i].kind = "csw" =>
                    /\ i = Len(inPipe') /\ device'.mode = "ready" /\ ~halted
                    /\ host.dir = "in" /\ inPipe'[i].residue = 0 => executed[tag] > host.len
    <3> SUFFICES ASSUME NEW i \in Places', inPipe'[i].tag = tag, inPipe'[i].kind = "csw"
                 PROVE  /\ i = Len(inPipe') /\ device'.mode = "ready" /\ ~halted
                        /\ host.dir = "in" /\ inPipe'[i].residue = 0 => executed[tag] > host.len
      BY <1>3
    <3>1. i = Len(inPipe) + 1 /\ inPipe'[i] = p
      BY <1>2, <2>1 DEF Mine
    <3>2. p.kind = "csw"
      BY <3>1
    <3>3. ~halted /\ device'.mode = "ready"
      BY <1>3, <3>2
    <3>4. i = Len(inPipe')
      BY <1>2, <3>1
    <3> QED  BY <2>4, <3>1, <3>2, <3>3, <3>4
  <2>6. device'.mode = "ready" \/ (Busy' /\ Mine(device)')
    BY <1>1, <1>3, <2>1 DEF Busy, Mine
  <2>7. cbw' = <<>> /\ tag' = tag /\ host' = host /\ executed' = executed /\ halted' = halted
    BY <1>1, <2>1
  <2> QED  BY <2>2, <2>3, <2>5, <2>6, <2>7 DEF OwnInv, Mine
<1>11. StepInv'
  BY <1>1, <1>2, <1>3, <1>4, <1>5 DEF Inv, StepInv, InReply, Mine
<1> QED  BY <1>5, <1>6, <1>7, <1>8, <1>9, <1>10, <1>11 DEF Inv

LEMMA EndDataKeeps ==
  ASSUME Inv, EndData \/ StallStatus \/ SendCsw
  PROVE  Inv'
<1>1. TypeOK /\ Quiet /\ Busy /\ halted \in BOOLEAN
  BY DEF Inv, TypeOK, EndData, StallStatus, SendCsw, Busy
<1>2. CASE EndData
  <2>1. /\ device' = [device EXCEPT !.mode = "status"] /\ UNCHANGED <<cbw, executed>>
        /\ \/ halted' \in {halted, TRUE} /\ UNCHANGED inPipe
           \/ Emit([kind |-> "short", tag |-> device.tag]) /\ UNCHANGED halted
    BY <1>2 DEF EndData
  <2>2. CASE halted' \in {halted, TRUE} /\ UNCHANGED inPipe
    <3>1. halted' \in BOOLEAN
      BY <1>1, <2>2
    <3> QED  BY <1>1, <2>1, <2>2, <3>1, SilentKeeps
  <2>3. CASE Emit([kind |-> "short", tag |-> device.tag]) /\ UNCHANGED halted
    <3> DEFINE p == [kind |-> "short", tag |-> device.tag]
    <3>1. p \in Packet /\ p.kind = "short" /\ p.tag = device.tag
      BY <1>1, Typed DEF Packet
    <3>2. Emit(p)
      BY <2>3
    <3> HIDE DEF p
    <3> QED  BY <1>1, <2>1, <2>3, <3>1, <3>2, EndingKeeps
  <2> QED  BY <2>1, <2>2, <2>3
<1>3. CASE StallStatus
  <2>1. /\ device.mode = "status" /\ halted' = TRUE /\ UNCHANGED <<device, cbw, inPipe, executed>>
    BY <1>3 DEF StallStatus
  <2>2. device' = [device EXCEPT !.mode = "status"]
    BY <1>1, <2>1 DEF TypeOK, Device
  <2> QED  BY <1>1, <2>1, <2>2, SilentKeeps
<1>4. CASE SendCsw
  <2>1. PICK status \in {"pass", "fail", "phase"}, residue \in {Residue, MaxLen + 1} :
          Emit([kind |-> "csw", tag |-> device.tag, status |-> status, residue |-> residue])
    BY <1>4 DEF SendCsw
  <2> DEFINE p == [kind |-> "csw", tag |-> device.tag, status |-> status, residue |-> residue]
  <2>2. residue \in Nat /\ device.tag \in Nat
    BY <1>1, Typed DEF Residue
  <2>3. p \in Packet /\ p.kind = "csw" /\ p.tag = device.tag /\ p.residue = residue
    BY <2>2 DEF Packet
  <2>4. Emit(p)
    BY <2>1
  <2>5. ~halted /\ device' = ReadyDevice /\ UNCHANGED <<cbw, halted, executed>>
    BY <1>4 DEF SendCsw
  <2> HIDE DEF p
  <2> QED  BY <1>1, <2>3, <2>4, <2>5, EndingKeeps
<1> QED  BY <1>2, <1>3, <1>4

LEMMA SendDataKeeps ==
  ASSUME Inv, SendData
  PROVE  Inv'
<1> DEFINE d == device.tag
           p == [kind |-> "data", tag |-> d]
<1>1. /\ Quiet /\ Busy /\ device.mode = "data" /\ device.dir = "in"
      /\ device.sent <= device.len /\ Emit(p)
      /\ device' = [device EXCEPT !.sent = device.sent + 1]
      /\ executed' = [executed EXCEPT ![d] = executed[d] + 1]
      /\ UNCHANGED <<cbw, halted>>
  BY DEF SendData, Busy
<1>2. UNCHANGED <<tag, host, rc, obeys>> /\ TypeOK
  BY <1>1 DEF Quiet, Inv
<1>3. d \in 1 .. tag /\ d \in 1 .. MaxTags /\ executed[d] = 1 + device.sent
  BY <1>1, <1>2, Typed DEF Inv, DeviceInv
<1>4. /\ device.sent \in Nat /\ device.len \in Nat /\ device.len <= MaxLen /\ MaxLen \in Nat
      /\ executed[d] \in Nat
  BY <1>2, <1>3, Typed
<1>5. p \in Packet /\ p.kind = "data" /\ p.tag = d
  BY <1>2, Typed DEF Packet
<1> HIDE DEF p
<1>6. /\ inPipe' \in Seq(Packet) /\ Len(inPipe) \in Nat
      /\ Len(inPipe') = Len(inPipe) + 1
      /\ Places' = Places \cup {Len(inPipe) + 1}
      /\ inPipe'[Len(inPipe) + 1] = p
      /\ \A i \in Places : inPipe'[i] = inPipe[i] /\ i \in Nat /\ i <= Len(inPipe)
  BY <1>1, <1>2, <1>5, EmittedIs DEF TypeOK, Emit
<1>7. /\ device' \in Device /\ device'.mode = "data" /\ device'.tag = d
      /\ device'.len = device.len /\ device'.dir = device.dir
      /\ device'.sent = device.sent + 1
  <2>1. device.sent + 1 \in 0 .. MaxLen + 1
    BY <1>1, <1>4
  <2> QED  BY <1>1, <1>2, <2>1 DEF TypeOK, Device
<1>8. /\ executed'[d] = executed[d] + 1
      /\ \A k \in 1 .. MaxTags : k # d => executed'[k] = executed[k]
      /\ executed' \in [1 .. MaxTags -> 0 .. MaxLen + 2]
  <2>1. executed[d] + 1 \in 0 .. MaxLen + 2
    BY <1>1, <1>3, <1>4
  <2> QED  BY <1>1, <1>2, <1>3, <2>1 DEF TypeOK
<1>9. ~InStep /\ Busy' /\ tag \in 1 .. MaxTags
  BY <1>1, <1>2, <1>3, <1>7, Typed DEF Busy, InStep
<1>10. HostInv' /\ ResultInv' /\ (obeys => InReply \/ rc.code = "NO_DEVICE")
  BY <1>1, <1>9, DeviceLeaves
<1>11. TypeOK'
  BY <1>1, <1>2, <1>6, <1>7, <1>8 DEF TypeOK
<1>12. executed'[tag] = 0 => executed[tag] = 0 /\ d # tag
  BY <1>4, <1>8, <1>9
<1>13. executed[tag] = 0 => d # tag
  BY <1>3, <1>4
<1>14. DeviceInv'
  <2>1. \A k \in tag + 1 .. MaxTags : executed'[k] = 0
    <3> SUFFICES ASSUME NEW k \in tag + 1 .. MaxTags PROVE executed'[k] = 0
      OBVIOUS
    <3>1. k \in 1 .. MaxTags /\ k # d
      BY <1>2, <1>3, <1>9, Typed
    <3>2. executed[k] = 0
      BY DEF Inv, DeviceInv
    <3> QED  BY <1>8, <3>1, <3>2
  <2>2. executed[tag] = 0 => executed'[tag] = 0
    BY <1>8, <1>9, <1>13
  <2>3. executed'[device'.tag] = 1 + device'.sent
    BY <1>3, <1>4, <1>7, <1>8
  <2>4. device'.tag \in 1 .. tag
    BY <1>3, <1>7
  <2> QED  BY <1>1, <1>2, <1>7, <2>1, <2>2, <2>3, <2>4 DEF Inv, DeviceInv, Mine
<1>15. PacketsInv'
  BY <1>2, <1>3, <1>5, <1>6 DEF Inv, PacketsInv
<1>16. UnsentInv'
  <2>1. executed[tag] = 0 => executed'[tag] = 0
    BY <1>8, <1>9, <1>13
  <2> QED  BY <1>1, <1>2, <1>5, <1>6, <1>7, <1>12, <2>1 DEF Inv, UnsentInv, Mine
<1>17. OwnInv'
  <2> SUFFICES ASSUME host.pc # "idle", executed'[tag] > 0 PROVE OwnInv'
    BY <1>2 DEF OwnInv
  <2>1. executed[tag] > 0
    BY <1>3, <1>4, <1>8, <1>9
  <2>2. /\ cbw = <<>> /\ d = tag
        /\ \A i \in Places : Mine(inPipe[i]) => inPipe[i].kind = "data"
    BY <1>1, <2>1 DEF Inv, OwnInv, Mine
  <2>3. PICK old, n \in Nat :
           Placed(inPipe, tag, old, n) /\ (host.dir = "in" => executed[tag] = 1 + host.own + n)
    BY <2>1 DEF Inv, OwnInv
  <2>4. /\ old + n <= Len(inPipe)
        /\ \A i \in Places : /\ inPipe[i].tag = tag <=> i > old
                             /\ i > old => (inPipe[i].kind = "data" <=> i <= old + n)
    BY <2>3 DEF Placed, Places
  <2>5. old + n = Len(inPipe)
    <3>1. SUFFICES ASSUME old + n < Len(inPipe) PROVE FALSE
      BY <1>6, <2>4
    <3>2. Len(inPipe) \in Places /\ Len(inPipe) > old /\ ~(Len(inPipe) <= old + n)
      BY <1>6, <3>1 DEF Places
    <3> QED  BY <2>2, <2>4, <3>2 DEF Mine
  <2>6. Placed(inPipe', tag, old, n + 1)
    <3>1. \A i \in Places' : /\ inPipe'[i].tag = tag <=> i > old
                             /\ i > old => (inPipe'[i].kind = "data" <=> i <= old + (n + 1))
      BY <1>5, <1>6, <2>2, <2>4, <2>5
    <3>2. old + (n + 1) <= Len(inPipe')
      BY <1>6, <2>5
    <3> QED  BY <3>1, <3>2 DEF Placed, Places
  <2>7. n + 1 \in Nat /\ (host.dir = "in" => executed'[tag] = 1 + host.own + (n + 1))
    <3>1. host.own \in Nat
      BY <1>2, Typed
    <3> QED  BY <1>8, <2>2, <2>3, <3>1
  <2>8. \A i \in Places' : inPipe'[i].tag = tag => inPipe'[i].kind = "data"
    BY <1>5, <1>6, <2>2 DEF Mine
  <2>9. \E o, m \in Nat :
           Placed(inPipe', tag', o, m) /\ (host'.dir = "in" => executed'[tag'] = 1 + host'.own + m)
    BY <1>2, <2>6, <2>7
  <2> QED  BY <1>1, <1>2, <1>7, <1>9, <2>2, <2>8, <2>9 DEF OwnInv, Mine
<1>18. StepInv'
  <2> SUFFICES ASSUME obeys PROVE StepInv'
    BY <1>2 DEF StepInv
  <2>1. CASE InReply
    <3>1. /\ \A i \in Places : Mine(inPipe[i])
          /\ (cbw # <<>> => Mine(cbw[1])) /\ Mine(device) /\ host.got = host.own
      BY <1>1, <2>1 DEF Inv, StepInv
    <3> QED  BY <1>1, <1>2, <1>5, <1>6, <1>7, <2>1, <3>1 DEF StepInv, InReply, Mine
  <2>2. CASE ~InReply
    BY <1>2, <1>10, <2>2 DEF StepInv, InReply
  <2> QED  BY <2>1, <2>2
<1> QED  BY <1>10, <1>11, <1>14, <1>15, <1>16, <1>17, <1>18 DEF Inv

LEMMA TakeCbwKeeps ==
  ASSUME Inv, TakeCbw
  PROVE  Inv'
<1> DEFINE c == cbw[1]
<1>1. /\ Quiet /\ cbw # <<>> /\ cbw' = <<>> /\ UNCHANGED <<inPipe, halted>> /\ ~InStep
  BY DEF TakeCbw, InStep
<1>2. UNCHANGED <<tag, host, rc, obeys>> /\ TypeOK
  BY <1>1 DEF Quiet, Inv
<1>3. Len(cbw) = 1 /\ c \in Cbw /\ cbw' \in Seq(Cbw) /\ Len(cbw') = 0
  <2>1. cbw \in Seq(Cbw) /\ Len(cbw) <= 1
    BY <1>2 DEF TypeOK
  <2>2. Len(cbw) \in Nat \ {0}
    BY <1>1, <2>1, EmptySeq
  <2>3. Len(cbw) = 1
    BY <2>1, <2>2
  <2>4. c \in Cbw
    BY <2>1, <2>3, ElementOfSeq
  <2>5. <<>> \in Seq(Cbw) /\ Len(<<>>) = 0
    BY EmptySeq
  <2> QED  BY <1>1, <2>3, <2>4, <2>5
<1>4. /\ c.tag \in 1 .. tag /\ (Mine(c) => executed[tag] = 0)
      /\ host.pc # "idle" /\ Mine(c) => c.len = host.len /\ c.dir = host.dir
      /\ (host.pc = "cbw" \/ rc.code = "NOT_SENT" => ~Mine(c))
      /\ \A k \in tag + 1 .. MaxTags : executed[k] = 0
  BY <1>1 DEF Inv, DeviceInv, UnsentInv
<1>5. tag \in 1 .. MaxTags /\ c.tag \in 1 .. MaxTags /\ tag \in Nat
  BY <1>2, <1>4, Typed
<1>6. /\ HostInv' /\ ResultInv' /\ (obeys => InReply \/ rc.code = "NO_DEVICE")
  BY <1>1, DeviceLeaves
<1>7. Places' = Places /\ PacketsInv'
  BY <1>1, <1>2 DEF Inv, PacketsInv, Places
<1>8. c.len \in 0 .. MaxLen /\ c.dir \in Directions /\ c.tag \in Nat
  BY <1>3 DEF Cbw
<1>9. CASE device.mode = "ready"
  <2> DEFINE m == IF c.len > 0 THEN "data" ELSE "status"
  <2>1. /\ device' = [mode |-> m, tag |-> c.tag, len |-> c.len, dir |-> c.dir, sent |-> 0]
        /\ executed' = [executed EXCEPT ![c.tag] = 1]
    BY <1>9 DEF TakeCbw
  <2>2. m \in {"data", "status"} /\ MaxLen \in Nat
    BY MaxLenIs
  <2> HIDE DEF c, m
  <2>3. /\ device' \in Device /\ device'.mode = m /\ device'.tag = c.tag
        /\ device'.len = c.len /\ device'.dir = c.dir /\ device'.sent = 0 /\ Busy'
    BY <1>8, <2>1, <2>2 DEF Device, Busy
  <2>4. /\ executed' \in [1 .. MaxTags -> 0 .. MaxLen + 2] /\ executed'[c.tag] = 1
        /\ \A k \in 1 .. MaxTags : k # c.tag => executed'[k] = executed[k]
    BY <1>2, <1>5, <2>1, <2>2 DEF TypeOK
  <2>5. TypeOK'
    BY <1>1, <1>2, <1>3, <2>3, <2>4 DEF TypeOK
  <2>6. DeviceInv'
    <3>1. \A k \in tag + 1 .. MaxTags : executed'[k] = 0
      <4> SUFFICES ASSUME NEW k \in tag + 1 .. MaxTags PROVE executed'[k] = 0
        OBVIOUS
      <4>1. k \in 1 .. MaxTags /\ k # c.tag
        BY <1>4, <1>5
      <4> QED  BY <1>4, <2>4, <4>1
    <3> QED  BY <1>1, <1>2, <1>4, <2>3, <2>4, <3>1 DEF DeviceInv, Mine
  <2>7. UnsentInv'
    <3>1. executed'[tag] = 0 => c.tag # tag /\ executed[tag] = 0
      BY <1>5, <2>4
    <3>2. host.pc = "cbw" \/ rc.code = "NOT_SENT" => c.tag # tag /\ executed[tag] = 0
      BY <1>4 DEF Inv, UnsentInv, Mine
    <3>3. c.tag # tag => executed'[tag] = executed[tag]
      BY <1>5, <2>4
    <3> QED  BY <1>1, <1>2, <1>7, <2>3, <3>1, <3>2, <3>3 DEF Inv, UnsentInv, Mine
  <2>8. OwnInv'
    <3> SUFFICES ASSUME host.pc # "idle", executed'[tag] > 0 PROVE OwnInv'
      BY <1>2 DEF OwnInv
    <3>1. c.tag = tag
      <4>1. ~(executed[tag] > 0)
        BY <1>1 DEF Inv, OwnInv
      <4> QED  BY <1>5, <2>4, <4>1
    <3>2. executed[tag] = 0
      BY <1>4, <3>1 DEF Mine
    <3>3. (\A i \in Places : inPipe[i].tag # tag) /\ host.own = 0
      BY <3>2 DEF Inv, UnsentInv, Mine
    <3>4. Len(inPipe) \in Nat
      BY <1>2, Typed
    <3>5. Placed(inPipe, tag, Len(inPipe), 0)
      BY <3>3, <3>4 DEF Placed, Places
    <3>6. executed'[tag] = 1 + host.own + 0
      BY <2>4, <3>1, <3>3
    <3>7. \E o, n \in Nat :
             Placed(inPipe', tag', o, n) /\ (host'.dir = "in" => executed'[tag'] = 1 + host'.own + n)
      BY <1>1, <1>2, <3>4, <3>5, <3>6
    <3> QED  BY <1>1, <1>2, <1>7, <2>3, <3>1, <3>3, <3>7 DEF OwnInv, Mine
  <2>9. StepInv'
    <3> SUFFICES ASSUME obeys PROVE StepInv'
      BY <1>2 DEF StepInv
    <3>1. CASE InReply
      <4>1. /\ \A i \in Places : Mine(inPipe[i])
            /\ Mine(c)
            /\ \/ host.got = host.own
               \/ executed[tag] > 0
        BY <1>1, <3>1 DEF Inv, StepInv, c
      <4>2. host.got = host.own
        BY <1>4, <4>1
      <4> QED  BY <1>1, <1>2, <1>7, <2>2, <2>3, <3>1, <4>1, <4>2 DEF StepInv, InReply, Mine
    <3>2. CASE ~InReply
      BY <1>2, <1>6, <3>2 DEF StepInv, InReply
    <3> QED  BY <3>1, <3>2
  <2> QED  BY <1>6, <1>7, <2>5, <2>6, <2>7, <2>8, <2>9 DEF Inv
<1>10. CASE device.mode = "invalid"
  <2>1. UNCHANGED <<device, executed>> /\ Busy' = Busy
    BY <1>10 DEF TakeCbw, Busy
  <2>2. TypeOK'
    BY <1>1, <1>2, <1>3, <2>1 DEF TypeOK
  <2>3. DeviceInv'
    BY <1>1, <1>2, <2>1 DEF Inv, DeviceInv, Mine
  <2>4. UnsentInv'
    BY <1>1, <1>2, <1>7, <2>1 DEF Inv, UnsentInv, Mine
  <2>5. OwnInv'
    BY <1>1, <1>2, <2>1 DEF Inv, OwnInv
  <2>6. StepInv'
    BY <1>2, <1>6, <1>10 DEF Inv, StepInv, InReply
  <2> QED  BY <1>6, <1>7, <2>2, <2>3, <2>4, <2>5, <2>6 DEF Inv
<1> QED  BY <1>9, <1>10 DEF TakeCbw

LEMMA StutterKeeps ==
  ASSUME Inv, UNCHANGED vars
  PROVE  Inv'
<1>1. UNCHANGED <<tag, host, rc, device, obeys, cbw, inPipe, halted, executed>>
  BY DEF vars, dev
<1>2. TypeOK' /\ HostInv' /\ DeviceInv' /\ PacketsInv' /\ UnsentInv'
  BY <1>1 DEF Inv, TypeOK, HostInv, DeviceInv, PacketsInv, UnsentInv, Mine, Busy, Places
<1>3. OwnInv'
  BY <1>1 DEF Inv, OwnInv, Mine, Busy, Places
<1>4. StepInv' /\ ResultInv'
  BY <1>1 DEF Inv, StepInv, ResultInv, SuccessIsOwn, DataIsOwn, InStep, InReply, Mine, Busy, Places
<1> QED  BY <1>2, <1>3, <1>4 DEF Inv

LEMMA InvStep == Inv /\ [Next]_vars => Inv'
<1> SUFFICES ASSUME Inv, [Next]_vars PROVE Inv'
  OBVIOUS
<1>1. ASSUME NEW len \in Lens, NEW dir \in Directions, Start(len, dir) PROVE Inv'
  BY <1>1, StartKeeps
<1>2. ASSUME DataFailed \/ CswFailed \/ CswMismatch \/ CswPhaseError PROVE Inv'
  <2>1. ResetRecovery /\ host.pc \in {"data", "csw", "csw_again"}
    BY <1>2 DEF DataFailed, CswFailed, CswMismatch, CswPhaseError, PhaseError, InCsw
  <2>2. CASE PhaseError
    BY <2>1, <2>2, PhaseErrorKeeps
  <2>3. CASE CswPhaseError
    BY <2>3, CswPhaseErrorKeeps
  <2> QED  BY <1>2, <2>2, <2>3 DEF DataFailed, CswFailed, CswMismatch
<1>3. CASE HostStep
  BY <1>2, <1>3, CbwSentKeeps, CbwFailureKeeps, DataInKeeps, StalledKeeps, DataOutKeeps,
     StatusKeeps, GoneKeeps DEF HostStep
<1>4. CASE DeviceStep
  BY <1>4, TakeCbwKeeps, SendDataKeeps, EndDataKeeps DEF DeviceStep
<1>5. CASE UNCHANGED vars
  BY <1>5, StutterKeeps
<1> QED  BY <1>1, <1>3, <1>4, <1>5 DEF Next

LEMMA InvAlways == Spec => []Inv
  BY InitInv, InvStep, PTL DEF Spec

----------------------------------------------------------------------------
(* The theorems. *)

\* The locals of laser_bot_send_locked(), its result, the bulk pipes and the
\* device keep their types.
THEOREM TypeCorrect == Spec => []TypeOK
<1>1. Inv => TypeOK
  BY DEF Inv
<1> QED  BY <1>1, InvAlways, PTL

\* A 0 returned is this CBW's PASS, and what it counts as moved was moved by
\* it, on a device that obeys resets or not (bot.c:301-312).
THEOREM SuccessesAreOwn == Spec => []SuccessIsOwn
<1>1. Inv => SuccessIsOwn
  BY DEF Inv, ResultInv
<1> QED  BY <1>1, InvAlways, PTL

\* On a device that obeys resets no status counts another command's data,
\* though the residue may be overruled by the wire count (bot.c:338-371).
THEOREM DataAreOwn == Spec => []DataIsOwn
<1>1. Inv => DataIsOwn
  BY DEF Inv, ResultInv
<1> QED  BY <1>1, InvAlways, PTL

\* A command reported as BOT_FAIL_NOT_SENT is not executed, then or later.
THEOREM UnsentStaysUnexecuted == Spec => []NotSentIsNeverExecuted
<1>1. Inv => NotSentIsNeverExecuted
  BY DEF Inv, UnsentInv, NotSentIsNeverExecuted
<1> QED  BY <1>1, InvAlways, PTL

\* A status obtained leaves the device waiting, with empty pipes.
THEOREM StatusesLeavePipesClean == Spec => []StatusLeavesPipesClean
<1>1. Inv => StatusLeavesPipesClean
  BY DEF Inv, ResultInv, StatusLeavesPipesClean
<1> QED  BY <1>1, InvAlways, PTL

\* Whatever loses step with an obedient device, a Reset Recovery restores it
\* before laser_bot_send_locked() returns.
THEOREM ObedientDevicesStayInStep == Spec => []InStepBetweenCommands
<1>1. Inv => InStepBetweenCommands
  BY DEF Inv, StepInv, InReply, InStepBetweenCommands
<1> QED  BY <1>1, InvAlways, PTL

----------------------------------------------------------------------------
(* What a return says of the command is final. *)

\* Its own answer was obtained, or none will come: the cases of
\* laser_scsi_cdb() that rest on the command not running behind its back.
Answered ==
    \/ rc.code \in {"NOT_SENT", "OK", "FAILED"}
    \/ rc.code = "PHASE_ERROR" /\ obeys

\* The k-th transaction has so returned, n - 1 units of data sent for it.
ReturnedAt(k, n) == tag = k /\ Answered /\ executed[k] = n

\* Neither the device nor its Bulk-Out buffer has anything left of it.
Over(k) ==
    /\ k <= tag /\ (k = tag => host.pc = "idle")
    /\ Busy => device.tag # k
    /\ cbw # <<>> => cbw[1].tag # k

(***************************************************************************)
(* Once the k-th transaction has returned with a status, or without its    *)
(* CBW having left - or, on a device that obeys resets, at all but for its *)
(* removal - the device does no more for it, ever.                         *)
(***************************************************************************)
ReturnIsFinal(k, n) == [](ReturnedAt(k, n) => [](executed[k] = n))

(***************************************************************************)
(* BOT_FAIL_NOT_SENT is "the only failure after which replaying a command  *)
(* that changes CSS state is provably harmless" (bot.c): a CBW reported as *)
(* not sent is not executed later either, whatever is sent after it.       *)
(***************************************************************************)
NotSentIsForGood(k) == [](tag = k /\ rc.code = "NOT_SENT" => [](executed[k] = 0))

LEMMA ReturnedIsOver ==
  ASSUME Inv, NEW k \in 1 .. MaxTags, tag = k, Answered
  PROVE  Over(k)
<1>1. rc.code # None
  BY NoneIsNoCode DEF Answered
<1>2. host.pc = "idle"
  BY <1>1, NoRcTyped DEF Inv, HostInv
<1>3. CASE rc.code = "NOT_SENT"
  BY <1>2, <1>3, Typed DEF Inv, UnsentInv, Over, Mine
<1>4. CASE rc.code \in {"OK", "FAILED"} \/ (rc.code = "PHASE_ERROR" /\ obeys)
  <2>1. InStep
    BY <1>2, <1>4 DEF Inv, ResultInv, StepInv, InReply
  <2> QED  BY <1>2, <2>1, Typed DEF Inv, InStep, Over, Busy
<1> QED  BY <1>3, <1>4 DEF Answered

\* No step of the host or of the device brings it back.
LEMMA OverStays ==
  ASSUME Inv, NEW k \in 1 .. MaxTags, Over(k), [Next]_vars
  PROVE  Over(k)' /\ executed'[k] = executed[k]
<1>0. tag \in Nat /\ k \in Nat /\ k <= tag
  BY Typed DEF Inv, Over
<1>1. ASSUME k <= tag', k = tag' => host'.pc = "idle",
             Busy' => Busy /\ device'.tag = device.tag,
             cbw' \in {cbw, <<>>}, executed' = executed
      PROVE  Over(k)' /\ executed'[k] = executed[k]
  BY <1>1 DEF Over
<1>2. ASSUME ResetRecovery PROVE cbw' \in {cbw, <<>>} /\ (Busy' => Busy /\ device'.tag = device.tag)
  BY <1>2, ReadyDeviceTyped DEF ResetRecovery, Busy
<1>3. CASE \E len \in Lens, dir \in Directions : Start(len, dir)
  <2>1. tag' = tag + 1 /\ executed' = executed /\ cbw' = cbw /\ device' = device
    BY <1>3 DEF Start, dev
  <2> QED  BY <1>0, <1>1, <2>1 DEF Busy
<1>4. CASE CbwSent
  <2>1. /\ host.pc = "cbw" /\ cbw'[1].tag = tag /\ executed' = executed
        /\ tag' = tag /\ device' = device
    BY <1>4 DEF CbwSent
  <2> QED  BY <2>1 DEF Over, Busy
<1>5. CASE CbwNotSent \/ DeviceGone
  BY <1>0, <1>1, <1>5, IdleHostTyped DEF CbwNotSent, DeviceGone, ReturnBare, Return, dev, Busy
<1>6. CASE CbwRejected
  <2>1. cbw' \in {cbw, <<>>} /\ (Busy' => Busy /\ device'.tag = device.tag)
    BY <1>6, ReadyDeviceTyped DEF CbwRejected, Busy, Inv, TypeOK, Device
  <2> QED  BY <1>0, <1>1, <1>6, <2>1, IdleHostTyped DEF CbwRejected, ReturnBare, Return
<1>7. CASE DataFailed \/ CswFailed \/ CswMismatch \/ CswPhaseError
  <2>1. /\ ResetRecovery /\ tag' = tag /\ executed' = executed /\ host' = IdleHost
    BY <1>7 DEF DataFailed, CswFailed, CswMismatch, CswPhaseError, PhaseError, ReturnBare, Return
  <2> QED  BY <1>0, <1>1, <1>2, <2>1, IdleHostTyped
<1>8. CASE DataIn \/ DataInShort \/ DataStalled \/ CswStalled
  <2>1. /\ host.pc # "idle" /\ tag' = tag /\ executed' = executed /\ device' = device
        /\ cbw' = cbw
    BY <1>8 DEF DataIn, DataInShort, DataStalled, CswStalled, Took
  <2> QED  BY <2>1 DEF Over, Busy
<1>9. CASE DataOut
  <2>1. /\ host.pc # "idle" /\ tag' = tag /\ executed' = executed /\ cbw' = cbw
        /\ Busy /\ device'.tag = device.tag
    BY <1>9 DEF DataOut, Inv, TypeOK, Device, Busy
  <2> QED  BY <2>1 DEF Over
<1>10. CASE CswMeaningless \/ CswGood
  BY <1>0, <1>1, <1>10, IdleHostTyped DEF CswMeaningless, CswGood, Return, Took, Busy
<1>11. CASE TakeCbw
  <2>1. cbw # <<>> /\ cbw' = <<>> /\ cbw[1].tag # k /\ tag' = tag /\ host' = host
    BY <1>11 DEF TakeCbw, Quiet, Over
  <2>2. CASE device.mode = "ready"
    <3>1. device'.tag = cbw[1].tag /\ executed' = [executed EXCEPT ![cbw[1].tag] = 1]
      BY <1>11, <2>2 DEF TakeCbw
    <3> QED  BY <2>1, <3>1 DEF Over, Inv, TypeOK
  <2>3. CASE device.mode = "invalid"
    <3>1. UNCHANGED <<device, executed>>
      BY <1>11, <2>3 DEF TakeCbw
    <3> QED  BY <2>1, <3>1 DEF Over, Busy
  <2> QED  BY <1>11, <2>2, <2>3 DEF TakeCbw
<1>12. CASE SendData
  <2>1. /\ Busy /\ device'.tag = device.tag /\ tag' = tag /\ host' = host /\ cbw' = cbw
        /\ executed' = [executed EXCEPT ![device.tag] = executed[device.tag] + 1]
    BY <1>12 DEF SendData, Quiet, Busy, Inv, TypeOK, Device
  <2> QED  BY <2>1 DEF Over, Inv, TypeOK
<1>13. CASE EndData \/ StallStatus
  <2>1. /\ Busy /\ device'.tag = device.tag /\ tag' = tag /\ host' = host /\ cbw' = cbw
        /\ executed' = executed
    BY <1>13 DEF EndData, StallStatus, Quiet, Busy, Inv, TypeOK, Device
  <2> QED  BY <2>1 DEF Over
<1>14. CASE SendCsw
  <2>1. /\ ~Busy' /\ tag' = tag /\ host' = host /\ cbw' = cbw /\ executed' = executed
    BY <1>14, ReadyDeviceTyped DEF SendCsw, Quiet, Busy
  <2> QED  BY <2>1 DEF Over
<1>15. CASE UNCHANGED vars
  BY <1>15 DEF vars, dev, Over, Busy
<1> QED  BY <1>3, <1>4, <1>5, <1>6, <1>7, <1>8, <1>9, <1>10, <1>11, <1>12, <1>13, <1>14, <1>15
         DEF Next, HostStep, DeviceStep

\* What laser_bot_send_locked() answers of a command stays true: the drive
\* does not go on with it once the next one is under way.
THEOREM ReturnsAreFinal ==
  ASSUME NEW k \in 1 .. MaxTags, NEW n \in Nat
  PROVE  Spec => ReturnIsFinal(k, n)
<1> DEFINE Done == Over(k) /\ executed[k] = n
<1>1. Inv /\ ReturnedAt(k, n) => Done
  BY ReturnedIsOver DEF ReturnedAt
<1>2. Inv /\ Done /\ [Next]_vars => Done'
  BY OverStays
<1>3. Done => executed[k] = n
  OBVIOUS
<1> HIDE DEF Done
<1> QED  BY <1>1, <1>2, <1>3, InvAlways, PTL DEF Spec, ReturnIsFinal

\* A command said not to have left may be sent again, key exchange or not:
\* the drive will have executed one of the two.
THEOREM UnsentIsForGood ==
  ASSUME NEW k \in 1 .. MaxTags
  PROVE  Spec => NotSentIsForGood(k)
<1>1. Inv /\ tag = k /\ rc.code = "NOT_SENT" => ReturnedAt(k, 0)
  BY DEF Inv, UnsentInv, ReturnedAt, Answered
<1>2. Spec => ReturnIsFinal(k, 0)
  BY ReturnsAreFinal
<1> QED  BY <1>1, <1>2, InvAlways, PTL DEF ReturnIsFinal, NotSentIsForGood

============================================================================
