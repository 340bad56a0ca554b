----------------------------- MODULE DriveStack -----------------------------
(***************************************************************************)
(* One drive from the moment its descriptor is registered: the probe, the  *)
(* wait of registration, and then the consumers that identify its disc,    *)
(* each on its own thread and all through one io_lock, while the user and  *)
(* the mechanism do as they please.                                        *)
(***************************************************************************)
EXTENDS DriveProbe, DiscIdentify

vars == <<unit, setup, call>>

Init ==
    /\ \E d \in Drives, mech \in Mechanisms, a \in SUBSET Attentions :
          /\ machine = d[1]
          /\ drive = [plugged |-> TRUE, mech |-> mech,
                      content |-> IF mech \in {"open", "empty"} THEN None ELSE d[2],
                      disc |-> 0, attention |-> a]
    /\ not_ready = FALSE /\ cancelled = FALSE /\ device_gone = FALSE
    /\ wait = None /\ events = 0 /\ heard = {}
    /\ InitSetup /\ InitCalls

Register == SetupStep /\ UNCHANGED call
Wait == WaitStep /\ UNCHANGED <<setup, call>>
Consume(t) == Published /\ (Identify(t) \/ IdentifyStep(t)) /\ UNCHANGED setup
Around == /\ Environment \/ (Published /\ LastRelease)
          /\ UNCHANGED <<setup, call>>

Next == Register \/ Wait \/ (\E t \in Threads : Consume(t)) \/ Around

Spec == Init /\ [][Next]_vars

\* Every command ends within its time-outs and the wait moves on; so does a
\* consumer, once io_lock is free.  No drive need ever become ready.
FairSpec ==
    /\ Spec
    /\ WF_vars(Wait)
    /\ \A t \in Threads : WF_vars(Published /\ IdentifyStep(t) /\ UNCHANGED setup)

-----------------------------------------------------------------------------
\* The types of the device, its mechanism, the registration and the calls.
TypeOK == UnitTypeOK /\ SetupTypeOK /\ CallTypeOK

\* A drive with its disc parked is asked to load it in a shape its firmware
\* takes, one refusal and one UNIT ATTENTION notwithstanding: after the last
\* rung of spin_up_locked() a disc left alone is still parked only for want
\* of the opcode - or of LOEJ, all that is tried after a second attention.
ParkedDiscIsAsked ==
    wait # None /\ wait.pc = "poll" /\ wait.since = events
    /\ drive.plugged /\ drive.mech = "parked" =>
        \/ machine.firmware = "no_opcode"
        \/ ~Takes(machine.firmware, "loej") /\ wait.met = 2

\* The three ceilings bound the wait whatever the drive answers, and in
\* whatever order, the changes of ceiling in the middle and the attentions
\* polled again at once included: between two polls its clock is not past the
\* ceiling in force.  laser_settle() on a published token keeps the teardown of
\* a last release waiting that long, and no longer.
WaitIsBounded ==
    wait # None /\ wait.pc = "poll" =>
        \/ wait.elapsed <= (IF wait.becoming THEN BecomingMax ELSE SpinUpMax)
        \/ wait.elapsed <= wait.asked + NoMediumMax

\* Every identification returns, through the settling, the waits of the other
\* consumers and whatever becomes of the drive and of the claim.
IdentifyEnds == \A t \in Threads : call[t] # None ~> At(t, "done")

=============================================================================
