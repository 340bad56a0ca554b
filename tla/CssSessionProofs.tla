-------------------------- MODULE CssSessionProofs --------------------------
(***************************************************************************)
(* CSS sessions, for every set of threads and consumers: the invariants    *)
(* that the run of MCCssSession.cfg checks on three threads.               *)
(***************************************************************************)
EXTENDS CssSession, TLAPS

(***************************************************************************)
(* An action only ever moves one thread, or two when end() signals.        *)
(***************************************************************************)
LEMMA GotoTypes ==
    ASSUME pc \in [Threads -> {"idle", "begin", "waiting", "woken", "timed_out", "key"}],
           NEW t \in Threads,
           NEW l \in {"idle", "begin", "waiting", "woken", "timed_out", "key"},
           Goto(t, l)
    PROVE  /\ pc' \in [Threads -> {"idle", "begin", "waiting", "woken", "timed_out", "key"}]
           /\ pc'[t] = l
           /\ \A u \in Threads \ {t} : pc'[u] = pc[u]
  BY DEF Goto

(***************************************************************************)
(* The fields of the entry and the history keep their types (laser_entry_t *)
(* in laser_internal.h).                                                   *)
(***************************************************************************)
THEOREM TypeCorrect == Spec => []TypeOK
<1>1. Init => TypeOK
  <2> SUFFICES ASSUME Init PROVE TypeOK
    OBVIOUS
  <2>1. lastKey \in [by: Cookies \cup {None}, during: Cookies \cup {None}]
    BY DEF Init, NoKey
  <2>2. believes \in SUBSET Cookies
    BY DEF Init
  <2>3. css_open \in BOOLEAN /\ css_owner \in Cookies \cup {None}
    BY DEF Init
  <2>4. pc \in [Threads -> {"idle", "begin", "waiting", "woken", "timed_out", "key"}]
    BY DEF Init
  <2>5. expired \in [Threads -> BOOLEAN]
    BY DEF Init
  <2> QED BY <2>1, <2>2, <2>3, <2>4, <2>5 DEF TypeOK
<1>2. TypeOK /\ [Next]_vars => TypeOK'
  <2> SUFFICES ASSUME TypeOK, [Next]_vars PROVE TypeOK'
    OBVIOUS
  <2> USE CookieOfThreads DEF TypeOK
  <2>1. ASSUME NEW t \in Threads, BeginCall(t) PROVE TypeOK'
    BY <2>1, GotoTypes DEF BeginCall, session
  <2>2. ASSUME NEW t \in Threads, BeginOK(t) PROVE TypeOK'
    BY <2>2, GotoTypes DEF BeginOK
  <2>3. ASSUME NEW t \in Threads, BeginReentrant(t) \/ BeginWait(t) PROVE TypeOK'
    <3>1. PICK l \in {"idle", "timed_out", "waiting"} : Goto(t, l)
      BY <2>3 DEF BeginReentrant, BeginWait
    <3> QED BY <2>3, <3>1, GotoTypes DEF BeginReentrant, BeginWait, session
  <2>4. ASSUME NEW t \in Threads, Expire(t) PROVE TypeOK'
    BY <2>4 DEF Expire, session
  <2>5. ASSUME NEW t \in Threads, TimeOut(t) \/ SpuriousWake(t) \/ BeginTimedOut(t)
        PROVE TypeOK'
    <3>1. PICK l \in {"idle", "timed_out", "woken"} : Goto(t, l)
      BY <2>5 DEF TimeOut, SpuriousWake, BeginTimedOut
    <3> QED BY <2>5, <3>1, GotoTypes DEF TimeOut, SpuriousWake, BeginTimedOut, session
  <2>6. ASSUME NEW t \in Threads, End(t) PROVE TypeOK'
    <3>1. pc' \in [Threads -> {"idle", "begin", "waiting", "woken", "timed_out", "key"}]
      BY <2>6, GotoTypes DEF End, Signal, Waiting
    <3> QED BY <2>6, <3>1 DEF End
  <2>7. ASSUME NEW t \in Threads, EndIgnored(t) PROVE TypeOK'
    BY <2>7 DEF EndIgnored
  <2>8. ASSUME NEW t \in Threads, KeyChecked(t) PROVE TypeOK'
    BY <2>8, GotoTypes DEF KeyChecked, session
  <2>9. ASSUME NEW t \in Threads, KeyReachesDrive(t) PROVE TypeOK'
    BY <2>9, GotoTypes DEF KeyReachesDrive, session
  <2>10. CASE UNCHANGED vars
    BY <2>10 DEF vars
  <2> QED
    BY <2>1, <2>2, <2>3, <2>4, <2>5, <2>6, <2>7, <2>8, <2>9, <2>10 DEF Next, Begin
<1> QED BY <1>1, <1>2, PTL DEF Spec

(***************************************************************************)
(* Only BeginOK() and End() touch the session, and each under the          *)
(* condition it tests: at most one consumer holds it, the one the entry    *)
(* names (laser_css_session_begin() and _end()).                           *)
(***************************************************************************)
THEOREM Exclusive == Spec => []SessionIsExclusive
<1>1. Init => SessionIsExclusive
  BY DEF Init, SessionIsExclusive
<1>2. TypeOK /\ SessionIsExclusive /\ [Next]_vars => SessionIsExclusive'
  <2> SUFFICES ASSUME TypeOK, SessionIsExclusive, [Next]_vars PROVE SessionIsExclusive'
    OBVIOUS
  <2>1. CASE UNCHANGED session
    BY <2>1 DEF session, SessionIsExclusive
  <2>2. ASSUME NEW t \in Threads, BeginOK(t) PROVE SessionIsExclusive'
    <3>1. Cookie[t] # None
      BY CookieOfThreads, NoneIsNoCookie
    <3> QED BY <2>2, <3>1 DEF BeginOK, SessionIsExclusive
  <2>3. ASSUME NEW t \in Threads, End(t) PROVE SessionIsExclusive'
    BY <2>3 DEF End, SessionIsExclusive
  <2>4. ASSUME NEW t \in Threads, EndIgnored(t) PROVE SessionIsExclusive'
    BY <2>4 DEF EndIgnored, SessionIsExclusive
  <2> QED
    BY <2>1, <2>2, <2>3, <2>4 DEF Next, Begin, vars, session, BeginCall, BeginReentrant,
       BeginWait, TimeOut, BeginTimedOut, Expire, SpuriousWake, KeyChecked, KeyReachesDrive
<1> QED BY <1>1, <1>2, TypeCorrect, PTL DEF Spec

(***************************************************************************)
(* Every thread that joins the waiters saw the session open, and the step  *)
(* that closes it wakes one of them if there is any: a woken thread stays  *)
(* on its way until it finds the session open again.                       *)
(***************************************************************************)
THEOREM NoWakeupIsLost == Spec => []NoLostWakeup
<1>1. Init => NoLostWakeup
  BY DEF Init, NoLostWakeup, Waiting
<1>2. TypeOK /\ NoLostWakeup /\ [Next]_vars => NoLostWakeup'
  <2> SUFFICES ASSUME TypeOK, NoLostWakeup, [Next]_vars, ~css_open',
                      NEW w \in Threads, pc'[w] = "waiting"
               PROVE  \E u \in Threads : pc'[u] = "woken"
    BY DEF NoLostWakeup, Waiting
  <2> USE DEF TypeOK
  <2>1. ASSUME UNCHANGED <<css_open, pc>> PROVE \E u \in Threads : pc'[u] = "woken"
    BY <2>1 DEF NoLostWakeup, Waiting
  <2>2. ASSUME NEW t \in Threads,
               BeginCall(t) \/ KeyChecked(t) \/ KeyReachesDrive(t) \/ BeginTimedOut(t)
        PROVE  \E u \in Threads : pc'[u] = "woken"
    <3>1. ~css_open /\ pc[t] # "woken" /\ pc'[t] # "waiting"
          /\ \A u \in Threads \ {t} : pc'[u] = pc[u]
      BY <2>2 DEF BeginCall, KeyChecked, KeyReachesDrive, BeginTimedOut, session, Goto
    <3> QED BY <3>1 DEF NoLostWakeup, Waiting
  <2>3. ASSUME NEW t \in Threads, BeginOK(t) \/ BeginReentrant(t) \/ BeginWait(t) PROVE FALSE
    BY <2>3 DEF BeginOK, BeginReentrant, BeginWait, session
  <2>4. ASSUME NEW t \in Threads, TimeOut(t) PROVE \E u \in Threads : pc'[u] = "woken"
    <3>1. ~css_open /\ pc[t] = "waiting" /\ \A u \in Threads \ {t} : pc'[u] = pc[u]
      BY <2>4 DEF TimeOut, session, Goto
    <3> QED BY <3>1 DEF NoLostWakeup, Waiting
  <2>5. ASSUME NEW t \in Threads, SpuriousWake(t) PROVE \E u \in Threads : pc'[u] = "woken"
    BY <2>5 DEF SpuriousWake, Goto
  <2>6. ASSUME NEW t \in Threads, End(t) PROVE \E u \in Threads : pc'[u] = "woken"
    <3>1. CASE Waiting = {}
      BY <2>6, <3>1 DEF End, Signal, Waiting
    <3>2. CASE Waiting # {}
      <4>1. PICK u \in Waiting : Goto(u, "woken")
        BY <2>6, <3>2 DEF End, Signal
      <4> QED BY <4>1 DEF Goto, Waiting
    <3> QED BY <3>1, <3>2
  <2> QED
    BY <2>1, <2>2, <2>3, <2>4, <2>5, <2>6 DEF Next, Begin, vars, Expire, EndIgnored, session
<1> QED BY <1>1, <1>2, TypeCorrect, PTL DEF Spec

(***************************************************************************)
(* A key command on its way to the drive was let through by an open        *)
(* session, which stays open: nobody but its owner can end it, and the     *)
(* owner waits for its key commands first.                                 *)
(***************************************************************************)
Declared == EndsQuietly /\ Undeclared = {}

KeysRunInOwnSession ==
    \A t \in Threads : pc[t] = "key" => css_open /\ css_owner = Cookie[t]

KeyInv == Declared => KeysRunInOwnSession /\ KeysStayInOwnSession

LEMMA KeyInvHolds == Spec => []KeyInv
<1>1. Init => KeyInv
  BY DEF Init, KeyInv, KeysRunInOwnSession, KeysStayInOwnSession
<1>2. TypeOK /\ SessionIsExclusive /\ KeyInv /\ [Next]_vars => KeyInv'
  <2> SUFFICES ASSUME TypeOK, SessionIsExclusive, KeyInv, [Next]_vars, Declared
               PROVE  KeysRunInOwnSession' /\ KeysStayInOwnSession'
    BY DEF KeyInv, Declared
  <2>0. KeysRunInOwnSession /\ KeysStayInOwnSession
    BY DEF KeyInv
  <2> USE DEF TypeOK, KeysRunInOwnSession, KeysStayInOwnSession
  <2>1. CASE UNCHANGED <<css_open, css_owner, pc, lastKey>>
    BY <2>0, <2>1
  <2>2. ASSUME NEW t \in Threads, UNCHANGED <<css_open, css_owner, lastKey>>,
               NEW l \in {"begin", "idle", "waiting", "woken", "timed_out"}, Goto(t, l)
        PROVE  KeysRunInOwnSession' /\ KeysStayInOwnSession'
    BY <2>0, <2>2 DEF Goto
  <2>3. ASSUME NEW t \in Threads, BeginOK(t)
        PROVE  KeysRunInOwnSession' /\ KeysStayInOwnSession'
    BY <2>0, <2>3 DEF BeginOK, Goto
  <2>4. ASSUME NEW t \in Threads, End(t)
        PROVE  KeysRunInOwnSession' /\ KeysStayInOwnSession'
    <3>1. \A u \in Threads : pc[u] # "key"
      BY <2>0, <2>4 DEF End, NoKeyRunning, Declared
    <3>2. \A u \in Threads : pc'[u] # "key"
      BY <2>4, <3>1 DEF End, Signal, Waiting, Goto
    <3> QED BY <2>0, <2>4, <3>2 DEF End
  <2>5. ASSUME NEW t \in Threads, KeyChecked(t)
        PROVE  KeysRunInOwnSession' /\ KeysStayInOwnSession'
    <3>1. css_owner = Cookie[t]
      BY <2>5 DEF KeyChecked, SessionIsExclusive, Declared
    <3> QED BY <2>0, <2>5, <3>1 DEF KeyChecked, session, Goto
  <2>6. ASSUME NEW t \in Threads, KeyReachesDrive(t)
        PROVE  KeysRunInOwnSession' /\ KeysStayInOwnSession'
    BY <2>0, <2>6 DEF KeyReachesDrive, session, Goto
  <2>7. ASSUME NEW t \in Threads,
               BeginCall(t) \/ BeginReentrant(t) \/ BeginWait(t) \/ TimeOut(t)
               \/ BeginTimedOut(t) \/ SpuriousWake(t)
        PROVE  KeysRunInOwnSession' /\ KeysStayInOwnSession'
    <3>1. /\ UNCHANGED <<css_open, css_owner, lastKey>>
          /\ \E l \in {"begin", "idle", "waiting", "woken", "timed_out"} : Goto(t, l)
      BY <2>7 DEF BeginCall, BeginReentrant, BeginWait, TimeOut, BeginTimedOut,
         SpuriousWake, session
    <3> QED BY <2>2, <3>1
  <2> QED
    BY <2>1, <2>3, <2>4, <2>5, <2>6, <2>7 DEF Next, Begin, vars, Expire, EndIgnored, session
<1> QED BY <1>1, <1>2, TypeCorrect, Exclusive, PTL DEF Spec

(***************************************************************************)
(* For consumers that declare their sessions and let their key commands    *)
(* finish before end(), a key command that reaches the drive is in its own *)
(* consumer's session, although laser_scsi_cdb() tests css_open only, and  *)
(* before io_lock.                                                         *)
(***************************************************************************)
THEOREM KeysInOwnSession ==
    ASSUME EndsQuietly, Undeclared = {}
    PROVE  Spec => []KeysStayInOwnSession
<1>1. KeyInv => KeysStayInOwnSession
  BY DEF KeyInv, Declared
<1> QED BY <1>1, KeyInvHolds, PTL

----------------------------------------------------------------------------
(* The deadline is absolute. *)

\* The steps a begin() whose deadline has passed may still take.
StepsPastDeadline ==
    [idle |-> 0, key |-> 0, timed_out |-> 1, begin |-> 2, woken |-> 2, waiting |-> 3]

InBegin(t) == pc[t] \in {"begin", "waiting", "woken", "timed_out"}

(***************************************************************************)
(* Past its deadline a begin() only ever comes closer to its return: no    *)
(* signal, spurious wake-up or other consumer's session sends it back to   *)
(* the start or gives it a new deadline (css_deadline() is called once).   *)
(***************************************************************************)
DeadlineIsFinal ==
    [][\A t \in Threads : InBegin(t) /\ expired[t] =>
          /\ expired'[t]
          /\ pc'[t] = pc[t] \/ StepsPastDeadline[pc'[t]] < StepsPastDeadline[pc[t]]]_vars

(***************************************************************************)
(* A begin() past its deadline has three steps of its own at most before   *)
(* it returns, whatever the other threads and consumers do.                *)
(***************************************************************************)
THEOREM DeadlinesAreFinal == Spec => DeadlineIsFinal
<1>1. TypeOK /\ [Next]_vars =>
        [\A t \in Threads : InBegin(t) /\ expired[t] =>
            /\ expired'[t]
            /\ pc'[t] = pc[t] \/ StepsPastDeadline[pc'[t]] < StepsPastDeadline[pc[t]]]_vars
  <2> SUFFICES ASSUME TypeOK, [Next]_vars, NEW u \in Threads, InBegin(u), expired[u]
               PROVE  /\ expired'[u]
                      /\ \/ pc'[u] = pc[u]
                         \/ StepsPastDeadline[pc'[u]] < StepsPastDeadline[pc[u]]
    OBVIOUS
  <2> USE DEF TypeOK
  <2>1. CASE UNCHANGED <<pc, expired>>
    BY <2>1
  <2>2. ASSUME NEW t \in Threads, BeginCall(t) \/ Expire(t)
        PROVE  expired'[u] /\ pc'[u] = pc[u]
    BY <2>2 DEF BeginCall, Expire, InBegin, Goto, session
  <2>3. ASSUME NEW t \in Threads, BeginOK(t) \/ BeginReentrant(t) \/ BeginTimedOut(t)
        PROVE  /\ expired'[u]
               /\ pc'[u] = pc[u] \/ StepsPastDeadline[pc'[u]] < StepsPastDeadline[pc[u]]
    BY <2>3 DEF BeginOK, BeginReentrant, BeginTimedOut, Testing, Goto, StepsPastDeadline
  <2>4. ASSUME NEW t \in Threads, BeginWait(t)
        PROVE  /\ expired'[u]
               /\ pc'[u] = pc[u] \/ StepsPastDeadline[pc'[u]] < StepsPastDeadline[pc[u]]
    <3>1. CASE t = u
      <4>1. pc[u] \in {"begin", "woken"} /\ pc'[u] = "timed_out" /\ UNCHANGED expired
        BY <2>4, <3>1 DEF BeginWait, Testing, Goto
      <4> QED BY <4>1 DEF StepsPastDeadline
    <3> QED BY <2>4, <3>1 DEF BeginWait, Goto
  <2>5. ASSUME NEW t \in Threads, TimeOut(t) \/ SpuriousWake(t)
        PROVE  /\ expired'[u]
               /\ pc'[u] = pc[u] \/ StepsPastDeadline[pc'[u]] < StepsPastDeadline[pc[u]]
    BY <2>5 DEF TimeOut, SpuriousWake, Goto, StepsPastDeadline
  <2>6. ASSUME NEW t \in Threads, End(t)
        PROVE  /\ expired'[u]
               /\ pc'[u] = pc[u] \/ StepsPastDeadline[pc'[u]] < StepsPastDeadline[pc[u]]
    <3>1. UNCHANGED expired /\ (UNCHANGED pc \/ \E w \in Waiting : Goto(w, "woken"))
      BY <2>6 DEF End, Signal
    <3> QED BY <3>1 DEF Waiting, Goto, StepsPastDeadline
  <2>7. ASSUME NEW t \in Threads, KeyChecked(t) \/ KeyReachesDrive(t)
        PROVE  UNCHANGED expired /\ pc'[u] = pc[u]
    BY <2>7 DEF KeyChecked, KeyReachesDrive, InBegin, Goto, session
  <2> QED
    BY <2>1, <2>2, <2>3, <2>4, <2>5, <2>6, <2>7 DEF Next, Begin, vars, EndIgnored
<1> QED BY <1>1, TypeCorrect, PTL DEF Spec, DeadlineIsFinal

============================================================================
