----------------------------- MODULE CssSession -----------------------------
(***************************************************************************)
(* CSS authentication sessions of registry.c, on one registered token:     *)
(* laser_css_session_begin() waiting on css_cv up to an absolute deadline, *)
(* laser_css_session_end(), and the session check laser_scsi_cdb() makes   *)
(* on a state-changing key command before it queues on io_lock.            *)
(*                                                                         *)
(* A session belongs to a cookie, the consumer, whose calls come from      *)
(* several threads.  Each critical section of css_mtx is one step.         *)
(***************************************************************************)
EXTENDS Naturals, FiniteSets

CONSTANTS
    Threads,     \* the calling threads
    Cookies,     \* the consumers' owner cookies
    Cookie,      \* the consumer each thread works for
    Undeclared,  \* consumers that send key commands and never call begin()
    EndsQuietly, \* TRUE: no end() while a key command of that consumer runs
    None         \* NULL: no owner

ASSUME CookieOfThreads == Cookie \in [Threads -> Cookies]
ASSUME NoneIsNoCookie == None \notin Cookies
ASSUME UndeclaredAreCookies == Undeclared \subseteq Cookies
ASSUME EndsQuietlyIsBoolean == EndsQuietly \in BOOLEAN

VARIABLES
    css_open, css_owner, \* fields of the entry
    pc,                  \* per thread
    expired,             \* per thread, is the deadline of its begin() past?
    believes,            \* history: consumers told LASER_OK and not yet ended
    lastKey              \* history: the last key command the drive received,
                         \* whose, and the session's owner at that moment

vars == <<css_open, css_owner, pc, expired, believes, lastKey>>
session == <<css_open, css_owner, believes>>

NoKey == [by |-> None, during |-> None]

TypeOK ==
    /\ css_open \in BOOLEAN
    /\ css_owner \in Cookies \cup {None}
    /\ pc \in [Threads -> {"idle", "begin", "waiting", "woken", "timed_out", "key"}]
    /\ expired \in [Threads -> BOOLEAN]
    /\ believes \in SUBSET Cookies
    /\ lastKey \in [by: Cookies \cup {None}, during: Cookies \cup {None}]

Init ==
    /\ css_open = FALSE /\ css_owner = None
    /\ pc = [t \in Threads |-> "idle"]
    /\ expired = [t \in Threads |-> FALSE]
    /\ believes = {} /\ lastKey = NoKey

Goto(t, label) == pc' = [pc EXCEPT ![t] = label]

----------------------------------------------------------------------------
(* laser_css_session_begin(). *)

\* The lookup succeeded; css_deadline() is computed once, here.
BeginCall(t) ==
    /\ pc[t] = "idle" /\ Cookie[t] \notin Undeclared
    /\ expired' = [expired EXCEPT ![t] = FALSE]
    /\ Goto(t, "begin")
    /\ UNCHANGED <<session, lastKey>>

\* The head of the while loop, reached first and after every wake-up.
Testing(t) == pc[t] \in {"begin", "woken"}

\* Mutants: the thread recorded as the owner; no second look at css_open
\* after a wake-up ("if" for "while").
BeginOKForThread(t) ==
    /\ Testing(t) /\ ~css_open
    /\ css_open' = TRUE
    /\ css_owner' = t
    /\ believes' = believes \cup {Cookie[t]}
    /\ Goto(t, "idle")
    /\ UNCHANGED <<expired, lastKey>>

BeginOKWhenWoken(t) ==
    /\ pc[t] = "woken" \/ (pc[t] = "begin" /\ ~css_open)
    /\ css_open' = TRUE
    /\ css_owner' = Cookie[t]
    /\ believes' = believes \cup {Cookie[t]}
    /\ Goto(t, "idle")
    /\ UNCHANGED <<expired, lastKey>>

BeginOK(t) ==
    /\ Testing(t) /\ ~css_open
    /\ css_open' = TRUE
    /\ css_owner' = Cookie[t]
    /\ believes' = believes \cup {Cookie[t]}
    /\ Goto(t, "idle")
    /\ UNCHANGED <<expired, lastKey>>

\* ERR_INVALID: this owner already holds the session.
BeginReentrant(t) ==
    /\ Testing(t) /\ css_open /\ css_owner = Cookie[t]
    /\ Goto(t, "idle")
    /\ UNCHANGED <<session, expired, lastKey>>

\* Mutant: a full wait again after every wake-up.
BeginWaitAfresh(t) ==
    /\ Testing(t) /\ css_open /\ css_owner # Cookie[t]
    /\ Goto(t, "waiting")
    /\ expired' = [expired EXCEPT ![t] = FALSE]
    /\ UNCHANGED <<session, lastKey>>

\* pthread_cond_timedwait() on a deadline already past fails at once.
BeginWait(t) ==
    /\ Testing(t) /\ css_open /\ css_owner # Cookie[t]
    /\ Goto(t, IF expired[t] THEN "timed_out" ELSE "waiting")
    /\ UNCHANGED <<session, expired, lastKey>>

Expire(t) ==
    /\ pc[t] \in {"begin", "waiting", "woken"} /\ ~expired[t]
    /\ expired' = [expired EXCEPT ![t] = TRUE]
    /\ UNCHANGED <<session, pc, lastKey>>

\* The waiter is off the condition variable, and has yet to take css_mtx.
TimeOut(t) ==
    /\ pc[t] = "waiting" /\ expired[t]
    /\ Goto(t, "timed_out")
    /\ UNCHANGED <<session, expired, lastKey>>

SpuriousWake(t) ==
    /\ pc[t] = "waiting"
    /\ Goto(t, "woken")
    /\ UNCHANGED <<session, expired, lastKey>>

\* ETIMEDOUT: ERR_IO, without another look at css_open.
BeginTimedOut(t) ==
    /\ pc[t] = "timed_out"
    /\ Goto(t, "idle")
    /\ UNCHANGED <<session, expired, lastKey>>

----------------------------------------------------------------------------
(* laser_css_session_end(): on a mismatched cookie, or with no session     *)
(* open, ignored - unwind paths call it anyway.  pthread_cond_signal()     *)
(* wakes one waiter, if there is one.                                      *)

Waiting == {t \in Threads : pc[t] = "waiting"}

\* Mutant: nobody is signalled.
NoSignal == UNCHANGED pc

Signal ==
    IF Waiting = {} THEN UNCHANGED pc
    ELSE \E t \in Waiting : Goto(t, "woken")

NoKeyRunning(c) == \A t \in Threads : Cookie[t] = c => pc[t] # "key"

\* Mutant: whoever calls end() ends the session.
EndAnySession(t) ==
    /\ pc[t] = "idle"
    /\ css_open
    /\ EndsQuietly => NoKeyRunning(Cookie[t])
    /\ css_open' = FALSE
    /\ css_owner' = None
    /\ believes' = believes \ {Cookie[t]}
    /\ Signal
    /\ UNCHANGED <<expired, lastKey>>

End(t) ==
    /\ pc[t] = "idle"
    /\ css_open /\ css_owner = Cookie[t]
    /\ EndsQuietly => NoKeyRunning(Cookie[t])
    /\ css_open' = FALSE
    /\ css_owner' = None
    /\ believes' = believes \ {Cookie[t]}
    /\ Signal
    /\ UNCHANGED <<expired, lastKey>>

EndIgnored(t) ==
    /\ pc[t] = "idle"
    /\ ~css_open \/ css_owner # Cookie[t]
    /\ believes' = believes \ {Cookie[t]}
    /\ UNCHANGED <<css_open, css_owner, pc, expired, lastKey>>

----------------------------------------------------------------------------
(* A state-changing key command: laser_css_session_is_open() under         *)
(* css_mtx, and, io_lock obtained, the drive.  A consumer that declares    *)
(* its sessions sends it inside one.                                       *)

KeyChecked(t) ==
    /\ pc[t] = "idle" /\ Cookie[t] \in believes \cup Undeclared
    /\ css_open
    /\ Goto(t, "key")
    /\ UNCHANGED <<session, expired, lastKey>>

KeyReachesDrive(t) ==
    /\ pc[t] = "key"
    /\ lastKey' = [by |-> Cookie[t], during |-> css_owner]
    /\ Goto(t, "idle")
    /\ UNCHANGED <<session, expired>>

Begin(t) ==
    \/ BeginOK(t) \/ BeginReentrant(t) \/ BeginWait(t)
    \/ TimeOut(t) \/ BeginTimedOut(t)

Next == \E t \in Threads :
    \/ BeginCall(t) \/ Begin(t) \/ Expire(t) \/ SpuriousWake(t)
    \/ End(t) \/ EndIgnored(t)
    \/ KeyChecked(t) \/ KeyReachesDrive(t)

Spec == Init /\ [][Next]_vars

\* A thread inside begin() runs, and its clock advances.  No consumer is
\* assumed ever to call end(): it may have died with its session open.
FairSpec == Spec /\ \A t \in Threads : WF_vars(Begin(t)) /\ WF_vars(Expire(t))

----------------------------------------------------------------------------
(* Properties. *)

(***************************************************************************)
(* At most one consumer has been told LASER_OK by begin() and has not      *)
(* called end(), and the entry names it - through waits, wake-ups, barging *)
(* threads and unbalanced end() calls of other consumers.                  *)
(***************************************************************************)
SessionIsExclusive ==
    /\ believes = IF css_open THEN {css_owner} ELSE {}
    /\ css_open <=> css_owner # None

(***************************************************************************)
(* No wake-up is lost: when the session is free and a thread waits for it, *)
(* another one is on its way to take it (end() signals a single waiter).   *)
(***************************************************************************)
NoLostWakeup ==
    ~css_open /\ Waiting # {} => \E t \in Threads : pc[t] = "woken"

(***************************************************************************)
(* The purpose of sessions: a key command that reaches the drive belongs   *)
(* to the consumer whose session is open, though the check was made before *)
(* io_lock.  It takes consumers that declare themselves and that let their *)
(* own key commands finish before end().                                   *)
(***************************************************************************)
KeysStayInOwnSession == lastKey # NoKey => lastKey.during = lastKey.by

(***************************************************************************)
(* laser_internal.h, laser_css_session_is_open: "the rule enforced is that *)
(* no key command touches authentication state without SOME declared       *)
(* session".                                                               *)
(***************************************************************************)
KeysNeedSomeSession == lastKey # NoKey => lastKey.during # None

(***************************************************************************)
(* begin() returns: the deadline is absolute, so neither a leaked session  *)
(* nor a stream of other consumers' sessions holds a caller for good.      *)
(***************************************************************************)
BeginReturns == \A t \in Threads : pc[t] = "begin" ~> pc[t] = "idle"

============================================================================
