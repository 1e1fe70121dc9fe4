----------------------------- MODULE TaskTrigger -----------------------------
(***************************************************************************)
(* TaskTriggerSubject and TaskTriggerObserver (smartTaskTriggerObserver.h):*)
(* threads call trigger_all_tasks(), attach() and detach() on subjects;    *)
(* the thread of an observer blocks in waitOnTrigger() until a subject     *)
(* signals it; an owner constructs and destroys observers.                 *)
(*                                                                         *)
(* Granularity.  observer_mutex is never held from one step to the next:   *)
(* each of its critical sections, up to a condition wait, is one atomic    *)
(* step.  subject_mutex is held across the calls its holder makes on       *)
(* observers, so those calls are separate steps and the variable           *)
(* subject_mutex says how far the holder is.  Which thread holds it does   *)
(* not matter: no call does anything before it has locked the mutex.       *)
(*                                                                         *)
(* Callers.  The public attach() and detach() check nothing.  The callers  *)
(* modelled respect what the constructor and destructor of the observer    *)
(* rely on: an observer is attached only while it is attached nowhere,     *)
(* detached from the subject it points to, called only while it is alive,  *)
(* and destroyed only when no call on it is under way.  Each observer has  *)
(* one thread that waits on it (the thread of its task).                   *)
(***************************************************************************)
EXTENDS PrescaleManager, StatusCodes

CONSTANTS Subjects,          \* the TaskTriggerSubject objects
          Observers,         \* the addresses of TaskTriggerObserver objects
          NoSubject,         \* the null pointer
          PrescaleFactors,   \* the factors passed to attach()
          SpuriousWakeups    \* may a condition wait return unnotified?

ASSUME TaskTriggerAssumption ==
    /\ NoSubject \notin Subjects
    /\ PrescaleFactors \subseteq UInt
    /\ SpuriousWakeups \in BOOLEAN

VARIABLES
    subject_mutex,       \* of each subject: "free" or what its holder is doing
    targets,             \* observers the holder still has to call
    observers,           \* keys of the map TaskTriggerSubject::observers
    prescale,            \* its values, where the key is present
    subject,             \* TaskTriggerObserver::subject
    trigger_cancelled,
    signalled,
    wait,                \* where the observer's thread is in waitOnTrigger()
    status,              \* what its last waitOnTrigger() returned
    alive,               \* observers that are constructed
    dying                \* those whose destructor is running

subjectVars  == <<subject_mutex, targets, observers, prescale>>
observerVars == <<subject, trigger_cancelled, signalled>>
waiterVars   == <<wait, status>>
lifeVars     == <<alive, dying>>
triggerVars  == <<subjectVars, observerVars, waiterVars, lifeVars>>

Blocked == {"blocked", "blocked_timed"}   \* in wait() and in wait_for()
Woken   == {"woken", "woken_timed"}       \* notified, still to relock

\* What waitOnTrigger() returns.
WaitStatus == {"SMART_OK", "SMART_CANCELLED", "SMART_NOTACTIVATED", "SMART_TIMEOUT"}

TriggerInit ==
    /\ subject_mutex     = [s \in Subjects |-> "free"]
    /\ targets           = [s \in Subjects |-> {}]
    /\ observers         = [s \in Subjects |-> {}]
    /\ prescale          = [s \in Subjects |-> [o \in Observers |-> NewManager(1)]]
    /\ subject           = [o \in Observers |-> NoSubject]
    /\ trigger_cancelled = [o \in Observers |-> FALSE]
    /\ signalled         = [o \in Observers |-> FALSE]
    /\ wait              = [o \in Observers |-> "running"]
    /\ status            = [o \in Observers |-> "SMART_OK"]
    /\ alive             = {}
    /\ dying             = {}

-----------------------------------------------------------------------------
(***************************************************************************)
(* Helpers.                                                                *)
(***************************************************************************)

\* Some thread is inside detach(o).
BeingDetached(o) == \E s \in Subjects : subject_mutex[s] = "detaching" /\ o \in targets[s]

\* The observer can be called: constructed, and not in its destructor.
Usable(o) == o \in alive /\ o \notin dying

\* notify_all on trigger_cond_var of o.
NotifyAll(o) ==
    wait' = [wait EXCEPT ![o] = CASE @ = "blocked"       -> "woken"
                                  [] @ = "blocked_timed" -> "woken_timed"
                                  [] OTHER               -> @]

\* A signal that wakes without remembering why (for mutants).
signalTriggerUnset(o) == UNCHANGED signalled /\ NotifyAll(o)

\* A trigger that is remembered without waking anybody (for mutants).
signalTriggerQuietly(o) == signalled' = [signalled EXCEPT ![o] = TRUE] /\ UNCHANGED wait

\* signalTrigger(): remember the trigger and wake the waiting thread.
signalTrigger(o) == signalled' = [signalled EXCEPT ![o] = TRUE] /\ NotifyAll(o)

\* cancelTrigger(): for good, nothing resets trigger_cancelled.
cancelTrigger(o) == trigger_cancelled' = [trigger_cancelled EXCEPT ![o] = TRUE] /\ NotifyAll(o)

\* waitOnTrigger() of o returns the given code.
Return(o, code) ==
    /\ wait'   = [wait EXCEPT ![o] = "running"]
    /\ status' = [status EXCEPT ![o] = code]

\* The body of attach(): setSubject(this) and the map entry, under the lock.
\* An entry that is already there is overwritten with a fresh manager.
AttachTo(s, o, factor) ==
    /\ subject_mutex[s] = "free"
    /\ subject'   = [subject EXCEPT ![o] = s]
    /\ observers' = [observers EXCEPT ![s] = @ \cup {o}]
    /\ prescale'  = [prescale EXCEPT ![s][o] = NewManager(factor)]
    /\ UNCHANGED <<subject_mutex, targets>>

-----------------------------------------------------------------------------
(***************************************************************************)
(* Construction, attachment, destruction.                                  *)
(***************************************************************************)

\* A new observer at the free address o, with its members initialised.
NewObserver(o) ==
    /\ o \notin alive
    /\ alive' = alive \cup {o}
    /\ trigger_cancelled' = [trigger_cancelled EXCEPT ![o] = FALSE]
    /\ signalled' = [signalled EXCEPT ![o] = FALSE]
    /\ Return(o, "SMART_OK")
    /\ UNCHANGED dying

\* TaskTriggerObserver(s, factor) with a subject: attaches itself.
ConstructAttached(s, o, factor) == NewObserver(o) /\ AttachTo(s, o, factor)

\* TaskTriggerObserver(0).
ConstructDetached(o) ==
    /\ NewObserver(o)
    /\ subject' = [subject EXCEPT ![o] = NoSubject]
    /\ UNCHANGED subjectVars

\* s.attach(o, factor) called from outside.
attach(s, o, factor) ==
    /\ Usable(o)
    /\ subject[o] = NoSubject
    /\ AttachTo(s, o, factor)
    /\ UNCHANGED <<trigger_cancelled, signalled, waiterVars, lifeVars>>

\* A detach() that does not wait for a running trigger_all_tasks (for mutants).
DetachUnlocked(s, o) ==
    /\ o \in alive
    /\ subject[o] = s
    /\ subject_mutex[s] # "detaching"
    /\ subject' = [subject EXCEPT ![o] = NoSubject]
    /\ cancelTrigger(o)
    /\ observers' = [observers EXCEPT ![s] = @ \ {o}]
    /\ UNCHANGED <<subject_mutex, targets, prescale, signalled, status, lifeVars>>

\* detach(o), from outside or from the destructor: lock, setSubject(0).
DetachBegin(s, o) ==
    /\ o \in alive
    /\ subject[o] = s
    /\ subject_mutex[s] = "free"
    /\ subject_mutex' = [subject_mutex EXCEPT ![s] = "detaching"]
    /\ targets' = [targets EXCEPT ![s] = {o}]
    /\ subject' = [subject EXCEPT ![o] = NoSubject]
    /\ UNCHANGED <<observers, prescale, trigger_cancelled, signalled, waiterVars, lifeVars>>

\* A detach() that forgets the map entry (for mutants).
DetachFinishKeepingEntry(s, o) ==
    /\ subject_mutex[s] = "detaching"
    /\ o \in targets[s]
    /\ cancelTrigger(o)
    /\ subject_mutex' = [subject_mutex EXCEPT ![s] = "free"]
    /\ targets' = [targets EXCEPT ![s] = {}]
    /\ UNCHANGED <<observers, prescale, subject, signalled, status, lifeVars>>

\* A detach() that does not cancel the trigger (for mutants).
DetachFinishSilently(s, o) ==
    /\ subject_mutex[s] = "detaching"
    /\ o \in targets[s]
    /\ observers' = [observers EXCEPT ![s] = @ \ {o}]
    /\ prescale'  = [prescale EXCEPT ![s][o] = NewManager(1)]
    /\ subject_mutex' = [subject_mutex EXCEPT ![s] = "free"]
    /\ targets' = [targets EXCEPT ![s] = {}]
    /\ UNCHANGED <<observerVars, waiterVars, lifeVars>>

\* ... then cancelTrigger(), erase the entry, unlock.
DetachFinish(s, o) ==
    /\ subject_mutex[s] = "detaching"
    /\ o \in targets[s]
    /\ cancelTrigger(o)
    /\ observers' = [observers EXCEPT ![s] = @ \ {o}]
    /\ prescale'  = [prescale EXCEPT ![s][o] = NewManager(1)]
    /\ subject_mutex' = [subject_mutex EXCEPT ![s] = "free"]
    /\ targets' = [targets EXCEPT ![s] = {}]
    /\ UNCHANGED <<subject, signalled, status, lifeVars>>

\* ~TaskTriggerObserver() is entered; if the subject is not null it goes on
\* with DetachBegin, otherwise directly with Free.
Destroy(o) ==
    /\ Usable(o)
    /\ wait[o] = "running"
    /\ ~BeingDetached(o)
    /\ dying' = dying \cup {o}
    /\ UNCHANGED <<subjectVars, observerVars, waiterVars, alive>>

\* A destructor that returns while detach() is still at work (for mutants).
FreeDuringDetach(o) ==
    /\ o \in dying
    /\ subject[o] = NoSubject
    /\ alive' = alive \ {o}
    /\ dying' = dying \ {o}
    /\ UNCHANGED <<subjectVars, observerVars, waiterVars>>

\* The destructor returns: the address may be used again.
Free(o) ==
    /\ o \in dying
    /\ subject[o] = NoSubject
    /\ ~BeingDetached(o)
    /\ alive' = alive \ {o}
    /\ dying' = dying \ {o}
    /\ UNCHANGED <<subjectVars, observerVars, waiterVars>>

-----------------------------------------------------------------------------
(***************************************************************************)
(* trigger_all_tasks().                                                    *)
(***************************************************************************)

TriggerBegin(s) ==
    /\ subject_mutex[s] = "free"
    /\ subject_mutex' = [subject_mutex EXCEPT ![s] = "triggering"]
    /\ targets' = [targets EXCEPT ![s] = observers[s]]
    /\ UNCHANGED <<observers, prescale, observerVars, waiterVars, lifeVars>>

\* A visit that sets the flag before it asks the manager (for mutants).
TriggerVisitUnscaled(s, o) ==
    /\ subject_mutex[s] = "triggering"
    /\ o \in targets[s]
    /\ targets' = [targets EXCEPT ![s] = @ \ {o}]
    /\ prescale' = [prescale EXCEPT ![s][o] = Counted(@)]
    /\ signalled' = [signalled EXCEPT ![o] = TRUE]
    /\ IF UpdateDue(prescale[s][o]) THEN NotifyAll(o) ELSE UNCHANGED wait
    /\ UNCHANGED <<subject_mutex, observers, subject, trigger_cancelled, status, lifeVars>>

\* One turn of the loop: the map is ordered by address, so any order can occur.
TriggerVisit(s, o) ==
    /\ subject_mutex[s] = "triggering"
    /\ o \in targets[s]
    /\ targets' = [targets EXCEPT ![s] = @ \ {o}]
    /\ prescale' = [prescale EXCEPT ![s][o] = Counted(@)]
    /\ IF UpdateDue(prescale[s][o]) THEN signalTrigger(o) ELSE UNCHANGED <<signalled, wait>>
    /\ UNCHANGED <<subject_mutex, observers, subject, trigger_cancelled, status, lifeVars>>

TriggerEnd(s) ==
    /\ subject_mutex[s] = "triggering"
    /\ targets[s] = {}
    /\ subject_mutex' = [subject_mutex EXCEPT ![s] = "free"]
    /\ UNCHANGED <<targets, observers, prescale, observerVars, waiterVars, lifeVars>>

-----------------------------------------------------------------------------
(***************************************************************************)
(* waitOnTrigger(), without and with a timeout.                            *)
(***************************************************************************)

\* A waitOnTrigger() that blocks without looking at signalled (for mutants).
WaitWithoutTest(o, timed) ==
    /\ Usable(o)
    /\ wait[o] = "running"
    /\ UNCHANGED <<subjectVars, subject, trigger_cancelled, lifeVars>>
    /\ \/ /\ subject[o] = NoSubject
          /\ Return(o, "SMART_NOTACTIVATED")
          /\ UNCHANGED signalled
       \/ /\ subject[o] # NoSubject
          /\ wait' = [wait EXCEPT ![o] = IF timed THEN "blocked_timed" ELSE "blocked"]
          /\ UNCHANGED <<signalled, status>>

\* The call, up to its return or to the condition wait.
waitOnTrigger(o, timed) ==
    /\ Usable(o)
    /\ wait[o] = "running"
    /\ UNCHANGED <<subjectVars, subject, trigger_cancelled, lifeVars>>
    /\ \/ /\ subject[o] = NoSubject
          /\ Return(o, "SMART_NOTACTIVATED")
          /\ UNCHANGED signalled
       \/ /\ subject[o] # NoSubject
          /\ trigger_cancelled[o]
          /\ Return(o, "SMART_CANCELLED")
          /\ UNCHANGED signalled
       \/ /\ subject[o] # NoSubject
          /\ ~trigger_cancelled[o]
          /\ signalled[o]
          /\ signalled' = [signalled EXCEPT ![o] = FALSE]
          /\ Return(o, "SMART_OK")
       \/ /\ subject[o] # NoSubject
          /\ ~trigger_cancelled[o]
          /\ ~signalled[o]
          /\ wait' = [wait EXCEPT ![o] = IF timed THEN "blocked_timed" ELSE "blocked"]
          /\ UNCHANGED <<signalled, status>>

\* The condition wait returned without a timeout: neither flag is read again.
ReturnFromWait(o) ==
    /\ signalled' = [signalled EXCEPT ![o] = FALSE]
    /\ Return(o, "SMART_OK")
    /\ UNCHANGED <<subjectVars, subject, trigger_cancelled, lifeVars>>

WakeNotified(o) == wait[o] \in Woken /\ ReturnFromWait(o)

WakeSpuriously(o) == SpuriousWakeups /\ wait[o] \in Blocked /\ ReturnFromWait(o)

\* A timeout that resets the flag like the other return (for mutants).
TimeOutForgetful(o) ==
    /\ wait[o] \in {"blocked_timed", "woken_timed"}
    /\ signalled' = [signalled EXCEPT ![o] = FALSE]
    /\ Return(o, "SMART_TIMEOUT")
    /\ UNCHANGED <<subjectVars, subject, trigger_cancelled, lifeVars>>

\* wait_for() reports a timeout; it may do so even when a notification came,
\* if the deadline has passed when it looks at the clock.
TimeOut(o) ==
    /\ wait[o] \in {"blocked_timed", "woken_timed"}
    /\ Return(o, "SMART_TIMEOUT")
    /\ UNCHANGED <<subjectVars, observerVars, lifeVars>>

-----------------------------------------------------------------------------
\* cancelTrigger() called by a derived class (IManagedTask::on_shutdown).
Cancel(o) ==
    /\ Usable(o)
    /\ cancelTrigger(o)
    /\ UNCHANGED <<subjectVars, subject, signalled, status, lifeVars>>

SubjectStep ==
    \/ \E s \in Subjects : TriggerBegin(s) \/ TriggerEnd(s)
    \/ \E s \in Subjects, o \in Observers :
           TriggerVisit(s, o) \/ DetachBegin(s, o) \/ DetachFinish(s, o)
    \/ \E s \in Subjects, o \in Observers, factor \in PrescaleFactors :
           attach(s, o, factor)

WaitStep(o, timed) == waitOnTrigger(o, timed) \/ WakeNotified(o) \/ WakeSpuriously(o)

ConstructStep(o) ==
    \/ ConstructDetached(o)
    \/ \E s \in Subjects, factor \in PrescaleFactors : ConstructAttached(s, o, factor)

TriggerNext ==
    \/ SubjectStep
    \/ \E o \in Observers :
         \/ ConstructStep(o)
         \/ Destroy(o)
         \/ Free(o)
         \/ Cancel(o)
         \/ \E timed \in BOOLEAN : WaitStep(o, timed)
         \/ TimeOut(o)

TriggerSpec == TriggerInit /\ [][TriggerNext]_triggerVars

(***************************************************************************)
(* Fairness, for the modules that compose this one with threads: a thread  *)
(* that holds subject_mutex goes on.  Nothing makes a trigger come, a      *)
(* mutex be granted to a given thread, or a spurious wakeup happen.        *)
(***************************************************************************)
SubjectFairness ==
    \A s \in Subjects :
        /\ WF_triggerVars(\E o \in Observers : TriggerVisit(s, o))
        /\ WF_triggerVars(TriggerEnd(s))
        /\ WF_triggerVars(\E o \in Observers : DetachFinish(s, o))

-----------------------------------------------------------------------------
(***************************************************************************)
(* Properties.                                                             *)
(***************************************************************************)

\* Every variable has its type; the counters of the managers included, which
\* have to stay within an unsigned int.
TriggerTypeOK ==
    /\ subject_mutex     \in [Subjects -> {"free", "triggering", "detaching"}]
    /\ targets           \in [Subjects -> SUBSET Observers]
    /\ observers         \in [Subjects -> SUBSET Observers]
    /\ prescale          \in [Subjects -> [Observers -> Manager]]
    /\ subject           \in [Observers -> Subjects \cup {NoSubject}]
    /\ trigger_cancelled \in [Observers -> BOOLEAN]
    /\ signalled         \in [Observers -> BOOLEAN]
    /\ wait              \in [Observers -> {"running"} \cup Blocked \cup Woken]
    /\ status            \in [Observers -> WaitStatus]
    /\ alive             \in SUBSET Observers
    /\ dying             \in SUBSET alive

(***************************************************************************)
(* No lost wakeup.  A thread asleep in waitOnTrigger() has no trigger and  *)
(* no cancellation pending that it will not be told about, although the    *)
(* flags are tested once, before the wait, and never again.                *)
(***************************************************************************)
NoLostWakeup ==
    \A o \in Observers : wait[o] \in Blocked => ~signalled[o] /\ ~trigger_cancelled[o]

(***************************************************************************)
(* No orphaned waiter.  A thread asleep in waitOnTrigger() sleeps in an    *)
(* observer that some subject still lists, so that a trigger or the        *)
(* cancellation at the end of detach() can reach it.                       *)
(***************************************************************************)
NoOrphanedWaiter ==
    \A o \in Observers : wait[o] \in Blocked => \E s \in Subjects : o \in observers[s]

(***************************************************************************)
(* The two ends of an attachment agree: o points to s exactly when s lists *)
(* o and no detach(o) is under way, whatever calls interleave.             *)
(***************************************************************************)
AttachmentAgrees ==
    \A s \in Subjects, o \in Observers :
        subject[o] = s
            <=> /\ o \in observers[s]
                /\ ~(subject_mutex[s] = "detaching" /\ o \in targets[s])

(***************************************************************************)
(* No use after destruction: neither the map of a subject nor the loop of  *)
(* a running trigger_all_tasks() or detach() refers to an observer whose   *)
(* destructor has returned.                                                *)
(***************************************************************************)
NoUseAfterDestroy ==
    \A s \in Subjects : observers[s] \cup targets[s] \subseteq alive

\* What the holder of a subject_mutex still has to call is listed by the
\* subject, and there is nothing left to call when nobody holds it.
HolderCallsListed ==
    \A s \in Subjects :
        /\ subject_mutex[s] = "free" => targets[s] = {}
        /\ subject_mutex[s] = "detaching" => \E o \in observers[s] : targets[s] = {o}
        /\ targets[s] \subseteq observers[s]

(***************************************************************************)
(* The inductive invariant: the properties above hold because they hold    *)
(* together, and because the holder of a subject_mutex calls what is       *)
(* listed and an observer in its destructor has no waiter.                 *)
(***************************************************************************)
TriggerInv ==
    /\ TriggerTypeOK
    /\ HolderCallsListed
    /\ AttachmentAgrees
    /\ NoUseAfterDestroy
    /\ NoLostWakeup
    /\ NoOrphanedWaiter

(***************************************************************************)
(* SMART_OK reports an event: waitOnTrigger() of a constructed observer    *)
(* returns it only when the observer was signalled or cancelled, and still *)
(* is when its thread gets to run; a wait that ends spuriously, without    *)
(* anybody having notified, is the only exception.                         *)
(***************************************************************************)
OkReportsAnEvent ==
    [][\A o \in alive :
          (wait[o] # "running" /\ wait'[o] = "running" /\ status'[o] = "SMART_OK")
              => \/ signalled[o] \/ trigger_cancelled[o]
                 \/ SpuriousWakeups /\ wait[o] \in Blocked]_triggerVars

(***************************************************************************)
(* A timed wait that gives up leaves the trigger where it is: one that     *)
(* arrived while it was giving up is returned by the next call.            *)
(***************************************************************************)
TimeoutLosesNoTrigger ==
    [][\A o \in Observers :
          (signalled[o] /\ ~signalled'[o] /\ o \in alive) => status'[o] = "SMART_OK"]_triggerVars

(***************************************************************************)
(* A blocked waiter on which the holder of a subject_mutex is about to     *)
(* call signalTrigger() or cancelTrigger() leaves waitOnTrigger().         *)
(***************************************************************************)
Reached(o) ==
    \E s \in Subjects :
        /\ o \in targets[s]
        /\ subject_mutex[s] = "triggering" => UpdateDue(prescale[s][o])

HolderReleasesWaiter ==
    \A o \in Observers : (wait[o] \in Blocked /\ Reached(o)) ~> (wait[o] = "running")

=============================================================================
