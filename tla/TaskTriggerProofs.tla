-------------------------- MODULE TaskTriggerProofs --------------------------
(***************************************************************************)
(* Safety of the task trigger, for any number of subjects and observers    *)
(* and any width of the counters.                                          *)
(***************************************************************************)
EXTENDS TaskTrigger, TLAPS

\* A new PrescaleManager has its members in the range of an unsigned int.
LEMMA NewManagerType ==
    ASSUME NEW factor \in UInt
    PROVE  NewManager(factor) \in Manager
<1>1. 1 \in UInt
  BY UIntSizeAssumption DEF UInt
<1> QED
  BY <1>1 DEF NewManager, Manager

\* Counting an update keeps them there: the counter wraps instead.
LEMMA CountedType ==
    ASSUME NEW m \in Manager
    PROVE  Counted(m) \in Manager
<1>1. 1 \in UInt /\ 0 \in UInt
  BY UIntSizeAssumption DEF UInt
<1>2. m.updateCounter \in UInt /\ m.updateCounter # UIntSize - 1
          => m.updateCounter + 1 \in UInt
  BY UIntSizeAssumption DEF UInt
<1> QED
  BY <1>1, <1>2 DEF Counted, Manager

\* The factors passed to attach(), and the 1 of the initial and of the erased
\* entries, give well-typed managers.
LEMMA FactorsType ==
    /\ \A factor \in PrescaleFactors : NewManager(factor) \in Manager
    /\ NewManager(1) \in Manager
<1>1. 1 \in UInt
  BY UIntSizeAssumption DEF UInt
<1> QED
  BY <1>1, NewManagerType, TaskTriggerAssumption

-----------------------------------------------------------------------------
\* The types hold initially and in every step.
LEMMA TypeInit == TriggerInit => TriggerTypeOK
BY FactorsType DEF TriggerInit, TriggerTypeOK, WaitStatus, Blocked, Woken

LEMMA TypeStep ==
    ASSUME TriggerTypeOK, [TriggerNext]_triggerVars
    PROVE  TriggerTypeOK'
<1> USE DEF TriggerTypeOK, subjectVars, observerVars, waiterVars, lifeVars
<1>1. ASSUME NEW s \in Subjects, TriggerBegin(s) \/ TriggerEnd(s)
      PROVE  TriggerTypeOK'
  BY <1>1 DEF TriggerBegin, TriggerEnd
<1>2. ASSUME NEW s \in Subjects, NEW o \in Observers, TriggerVisit(s, o)
      PROVE  TriggerTypeOK'
  <2>1. Counted(prescale[s][o]) \in Manager
    BY CountedType
  <2> QED
    BY <1>2, <2>1 DEF TriggerVisit, signalTrigger, NotifyAll, Blocked, Woken
<1>3. ASSUME NEW s \in Subjects, NEW o \in Observers, DetachBegin(s, o)
      PROVE  TriggerTypeOK'
  BY <1>3 DEF DetachBegin
<1>4. ASSUME NEW s \in Subjects, NEW o \in Observers, DetachFinish(s, o)
      PROVE  TriggerTypeOK'
  BY <1>4, FactorsType DEF DetachFinish, cancelTrigger, NotifyAll, Blocked, Woken
<1>5. ASSUME NEW s \in Subjects, NEW o \in Observers, NEW factor \in PrescaleFactors,
             attach(s, o, factor)
      PROVE  TriggerTypeOK'
  BY <1>5, FactorsType DEF attach, AttachTo
<1>6. ASSUME NEW o \in Observers, ConstructStep(o)
      PROVE  TriggerTypeOK'
  <2>1. CASE ConstructDetached(o)
    BY <2>1 DEF ConstructDetached, NewObserver, Return, WaitStatus
  <2>2. ASSUME NEW s \in Subjects, NEW factor \in PrescaleFactors,
               ConstructAttached(s, o, factor)
        PROVE  TriggerTypeOK'
    <3>1. NewManager(factor) \in Manager
      BY FactorsType
    <3> QED
      BY <2>2, <3>1 DEF ConstructAttached, NewObserver, AttachTo, Return, WaitStatus
  <2> QED
    BY <1>6, <2>1, <2>2 DEF ConstructStep
<1>7. ASSUME NEW o \in Observers, Destroy(o) \/ Free(o)
      PROVE  TriggerTypeOK'
  BY <1>7 DEF Destroy, Free, Usable
<1>8. ASSUME NEW o \in Observers, Cancel(o)
      PROVE  TriggerTypeOK'
  BY <1>8 DEF Cancel, cancelTrigger, NotifyAll, Blocked, Woken
<1>9. ASSUME NEW o \in Observers, NEW timed \in BOOLEAN, WaitStep(o, timed) \/ TimeOut(o)
      PROVE  TriggerTypeOK'
  BY <1>9 DEF WaitStep, waitOnTrigger, WakeNotified, WakeSpuriously, ReturnFromWait, TimeOut,
              Return, WaitStatus, Blocked, Woken
<1>10. CASE UNCHANGED triggerVars
  BY <1>10 DEF triggerVars
<1> QED
  BY <1>1, <1>2, <1>3, <1>4, <1>5, <1>6, <1>7, <1>8, <1>9, <1>10 DEF TriggerNext, SubjectStep

\* Type correctness.
THEOREM TriggerTypes == TriggerSpec => []TriggerTypeOK
<1>1. TriggerTypeOK /\ [TriggerNext]_triggerVars => TriggerTypeOK'
  BY TypeStep
<1> QED
  BY TypeInit, <1>1, PTL DEF TriggerSpec

-----------------------------------------------------------------------------
\* The inductive invariant holds initially.
LEMMA InvInit == TriggerInit => TriggerInv
<1> SUFFICES ASSUME TriggerInit PROVE TriggerInv
  OBVIOUS
<1>1. TriggerTypeOK
  BY TypeInit
<1>2. HolderCallsListed /\ NoUseAfterDestroy /\ NoLostWakeup /\ NoOrphanedWaiter
  BY DEF TriggerInit, HolderCallsListed, NoUseAfterDestroy, NoLostWakeup, NoOrphanedWaiter, Blocked
<1>3. AttachmentAgrees
  BY TaskTriggerAssumption DEF TriggerInit, AttachmentAgrees
<1> QED
  BY <1>1, <1>2, <1>3 DEF TriggerInv

\* A call to trigger_all_tasks() keeps it: the loop only calls what is listed,
\* and whom it signals it also wakes.
LEMMA InvTrigger ==
    ASSUME TriggerInv, TriggerTypeOK', NEW s \in Subjects,
           \/ TriggerBegin(s) \/ TriggerEnd(s)
           \/ \E o \in Observers : TriggerVisit(s, o)
    PROVE  TriggerInv'
<1> USE DEF TriggerInv, TriggerTypeOK
<1>1. CASE TriggerBegin(s) \/ TriggerEnd(s)
  <2> USE <1>1 DEF TriggerBegin, TriggerEnd, observerVars, waiterVars, lifeVars
  <2>1. HolderCallsListed'
    <3> SUFFICES ASSUME NEW r \in Subjects
                 PROVE  /\ subject_mutex'[r] = "free" => targets'[r] = {}
                        /\ subject_mutex'[r] = "detaching"
                             => \E o \in observers'[r] : targets'[r] = {o}
                        /\ targets'[r] \subseteq observers'[r]
      BY DEF HolderCallsListed
    <3>1. CASE r = s
      BY <3>1 DEF HolderCallsListed
    <3>2. CASE r # s
      BY <3>2 DEF HolderCallsListed
    <3> QED
      BY <3>1, <3>2
  <2>2. NoUseAfterDestroy' /\ AttachmentAgrees'
    BY DEF NoUseAfterDestroy, AttachmentAgrees
  <2>3. NoLostWakeup' /\ NoOrphanedWaiter'
    BY DEF NoLostWakeup, NoOrphanedWaiter
  <2> QED
    BY <2>1, <2>2, <2>3
<1>2. ASSUME NEW o \in Observers, TriggerVisit(s, o)
      PROVE  TriggerInv'
  <2> USE <1>2 DEF TriggerVisit, signalTrigger, NotifyAll, lifeVars
  <2>1. HolderCallsListed' /\ NoUseAfterDestroy'
    BY DEF HolderCallsListed, NoUseAfterDestroy
  <2>2. AttachmentAgrees'
    BY DEF AttachmentAgrees
  <2>3. NoLostWakeup' /\ NoOrphanedWaiter'
    BY DEF NoLostWakeup, NoOrphanedWaiter, Blocked
  <2> QED
    BY <2>1, <2>2, <2>3
<1> QED
  BY <1>1, <1>2

\* So does a call to detach(): between setSubject(0) and the erased entry the
\* observer is listed without pointing back, and a waiter is woken at the end.
LEMMA InvDetach ==
    ASSUME TriggerInv, TriggerTypeOK', NEW s \in Subjects, NEW o \in Observers,
           DetachBegin(s, o) \/ DetachFinish(s, o)
    PROVE  TriggerInv'
<1> USE DEF TriggerInv, TriggerTypeOK
<1>1. CASE DetachBegin(s, o)
  <2> USE <1>1 DEF DetachBegin, waiterVars, lifeVars
  <2>1. o \in observers[s]
    BY DEF AttachmentAgrees
  <2>2. HolderCallsListed' /\ NoUseAfterDestroy'
    BY <2>1 DEF HolderCallsListed, NoUseAfterDestroy
  <2>3. AttachmentAgrees'
    BY TaskTriggerAssumption DEF AttachmentAgrees, HolderCallsListed
  <2>4. NoLostWakeup' /\ NoOrphanedWaiter'
    BY DEF NoLostWakeup, NoOrphanedWaiter
  <2> QED
    BY <2>2, <2>3, <2>4
<1>2. CASE DetachFinish(s, o)
  <2> USE <1>2 DEF DetachFinish, cancelTrigger, NotifyAll, lifeVars
  <2>1. targets[s] = {o}
    BY DEF HolderCallsListed
  <2>2. HolderCallsListed' /\ NoUseAfterDestroy'
    BY DEF HolderCallsListed, NoUseAfterDestroy
  <2>3. AttachmentAgrees'
    BY <2>1 DEF AttachmentAgrees
  <2>4. NoLostWakeup'
    BY DEF NoLostWakeup, Blocked
  <2>5. NoOrphanedWaiter'
    BY DEF NoOrphanedWaiter, Blocked
  <2> QED
    BY <2>2, <2>3, <2>4, <2>5
<1> QED
  BY <1>1, <1>2

\* So do attachment and construction: an address that is not alive is listed
\* nowhere, so a new observer starts with no attachment but its own.
LEMMA InvAttach ==
    ASSUME TriggerInv, TriggerTypeOK', NEW o \in Observers,
           \/ ConstructDetached(o)
           \/ \E s \in Subjects, factor \in PrescaleFactors :
                 attach(s, o, factor) \/ ConstructAttached(s, o, factor)
    PROVE  TriggerInv'
<1> USE DEF TriggerInv, TriggerTypeOK
<1>1. CASE ConstructDetached(o)
  <2> USE <1>1 DEF ConstructDetached, NewObserver, Return, subjectVars
  <2>1. HolderCallsListed' /\ NoUseAfterDestroy'
    BY DEF HolderCallsListed, NoUseAfterDestroy
  <2>2. AttachmentAgrees'
    BY TaskTriggerAssumption DEF AttachmentAgrees, NoUseAfterDestroy
  <2>3. NoLostWakeup' /\ NoOrphanedWaiter'
    BY DEF NoLostWakeup, NoOrphanedWaiter, Blocked
  <2> QED
    BY <2>1, <2>2, <2>3
<1>2. ASSUME NEW s \in Subjects, NEW factor \in PrescaleFactors, ConstructAttached(s, o, factor)
      PROVE  TriggerInv'
  <2> USE <1>2 DEF ConstructAttached, NewObserver, Return, AttachTo
  <2>1. HolderCallsListed' /\ NoUseAfterDestroy'
    BY DEF HolderCallsListed, NoUseAfterDestroy
  <2>2. AttachmentAgrees'
    BY DEF AttachmentAgrees, NoUseAfterDestroy
  <2>3. NoLostWakeup'
    BY DEF NoLostWakeup, Blocked
  <2>4. NoOrphanedWaiter'
    BY DEF NoOrphanedWaiter, Blocked
  <2> QED
    BY <2>1, <2>2, <2>3, <2>4
<1>3. ASSUME NEW s \in Subjects, NEW factor \in PrescaleFactors, attach(s, o, factor)
      PROVE  TriggerInv'
  <2> USE <1>3 DEF attach, Usable, AttachTo, waiterVars, lifeVars
  <2>1. HolderCallsListed' /\ NoUseAfterDestroy'
    BY DEF HolderCallsListed, NoUseAfterDestroy
  <2>2. AttachmentAgrees'
    BY TaskTriggerAssumption DEF AttachmentAgrees
  <2>3. NoLostWakeup'
    BY DEF NoLostWakeup, Blocked
  <2>4. NoOrphanedWaiter'
    BY DEF NoOrphanedWaiter, Blocked
  <2> QED
    BY <2>1, <2>2, <2>3, <2>4
<1> QED
  BY <1>1, <1>2, <1>3

\* So does destruction: what is freed points nowhere and is not in a detach(),
\* so by the agreement of the attachments nobody lists it.
LEMMA InvDestroy ==
    ASSUME TriggerInv, TriggerTypeOK', NEW o \in Observers, Destroy(o) \/ Free(o)
    PROVE  TriggerInv'
<1> USE DEF TriggerInv, TriggerTypeOK, subjectVars, observerVars, waiterVars
<1>1. UNCHANGED <<subjectVars, observerVars, waiterVars>>
  BY DEF Destroy, Free
<1>2. HolderCallsListed' /\ AttachmentAgrees' /\ NoLostWakeup' /\ NoOrphanedWaiter'
  BY <1>1 DEF HolderCallsListed, AttachmentAgrees, NoLostWakeup, NoOrphanedWaiter
<1>3. CASE Destroy(o)
  BY <1>1, <1>2, <1>3 DEF Destroy, NoUseAfterDestroy
<1>4. CASE Free(o)
  <2>1. \A s \in Subjects : o \notin observers[s]
    <3> TAKE s \in Subjects
    <3>1. subject[o] # s /\ ~(subject_mutex[s] = "detaching" /\ o \in targets[s])
      BY <1>4, TaskTriggerAssumption DEF Free, BeingDetached
    <3> QED
      BY <3>1 DEF AttachmentAgrees
  <2>2. NoUseAfterDestroy'
    BY <1>1, <1>4, <2>1 DEF Free, NoUseAfterDestroy, HolderCallsListed
  <2> QED
    BY <1>2, <2>2
<1> QED
  BY <1>3, <1>4

\* So do waiting and cancelTrigger(): a thread falls asleep only when nothing
\* is pending and a subject lists its observer.
LEMMA InvWait ==
    ASSUME TriggerInv, TriggerTypeOK', NEW o \in Observers,
           \/ Cancel(o) \/ TimeOut(o)
           \/ \E timed \in BOOLEAN : WaitStep(o, timed)
    PROVE  TriggerInv'
<1> USE DEF TriggerInv, TriggerTypeOK, subjectVars, lifeVars
<1>1. UNCHANGED <<subjectVars, subject, lifeVars>>
  BY DEF Cancel, TimeOut, WaitStep, waitOnTrigger, WakeNotified, WakeSpuriously, ReturnFromWait,
         observerVars
<1>2. HolderCallsListed' /\ AttachmentAgrees' /\ NoUseAfterDestroy'
  BY <1>1 DEF HolderCallsListed, AttachmentAgrees, NoUseAfterDestroy
<1>3. CASE Cancel(o)
  BY <1>1, <1>2, <1>3 DEF Cancel, cancelTrigger, NotifyAll, NoLostWakeup, NoOrphanedWaiter, Blocked
<1>4. CASE TimeOut(o)
  BY <1>1, <1>2, <1>4 DEF TimeOut, observerVars, Return, NoLostWakeup, NoOrphanedWaiter, Blocked
<1>5. CASE WakeNotified(o) \/ WakeSpuriously(o)
  BY <1>1, <1>2, <1>5
  DEF WakeNotified, WakeSpuriously, ReturnFromWait, Return, NoLostWakeup, NoOrphanedWaiter, Blocked
<1>6. ASSUME NEW timed \in BOOLEAN, waitOnTrigger(o, timed)
      PROVE  TriggerInv'
  <2>1. NoLostWakeup'
    BY <1>6 DEF waitOnTrigger, Return, NoLostWakeup, Blocked
  <2>2. subject[o] # NoSubject => \E s \in Subjects : o \in observers[s]
    BY DEF AttachmentAgrees
  <2>3. NoOrphanedWaiter'
    BY <1>1, <1>6, <2>2 DEF waitOnTrigger, Return, NoOrphanedWaiter, Blocked
  <2> QED
    BY <1>2, <2>1, <2>3
<1> QED
  BY <1>3, <1>4, <1>5, <1>6 DEF WaitStep

\* Every step keeps the inductive invariant.
LEMMA InvStep == TriggerInv /\ [TriggerNext]_triggerVars => TriggerInv'
<1> SUFFICES ASSUME TriggerInv, [TriggerNext]_triggerVars
             PROVE  TriggerInv'
  OBVIOUS
<1>1. TriggerTypeOK'
  BY TypeStep DEF TriggerInv
<1>2. CASE SubjectStep
  BY <1>1, <1>2, InvTrigger, InvDetach, InvAttach DEF SubjectStep
<1>3. ASSUME NEW o \in Observers, ConstructStep(o)
      PROVE  TriggerInv'
  BY <1>1, <1>3, InvAttach DEF ConstructStep
<1>4. ASSUME NEW o \in Observers, Destroy(o) \/ Free(o)
      PROVE  TriggerInv'
  BY <1>1, <1>4, InvDestroy
<1>5. ASSUME NEW o \in Observers,
             Cancel(o) \/ TimeOut(o) \/ \E timed \in BOOLEAN : WaitStep(o, timed)
      PROVE  TriggerInv'
  BY <1>1, <1>5, InvWait
<1>6. CASE UNCHANGED triggerVars
  BY <1>6 DEF triggerVars, subjectVars, observerVars, waiterVars, lifeVars, TriggerInv, TriggerTypeOK,
              HolderCallsListed, AttachmentAgrees, NoUseAfterDestroy, NoLostWakeup, NoOrphanedWaiter
<1> QED
  BY <1>2, <1>3, <1>4, <1>5, <1>6 DEF TriggerNext

\* The inductive invariant is an invariant ...
THEOREM TriggerSafety == TriggerSpec => []TriggerInv
BY InvInit, InvStep, PTL DEF TriggerSpec

\* ... so no thread sleeps through a trigger or a cancellation: signalTrigger()
\* and cancelTrigger() notify under the mutex under which waitOnTrigger() tests.
THEOREM NoWakeupIsLost == TriggerSpec => []NoLostWakeup
<1>1. TriggerInv => NoLostWakeup
  BY DEF TriggerInv
<1> QED
  BY TriggerSafety, <1>1, PTL

\* ... no thread sleeps where no trigger can reach it: detach() wakes the waiter.
THEOREM NoWaiterIsOrphaned == TriggerSpec => []NoOrphanedWaiter
<1>1. TriggerInv => NoOrphanedWaiter
  BY DEF TriggerInv
<1> QED
  BY TriggerSafety, <1>1, PTL

\* ... an observer and its subject agree on the attachment.
THEOREM AttachmentsAgree == TriggerSpec => []AttachmentAgrees
<1>1. TriggerInv => AttachmentAgrees
  BY DEF TriggerInv
<1> QED
  BY TriggerSafety, <1>1, PTL

\* ... and no subject calls an observer whose destructor has returned.
THEOREM NoDestroyedObserverIsUsed == TriggerSpec => []NoUseAfterDestroy
<1>1. TriggerInv => NoUseAfterDestroy
  BY DEF TriggerInv
<1> QED
  BY TriggerSafety, <1>1, PTL

-----------------------------------------------------------------------------
\* A thread that was notified was notified for a reason that is still there:
\* both flags are set before the notification, and only its own waitOnTrigger()
\* resets one of them.
WokenForAReason ==
    \A o \in Observers : wait[o] \in Woken => signalled[o] \/ trigger_cancelled[o]

LEMMA ReasonStep ==
    ASSUME TriggerTypeOK, WokenForAReason, [TriggerNext]_triggerVars
    PROVE  WokenForAReason'
<1> USE DEF TriggerTypeOK, WokenForAReason, Woken, subjectVars, observerVars, waiterVars, lifeVars
<1>1. ASSUME NEW s \in Subjects, NEW o \in Observers, TriggerVisit(s, o)
      PROVE  WokenForAReason'
  BY <1>1 DEF TriggerVisit, signalTrigger, NotifyAll
<1>2. ASSUME NEW s \in Subjects, NEW o \in Observers, DetachFinish(s, o)
      PROVE  WokenForAReason'
  BY <1>2 DEF DetachFinish, cancelTrigger, NotifyAll
<1>3. ASSUME NEW o \in Observers, Cancel(o)
      PROVE  WokenForAReason'
  BY <1>3 DEF Cancel, cancelTrigger, NotifyAll
<1>4. ASSUME NEW o \in Observers, NewObserver(o) \/ TimeOut(o)
      PROVE  WokenForAReason'
  BY <1>4 DEF NewObserver, TimeOut, Return
<1>5. ASSUME NEW o \in Observers, WakeNotified(o) \/ WakeSpuriously(o)
      PROVE  WokenForAReason'
  BY <1>5 DEF WakeNotified, WakeSpuriously, ReturnFromWait, Return
<1>6. ASSUME NEW o \in Observers, NEW timed \in BOOLEAN, waitOnTrigger(o, timed)
      PROVE  WokenForAReason'
  BY <1>6 DEF waitOnTrigger, Return
<1>7. ASSUME UNCHANGED <<trigger_cancelled, signalled, wait>>
      PROVE  WokenForAReason'
  BY <1>7
<1>8. ASSUME NEW s \in Subjects, TriggerBegin(s) \/ TriggerEnd(s)
      PROVE  WokenForAReason'
  BY <1>7, <1>8 DEF TriggerBegin, TriggerEnd
<1>9. ASSUME NEW s \in Subjects, NEW o \in Observers, DetachBegin(s, o)
      PROVE  WokenForAReason'
  BY <1>7, <1>9 DEF DetachBegin
<1>10. ASSUME NEW s \in Subjects, NEW o \in Observers, NEW factor \in PrescaleFactors,
              attach(s, o, factor)
       PROVE  WokenForAReason'
  BY <1>7, <1>10 DEF attach
<1>11. ASSUME NEW o \in Observers, Destroy(o) \/ Free(o)
       PROVE  WokenForAReason'
  BY <1>7, <1>11 DEF Destroy, Free
<1>12. CASE UNCHANGED triggerVars
  BY <1>7, <1>12 DEF triggerVars
<1> QED
  BY <1>1, <1>2, <1>3, <1>4, <1>5, <1>6, <1>8, <1>9, <1>10, <1>11, <1>12
  DEF TriggerNext, SubjectStep, ConstructStep, ConstructAttached, ConstructDetached, WaitStep

\* Only three steps reset a pending trigger: the construction of an observer,
\* and the two ends of a waitOnTrigger() that returns SMART_OK.
LEMMA ResetStep ==
    ASSUME TriggerTypeOK, [TriggerNext]_triggerVars, NEW o \in alive,
           signalled[o], ~signalled'[o]
    PROVE  status'[o] = "SMART_OK"
<1> USE DEF TriggerTypeOK, subjectVars, observerVars, waiterVars, lifeVars
<1>1. ASSUME NEW p \in Observers, NewObserver(p)
      PROVE  FALSE
  BY <1>1 DEF NewObserver
<1>2. ASSUME NEW p \in Observers,
             WakeNotified(p) \/ WakeSpuriously(p) \/ \E timed \in BOOLEAN : waitOnTrigger(p, timed)
      PROVE  status'[o] = "SMART_OK"
  BY <1>2 DEF WakeNotified, WakeSpuriously, ReturnFromWait, waitOnTrigger, Return
<1>3. ASSUME NEW p \in Observers,
             Destroy(p) \/ Free(p) \/ Cancel(p) \/ TimeOut(p)
      PROVE  FALSE
  BY <1>3 DEF Destroy, Free, Cancel, TimeOut
<1>4. CASE SubjectStep
  BY <1>4 DEF SubjectStep, TriggerBegin, TriggerEnd, TriggerVisit, signalTrigger, DetachBegin,
              DetachFinish, attach
<1>5. CASE UNCHANGED triggerVars
  BY <1>5 DEF triggerVars
<1> QED
  BY <1>1, <1>2, <1>3, <1>4, <1>5
  DEF TriggerNext, ConstructStep, ConstructAttached, ConstructDetached, WaitStep

\* A trigger is forgotten only by a wait that returns it, never by one that
\* times out.
THEOREM NoTriggerIsForgotten == TriggerSpec => TimeoutLosesNoTrigger
<1>1. TriggerTypeOK /\ [TriggerNext]_triggerVars
        => [\A o \in Observers :
              (signalled[o] /\ ~signalled'[o] /\ o \in alive) => status'[o] = "SMART_OK"]_triggerVars
  BY ResetStep
<1> QED
  BY TriggerTypes, <1>1, PTL DEF TriggerSpec, TimeoutLosesNoTrigger

\* The step from a wait to its SMART_OK.
LEMMA OkStep ==
    ASSUME TriggerTypeOK, WokenForAReason, [TriggerNext]_triggerVars,
           NEW o \in alive,
           wait[o] # "running", wait'[o] = "running", status'[o] = "SMART_OK"
    PROVE  \/ signalled[o] \/ trigger_cancelled[o]
           \/ SpuriousWakeups /\ wait[o] \in Blocked
<1> USE DEF TriggerTypeOK, subjectVars, observerVars, waiterVars, lifeVars
<1>1. ASSUME NEW p \in Observers, NewObserver(p)
      PROVE  FALSE
  BY <1>1 DEF NewObserver, Return
<1>2. ASSUME NEW p \in Observers, WakeNotified(p)
      PROVE  signalled[o] \/ trigger_cancelled[o]
  BY <1>2 DEF WakeNotified, ReturnFromWait, Return, WokenForAReason
<1>3. ASSUME NEW p \in Observers,
             Destroy(p) \/ Free(p) \/ Cancel(p) \/ TimeOut(p)
               \/ \E timed \in BOOLEAN : waitOnTrigger(p, timed)
      PROVE  FALSE
  BY <1>3 DEF Destroy, Free, Cancel, cancelTrigger, NotifyAll, TimeOut,
              waitOnTrigger, Return
<1>4. CASE SubjectStep
  BY <1>4 DEF SubjectStep, TriggerBegin, TriggerEnd, TriggerVisit, signalTrigger, NotifyAll,
              cancelTrigger, DetachBegin, DetachFinish, attach
<1>5. ASSUME NEW p \in Observers, WakeSpuriously(p)
      PROVE  SpuriousWakeups /\ wait[o] \in Blocked
  BY <1>5 DEF WakeSpuriously, ReturnFromWait, Return
<1>6. CASE UNCHANGED triggerVars
  BY <1>6 DEF triggerVars
<1> QED
  BY <1>1, <1>2, <1>3, <1>4, <1>5, <1>6
  DEF TriggerNext, ConstructStep, ConstructAttached, ConstructDetached, WaitStep

\* SMART_OK always reports a trigger or a cancellation, unless the wait ended
\* spuriously.
THEOREM OkIsNeverForNothing == TriggerSpec => OkReportsAnEvent
<1>1. TriggerInit => WokenForAReason
  BY DEF TriggerInit, WokenForAReason, Woken
<1>2. TriggerTypeOK /\ WokenForAReason /\ [TriggerNext]_triggerVars => WokenForAReason'
  BY ReasonStep
<1>3. TriggerTypeOK /\ WokenForAReason /\ [TriggerNext]_triggerVars
        => [\A o \in alive :
              (wait[o] # "running" /\ wait'[o] = "running" /\ status'[o] = "SMART_OK")
                  => \/ signalled[o] \/ trigger_cancelled[o]
                     \/ SpuriousWakeups /\ wait[o] \in Blocked]_triggerVars
  BY OkStep
<1> QED
  BY TriggerTypes, <1>1, <1>2, <1>3, PTL DEF TriggerSpec, OkReportsAnEvent

=============================================================================
