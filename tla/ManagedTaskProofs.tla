-------------------------- MODULE ManagedTaskProofs --------------------------
(***************************************************************************)
(* The managed task implements the task trigger, and its shutdown is safe, *)
(* for any number of tasks and subjects.                                   *)
(***************************************************************************)
EXTENDS ManagedTask, TaskTriggerProofs

\* Every step of a task is a step of the trigger or leaves the trigger alone.
LEMMA TaskStepIsTriggerStep == [TaskNext]_managedVars => [TriggerNext]_triggerVars
<1> SUFFICES ASSUME [TaskNext]_managedVars
             PROVE  [TriggerNext]_triggerVars
  OBVIOUS
<1>1. CASE SubjectStep
  BY <1>1 DEF TriggerNext
<1>2. ASSUME NEW o \in Observers, ConstructTask(o)
      PROVE  TriggerNext
  BY <1>2, DefaultPrescaleAssumption DEF ConstructTask, ConstructStep, TriggerNext
<1>3. ASSUME NEW o \in Observers, DestroyTask(o) \/ Free(o)
      PROVE  TriggerNext
  BY <1>3 DEF DestroyTask, TriggerNext
<1>4. ASSUME NEW o \in Observers, CallWait(o) \/ LeaveWait(o) \/ LeaveUnasked(o)
      PROVE  TriggerNext
  <2>1. WaitStep(o, FALSE)
    BY <1>4 DEF CallWait, LeaveWait, LeaveUnasked, WaitStep
  <2> QED
    BY <2>1 DEF TriggerNext
<1>5. ASSUME NEW o \in Observers, ShutdownCancel(o)
      PROVE  TriggerNext
  BY <1>5 DEF ShutdownCancel, TriggerNext
<1>6. ASSUME NEW o \in Observers,
             \/ Start(o) \/ Entry(o) \/ Test(o) \/ Execute(o) \/ Exit(o)
             \/ ShutdownStop(o) \/ ShutdownJoin(o)
      PROVE  UNCHANGED triggerVars
  BY <1>6 DEF Start, Entry, Test, Execute, Exit, ShutdownStop, ShutdownJoin
<1>7. CASE UNCHANGED managedVars
  BY <1>7 DEF managedVars
<1> QED
  BY <1>1, <1>2, <1>3, <1>4, <1>5, <1>6, <1>7 DEF TaskNext, ThreadStep, ShutdownStep

\* Whatever holds of the task trigger holds of the triggers of managed tasks.
THEOREM TaskImplementsTrigger == TaskSpec => TriggerSpec
<1>1. TaskInit => TriggerInit
  BY DEF TaskInit
<1> QED
  BY <1>1, TaskStepIsTriggerStep, PTL DEF TaskSpec, TriggerSpec

-----------------------------------------------------------------------------
\* The types of the variables of the task.
LEMMA TaskTypeStep ==
    ASSUME TaskTypeOK, [TaskNext]_managedVars
    PROVE  TaskTypeOK'
<1>1. TriggerTypeOK'
  BY TaskStepIsTriggerStep, TypeStep DEF TaskTypeOK
<1> USE <1>1 DEF TaskTypeOK, Goto
<1>2. ASSUME NEW o \in Observers, ConstructTask(o)
      PROVE  TaskTypeOK'
  BY <1>2 DEF ConstructTask
<1>3. ASSUME NEW o \in Observers,
             Start(o) \/ Entry(o) \/ Test(o) \/ Execute(o) \/ Exit(o)
      PROVE  TaskTypeOK'
  BY <1>3 DEF Start, Entry, Test, Execute, Exit
<1>4. ASSUME NEW o \in Observers, AfterWait(o)
      PROVE  TaskTypeOK'
  BY <1>4 DEF AfterWait
<1>5. ASSUME NEW o \in Observers, ShutdownStep(o)
      PROVE  TaskTypeOK'
  BY <1>5 DEF ShutdownStep, ShutdownStop, ShutdownCancel, ShutdownJoin
<1>6. CASE UNCHANGED taskVars
  BY <1>6 DEF taskVars
<1>7. ASSUME NEW o \in Observers, DestroyTask(o)
      PROVE  UNCHANGED taskVars
  BY <1>7 DEF DestroyTask
<1> QED
  BY <1>2, <1>3, <1>4, <1>5, <1>6, <1>7
  DEF TaskNext, ThreadStep, CallWait, LeaveWait, LeaveUnasked, managedVars

THEOREM TaskTypes == TaskSpec => []TaskTypeOK
<1>1. TaskInit => TaskTypeOK
  BY TypeInit DEF TaskInit, TaskTypeOK
<1>2. TaskTypeOK /\ [TaskNext]_managedVars => TaskTypeOK'
  BY TaskTypeStep
<1> QED
  BY <1>1, <1>2, PTL DEF TaskSpec

-----------------------------------------------------------------------------
\* A thread that began an execution after stop(false) is past the loop's last
\* look at waitOnTrigger(): the next test_canceled() ends the loop.
LateInv ==
    \A o \in Observers :
        /\ late[o] <= 1
        /\ late[o] # 0 => canceled[o] /\ pc[o] \in {"execute", "test", "exit", "done"}

LEMMA LateStep ==
    ASSUME TaskTypeOK, LateInv, [TaskNext]_managedVars
    PROVE  LateInv'
<1> USE DEF TaskTypeOK, LateInv, Goto
<1>1. ASSUME NEW o \in Observers, ConstructTask(o)
      PROVE  LateInv'
  BY <1>1 DEF ConstructTask
<1>2. ASSUME NEW o \in Observers,
             Start(o) \/ Entry(o) \/ Test(o) \/ Execute(o) \/ Exit(o)
      PROVE  LateInv'
  BY <1>2 DEF Start, Entry, Test, Execute, Exit
<1>3. ASSUME NEW o \in Observers, pc[o] = "wait", AfterWait(o)
      PROVE  LateInv'
  <2>1. late[o] = 0
    BY <1>3
  <2> QED
    BY <1>3, <2>1 DEF AfterWait
<1>4. ASSUME NEW o \in Observers, ShutdownStep(o)
      PROVE  LateInv'
  BY <1>4 DEF ShutdownStep, ShutdownStop, ShutdownCancel, ShutdownJoin
<1>5. CASE UNCHANGED taskVars
  BY <1>5 DEF taskVars
<1>6. ASSUME NEW o \in Observers, DestroyTask(o)
      PROVE  UNCHANGED taskVars
  BY <1>6 DEF DestroyTask
<1> QED
  BY <1>1, <1>2, <1>3, <1>4, <1>5, <1>6
  DEF TaskNext, ThreadStep, CallWait, LeaveWait, LeaveUnasked, managedVars

\* At most one on_execute() begins after stop(false).
THEOREM LateExecutionsAreBounded == TaskSpec => []AtMostOneLateExecution
<1>1. TaskInit => LateInv
  BY DEF TaskInit, LateInv
<1>2. TaskTypeOK /\ LateInv /\ [TaskNext]_managedVars => LateInv'
  BY LateStep
<1>3. LateInv => AtMostOneLateExecution
  BY DEF LateInv, AtMostOneLateExecution
<1> QED
  BY TaskTypes, <1>1, <1>2, <1>3, PTL DEF TaskSpec

-----------------------------------------------------------------------------
\* Only a thread inside the loop of task_execution() is inside the trigger, and
\* a shutdown that has returned found no thread, or one that has ended.
QuietInv ==
    \A o \in Observers :
        /\ wait[o] # "running" => pc[o] = "wait"
        /\ shutdown[o] = "done" => pc[o] \in {"new", "done"}

LEMMA QuietStep ==
    ASSUME TaskTypeOK, QuietInv, [TaskNext]_managedVars
    PROVE  QuietInv'
<1> USE DEF TaskTypeOK, TriggerTypeOK, QuietInv, Goto
<1>1. ASSUME NEW o \in Observers, ConstructTask(o)
      PROVE  QuietInv'
  BY <1>1 DEF ConstructTask, ConstructDetached, ConstructAttached, NewObserver, Return
<1>2. ASSUME NEW o \in Observers,
             Start(o) \/ Entry(o) \/ Test(o) \/ Execute(o) \/ Exit(o)
      PROVE  QuietInv'
  BY <1>2 DEF Start, Entry, Test, Execute, Exit, triggerVars, waiterVars
<1>3. ASSUME NEW o \in Observers, pc[o] = "wait", AfterWait(o),
             WaitStep(o, FALSE)
      PROVE  QuietInv'
  <2>1. \A p \in Observers : p # o => wait'[p] = wait[p]
    BY <1>3 DEF WaitStep, waitOnTrigger, WakeNotified, WakeSpuriously, ReturnFromWait, Return
  <2>2. wait'[o] # "running" => pc'[o] = "wait"
    BY <1>3 DEF AfterWait
  <2> QED
    BY <1>3, <2>1, <2>2 DEF AfterWait
<1>4. ASSUME NEW o \in Observers, ShutdownStop(o) \/ ShutdownJoin(o)
      PROVE  QuietInv'
  BY <1>4 DEF ShutdownStop, ShutdownJoin, triggerVars, waiterVars
<1>5. ASSUME NEW o \in Observers, ShutdownCancel(o)
      PROVE  QuietInv'
  BY <1>5 DEF ShutdownCancel, Cancel, cancelTrigger, NotifyAll
<1>6. ASSUME SubjectStep, UNCHANGED taskVars
      PROVE  QuietInv'
  <2>1. \A o \in Observers : wait[o] = "running" => wait'[o] = "running"
    BY <1>6 DEF SubjectStep, TriggerBegin, TriggerEnd, TriggerVisit, signalTrigger, DetachBegin,
                DetachFinish, cancelTrigger, NotifyAll, attach, waiterVars
  <2> QED
    BY <1>6, <2>1 DEF taskVars
<1>7. ASSUME NEW o \in Observers,
             DestroyTask(o) \/ (Free(o) /\ UNCHANGED taskVars)
      PROVE  QuietInv'
  BY <1>7 DEF DestroyTask, Destroy, Free, taskVars, waiterVars
<1>8. CASE UNCHANGED managedVars
  BY <1>8 DEF managedVars, triggerVars, waiterVars, taskVars
<1> QED
  BY <1>1, <1>2, <1>3, <1>4, <1>5, <1>6, <1>7, <1>8
  DEF TaskNext, ThreadStep, ShutdownStep, CallWait, LeaveWait, LeaveUnasked, WaitStep

\* When on_shutdown() has returned the task is quiet.
THEOREM ShutdownLeavesQuiet == TaskSpec => []QuietAfterShutdown
<1>1. TaskInit => QuietInv
  BY DEF TaskInit, TriggerInit, QuietInv
<1>2. TaskTypeOK /\ QuietInv /\ [TaskNext]_managedVars => QuietInv'
  BY QuietStep
<1>3. QuietInv => QuietAfterShutdown
  BY DEF QuietInv, QuietAfterShutdown
<1> QED
  BY TaskTypes, <1>1, <1>2, <1>3, PTL DEF TaskSpec

-----------------------------------------------------------------------------
\* Nothing takes a cancellation back but the construction of another observer
\* at its address, with which the shutdown starts anew, too.
CancelledInv ==
    \A o \in Observers : shutdown[o] \in {"join", "done"} => trigger_cancelled[o]

LEMMA CancelledStep ==
    ASSUME TaskTypeOK, CancelledInv, [TaskNext]_managedVars
    PROVE  CancelledInv'
<1> USE DEF TaskTypeOK, TriggerTypeOK, CancelledInv
<1>1. ASSUME NEW o \in Observers, ConstructTask(o)
      PROVE  CancelledInv'
  BY <1>1 DEF ConstructTask, ConstructDetached, ConstructAttached, NewObserver
<1>2. ASSUME NEW o \in Observers,
             Start(o) \/ Entry(o) \/ Test(o) \/ Execute(o) \/ Exit(o)
      PROVE  CancelledInv'
  BY <1>2 DEF Start, Entry, Test, Execute, Exit, triggerVars, observerVars
<1>3. ASSUME NEW o \in Observers, CallWait(o) \/ LeaveWait(o) \/ LeaveUnasked(o)
      PROVE  CancelledInv'
  BY <1>3 DEF CallWait, LeaveWait, LeaveUnasked, waitOnTrigger, WakeNotified, WakeSpuriously,
              ReturnFromWait, AfterWait
<1>4. ASSUME NEW o \in Observers, ShutdownStop(o) \/ ShutdownJoin(o)
      PROVE  CancelledInv'
  BY <1>4 DEF ShutdownStop, ShutdownJoin, triggerVars, observerVars
<1>5. ASSUME NEW o \in Observers, ShutdownCancel(o)
      PROVE  CancelledInv'
  BY <1>5 DEF ShutdownCancel, Cancel, cancelTrigger
<1>6. ASSUME SubjectStep, UNCHANGED taskVars
      PROVE  CancelledInv'
  <2>1. \A o \in Observers : trigger_cancelled[o] => trigger_cancelled'[o]
    BY <1>6 DEF SubjectStep, TriggerBegin, TriggerEnd, TriggerVisit, DetachBegin, DetachFinish,
                cancelTrigger, attach, observerVars
  <2> QED
    BY <1>6, <2>1 DEF taskVars
<1>7. ASSUME NEW o \in Observers,
             DestroyTask(o) \/ (Free(o) /\ UNCHANGED taskVars)
      PROVE  CancelledInv'
  BY <1>7 DEF DestroyTask, Destroy, Free, taskVars, observerVars
<1>8. CASE UNCHANGED managedVars
  BY <1>8 DEF managedVars, triggerVars, observerVars, taskVars
<1> QED
  BY <1>1, <1>2, <1>3, <1>4, <1>5, <1>6, <1>7, <1>8 DEF TaskNext, ThreadStep, ShutdownStep

\* stop(true) does not wait for a thread that is asleep: since the trigger is
\* cancelled it would have been woken (NoLostWakeup).
THEOREM ShutdownJoinsNoSleeper == TaskSpec => []JoinsNoSleeper
<1>1. TaskInit => CancelledInv
  BY DEF TaskInit, CancelledInv
<1>2. TaskTypeOK /\ CancelledInv /\ [TaskNext]_managedVars => CancelledInv'
  BY CancelledStep
<1>3. CancelledInv /\ NoLostWakeup => JoinsNoSleeper
  BY DEF CancelledInv, NoLostWakeup, JoinsNoSleeper
<1> QED
  BY TaskTypes, TaskImplementsTrigger, NoWakeupIsLost, <1>1, <1>2, <1>3, PTL DEF TaskSpec

=============================================================================
