----------------------------- MODULE ManagedTask -----------------------------
(***************************************************************************)
(* IManagedTask (smartIManagedTask.h): a thread that executes the user's   *)
(* on_execute() once per trigger, and the shutdown procedure another       *)
(* thread runs on it.  Composed with TaskTrigger, whose observers are now  *)
(* tasks: every step on the trigger part is a step of that module.         *)
(*                                                                         *)
(* External.  start(), stop() and test_canceled() are pure virtual in      *)
(* smartITask.h; they are modelled from how on_shutdown() and              *)
(* task_execution() use them: stop() makes test_canceled() true for good,  *)
(* and stop(true) returns when the thread has ended or never began.        *)
(*                                                                         *)
(* Callers.  A task is started once and not after its shutdown has begun,  *)
(* on_shutdown() runs once, and the destructor runs neither during it nor  *)
(* while the thread runs.                                                  *)
(***************************************************************************)
EXTENDS TaskTrigger

ASSUME DefaultPrescaleAssumption == 1 \in PrescaleFactors

VARIABLES
    pc,          \* where the thread of the task is in task_execution()
    canceled,    \* what test_canceled() returns
    shutdown,    \* how far on_shutdown() is: the call it makes next
    late         \* executions begun after stop(false) (history)

taskVars    == <<pc, canceled, shutdown, late>>
managedVars == <<triggerVars, taskVars>>

TaskInit ==
    /\ TriggerInit
    /\ pc       = [o \in Observers |-> "new"]
    /\ canceled = [o \in Observers |-> FALSE]
    /\ shutdown = [o \in Observers |-> "idle"]
    /\ late     = [o \in Observers |-> 0]

\* The thread of o goes to the given place.
Goto(o, place) == pc' = [pc EXCEPT ![o] = place]

-----------------------------------------------------------------------------
(***************************************************************************)
(* The object.                                                             *)
(***************************************************************************)

\* IManagedTask(component, trigger): the trigger may be null, its prescale
\* factor is always the default one.
ConstructTask(o) ==
    /\ ConstructDetached(o) \/ \E s \in Subjects : ConstructAttached(s, o, 1)
    /\ Goto(o, "new")
    /\ canceled' = [canceled EXCEPT ![o] = FALSE]
    /\ shutdown' = [shutdown EXCEPT ![o] = "idle"]
    /\ late'     = [late EXCEPT ![o] = 0]

DestroyTask(o) ==
    /\ pc[o] \in {"new", "done"}
    /\ shutdown[o] \in {"idle", "done"}
    /\ Destroy(o)
    /\ UNCHANGED taskVars

\* start(): a thread is spawned.
Start(o) ==
    /\ Usable(o)
    /\ pc[o] = "new"
    /\ shutdown[o] = "idle"
    /\ Goto(o, "entry")
    /\ UNCHANGED <<triggerVars, canceled, shutdown, late>>

-----------------------------------------------------------------------------
(***************************************************************************)
(* task_execution().                                                       *)
(***************************************************************************)

\* on_entry() returns zero, or an error that skips the loop.
Entry(o) ==
    /\ pc[o] = "entry"
    /\ Goto(o, "test") \/ Goto(o, "exit")
    /\ UNCHANGED <<triggerVars, canceled, shutdown, late>>

\* A loop that never looks at test_canceled() (for mutants).
TestNothing(o) ==
    /\ pc[o] = "test"
    /\ Goto(o, "wait")
    /\ UNCHANGED <<triggerVars, canceled, shutdown, late>>

\* while(!test_canceled() && !stop)
Test(o) ==
    /\ pc[o] = "test"
    /\ Goto(o, IF canceled[o] THEN "exit" ELSE "wait")
    /\ UNCHANGED <<triggerVars, canceled, shutdown, late>>

\* What follows waitOnTrigger(): only SMART_CANCELLED leaves the loop, every
\* other code is taken for a trigger and begins an execution.
AfterWait(o) ==
    /\ Goto(o, IF wait'[o] # "running" THEN "wait"
               ELSE IF status'[o] = "SMART_CANCELLED" THEN "exit" ELSE "execute")
    /\ late' = [late EXCEPT ![o] = IF pc'[o] = "execute" /\ canceled[o] THEN @ + 1 ELSE @]
    /\ UNCHANGED <<canceled, shutdown>>

CallWait(o)     == pc[o] = "wait" /\ waitOnTrigger(o, FALSE) /\ AfterWait(o)
LeaveWait(o)    == pc[o] = "wait" /\ WakeNotified(o) /\ AfterWait(o)
LeaveUnasked(o) == pc[o] = "wait" /\ WakeSpuriously(o) /\ AfterWait(o)

\* execute_protected_region() returns zero, or an error that ends the loop.
Execute(o) ==
    /\ pc[o] = "execute"
    /\ Goto(o, "test") \/ Goto(o, "exit")
    /\ UNCHANGED <<triggerVars, canceled, shutdown, late>>

\* on_exit() returns and with it the thread.
Exit(o) ==
    /\ pc[o] = "exit"
    /\ Goto(o, "done")
    /\ UNCHANGED <<triggerVars, canceled, shutdown, late>>

-----------------------------------------------------------------------------
(***************************************************************************)
(* on_shutdown(): stop(false); cancelTrigger(); stop(true).                *)
(***************************************************************************)

\* on_shutdown() and stop(false): the thread is told to stop.
ShutdownStop(o) ==
    /\ Usable(o)
    /\ shutdown[o] = "idle"
    /\ canceled' = [canceled EXCEPT ![o] = TRUE]
    /\ shutdown' = [shutdown EXCEPT ![o] = "cancel"]
    /\ UNCHANGED <<triggerVars, pc, late>>

\* A shutdown that leaves the trigger alone, like ITask's (for mutants).
ShutdownWithoutCancel(o) ==
    /\ shutdown[o] = "cancel"
    /\ shutdown' = [shutdown EXCEPT ![o] = "join"]
    /\ UNCHANGED <<triggerVars, pc, canceled, late>>

\* A cancelTrigger() that forgets to notify (for mutants).
ShutdownCancelUnnotified(o) ==
    /\ shutdown[o] = "cancel"
    /\ trigger_cancelled' = [trigger_cancelled EXCEPT ![o] = TRUE]
    /\ shutdown' = [shutdown EXCEPT ![o] = "join"]
    /\ UNCHANGED <<subjectVars, subject, signalled, waiterVars, lifeVars, pc, canceled, late>>

ShutdownCancel(o) ==
    /\ shutdown[o] = "cancel"
    /\ Cancel(o)
    /\ shutdown' = [shutdown EXCEPT ![o] = "join"]
    /\ UNCHANGED <<pc, canceled, late>>

\* A last stop() that does not wait for the thread (for mutants).
ShutdownUnjoined(o) ==
    /\ shutdown[o] = "join"
    /\ shutdown' = [shutdown EXCEPT ![o] = "done"]
    /\ UNCHANGED <<triggerVars, pc, canceled, late>>

\* stop(true) returns when there is no thread to wait for.
ShutdownJoin(o) ==
    /\ shutdown[o] = "join"
    /\ pc[o] \in {"new", "done"}
    /\ shutdown' = [shutdown EXCEPT ![o] = "done"]
    /\ UNCHANGED <<triggerVars, pc, canceled, late>>

-----------------------------------------------------------------------------
ThreadStep(o) ==
    \/ Entry(o) \/ Test(o) \/ Execute(o) \/ Exit(o)
    \/ CallWait(o) \/ LeaveWait(o) \/ LeaveUnasked(o)

ShutdownStep(o) == ShutdownStop(o) \/ ShutdownCancel(o) \/ ShutdownJoin(o)

TaskNext ==
    \/ SubjectStep /\ UNCHANGED taskVars
    \/ \E o \in Observers :
         \/ ConstructTask(o)
         \/ DestroyTask(o)
         \/ Free(o) /\ UNCHANGED taskVars
         \/ Start(o)
         \/ ThreadStep(o)
         \/ ShutdownStep(o)

TaskSpec == TaskInit /\ [][TaskNext]_managedVars

(***************************************************************************)
(* Fairness: the thread of a task goes on, which assumes that the user's   *)
(* hooks return, and so does the thread that shuts it down; neither a      *)
(* trigger nor a spurious wakeup has to happen.                            *)
(***************************************************************************)
ThreadFairness ==
    \A o \in Observers :
        /\ WF_managedVars(Entry(o) \/ Test(o) \/ Execute(o) \/ Exit(o))
        /\ WF_managedVars(CallWait(o) \/ LeaveWait(o))

ShutdownFairness ==
    \A o \in Observers : WF_managedVars(ShutdownCancel(o) \/ ShutdownJoin(o))

FairTaskSpec == TaskSpec /\ SubjectFairness /\ ThreadFairness /\ ShutdownFairness

-----------------------------------------------------------------------------
(***************************************************************************)
(* Properties.                                                             *)
(***************************************************************************)

\* Every variable has its type.
TaskTypeOK ==
    /\ TriggerTypeOK
    /\ pc       \in [Observers -> {"new", "entry", "test", "wait", "execute", "exit", "done"}]
    /\ canceled \in [Observers -> BOOLEAN]
    /\ shutdown \in [Observers -> {"idle", "cancel", "join", "done"}]
    /\ late     \in [Observers -> Nat]

(***************************************************************************)
(* Once stop(false) has been called the task begins at most one more       *)
(* on_execute(): the one it begins when the shutdown finds it between the  *)
(* test of test_canceled() and the end of waitOnTrigger(), which returns   *)
(* SMART_OK to a waiter that is being cancelled.                           *)
(***************************************************************************)
AtMostOneLateExecution == \A o \in Observers : late[o] <= 1

(***************************************************************************)
(* When on_shutdown() has returned the thread runs no user code and is not *)
(* inside the trigger: the task may be destroyed.                          *)
(***************************************************************************)
QuietAfterShutdown ==
    \A o \in Observers :
        shutdown[o] = "done" => pc[o] \in {"new", "done"} /\ wait[o] = "running"

(***************************************************************************)
(* stop(true) never waits for a sleeping thread: from the return of        *)
(* cancelTrigger() on the thread is not asleep in waitOnTrigger() and does *)
(* not fall asleep there again, wherever the cancellation found it and     *)
(* whatever subjects, timeouts and spurious wakeups do.                    *)
(***************************************************************************)
JoinsNoSleeper ==
    \A o \in Observers : shutdown[o] \in {"join", "done"} => wait[o] \notin Blocked

(***************************************************************************)
(* on_shutdown() returns, wherever it finds the thread: also when it is    *)
(* asleep in waitOnTrigger() or about to be, and whatever attach() and     *)
(* detach() do meanwhile.                                                  *)
(***************************************************************************)
ShutdownCompletes ==
    \A o \in Observers : shutdown[o] = "cancel" ~> shutdown[o] = "done"

(***************************************************************************)
(* A trigger is served: a signal kept in an attached, running task starts  *)
(* an execution, unless the task leaves its loop or is detached first.     *)
(***************************************************************************)
InLoop(o) == pc[o] \in {"entry", "test", "wait", "execute"}

TriggerServed ==
    \A o \in Observers :
        (signalled[o] /\ InLoop(o))
            ~> (~signalled[o] \/ ~InLoop(o) \/ subject[o] = NoSubject)

=============================================================================
