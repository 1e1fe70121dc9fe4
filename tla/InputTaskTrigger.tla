-------------------------- MODULE InputTaskTrigger --------------------------
(***************************************************************************)
(* InputTaskTrigger (smartInputTaskTrigger.h): a handler of an             *)
(* InputSubject that keeps a copy of the last input and triggers the       *)
(* attached tasks, which take a copy of that copy with getUpdate().        *)
(* Composed with InputSubject, of which it is the only handler here, and   *)
(* with TaskTrigger, of which it is the only subject.                      *)
(*                                                                         *)
(* Granularity.  Neither setUpdate() nor getUpdate() takes a lock: they    *)
(* race.  What they copy is modelled cell by cell, the words of lastUpdate *)
(* and updateStatus, in any order; a cell is never half-written.  A cell   *)
(* holds the number of the input it comes from, 0 for none: as             *)
(* updateStatus, n > 0 stands for SMART_OK and 0 for SMART_NODATA.         *)
(*                                                                         *)
(* External.  The tasks are user code.  The ones modelled go round the     *)
(* loop of IManagedTask and call getUpdate() once in each execution.       *)
(*                                                                         *)
(* Callers.  The behaviour begins in the constructor, when the base has    *)
(* attached the trigger and calls already reach handle_input() (for what   *)
(* is before that, and for the destructor, see InputPorts).  Tasks are     *)
(* constructed when the constructor has returned.                          *)
(***************************************************************************)
EXTENDS TaskTrigger

CONSTANTS Trigger,       \* the InputTaskTrigger, a TaskTriggerSubject
          InputFactors,  \* the factors with which it is constructed
          Words,         \* the words of an InputType
          MaxInputs      \* bound on the number of inputs

ASSUME InputTriggerAssumption ==
    /\ Subjects = {Trigger}
    /\ 1 \in PrescaleFactors
    /\ InputFactors \subseteq UInt
    /\ "updateStatus" \notin Words
    /\ MaxInputs \in Nat

VARIABLES
    observers_mutex, visiting, handlers, rate, input,   \* of the InputSubject
    stage,           \* what the constructor does next, or "built"
    handling,        \* handle_input(): "no", "setUpdate", "trigger_all_tasks"
    toStore,         \* cells setUpdate() still has to write
    update,          \* the cells
    pc,              \* of a task's thread: "wait", "execute", or "left"
    toRead,          \* cells its getUpdate() still has to read
    got,             \* what it has read of each cell
    heard,           \* last input for which it was signalled (history)
    since            \* last input before it was attached (history)

Input == INSTANCE InputSubject
             WITH Handlers <- {Trigger}, observers <- handlers, prescale <- rate

subjectOfInputs == <<observers_mutex, visiting, handlers, rate, input>>
storeVars       == <<stage, handling, toStore, update>>
taskVars        == <<pc, toRead, got>>
historyVars     == <<heard, since>>
inputVars       == <<subjectOfInputs, storeVars, taskVars, historyVars>>
allVars         == <<triggerVars, inputVars>>

Cells == Words \cup {"updateStatus"}

InputInit ==
    /\ TriggerInit
    /\ observers_mutex = "free"
    /\ visiting = {}
    /\ handlers = {Trigger}
    /\ rate \in [{Trigger} -> {NewManager(factor) : factor \in InputFactors}]
    /\ input    = 0
    /\ stage    = "lastUpdate"
    /\ handling = "no"
    /\ toStore  = {}
    /\ update   = [c \in Cells |-> 0]
    /\ pc       = [o \in Observers |-> "left"]
    /\ toRead   = [o \in Observers |-> {}]
    /\ got      = [o \in Observers |-> [c \in Cells |-> 0]]
    /\ heard    = [o \in Observers |-> 0]
    /\ since    = [o \in Observers |-> 0]

-----------------------------------------------------------------------------
(***************************************************************************)
(* The constructor: lastUpdate is default-constructed, then the body       *)
(* stores SMART_NODATA, on top of an input that has come meanwhile.        *)
(***************************************************************************)
InitLastUpdate ==
    /\ stage = "lastUpdate"
    /\ stage' = "updateStatus"
    /\ update' = [c \in Cells |-> IF c \in Words THEN 0 ELSE update[c]]
    /\ UNCHANGED <<triggerVars, subjectOfInputs, handling, toStore, taskVars, historyVars>>

ConstructorBody ==
    /\ stage = "updateStatus"
    /\ stage' = "built"
    /\ update' = [update EXCEPT !["updateStatus"] = 0]
    /\ UNCHANGED <<triggerVars, subjectOfInputs, handling, toStore, taskVars, historyVars>>

-----------------------------------------------------------------------------
(***************************************************************************)
(* handle_input(), called by notify_input() with observers_mutex held:     *)
(* first setUpdate(), then trigger_all_tasks().                            *)
(***************************************************************************)
\* A notify_input() that unlocks before the call returns (for mutants).
NotifyUnlocked ==
    /\ Input!NotifyBegin \/ Input!NotifyEnd
    /\ UNCHANGED <<triggerVars, storeVars, taskVars, historyVars>>

Notify ==
    /\ Input!NotifyBegin \/ (handling = "no" /\ Input!NotifyEnd)
    /\ UNCHANGED <<triggerVars, storeVars, taskVars, historyVars>>

\* The loop of notify_input() asks the manager and calls.
HandleInput ==
    /\ Input!NotifyVisit(Trigger)
    /\ handling' = IF UpdateDue(rate[Trigger]) THEN "setUpdate" ELSE "no"
    /\ toStore'  = IF UpdateDue(rate[Trigger]) THEN Cells ELSE {}
    /\ UNCHANGED <<triggerVars, stage, update, taskVars, historyVars>>

Store(c) ==
    /\ c \in toStore
    /\ update' = [update EXCEPT ![c] = input]
    /\ toStore' = toStore \ {c}
    /\ UNCHANGED <<triggerVars, subjectOfInputs, stage, handling, taskVars, historyVars>>

\* Tasks that are triggered while setUpdate() is at work (for mutants).
TriggerEarly ==
    /\ handling = "setUpdate"
    /\ TriggerBegin(Trigger)
    /\ handling' = "trigger_all_tasks"
    /\ UNCHANGED <<subjectOfInputs, stage, toStore, update, taskVars, historyVars>>

TriggerTasks ==
    /\ handling = "setUpdate"
    /\ toStore = {}
    /\ TriggerBegin(Trigger)
    /\ handling' = "trigger_all_tasks"
    /\ UNCHANGED <<subjectOfInputs, stage, toStore, update, taskVars, historyVars>>

SignalTask(o) ==
    /\ TriggerVisit(Trigger, o)
    /\ heard' = IF UpdateDue(prescale[Trigger][o]) THEN [heard EXCEPT ![o] = input] ELSE heard
    /\ UNCHANGED <<subjectOfInputs, storeVars, taskVars, since>>

\* A handler that spares the trigger while some task is executing, and so
\* going to see the update anyway (for mutants).
TriggeredOrSkipped ==
    /\ handling' = "no"
    /\ \/ handling = "trigger_all_tasks" /\ TriggerEnd(Trigger)
       \/ handling = "setUpdate" /\ toStore = {} /\ (\E o \in Observers : pc[o] = "execute")
              /\ UNCHANGED triggerVars
    /\ UNCHANGED <<subjectOfInputs, stage, toStore, update, taskVars, historyVars>>

Triggered ==
    /\ handling = "trigger_all_tasks"
    /\ TriggerEnd(Trigger)
    /\ handling' = "no"
    /\ UNCHANGED <<subjectOfInputs, stage, toStore, update, taskVars, historyVars>>

-----------------------------------------------------------------------------
(***************************************************************************)
(* The tasks.                                                              *)
(***************************************************************************)

\* waitOnTrigger() in the loop: SMART_CANCELLED leaves it, whatever else is
\* returned begins an execution.
AfterWait(o) ==
    /\ pc' = [pc EXCEPT ![o] = IF wait'[o] # "running" THEN "wait"
                              ELSE IF status'[o] = "SMART_CANCELLED" THEN "left"
                              ELSE "execute"]
    /\ toRead' = [toRead EXCEPT ![o] = IF pc'[o] = "execute" THEN Cells ELSE {}]
    /\ UNCHANGED <<subjectOfInputs, storeVars, got, historyVars>>

Wait(o)         == pc[o] = "wait" /\ (waitOnTrigger(o, FALSE) \/ WakeNotified(o)) /\ AfterWait(o)
LeaveUnasked(o) == pc[o] = "wait" /\ WakeSpuriously(o) /\ AfterWait(o)

\* getUpdate() reads one cell after the other.
getUpdate(o, c) ==
    /\ c \in toRead[o]
    /\ got' = [got EXCEPT ![o][c] = update[c]]
    /\ toRead' = [toRead EXCEPT ![o] = @ \ {c}]
    /\ UNCHANGED <<triggerVars, subjectOfInputs, storeVars, pc, historyVars>>

\* The execution returns: with zero, or with an error that ends the task.
Executed(o) ==
    /\ pc[o] = "execute"
    /\ toRead[o] = {}
    /\ \E next \in {"wait", "left"} : pc' = [pc EXCEPT ![o] = next]
    /\ UNCHANGED <<triggerVars, subjectOfInputs, storeVars, toRead, got, historyVars>>

\* A task is constructed, attached with the default factor or not at all, and
\* its thread started.
Construct(o) ==
    /\ stage = "built"
    /\ ConstructDetached(o) \/ ConstructAttached(Trigger, o, 1)
    /\ pc'     = [pc EXCEPT ![o] = "wait"]
    /\ toRead' = [toRead EXCEPT ![o] = {}]
    /\ got'    = [got EXCEPT ![o] = [c \in Cells |-> 0]]
    /\ heard'  = [heard EXCEPT ![o] = 0]
    /\ since'  = [since EXCEPT ![o] = input]
    /\ UNCHANGED <<subjectOfInputs, storeVars>>

\* A task attached later hears of later inputs.
Attach(o, factor) ==
    /\ attach(Trigger, o, factor)
    /\ since' = [since EXCEPT ![o] = input]
    /\ UNCHANGED <<subjectOfInputs, storeVars, taskVars, heard>>

-----------------------------------------------------------------------------
HandleStep ==
    \/ Notify /\ observers_mutex = "notifying"
    \/ HandleInput
    \/ \E c \in Cells : Store(c)
    \/ TriggerTasks
    \/ Triggered

ExecuteStep(o) == (\E c \in Cells : getUpdate(o, c)) \/ Executed(o)

InputNext ==
    \/ InitLastUpdate \/ ConstructorBody
    \/ Notify \/ HandleStep
    \/ \E o \in Observers :
         \/ SignalTask(o)
         \/ Wait(o) \/ LeaveUnasked(o) \/ ExecuteStep(o)
         \/ Construct(o)
         \/ \E factor \in PrescaleFactors : Attach(o, factor)
         \/ /\ \/ DetachBegin(Trigger, o) \/ DetachFinish(Trigger, o)
               \/ Cancel(o) \/ Free(o)
               \/ Destroy(o) /\ pc[o] = "left"
            /\ UNCHANGED inputVars

InputSpec == InputInit /\ [][InputNext]_allVars

(***************************************************************************)
(* Fairness: the threads of the tasks go on, and so does the one that      *)
(* notifies, also when it waits for subject_mutex, and whoever holds that. *)
(***************************************************************************)
FairInputSpec ==
    /\ InputSpec
    /\ WF_allVars(HandleStep)
    /\ \A o \in Observers :
         /\ WF_allVars(SignalTask(o))
         /\ WF_allVars(DetachFinish(Trigger, o) /\ UNCHANGED inputVars)
         /\ WF_allVars(Wait(o) \/ ExecuteStep(o))

-----------------------------------------------------------------------------
(***************************************************************************)
(* Properties.                                                             *)
(***************************************************************************)

Waiting(o) == wait[o] \in Blocked /\ subject[o] = Trigger

Serving(o) ==
    pc[o] # "left" /\ subject[o] = Trigger /\ prescale[Trigger][o].prescaleFactor = 1

\* Every variable has its type; handle_input() runs only under the
\* observers_mutex, and no cell is newer than the last input.
InputTypeOK ==
    /\ TriggerTypeOK
    /\ Input!InputTypeOK
    /\ stage \in {"lastUpdate", "updateStatus", "built"}
    /\ handling \in {"no", "setUpdate", "trigger_all_tasks"}
    /\ handling # "no" => observers_mutex = "notifying"
    /\ toStore \in SUBSET Cells
    /\ toStore # {} => handling = "setUpdate"
    /\ update \in [Cells -> 0 .. MaxInputs]
    /\ pc \in [Observers -> {"wait", "execute", "left"}]
    /\ toRead \in [Observers -> SUBSET Cells]
    /\ got \in [Observers -> [Cells -> 0 .. MaxInputs]]
    /\ heard \in [Observers -> 0 .. MaxInputs]
    /\ since \in [Observers -> 0 .. MaxInputs]
    /\ \A c \in Cells : update[c] <= input

(***************************************************************************)
(* What a task reads is as new as what it was told of: unless the next     *)
(* trigger is already there, every cell it has read since its last wait is *)
(* from the input it was signalled for, or from a later one.  Triggers     *)
(* coalesce, and getUpdate() races with setUpdate(); it never returns      *)
(* anything older than the trigger.  Excepted is an input that was already *)
(* being handled when the task was attached: the end of the constructor    *)
(* may have overwritten it.                                                *)
(***************************************************************************)
UpdateIsRecent ==
    \A o \in Observers :
        (pc[o] = "execute" /\ ~signalled[o] /\ heard[o] > since[o])
            => \A c \in Cells \ toRead[o] : got[o][c] >= heard[o]

(***************************************************************************)
(* No update is slept on.  When handle_input() is over, an attached task   *)
(* that is asleep, unless it asked for fewer triggers, has read every cell *)
(* as it is now, if that came after its attachment: a copy that was mixed  *)
(* from two updates has been replaced by the newest one.                   *)
(***************************************************************************)
NoUpdateIsSleptOn ==
    \A o \in Observers :
        (/\ handling = "no"
         /\ Waiting(o)
         /\ prescale[Trigger][o].prescaleFactor = 1)
            => \A c \in Cells : update[c] > since[o] => got[o][c] = update[c]

(***************************************************************************)
(* An update that was stored is seen, it or a newer one, by every task     *)
(* that was attached before it and goes on serving.                        *)
(***************************************************************************)
Seen(o, n) == \A c \in Cells : got[o][c] >= n

UpdateSeen ==
    \A n \in 1 .. MaxInputs, o \in Observers :
        ((\A c \in Cells : update[c] >= n) /\ since[o] < n /\ Serving(o))
            ~> (Seen(o, n) \/ ~Serving(o) \/ since[o] >= n)

(***************************************************************************)
(* "Method to get a copy of the last update (if there was any)": with      *)
(* SMART_OK getUpdate() returns an input, all of whose words are from it.  *)
(***************************************************************************)
OkIsOneUpdate ==
    \A o \in Observers :
        (pc[o] = "execute" /\ toRead[o] = {} /\ got[o]["updateStatus"] > 0)
            => \E n \in 1 .. MaxInputs : \A w \in Words : got[o][w] = n

=============================================================================
