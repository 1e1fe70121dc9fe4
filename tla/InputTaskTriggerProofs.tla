------------------------ MODULE InputTaskTriggerProofs ------------------------
(***************************************************************************)
(* What the tasks of an InputTaskTrigger read, for any number of tasks,    *)
(* inputs and words: nothing older than what they were told of, and the    *)
(* newest update before they sleep.                                        *)
(***************************************************************************)
EXTENDS InputTaskTrigger, TaskTriggerProofs

\* Every step is a step of the task trigger or leaves it alone.
LEMMA InputStepIsTriggerStep == [InputNext]_allVars => [TriggerNext]_triggerVars
<1> SUFFICES ASSUME [InputNext]_allVars
             PROVE  [TriggerNext]_triggerVars
  OBVIOUS
<1> USE InputTriggerAssumption
<1>1. CASE InitLastUpdate \/ ConstructorBody \/ Notify \/ HandleInput \/ \E c \in Cells : Store(c)
  BY <1>1 DEF InitLastUpdate, ConstructorBody, Notify, HandleInput, Store
<1>2. CASE TriggerTasks \/ Triggered
  BY <1>2 DEF TriggerTasks, Triggered, TriggerNext, SubjectStep
<1>3. ASSUME NEW o \in Observers, ExecuteStep(o)
      PROVE  UNCHANGED triggerVars
  BY <1>3 DEF ExecuteStep, getUpdate, Executed
<1>4. ASSUME NEW o \in Observers, Wait(o) \/ LeaveUnasked(o)
      PROVE  TriggerNext
  <2>1. WaitStep(o, FALSE)
    BY <1>4 DEF Wait, LeaveUnasked, WaitStep
  <2> QED
    BY <2>1 DEF TriggerNext
<1>5. ASSUME NEW o \in Observers, Construct(o)
      PROVE  TriggerNext
  BY <1>5 DEF Construct, ConstructStep, TriggerNext
<1>6. ASSUME NEW o \in Observers, NEW factor \in PrescaleFactors, Attach(o, factor)
      PROVE  TriggerNext
  BY <1>6 DEF Attach, SubjectStep, TriggerNext
<1>7. ASSUME NEW o \in Observers,
             \/ SignalTask(o) \/ DetachBegin(Trigger, o) \/ DetachFinish(Trigger, o)
             \/ Cancel(o) \/ Free(o) \/ Destroy(o)
      PROVE  TriggerNext
  BY <1>7 DEF SignalTask, SubjectStep, TriggerNext
<1>8. CASE UNCHANGED allVars
  BY <1>8 DEF allVars
<1> QED
  BY <1>1, <1>2, <1>3, <1>4, <1>5, <1>6, <1>7, <1>8 DEF InputNext, HandleStep

\* Whatever holds of the task trigger holds of the input task trigger.
THEOREM InputTriggerIsTrigger == InputSpec => TriggerSpec
<1>1. InputInit => TriggerInit
  BY DEF InputInit
<1> QED
  BY <1>1, InputStepIsTriggerStep, PTL DEF InputSpec, TriggerSpec

-----------------------------------------------------------------------------
LEMMA InputTypeInit == InputInit => InputTypeOK
<1> SUFFICES ASSUME InputInit PROVE InputTypeOK
  OBVIOUS
<1>1. TriggerTypeOK
  BY TypeInit DEF InputInit
<1>2. \A factor \in InputFactors : NewManager(factor) \in Manager
  BY NewManagerType, InputTriggerAssumption
<1>3. Input!InputTypeOK
  BY <1>2, InputTriggerAssumption
  DEF InputInit, Input!InputTypeOK, Input!Manager, Input!UInt, Manager, UInt
<1> QED
  BY <1>1, <1>3, InputTriggerAssumption DEF InputInit, InputTypeOK

\* The operations of the InputSubject keep its types.
LEMMA SubjectTypeStep ==
    ASSUME Input!InputTypeOK, Notify \/ HandleInput
    PROVE  Input!InputTypeOK'
<1> USE InputTriggerAssumption DEF Input!InputTypeOK
<1>1. Input!Manager = Manager
  BY DEF Input!Manager, Input!UInt, Manager, UInt
<1>2. CASE Notify
  BY <1>2 DEF Notify, Input!NotifyBegin, Input!NotifyEnd
<1>3. CASE HandleInput
  <2>1. Counted(rate[Trigger]) \in Manager
    BY <1>1, CountedType
  <2>2. Input!Counted(rate[Trigger]) = Counted(rate[Trigger])
    BY DEF Input!Counted, Counted, Input!UpdateDue, UpdateDue
  <2> QED
    BY <1>1, <1>3, <2>1, <2>2 DEF HandleInput, Input!NotifyVisit
<1> QED
  BY <1>2, <1>3

LEMMA InputTypeStep ==
    ASSUME InputTypeOK, [InputNext]_allVars
    PROVE  InputTypeOK'
<1>1. TriggerTypeOK'
  BY InputStepIsTriggerStep, TypeStep DEF InputTypeOK
<1> USE <1>1, InputTriggerAssumption
    DEF InputTypeOK, subjectOfInputs, storeVars, taskVars, historyVars
<1>2. input \in 0 .. MaxInputs
  BY DEF Input!InputTypeOK
<1>3. CASE UNCHANGED subjectOfInputs
  <2> USE <1>3 DEF Input!InputTypeOK
  <2>1. CASE InitLastUpdate \/ ConstructorBody
    <3>1. \A c \in Cells : update'[c] \in {0, update[c]}
      BY <2>1 DEF InitLastUpdate, ConstructorBody
    <3>2. update' \in [Cells -> 0 .. MaxInputs]
      <4>1. update' = [c \in Cells |-> update'[c]]
        BY <2>1 DEF InitLastUpdate, ConstructorBody
      <4>2. \A c \in Cells : update'[c] \in 0 .. MaxInputs
        BY <3>1
      <4> QED
        BY <4>1, <4>2
    <3>3. \A c \in Cells : update'[c] <= input
      BY <1>2, <3>1
    <3> QED
      BY <2>1, <3>2, <3>3 DEF InitLastUpdate, ConstructorBody
  <2>2. ASSUME NEW c \in Cells, Store(c)
        PROVE  InputTypeOK'
    BY <1>2, <2>2 DEF Store
  <2>3. CASE TriggerTasks \/ Triggered
    BY <2>3 DEF TriggerTasks, Triggered
  <2>4. ASSUME NEW o \in Observers, ExecuteStep(o)
        PROVE  InputTypeOK'
    <3>1. ASSUME NEW c \in Cells, getUpdate(o, c)
          PROVE  got' \in [Observers -> [Cells -> 0 .. MaxInputs]]
      BY <3>1 DEF getUpdate
    <3>2. ASSUME NEW c \in Cells, getUpdate(o, c)
          PROVE  InputTypeOK'
      BY <3>1, <3>2 DEF getUpdate
    <3>3. CASE Executed(o)
      BY <3>3 DEF Executed
    <3> QED
      BY <2>4, <3>2, <3>3 DEF ExecuteStep
  <2>5. ASSUME NEW o \in Observers, Wait(o) \/ LeaveUnasked(o)
        PROVE  InputTypeOK'
    BY <2>5 DEF Wait, LeaveUnasked, AfterWait
  <2>6. ASSUME NEW o \in Observers, Construct(o) \/ \E factor \in PrescaleFactors : Attach(o, factor)
        PROVE  InputTypeOK'
    <3>1. CASE Construct(o)
      <4>1. got' \in [Observers -> [Cells -> 0 .. MaxInputs]]
        <5>1. [c \in Cells |-> 0] \in [Cells -> 0 .. MaxInputs]
          OBVIOUS
        <5> QED
          BY <3>1, <5>1 DEF Construct
      <4>2. /\ pc' \in [Observers -> {"wait", "execute", "left"}]
            /\ heard' \in [Observers -> 0 .. MaxInputs]
            /\ since' \in [Observers -> 0 .. MaxInputs]
        BY <1>2, <3>1 DEF Construct
      <4> QED
        BY <3>1, <4>1, <4>2 DEF Construct
    <3>2. ASSUME NEW factor \in PrescaleFactors, Attach(o, factor)
          PROVE  InputTypeOK'
      BY <1>2, <3>2 DEF Attach
    <3> QED
      BY <2>6, <3>1, <3>2
  <2>7. ASSUME NEW o \in Observers, SignalTask(o)
        PROVE  InputTypeOK'
    BY <1>2, <2>7 DEF SignalTask
  <2>8. CASE UNCHANGED inputVars
    BY <2>8 DEF inputVars
  <2> QED
    BY <2>1, <2>2, <2>3, <2>4, <2>5, <2>6, <2>7, <2>8, [InputNext]_allVars
    DEF InputNext, HandleStep, allVars, Notify, HandleInput, Input!NotifyBegin, Input!NotifyEnd,
        Input!NotifyVisit, Input!InputTypeOK
<1>4. CASE Notify \/ HandleInput
  <2>1. Input!InputTypeOK'
    BY <1>4, SubjectTypeStep
  <2>2. input' \in Nat /\ input <= input'
    BY <1>2, <1>4 DEF Notify, HandleInput, Input!NotifyBegin, Input!NotifyEnd, Input!NotifyVisit
  <2>3. CASE Notify
    <3>1. handling = "no" /\ UNCHANGED <<handling, toStore, update>>
      BY <2>3 DEF Notify, Input!NotifyBegin
    <3>2. \A c \in Cells : update'[c] <= input'
      BY <1>2, <2>2, <3>1
    <3> QED
      BY <2>1, <2>3, <3>1, <3>2 DEF Notify
  <2>4. CASE HandleInput
    BY <2>1, <2>4 DEF HandleInput, Input!NotifyVisit
  <2> QED
    BY <1>4, <2>3, <2>4
<1> QED
  BY <1>3, <1>4
  DEF InputNext, HandleStep, ExecuteStep, InitLastUpdate, ConstructorBody, Store, TriggerTasks,
      Triggered, SignalTask, Wait, LeaveUnasked, AfterWait, getUpdate, Executed, Construct, Attach,
      inputVars, allVars

THEOREM InputTriggerTypes == InputSpec => []InputTypeOK
<1>1. InputTypeOK /\ [InputNext]_allVars => InputTypeOK'
  BY InputTypeStep
<1> QED
  BY InputTypeInit, <1>1, PTL DEF InputSpec

-----------------------------------------------------------------------------
(***************************************************************************)
(* The inductive invariant: where handle_input() is, where each task is,   *)
(* and what the task has still to be told or to read.                      *)
(***************************************************************************)

\* The trigger's mutex is held for handle_input(), which is called once.
HandlingInv ==
    /\ subject_mutex[Trigger] = "triggering" <=> handling = "trigger_all_tasks"
    /\ handling # "no" => visiting = {}

Every(o) == prescale[Trigger][o].prescaleFactor = 1

\* handle_input() has still to trigger the task.
Telling(o) ==
    \/ handling = "setUpdate"
    \/ handling = "trigger_all_tasks" /\ o \in targets[Trigger]

Placed(o) ==
    /\ wait[o] # "running" => pc[o] = "wait"
    /\ pc[o] # "execute" => toRead[o] = {}
    /\ pc[o] # "left" => stage = "built" /\ heard[o] <= input
    /\ Every(o) => prescale[Trigger][o].updateCounter = 1

\* What is stored, and what was read of it, is as new as the last trigger.
Fresh(o) ==
    /\ (handling # "no" /\ since[o] < input) => \A c \in Cells \ toStore : update[c] = input
    /\ heard[o] > since[o]
           => /\ \A c \in Cells : update[c] >= heard[o]
              /\ pc[o] = "execute" /\ ~signalled[o]
                     => \A c \in Cells \ toRead[o] : got[o][c] >= heard[o]

\* An attached task that is neither being told nor signalled has read, or is
\* about to read, what is stored.
Informed(o) ==
    (o \in observers[Trigger] /\ Every(o) /\ ~Telling(o) /\ ~signalled[o])
        => \A c \in Cells \ toRead[o] : update[c] > since[o] => got[o][c] = update[c]

ReadInv ==
    /\ HandlingInv
    /\ \A o \in Observers : Placed(o)
    /\ \A o \in Observers : pc[o] # "left" => Fresh(o) /\ Informed(o)

\* What a step of another task leaves alone.
LEMMA TaskUnaffected ==
    ASSUME NEW o \in Observers, Placed(o), pc[o] # "left" => Fresh(o) /\ Informed(o),
           UNCHANGED <<wait[o], pc[o], signalled[o], prescale[Trigger][o], toRead[o], got[o],
                       heard[o], since[o], storeVars, input>>,
           Telling(o) => Telling(o)',
           o \in observers'[Trigger] => o \in observers[Trigger]
    PROVE  Placed(o)' /\ (pc'[o] # "left" => Fresh(o)' /\ Informed(o)')
BY DEF Placed, Fresh, Informed, Every, storeVars

\* The steps of notify_input() and of the constructor.
LEMMA ReadHandleStep ==
    ASSUME InputTypeOK, ReadInv,
           \/ InitLastUpdate \/ ConstructorBody \/ Notify \/ HandleInput
           \/ TriggerTasks \/ Triggered \/ \E c \in Cells : Store(c)
    PROVE  ReadInv'
<1> USE InputTriggerAssumption DEF ReadInv
<1>1. /\ input \in Nat /\ update \in [Cells -> 0 .. MaxInputs]
      /\ heard \in [Observers -> 0 .. MaxInputs] /\ since \in [Observers -> 0 .. MaxInputs]
      /\ visiting \in SUBSET {Trigger}
      /\ subject_mutex \in [Subjects -> {"free", "triggering", "detaching"}]
      /\ targets \in [Subjects -> SUBSET Observers]
      /\ Trigger \in Subjects
      /\ \A c \in Cells : update[c] <= input
      /\ toStore # {} => handling = "setUpdate"
      /\ handling # "no" => observers_mutex = "notifying"
  BY DEF InputTypeOK, Input!InputTypeOK, TriggerTypeOK
<1>2. UNCHANGED <<taskVars, historyVars, wait, signalled, prescale, observers>>
  BY DEF InitLastUpdate, ConstructorBody, Notify, HandleInput, TriggerTasks, Triggered, Store,
         TriggerBegin, TriggerEnd, triggerVars, subjectVars, observerVars, waiterVars
<1> USE <1>2 DEF taskVars, historyVars
<1>3. CASE InitLastUpdate \/ ConstructorBody
  <2>1. /\ UNCHANGED <<subject_mutex, targets, handling, visiting, input>>
        /\ stage # "built"
    BY <1>3 DEF InitLastUpdate, ConstructorBody, triggerVars, subjectVars, subjectOfInputs
  <2>2. \A o \in Observers : pc[o] = "left"
    BY <2>1 DEF Placed
  <2> QED
    BY <2>1, <2>2 DEF HandlingInv, Placed, Every
<1>4. CASE Notify
  <2>1. /\ UNCHANGED <<subject_mutex, targets, storeVars>>
        /\ handling = "no" /\ input' >= input /\ input' \in Nat
    BY <1>1, <1>4 DEF Notify, Input!NotifyBegin, Input!NotifyEnd, triggerVars, subjectVars
  <2>2. HandlingInv'
    BY <2>1 DEF HandlingInv, storeVars
  <2>3. ASSUME NEW o \in Observers
        PROVE  Placed(o)' /\ (pc'[o] # "left" => Fresh(o)' /\ Informed(o)')
    <3>1. heard[o] \in Nat
      BY <1>1
    <3>2. Placed(o)'
      BY <1>1, <2>1, <3>1 DEF Placed, Every, storeVars
    <3> QED
      BY <2>1, <3>2 DEF Fresh, Informed, Every, Telling, storeVars
  <2> QED
    BY <2>2, <2>3
<1>5. CASE HandleInput
  <2>1. /\ UNCHANGED <<subject_mutex, targets, stage, update, input>>
        /\ handling = "no" /\ visiting' = {}
        /\ \/ handling' = "setUpdate" /\ toStore' = Cells
           \/ handling' = "no" /\ toStore' = {}
    BY <1>1, <1>5 DEF HandleInput, Input!NotifyVisit, HandlingInv, triggerVars, subjectVars
  <2>2. HandlingInv'
    BY <2>1 DEF HandlingInv
  <2>3. ASSUME NEW o \in Observers
        PROVE  Placed(o)' /\ (pc'[o] # "left" => Fresh(o)' /\ Informed(o)')
    BY <2>1 DEF Placed, Fresh, Informed, Every, Telling
  <2> QED
    BY <2>2, <2>3
<1>6. ASSUME NEW c \in Cells, Store(c)
      PROVE  ReadInv'
  <2>1. /\ UNCHANGED <<subject_mutex, targets, stage, visiting, input, handling>>
        /\ handling = "setUpdate" /\ toStore' = toStore \ {c}
        /\ update'[c] = input /\ \A d \in Cells : d # c => update'[d] = update[d]
    BY <1>1, <1>6 DEF Store, triggerVars, subjectVars, subjectOfInputs
  <2>2. HandlingInv'
    BY <2>1 DEF HandlingInv
  <2>3. ASSUME NEW o \in Observers
        PROVE  Placed(o)' /\ (pc'[o] # "left" => Fresh(o)' /\ Informed(o)')
    <3>1. Placed(o)' /\ Telling(o)'
      BY <2>1 DEF Placed, Every, Telling
    <3>2. ASSUME pc[o] # "left"
          PROVE  Fresh(o)'
      <4>1. heard[o] <= input /\ Fresh(o)
        BY <3>2 DEF Placed
      <4> QED
        BY <1>1, <2>1, <4>1 DEF Fresh
    <3> QED
      BY <3>1, <3>2 DEF Informed
  <2> QED
    BY <2>2, <2>3
<1>7. CASE TriggerTasks
  <2>1. /\ UNCHANGED <<stage, update, toStore, input, visiting>>
        /\ handling = "setUpdate" /\ toStore = {}
        /\ handling' = "trigger_all_tasks" /\ subject_mutex'[Trigger] = "triggering"
        /\ targets'[Trigger] = observers[Trigger]
    BY <1>1, <1>7 DEF TriggerTasks, TriggerBegin, subjectOfInputs
  <2>2. HandlingInv'
    BY <2>1 DEF HandlingInv
  <2>3. ASSUME NEW o \in Observers
        PROVE  Placed(o)' /\ (pc'[o] # "left" => Fresh(o)' /\ Informed(o)')
    BY <2>1 DEF Placed, Fresh, Informed, Every, Telling
  <2> QED
    BY <2>2, <2>3
<1>8. CASE Triggered
  <2>1. /\ UNCHANGED <<stage, update, toStore, input>>
        /\ handling = "trigger_all_tasks" /\ targets[Trigger] = {}
        /\ handling' = "no" /\ subject_mutex'[Trigger] = "free"
    BY <1>1, <1>8 DEF Triggered, TriggerEnd, subjectOfInputs
  <2>2. HandlingInv'
    BY <2>1 DEF HandlingInv
  <2>3. ASSUME NEW o \in Observers
        PROVE  Placed(o)' /\ (pc'[o] # "left" => Fresh(o)' /\ Informed(o)')
    BY <2>1 DEF Placed, Fresh, Informed, Every, Telling
  <2> QED
    BY <2>2, <2>3
<1> QED
  BY <1>3, <1>4, <1>5, <1>6, <1>7, <1>8

\* The steps of the tasks, of who attaches and detaches them, and the visits
\* of trigger_all_tasks().
LEMMA ReadTaskStep ==
    ASSUME InputTypeOK, ReadInv, NEW p \in Observers,
           \/ SignalTask(p) \/ Wait(p) \/ LeaveUnasked(p) \/ ExecuteStep(p) \/ Construct(p)
           \/ \E factor \in PrescaleFactors : Attach(p, factor)
           \/ /\ \/ DetachBegin(Trigger, p) \/ DetachFinish(Trigger, p)
                 \/ Cancel(p) \/ Free(p) \/ Destroy(p)
              /\ UNCHANGED inputVars
    PROVE  ReadInv'
<1> USE InputTriggerAssumption
<1>1. /\ input \in Nat /\ update \in [Cells -> 0 .. MaxInputs]
      /\ pc \in [Observers -> {"wait", "execute", "left"}]
      /\ toRead \in [Observers -> SUBSET Cells] /\ got \in [Observers -> [Cells -> 0 .. MaxInputs]]
      /\ heard \in [Observers -> 0 .. MaxInputs] /\ since \in [Observers -> 0 .. MaxInputs]
      /\ wait \in [Observers -> {"running"} \cup Blocked \cup Woken]
      /\ signalled \in [Observers -> BOOLEAN]
      /\ prescale \in [Subjects -> [Observers -> Manager]]
      /\ observers \in [Subjects -> SUBSET Observers]
      /\ targets \in [Subjects -> SUBSET Observers]
      /\ subject_mutex \in [Subjects -> {"free", "triggering", "detaching"}]
      /\ Trigger \in Subjects
      /\ \A c \in Cells : update[c] <= input
      /\ toStore # {} => handling = "setUpdate"
  BY DEF InputTypeOK, Input!InputTypeOK, TriggerTypeOK
<1>2. HandlingInv /\ Placed(p) /\ (pc[p] # "left" => Fresh(p) /\ Informed(p))
  BY DEF ReadInv
\* It suffices to look at p, and at what the step may touch of the others.
<1>3. ASSUME /\ HandlingInv' /\ Placed(p)'
             /\ pc'[p] # "left" => Fresh(p)' /\ Informed(p)'
             /\ UNCHANGED <<storeVars, input>>
             /\ \A o \in Observers : o # p =>
                   /\ UNCHANGED <<wait[o], pc[o], signalled[o], prescale[Trigger][o], toRead[o],
                                  got[o], heard[o], since[o]>>
                   /\ Telling(o) => Telling(o)'
                   /\ o \in observers'[Trigger] => o \in observers[Trigger]
      PROVE  ReadInv'
  <2>1. ASSUME NEW o \in Observers, o # p
        PROVE  Placed(o)' /\ (pc'[o] # "left" => Fresh(o)' /\ Informed(o)')
    BY <1>3, <2>1, TaskUnaffected DEF ReadInv
  <2> QED
    BY <1>3, <2>1 DEF ReadInv
<1>4. CASE SignalTask(p)
  <2>1. /\ subject_mutex[Trigger] = "triggering" /\ p \in targets[Trigger]
        /\ targets'[Trigger] = targets[Trigger] \ {p}
        /\ UNCHANGED <<subject_mutex, observers, storeVars, input, visiting, taskVars, since>>
        /\ prescale'[Trigger][p] = Counted(prescale[Trigger][p])
        /\ wait'[p] # "running" => wait[p] # "running"
        /\ IF UpdateDue(prescale[Trigger][p]) THEN signalled'[p] /\ heard'[p] = input
           ELSE UNCHANGED <<signalled[p], heard[p]>>
    BY <1>1, <1>4 DEF SignalTask, TriggerVisit, signalTrigger, NotifyAll, subjectOfInputs
  <2>2. ASSUME NEW o \in Observers, o # p
        PROVE  UNCHANGED <<wait[o], signalled[o], prescale[Trigger][o], heard[o]>>
    BY <1>1, <1>4, <2>2 DEF SignalTask, TriggerVisit, signalTrigger, NotifyAll
  <2>3. handling = "trigger_all_tasks" /\ toStore = {}
    BY <1>1, <1>2, <2>1 DEF HandlingInv
  <2>4. HandlingInv'
    BY <1>2, <2>1 DEF HandlingInv, storeVars
  <2>5. prescale[Trigger][p] \in Manager
    BY <1>1
  <2>6. Every(p)' => Every(p) /\ UpdateDue(prescale[Trigger][p])
    BY <1>2, <2>1, <2>5 DEF Every, Placed, Counted, UpdateDue, Manager
  <2>7. Every(p)' => prescale'[Trigger][p].updateCounter = 1
    BY <2>1, <2>5, <2>6 DEF Counted, Manager
  <2>8. Placed(p)'
    BY <1>1, <1>2, <2>1, <2>7 DEF Placed, storeVars, taskVars
  <2>9. ASSUME pc[p] # "left"
        PROVE  Fresh(p)' /\ Informed(p)'
    <3>1. Fresh(p)'
      BY <1>1, <1>2, <2>1, <2>3, <2>9 DEF Fresh, storeVars, taskVars
    <3>2. Informed(p)'
      BY <2>1, <2>6 DEF Informed
    <3> QED
      BY <3>1, <3>2
  <2>10. \A o \in Observers : o # p => (Telling(o) => Telling(o)')
    BY <2>1 DEF Telling, storeVars
  <2> QED
    BY <1>3, <2>1, <2>2, <2>4, <2>8, <2>9, <2>10 DEF taskVars
<1>5. CASE Wait(p) \/ LeaveUnasked(p)
  <2>1. /\ UNCHANGED <<subjectVars, subjectOfInputs, storeVars, got, historyVars>>
        /\ pc[p] = "wait"
    BY <1>5 DEF Wait, LeaveUnasked, AfterWait, waitOnTrigger, WakeNotified, WakeSpuriously,
                ReturnFromWait
  <2>2. \A o \in Observers : o # p => UNCHANGED <<wait[o], pc[o], signalled[o], toRead[o]>>
    BY <1>1, <1>5 DEF Wait, LeaveUnasked, AfterWait, waitOnTrigger, WakeNotified, WakeSpuriously,
                      ReturnFromWait, Return
  <2>3. /\ pc'[p] = IF wait'[p] # "running" THEN "wait"
                    ELSE IF status'[p] = "SMART_CANCELLED" THEN "left" ELSE "execute"
        /\ toRead'[p] = IF pc'[p] = "execute" THEN Cells ELSE {}
    BY <1>1, <1>5 DEF Wait, LeaveUnasked, AfterWait
  <2>4. wait'[p] # "running" => signalled'[p] = signalled[p] /\ toRead[p] = {}
    <3>1. toRead[p] = {}
      BY <1>2, <2>1 DEF Placed
    <3> QED
      BY <1>1, <1>5, <3>1 DEF Wait, LeaveUnasked, waitOnTrigger, WakeNotified, WakeSpuriously,
                              ReturnFromWait, Return
  <2>5. HandlingInv' /\ \A o \in Observers : Telling(o)' = Telling(o)
    BY <1>2, <2>1 DEF HandlingInv, Telling, subjectVars, storeVars, subjectOfInputs
  <2>6. Placed(p)'
    BY <1>2, <2>1, <2>3 DEF Placed, Every, subjectVars, storeVars, subjectOfInputs, historyVars
  <2>7. Fresh(p)'
    BY <1>2, <2>1, <2>3 DEF Fresh, storeVars, subjectOfInputs, historyVars
  <2>8. pc'[p] # "left" => Informed(p)'
    BY <1>2, <2>1, <2>3, <2>4, <2>5 DEF Informed, Every, subjectVars, storeVars, historyVars
  <2> QED
    BY <1>3, <2>1, <2>2, <2>5, <2>6, <2>7, <2>8 DEF subjectVars, subjectOfInputs, historyVars
<1>6. ASSUME NEW c \in Cells, getUpdate(p, c)
      PROVE  ReadInv'
  <2>1. /\ UNCHANGED <<triggerVars, subjectOfInputs, storeVars, pc, historyVars>>
        /\ c \in toRead[p] /\ toRead'[p] = toRead[p] \ {c}
        /\ got'[p][c] = update[c] /\ \A d \in Cells : d # c => got'[p][d] = got[p][d]
    BY <1>1, <1>6 DEF getUpdate
  <2>2. \A o \in Observers : o # p => UNCHANGED <<toRead[o], got[o]>>
    BY <1>1, <1>6 DEF getUpdate
  <2>3. HandlingInv' /\ \A o \in Observers : Telling(o)' = Telling(o)
    BY <1>2, <2>1 DEF HandlingInv, Telling, triggerVars, subjectVars, storeVars, subjectOfInputs
  <2>4. Placed(p)'
    BY <1>2, <2>1 DEF Placed, Every, triggerVars, subjectVars, waiterVars, storeVars,
                      subjectOfInputs, historyVars
  <2>5. pc[p] # "left" => Fresh(p)'
    BY <1>2, <2>1 DEF Fresh, triggerVars, observerVars, storeVars, subjectOfInputs, historyVars
  <2>6. pc[p] # "left" => Informed(p)'
    BY <1>2, <2>1, <2>3 DEF Informed, Every, triggerVars, subjectVars, observerVars, storeVars,
                            historyVars
  <2> QED
    BY <1>3, <2>1, <2>2, <2>3, <2>4, <2>5, <2>6
    DEF triggerVars, subjectVars, observerVars, waiterVars, subjectOfInputs, historyVars
<1>7. CASE Executed(p)
  <2>1. /\ UNCHANGED <<triggerVars, subjectOfInputs, storeVars, toRead, got, historyVars>>
        /\ toRead[p] = {} /\ pc[p] = "execute" /\ pc'[p] \in {"wait", "left"}
        /\ \A o \in Observers : o # p => pc'[o] = pc[o]
    BY <1>1, <1>7 DEF Executed
  <2>2. HandlingInv' /\ \A o \in Observers : Telling(o)' = Telling(o)
    BY <1>2, <2>1 DEF HandlingInv, Telling, triggerVars, subjectVars, storeVars, subjectOfInputs
  <2>3. Placed(p)'
    BY <1>2, <2>1 DEF Placed, Every, triggerVars, subjectVars, waiterVars, storeVars,
                      subjectOfInputs, historyVars
  <2>4. Fresh(p)' /\ Informed(p)'
    BY <1>2, <2>1, <2>2 DEF Fresh, Informed, Every, triggerVars, subjectVars, observerVars,
                            storeVars, subjectOfInputs, historyVars
  <2> QED
    BY <1>3, <2>1, <2>2, <2>3, <2>4
    DEF triggerVars, subjectVars, observerVars, waiterVars, subjectOfInputs, historyVars
<1>8. ASSUME Construct(p) \/ \E factor \in PrescaleFactors : Attach(p, factor)
      PROVE  ReadInv'
  <2>1. /\ UNCHANGED <<subjectOfInputs, storeVars, subject_mutex, targets>>
        /\ since'[p] = input
        /\ heard'[p] = heard[p] \/ heard'[p] = 0
        /\ pc'[p] # "left" => stage = "built"
    BY <1>1, <1>2, <1>8
    DEF Construct, Attach, ConstructDetached, ConstructAttached, attach, AttachTo, subjectVars,
        taskVars, Placed
  <2>2. ASSUME NEW o \in Observers, o # p
        PROVE  /\ UNCHANGED <<wait[o], pc[o], signalled[o], prescale[Trigger][o], toRead[o],
                              got[o], heard[o], since[o]>>
               /\ o \in observers'[Trigger] => o \in observers[Trigger]
    BY <1>1, <1>8, <2>2
    DEF Construct, Attach, ConstructDetached, ConstructAttached, NewObserver, attach, AttachTo,
        Return, subjectVars, waiterVars, taskVars
  <2>3. HandlingInv' /\ \A o \in Observers : Telling(o)' = Telling(o)
    BY <1>2, <2>1 DEF HandlingInv, Telling, storeVars, subjectOfInputs
  <2>4. /\ wait'[p] # "running" => pc'[p] = "wait"
        /\ pc'[p] # "execute" => toRead'[p] = {}
        /\ pc'[p] # "left" => heard'[p] <= input
    <3>1. CASE Construct(p)
      BY <1>1, <3>1 DEF Construct, ConstructDetached, ConstructAttached, NewObserver, Return
    <3>2. ASSUME NEW factor \in PrescaleFactors, Attach(p, factor)
          PROVE  UNCHANGED <<wait, pc, toRead, heard>>
      BY <3>2 DEF Attach, attach, waiterVars, taskVars
    <3> QED
      BY <1>2, <1>8, <3>1, <3>2 DEF Placed
  <2>5. Every(p)' => prescale'[Trigger][p].updateCounter = 1
    BY <1>1, <1>2, <1>8
    DEF Construct, Attach, ConstructDetached, ConstructAttached, attach, AttachTo, NewManager,
        Placed, Every, subjectVars
  <2>6. Placed(p)'
    BY <2>1, <2>4, <2>5 DEF Placed, storeVars, subjectOfInputs
  <2>7. pc'[p] # "left" => Fresh(p)' /\ Informed(p)'
    <3>1. heard[p] \in Nat
      BY <1>1
    <3>2. ASSUME pc'[p] # "left" PROVE heard'[p] <= input /\ heard'[p] \in Nat
      BY <2>1, <2>4, <3>1, <3>2
    <3>3. \A c \in Cells : ~(update[c] > input)
      BY <1>1
    <3> QED
      BY <1>1, <2>1, <3>2, <3>3 DEF Fresh, Informed, storeVars, subjectOfInputs
  <2> QED
    BY <1>3, <2>1, <2>2, <2>3, <2>6, <2>7 DEF subjectOfInputs
<1>9. CASE DetachBegin(Trigger, p) /\ UNCHANGED inputVars
  <2>1. /\ subject_mutex[Trigger] = "free" /\ subject_mutex'[Trigger] = "detaching"
        /\ UNCHANGED <<observers, prescale, signalled, wait, inputVars>>
    BY <1>1, <1>9 DEF DetachBegin, waiterVars
  <2>2. handling # "trigger_all_tasks"
    BY <1>2, <2>1 DEF HandlingInv
  <2> QED
    BY <1>2, <1>3, <2>1, <2>2
    DEF HandlingInv, Placed, Fresh, Informed, Every, Telling, inputVars, subjectOfInputs, storeVars,
        taskVars, historyVars
<1>10. CASE DetachFinish(Trigger, p) /\ UNCHANGED inputVars
  <2>1. /\ subject_mutex[Trigger] = "detaching" /\ subject_mutex'[Trigger] = "free"
        /\ p \notin observers'[Trigger] /\ observers'[Trigger] \subseteq observers[Trigger]
        /\ prescale'[Trigger][p] = NewManager(1)
        /\ wait'[p] # "running" => wait[p] # "running"
        /\ UNCHANGED <<signalled, inputVars>>
    BY <1>1, <1>10 DEF DetachFinish, cancelTrigger, NotifyAll
  <2>2. ASSUME NEW o \in Observers, o # p
        PROVE  UNCHANGED <<wait[o], prescale[Trigger][o]>>
    BY <1>1, <1>10, <2>2 DEF DetachFinish, cancelTrigger, NotifyAll
  <2>3. handling # "trigger_all_tasks" /\ UNCHANGED <<storeVars, input, visiting>>
    BY <1>2, <2>1 DEF HandlingInv, inputVars, subjectOfInputs
  <2>4. HandlingInv' /\ \A o \in Observers : Telling(o)' = Telling(o)
    BY <1>2, <2>1, <2>3 DEF HandlingInv, Telling, storeVars
  <2>5. Placed(p)'
    BY <1>2, <2>1, <2>3 DEF Placed, NewManager, storeVars, inputVars, taskVars, historyVars
  <2>6. pc'[p] # "left" => Fresh(p)' /\ Informed(p)'
    BY <1>2, <2>1, <2>3 DEF Fresh, Informed, storeVars, inputVars, taskVars, historyVars
  <2> QED
    BY <1>3, <2>1, <2>2, <2>3, <2>4, <2>5, <2>6 DEF inputVars, taskVars, historyVars
<1>11. CASE (Cancel(p) \/ Free(p) \/ Destroy(p)) /\ UNCHANGED inputVars
  <2>1. UNCHANGED <<subjectVars, signalled, inputVars>>
    BY <1>11 DEF Cancel, Free, Destroy, observerVars
  <2>2. /\ \A o \in Observers : o # p => wait'[o] = wait[o]
        /\ wait'[p] # "running" => wait[p] # "running"
    BY <1>1, <1>11 DEF Cancel, Free, Destroy, cancelTrigger, NotifyAll, waiterVars
  <2> QED
    BY <1>2, <1>3, <2>1, <2>2
    DEF HandlingInv, Placed, Fresh, Informed, Every, Telling, subjectVars, inputVars,
        subjectOfInputs, storeVars, taskVars, historyVars
<1> QED
  BY <1>4, <1>5, <1>6, <1>7, <1>8, <1>9, <1>10, <1>11 DEF ExecuteStep

LEMMA ReadStep ==
    ASSUME InputTypeOK, ReadInv, [InputNext]_allVars
    PROVE  ReadInv'
<1>1. CASE UNCHANGED allVars
  BY <1>1 DEF ReadInv, HandlingInv, Placed, Fresh, Informed, Every, Telling, allVars, triggerVars,
              subjectVars, observerVars, waiterVars, inputVars, subjectOfInputs, storeVars,
              taskVars, historyVars
<1> QED
  BY <1>1, ReadHandleStep, ReadTaskStep DEF InputNext, HandleStep

LEMMA ReadInvHolds == InputSpec => []ReadInv
<1>1. InputInit => ReadInv
  BY InputTriggerAssumption
  DEF InputInit, TriggerInit, ReadInv, HandlingInv, Placed, NewManager
<1> QED
  BY <1>1, ReadStep, InputTriggerTypes, PTL DEF InputSpec

\* What a task reads is as new as the trigger that made it read.
THEOREM UpdatesAreRecent == InputSpec => []UpdateIsRecent
<1>1. ReadInv => UpdateIsRecent
  BY DEF ReadInv, Fresh, UpdateIsRecent
<1> QED
  BY <1>1, ReadInvHolds, PTL

\* A task that sleeps has read the newest update, whole.
THEOREM NoUpdateWaitsForSleepers == InputSpec => []NoUpdateIsSleptOn
<1>1. TriggerInv /\ InputTypeOK /\ ReadInv => NoUpdateIsSleptOn
  <2> SUFFICES ASSUME TriggerInv, InputTypeOK, ReadInv, handling = "no",
                      NEW o \in Observers, Waiting(o), Every(o)
               PROVE  \A c \in Cells : update[c] > since[o] => got[o][c] = update[c]
    BY DEF NoUpdateIsSleptOn, Every
  <2>1. o \in observers[Trigger]
    BY InputTriggerAssumption DEF TriggerInv, AttachmentAgrees, Waiting
  <2>2. ~signalled[o] /\ pc[o] = "wait" /\ toRead[o] = {}
    BY DEF TriggerInv, NoLostWakeup, Waiting, ReadInv, Placed, Blocked
  <2> QED
    BY <2>1, <2>2 DEF ReadInv, Informed, Telling
<1> QED
  BY <1>1, ReadInvHolds, InputTriggerTypes, InputTriggerIsTrigger, TriggerSafety, PTL

=============================================================================
