# SmartSoft component developer API: TLA+ models and proofs

The repository is a header-only C++ library (`src/SmartSoft_CD_API/*.h`). Most
of it is pure virtual interfaces that a middleware implements. What it does
itself is small and concurrent: observers that attach and detach while
another thread notifies them, tasks that sleep on condition variables and are
woken, cancelled, shut down and destroyed by other threads. The models are
about that part.

Contents: [inventory](#inventory), [modules](#modules),
[reading the models](#reading-the-models), [runs](#runs), [fairness](#fairness),
[proofs](#proofs), [disagreements](#where-code-and-comments-disagree),
[limits](#what-is-not-modelled-and-why), [plan](#plan).

## Inventory

Each component with its state, its operations, how it meets the others, what
is hard about it and what makes it correct. File names are those of
`src/SmartSoft_CD_API`.

### PrescaleManager (`smartPrescaleManager.h`)
* State: `prescaleFactor` and `updateCounter`, both `unsigned int`.
* Operations: conversion constructor, `isUpdateDue()`.
* Used by: `TaskTriggerSubject` and `InputSubject`, one manager per observer,
  under the mutex of the subject.
* Hard: the counter wraps; a factor 0 is only met after it did.
* Correct when: exactly every n-th update is let through.

### Task trigger (`smartTaskTriggerObserver.h`)
* State of a `TaskTriggerSubject`: `subject_mutex` and a map from observers to
  prescale managers. State of a `TaskTriggerObserver`: a pointer to its
  subject, `trigger_cancelled`, `signalled`, a mutex and a condition variable.
* Operations: `attach`, `detach`, `trigger_all_tasks` (subject);
  `waitOnTrigger` with and without a timeout, `signalTrigger`,
  `cancelTrigger`, `setSubject`, constructor, destructor (observer).
* Interactions: the subject calls observers with its own mutex held. The
  observer's constructor attaches it, its destructor detaches it.
  `IManagedTask` is an observer; the timed, input and query triggers are
  subjects.
* Hard: the flags are tested once, before the wait, and not after it. An
  observer is destroyed while the subject walks its map. `detach` is not
  atomic: pointer first, then cancellation, then the map entry.
* Correct when: no wakeup is lost, nobody sleeps in an observer no subject
  lists, no subject refers to a destroyed observer, a timeout loses no trigger.

### Tasks (`smartITask.h`, `smartIManagedTask.h`)
* State: the thread of the task, how far it is in `task_execution()`, the
  request to stop.
* Operations: `task_execution` with the user's hooks `on_entry`, `on_execute`,
  `on_exit`; `on_shutdown` = `stop(false)`, `cancelTrigger()`, `stop(true)`.
  `start`, `stop`, `test_canceled` are pure virtual.
* Interactions: `waitOnTrigger` of the task trigger; the shutdown observer
  calls `on_shutdown`.
* Hard: the shutting-down thread joins one that may be asleep or about to be.
* Correct when: shutdown always ends, no user code runs after it, at most one
  execution is begun after the request to stop, every trigger is served.

### Input handlers (`smartIInputHandler_T.h`)
* State: a map from handlers to prescale managers under a (non-recursive)
  mutex.
* Operations: `attach`, `detach`, `notify_input`; constructor and destructor of
  a handler attach and detach it.
* Hard: handlers run with the mutex held. A handler is attached by its base
  constructor, before its own part exists, and detached by its base destructor,
  after that part is gone: a pure virtual `handle_input` can be called.
* Correct when: an attached handler gets every due input once, in order; no
  handler is reached after its base destructor; `notify_input()` returns.

### Active queue (`smartIActiveQueueInputHandlerDecorator_T.h`)
* State: `input_list`, `cancelled`, mutex, condition variable, a thread; the
  pointer to the inner handler.
* Operations: constructor (attach itself, detach the inner handler),
  `handle_input`, `process_queue_entry`, `cancel_processing`,
  `processing_cancelled`, `task_execution`, `on_shutdown`, destructor (attach
  the inner handler again).
* Hard: list and flag are tested in different critical sections, the wait is
  not in a loop, the inner handler is called with the mutex held, and the
  handover between the two handlers takes several steps.
* Correct when: inputs arrive once and in order, none is slept on, none falls
  between the two handlers, shutdown ends.

### Shutdown observer (`smartIShutdownObserver.h`)
* State: the list of observers of a `ShutdownSubject` under a mutex; a pointer
  to the subject in each observer.
* Operations: `attach`, `detach`, `notify_sutdown`; constructor and destructor
  attach and detach.
* Hard: `on_shutdown()` joins threads with the mutex held; a thread that
  creates or destroys an observer on its way out waits for that mutex. Base
  classes attach an observer too early and detach it too late.
* Correct when: shutdown of the component ends, every task has been joined by
  then, ports are disconnected (not always: see [below](#where-code-and-comments-disagree)),
  and `on_shutdown()` is called on whole observers only.

### Other triggers
* `InputTaskTrigger` (`smartInputTaskTrigger.h`): keeps the last update and its
  status, triggers tasks with each input. `setUpdate` and `getUpdate` take no
  lock: a data race. Correct when: what a task copies is not older than what it
  was triggered for, and an update it was attached for is never slept on.
* `QueryServerTaskTrigger` (`smartQueryServerTaskTrigger_T.h`): a list of
  requests under a mutex, which is held across the trigger of each request. Tasks
  take requests with `consumeRequest()`. Hard: triggers coalesce in one flag per
  task, requests do not; tasks come and go. Correct when: each request is consumed
  once, and none is slept on by a task that could serve it.
* `TimedTaskTrigger` (`smartTimedTaskTrigger.h`): `timerExpired()` calls
  `trigger_all_tasks()` and nothing else.
* `TaskInteractionSubject` (`smartITaskInteractionObserver.h`): used by nothing
  (its only caller has it commented out).

### Interfaces
The push, send, query and event patterns, their bases, `IComponent`,
`ITimerManager`, the communication objects and the universal identifiers are
pure virtual, or delegate one call to a pure virtual one. What code the patterns
bring is in their constructors and destructors: a port is a shutdown observer,
a client is connected by its constructor or by its user and a server by its
constructor, `on_shutdown()` disconnects either; some ports are an
`InputSubject`; the handlers of events, queries and sends have one more class
between `IInputHandler` and the user's, that hands the parts of the input on.
`smartStatusCode.h` is an enumeration and its text, `smartQueryStatus.h` an
enumeration.

## Modules

| module | models | extends |
|---|---|---|
| `PrescaleManager` | the counter as operators, at its width | |
| `StatusCodes` | the status codes and the text that is printed for one; a dictionary, of which nothing is claimed | |
| `TaskTrigger` | subjects and observers of a task trigger | `PrescaleManager`, `StatusCodes` |
| `ManagedTask` | the threads of managed tasks and their shutdown | `TaskTrigger` |
| `InputSubject` | `attach`, `detach`, `notify_input` of an input subject | `PrescaleManager` |
| `ActiveQueue` | the decorator, its thread, the inner handler, its owner | `InputSubject` |
| `InputChannel` | what a handler may rely on (abstract) | |
| `RequestService` | what the clients of a query server may rely on (abstract) | |
| `TaskLife` | the life of a task: what whoever owns and shuts down tasks has to respect (abstract) | |
| `QueryServerTaskTrigger` | the request list, `handleQuery()`, and tasks that consume and answer requests | `TaskTrigger` |
| `InputTaskTrigger` | the last update word by word, `handle_input()`, the constructor, and tasks that call `getUpdate()` | `TaskTrigger`, an instance of `InputSubject` |
| `CommunicationPatterns` | the classes of ports and handlers: how they are connected, what is an `InputSubject`, the constructors of a handler | |
| `InputPorts` | ports that are notified by threads of their own, and the life of handlers of any class | `PrescaleManager`, `CommunicationPatterns` |
| `ComponentShutdown` | the list of shutdown observers, `notify_sutdown()`, threads that construct and destroy observers and connect ports | `CommunicationPatterns` |
| `MCTaskTrigger`, `MCQueryServer`, `MCInputTrigger` | symmetry sets and names of the instances | the above |
| `MCComponentShutdown`, `MCInputPorts` | who constructs and uses which observer or handler in the instance, and its class | the above |
| `PrescaleProofs`, `TaskTriggerProofs`, `ManagedTaskProofs`, `ActiveQueueProofs`, `ComponentShutdownProofs`, `QueryServerProofs`, `InputTaskTriggerProofs`, `InputPortsProofs` | the theorems | the above |

Refinements tie them together. Every step of `ManagedTask`, of
`QueryServerTaskTrigger` and of `InputTaskTrigger` is a step of `TaskTrigger` (or
leaves it alone), so what holds of triggers holds of the triggers of tasks, of the
query server's and of the input trigger's. `ActiveQueue` implements `InputChannel`: `arrived` is the
number of the last input, `offered` says that the loop of `notify_input()` has
somebody left to reach, `pending` is the list without the entry being handled,
`delivered` is what the inner handler was called with.
`QueryServerTaskTrigger` implements `RequestService`, in which requests are numbers:
the last that arrived, the last that was taken (`arrived - Len(requestList)`), what
each task is serving (`answering`), what was answered.

`TaskLife` is where the modules about single tasks meet the one about the component.
`ManagedTask` and `ActiveQueue` are models of one kind of task each, and take from
their callers what `TaskLife` says: it is in the guards of construction, start,
shutdown and destruction there ([callers](#reading-the-models)), so nothing is claimed
of it in these modules. `ComponentShutdown` is a model of the callers, with tasks of
which it knows only that `on_shutdown()` tells the thread to stop and returns when it
has. Its threads start a task once and destroy none that runs, but look at nothing of
the shutdown, and are shown to keep `TaskLife` all the same: in any component nobody
starts a task that its shutdown has reached, shuts one down twice or before it is
whole, or destroys one that is being shut down. It says nothing about the steps in
between: the models are not composed.

In `ComponentShutdown` the list is represented by its
entries and the pairs `before`, "comes earlier than"; the iterator of the loop by
the entries it has not reached (`remaining`), which is all of it because the list
cannot change while the mutex is held.

`InputTaskTrigger` composes both kinds of subject: it is the handler of an
`InputSubject`, and of each input it makes a trigger of its own tasks, with
`observers_mutex` held across both.

`InputPorts` says what `InputSubject` leaves open: several subjects, handlers that
come and go while `notify_input()` runs, each of their constructors and
destructors a step. It repeats the operations of `InputSubject` with one value per
port. A handler may construct and destroy handlers when it is called, of its own
port or of another, which is where the mutexes of ports can wait for each other.

## Reading the models

**Names.** Variables have the names of the members they stand for, actions
those of the functions, as far as they are one action; a split function has a
suffix (`DetachBegin`, `DetachFinish`). `PROJECT.json` maps each definition to
the lines it models. Definitions marked "for mutants" are altered forms of the
definition after them: each property is violated when one of them takes the
place of the original, which shows that the property depends on the code.

**Locks.** A critical section that makes no call on another object is one
action. `subject_mutex` and `observers_mutex` are held across calls, so they are
variables that say what the holder is doing; any number of threads may want
them, and since none does anything before it has the mutex, there is nothing to
model of a thread that waits for it. In `InputPorts` there is: the thread of a port
that waits in a handler's constructor for the mutex of another port holds its
own. `requestMutex` is a variable for the same
reason: `handleQuery()` triggers the tasks, and takes `subject_mutex`, with it
held. `input_mutex` of the queue is held across
the call of the inner handler only and is free exactly when the thread is not
`"handling"`.

**Condition variables.** A thread in a wait is `"blocked"` (`"waiting"` in the
queue). A notification makes it `"woken"`; then it has to get the mutex again,
and others may go first. `SpuriousWakeups` adds returns without a notification,
which C++ allows. A timed wait may give up at any moment, also when a
notification has arrived.

**Memory.** Only `InputTaskTrigger` has a data race. Its copies are modelled cell by
cell in any order, a cell being a word of the update or the status; a single cell is
never half-written. In C++ the race is undefined behaviour; the model has the
outcomes of a build that does what the source says. An update has no pointers in it
that copying would have to follow.

**Callers.** The models need callers that respect what the code relies on and
does not test:
* an observer is attached only while attached nowhere, detached from the subject
  it points to, called only while it is alive, and destroyed when no call on it
  is under way; one thread waits on each observer;
* a task or queue is started at most once and not once its shutdown has begun,
  and is shut down at most once;
* `CarefulOwner` of the queue: its thread has ended, or never began, before
  the destructor; `EarlyInputs` says whether inputs arrive while the decorator
  is being constructed or destroyed;
* the tasks of the query server are user code: the ones modelled consume and answer
  requests until `consumeRequest()` returns `SMART_NODATA`, are destroyed when they
  have left their loop, and the trigger outlives them and the requests;
* the tasks of the input trigger copy the update once in each execution and are
  constructed when the trigger is;
* ports outlive their handlers; each handler is constructed and destroyed by one
  thread, that of a port doing so only inside a call it makes;
* shutdown observers are constructed and destroyed by `main()` before or after
  `notify_sutdown()`, which it runs once, and by the threads of tasks at any
  time; a thread destroys what it has constructed, or leaves that to `main()`; a
  task goes after its thread has ended and what that constructed is gone.

`CarefulOwner` and `EarlyInputs` are constants, so that each property says how far it depends on
them.

**External parts.** `start()`, `stop()` and `test_canceled()` are pure virtual.
From their use: `stop` makes `test_canceled` true for good, `stop(true)` returns
when there is no running thread. User hooks and inner handlers return, possibly
with an error.

**Histories.** `late` (executions begun after the request to stop), `handled`
(inputs the inner handler was called with), `fault` (the first undefined step,
after which the model stops), `delivered`, `shut` (observers whose
`on_shutdown()` has returned), `answered`, `since` (the last request or input before
a task or handler was attached), `heard` (the input a task was last triggered
for) and `got` in `InputPorts` (calls of a handler) are not in the program; requests are named by the order of
their arrival, which `arrived` counts.

## Runs

| run | instance | distinct states | shows |
|---|---|---|---|
| `task_trigger` | 2 subjects, 2 observers, factor 0 of a 1-bit counter, spurious wakeups | 731,804 | no lost wakeup, no orphaned waiter, attachments agree, no use after destruction, timeouts lose nothing, `SMART_OK` has a reason; the inductive invariant |
| `managed_task` | 1 task, 1 subject, factors 0 to 2, spurious wakeups | 5,944 | at most one late execution, quiet after shutdown, no join of a sleeper, refinement of `TaskTrigger`; shutdown ends, triggers are served, a waiter about to be called returns |
| `active_queue` | 6 inputs, factors 0 to 2, careful owner | 4,623 | nothing undefined happens, refinement of `InputChannel`, no input slept on, inputs handled, `notify_input()` returns |
| `handover` | 4 inputs, at any time; careless owner; spurious wakeups | 17,769 | each undefined step has its one cause; no input falls between the handlers before the first undefined step |
| `component_shutdown` | a chain of task, subtask, port; a second task with a port; a client both use | 105,904 | `on_shutdown()` on whole observers only, everything shut and nothing running afterwards, who alone connects a port again, refinement of `TaskLife`, the one way to hang |
| `query_server` | 2 tasks, factor 1, 2 requests, spurious wakeups | 423,390 | refinement of `RequestService`: first come, first served, each request by one task; none is slept on |
| `query_liveness` | 1 task, factors 0 to 2, 3 requests, spurious wakeups | 20,328 | a task that goes on serving answers every request since its attachment |
| `input_trigger` | 1 task, 1 word, 3 inputs, factors 1 and 2 on either side, spurious wakeups | 324,785 | a copy is as recent as its trigger, no update is slept on, every update or a later one is seen |
| `input_ports` | 2 ports, 5 handlers of all classes, 2 inputs each, factor 0 of a 1-bit counter | 130,040 | no freed handler is touched, every n-th input, the one way for `notify_input()` to hang |
| `shutdown_hangs`, `queue_shutdown`, `torn_update` | smallest, or as above | | [disagreements](#where-code-and-comments-disagree) |

The type invariants of `ManagedTask`, `ActiveQueue` and `InputPorts` say nothing but
types; they are proved (`TaskTypes`, `QueueTypes`, `PortTypes`) and not part of a run.
That of `TaskTrigger` is a conjunct of `TriggerInv`.

**Why the bounds are enough.** Two observers are what `trigger_all_tasks()`
needs to be between two calls, and what destruction needs to hit one while the
other is being signalled; observers do not otherwise interact. Two subjects let
one detach an observer the other already has. Counter widths of 1 to 2 bits
contain the wrap-around and a factor larger than 1; the only thing the width
decides is when a factor 0 is met. Observers and tasks are interchangeable, so
symmetry is sound; it is used in `task_trigger` and `query_server`, which check no
liveness property (`ServesInOrder` is about steps, and treats all tasks alike). Tasks meet at `subject_mutex` only, and a task's
own behaviour is the same whoever else is attached, hence one task in
`managed_task`; the theorems about it are for any number. Two tasks are what
competition for a request needs, and two requests are what two triggers that
coalesce need; `query_liveness` has a third, which may find the task anywhere in
serving the first two. It has one task because with two, the other one could be
attached and detached for ever and keep `handleQuery()` from `subject_mutex`. The chain of
owners in `component_shutdown` is two deep, so that a thread that is joined
joins nobody but owns an owner, and the other task makes the order of the list
vary; the port both use is constructed before one of its users and after the other.
In `input_ports` one handler is constructed and destroyed by each port's thread on
the other port, which makes the cycle, one by a port's thread on its own port,
which makes a port wait for itself, and one of each port by the main thread, which
makes the window of a half-constructed handler. A factor 0 of a 1-bit counter has
period 2 and wraps around; the theorem is about every other one. In `input_trigger`
three inputs are what it takes for one to be stored while another is copied and a
third is waiting; a second word would only repeat the first, and is in `torn_update`,
where it matters. The one task is enough for the same reason as in `managed_task`,
and it is one also because `std::mutex` is not fair. Six inputs let
the queue grow, drain and grow again around each phase of its life. The
wait/notify protocols have no counters, hence no other bound: their state spaces
are complete for the instance. What the instances leave open, more objects and
wider counters, is what the theorems are for.

**Deadlock** is checked for triggers, tasks and the query server: an observer can
always be destroyed and made again. It is switched off for the queue (its life and its
inputs end), for `ComponentShutdown` (once it is over nothing needs to happen, and
it may hang) and for `InputPorts` (its inputs end, ports may wait for each other,
and it stops at an undefined call).

## Fairness

Weak fairness (with two exceptions, the last items), and only for threads that are
in the middle of something:
* who holds a subject's mutex goes on (loop, end of loop, second half of
  `detach`), and a notified waiter gets to run;
* the thread of a task or queue goes on, also one that serves queries, which
  assumes that user hooks and inner handlers return;
* who runs `on_shutdown()`, `notify_input()`, `handleQuery()` or `notify_sutdown()` goes on, and so
  does a constructor or destructor of a shutdown observer when the mutex is free;
* a task's thread that was told to stop ends some time if it can end again and
  again: strong fairness, since it may be constructing and destroying things in
  between. It is what `test_canceled()` is for. It is an assumption about the tasks of
  the component, and one that the queue does not meet: as `queue_shutdown` shows, its
  thread may sleep through `cancel_processing()`. `HangsOnlyOnItself` is about
  components without such a task; `ShutdownCompletes` says that managed tasks meet it;
* the thread of a port goes on through the loop and through the constructors and
  destructors its handlers call, and gets an `observers_mutex` that is free again
  and again; what a handler constructs and destroys does not go on for ever:
  strong fairness of either, per port.

Nothing is assumed to come from outside: no trigger, no input, no attachment, no
destruction, no spurious wakeup, no timeout. No fairness among threads that wait
for the same mutex is assumed in `TaskTrigger`: `HolderReleasesWaiter` speaks of
waiters the holder of the mutex is already about to call. Six progress properties
do need that a thread gets a mutex others keep taking: `ShutdownCompletes`
(`cancelTrigger()` against the task's own thread, each taking `observer_mutex`
for an instant), `RequestAnswered` (`handleQuery()` against attachments of the
task that is to serve), `UpdateSeen` (`handle_input()` against the same),
`HangsOnlyInCycle` (a handler's constructor against the notifications of another
port) and, in the queue, `NotifyCompletes` and `AcceptedIsHandled`
(`input_mutex`). There weak fairness is enough in the queue because the stream
of inputs pauses, which `MaxInputs` stands for. `std::mutex` does not promise
fairness under an endless stream; neither do the models.

## Proofs

Checked by TLAPS for every value of the constants that satisfies the named
assumptions (`UIntSizeAssumption`, `TaskTriggerAssumption`,
`DefaultPrescaleAssumption`, `InputSubjectAssumption`, `ActiveQueueAssumption`,
`OwnerAssumption`, `ServerAssumption`, `InputTriggerAssumption`,
`InputPortsAssumption`); any number of subjects, observers and
tasks, any counter width of at least two values.

* `PrescaleProofs`: `EveryNthUpdate`, about one `isUpdateDue()`: the count towards
  the next update (`Counting`) goes up by one or, exactly at the end of a period,
  back to zero. The two cases are a counter that meets the factor and one that does
  not, the latter with its wrap-around.
* `TaskTriggerProofs`: `TriggerSafety` and its consequences. `NoOrphanedWaiter`
  is not inductive: a sleeping thread is in danger when `detach` erases the
  entry, and it is safe because that step also cancels it. This needs the
  target of a `detach` under way to be in the map (`HolderCallsListed`), which in
  turn needs `NoUseAfterDestroy` and `AttachmentAgrees` for the destructor. So
  `TriggerInv` is the conjunction of all of them with the types.
  `NoTriggerIsForgotten` needs the types only. `OkIsNeverForNothing` needs
  that a woken thread has one of its flags set.
* `ManagedTaskProofs`: `TaskImplementsTrigger` maps each step to a step of
  `TriggerNext` or a stutter. `LateExecutionsAreBounded` needs that no
  execution is late before the request to stop, and that after a late one
  the thread cannot be back in the wait. `ShutdownLeavesQuiet` needs that the
  thread is inside the trigger only at the wait of its loop.
  `ShutdownJoinsNoSleeper` is the safety half of `ShutdownCompletes`: from the
  return of `cancelTrigger()` on, `trigger_cancelled` is set (`CancelledInv`), and
  with `TriggerInv` no sleeper has it set. It depends on nothing resetting that flag
  but a new constructor.
* `ActiveQueueProofs`: `NoInputIsSleptOn` for every owner.
  `LifeInv` says for every owner which of the two handlers is attached at which point
  of the decorator's life, and what a loop of `notify_input()` has left to reach.
  `UndefinedHasACause` makes each undefined step depend on its one cause, and on
  no other condition. A woken thread finds an entry or processing cancelled
  (`WokenForAReason`), because `cancelled` is tested after the wait; so only one that
  nobody notified takes the front of an empty list. An owner that has called
  `on_shutdown()` has waited for it and has no thread left, so only one that never
  did destroys the decorator under its thread (also under one that waits in the
  condition variable). `NothingIsUndefined` is its corollary for an owner that is careful on all
  counts. `NoInputIsMissed` has the same freedom (inputs at any time, spurious
  wakeups, any owner) and assumes only that the inner handler asked for every input
  (`InnerFactors \subseteq {1}`), since decoration loses its factor. Its invariant
  follows the input of a loop under way: the inner handler has it or is going to get
  it, or the decorator is whole and has it in its list or is going to. An entry
  that is popped has been handled (`HandledFirst`), and the members of the
  decorator, with the list, outlive the loop because `DestroyBody` needs
  `observers_mutex` first.
  `OrderIsKept` (the refinement of `InputChannel`) assumes `~EarlyInputs` and
  `CarefulOwner`, for the reasons [below](#where-code-and-comments-disagree); its
  invariant says in addition that at most one handler is left to visit and that the
  list is empty while the inner handler is attached itself.
* `ComponentShutdownProofs`: `WholeObserversAreCalled` and
  `NothingIsLeftRunning`, for any ownership. Neither is inductive. A call is safe
  because the task whose thread works on an observer is earlier in the list
  (`OwnerComesFirst`, from the order of construction) and because everything
  earlier has been joined (`Loop`). A thread cannot start behind the loop,
  because what starts it would have to be behind the loop too.
  `PatternsStayDisconnected` is about steps. It needs that the loop calls each
  observer once and that one under construction has not been called (`CalledOnce`),
  and that a running thread belongs to a task the loop has yet to reach or to call,
  behind everything it is over with (`RunningComesLater`). `ComponentKeepsTaskLife`
  needs `CalledOnce` too, and that whoever could start a task the loop has called is itself
  joined by then (`CalledIsNotStarted`).
* `QueryServerProofs`: `RequestsAreServedInOrder` is the refinement of
  `RequestService`: a request is taken when it leaves the list. The type invariant,
  which contains the order of the list, makes the front of the list the next number;
  `EachRequestOnce`, proved from it, says that what was taken is with one task or
  answered. `NoRequestWaitsForSleepers` is not inductive: a request is
  stored before the tasks are told of it, one after the other, and a task may be anywhere in its loop. `HeardInv` says that an attached task that asked
  for every trigger has, while an unheard-of request is in the list, its flag set, a
  wakeup under way, or an execution in progress, unless it is still to be visited by
  the trigger under way. It holds because a task leaves `on_execute()` only with an
  empty list, because `waitOnTrigger()` tests the flag before it sleeps, and because
  `requestMutex` is held across the trigger (`TriggersUnderLock`).
* `InputTaskTriggerProofs`: `InputTriggerIsTrigger` maps each step to a step of the
  trigger or a stutter, which gives `TriggerInv`. `UpdatesAreRecent` and
  `NoUpdateWaitsForSleepers` need it: the trigger comes after the last cell is
  stored and under `observers_mutex`, so a cell can only be newer than what a task
  was signalled for, and a task that has copied something older has its flag set, is
  executing, or is still to be visited. An input that was being handled when the
  task was attached is excepted.
* `InputPortsProofs`: `PortTypes`, `NoFreedHandlerIsTouched`, `InputsAreCounted`, for
  any ports, handlers, classes and owners. The invariant adds that calls are made
  with the mutex held and that nothing is left to visit without it (the loop and
  the call are inside the lock), which is what makes `detach()` safe: it can only
  run when its port is not notified. `InputsAreCounted` rests on `EveryNthUpdate`.

**Only model-checked:** the liveness properties (`HolderReleasesWaiter`,
`ShutdownCompletes`, `TriggerServed`, `AcceptedIsHandled`, `NotifyCompletes`,
`HangsOnlyOnItself`, `RequestAnswered`, `UpdateSeen`, `HangsOnlyInCycle`), which are beyond the
prover. Of three of them the safety half is proved: nobody is joined asleep
(`ShutdownJoinsNoSleeper`), no request and no update is slept on. Every invariant and
action property, and every refinement, that a passing run checks is a theorem. No
model uses a recursive definition, so nothing is lost to induction over data.

## Where code and comments disagree

Each of these is a run that ends in a counterexample.

* `queue_shutdown`. `process_queue_entry()` waits without looking at `cancelled`.
  If `cancel_processing()` comes between the thread's test of `cancelled` and
  its wait, its notification finds no waiter; the thread sleeps until the next
  input, and `on_shutdown()` with it. The comments promise to "release all waiting
  processing calls".
* `shutdown_hangs`. `notify_sutdown()` joins threads with `observers_mutex` held. A
  thread that has been told to stop and then destroys a port of its own, which is
  the documented "clean-up" of "local resources", waits in `detach()` for that
  mutex. `HangsOnlyOnItself` says that this is the only way for it to hang.
* `torn_update`. `getUpdate()` takes no lock, and the status it returns may be of
  another input than the words it copies: with `SMART_OK` a task gets a mixture of
  two updates, which is no "copy of the last update". `UpdateIsRecent` and
  `NoUpdateIsSleptOn` say what is left: no part is older than the trigger, and the
  mixture is replaced when the next trigger is served.

More are contained in the models but have no run of their own. The wait of the
queue is under an `if`: after a spurious wakeup `front()` is taken of an empty list,
where the comment promises to block "until new entries arrive"
(the first cause in `FaultsHaveCauses`). The wait in
`waitOnTrigger()` is under an `if`, too: after a spurious wakeup it returns
`SMART_OK` with nothing signalled, and a task executes without a trigger
(the exception in `OkReportsAnEvent`). The destructor of the decorator is
documented to stop the thread and does not (`CarefulOwner` is there for that). A wait
that is blocked when it is cancelled returns `SMART_OK` rather than
`SMART_CANCELLED`, which is where the one late execution of `AtMostOneLateExecution` comes
from. An input between the two attachments in the constructor of the decorator is
handled by the inner handler and put into the list, from which it is handled again,
possibly after inputs that came later; hence `~EarlyInputs` in `OrderIsKept`. The constructor of the
decorator is documented to start the thread and does not (`Start` is the
owner's step). A handler with a prescale factor loses it when it is decorated and
does not get it back (both attach with factor 1).

A client can be connected when the shutdown is over. `on_shutdown()` of a client "is to
call disconnect()" (`smartIClientPattern.h:75`), and after `notify_sutdown()` "client-
and server-ports, as well as tasks" are meant to have cleaned up
(`smartIShutdownObserver.h:175`). But a client that was constructed before a task that
uses it is shut down first, that task's thread may connect it again until it is
stopped, and stopping it disconnects nothing. `StaysDisconnected` says that this is
the only way to it: a client constructed after all tasks that use it is disconnected
for good. The model has no property that forbids the outcome, which the instance
reaches with `shared` and `other`.

## What is not modelled, and why

* The user API of the patterns, of `IComponent`, the timer manager and the
  communication objects: pure virtual, no code here. Identifiers
  (`smartIUniversalId_T.h`) hand every comparison to the implementation.
* `TimedTaskTrigger`: `timerExpired()` is `trigger_all_tasks()`, which the tasks of
  `ManagedTask` already get at any time.
* The return value of `notify_input()`, which says whether any handler is attached: no
  caller in the repository uses it.
* The contents of inputs, requests and communication objects: inputs are numbers.
* `TaskInteractionSubject`: unused. It is the observer pattern of `InputPorts` without
  prescaling, and its observers do not detach themselves when they are destroyed.
* The connection of a port to its peer: `connect()`, `disconnect()` and
  `serverInitiatedDisconnect()` are pure virtual, and taken to return.
* Memory: addresses are reused (`Observers` are addresses, and an observer can
  be constructed where another one was), but there is no allocation failure.
* Exceptions: the library throws none, and user hooks are taken not to throw.
* A second `on_shutdown()`, a restart of a task, an observer attached to two
  subjects: the code leaves them to the caller, and so do the models.

## Plan

What would add most next:

1. The safety half of `HangsOnlyOnItself` and `HangsOnlyInCycle`: in every state in
   which nobody waits for a mutex of its own making some step of the loop is
   possible. It needs a least element of a finite order.
2. `TaskLife` as the interface of a composition: `ComponentShutdown` with the
   steps of `ManagedTask` between the call and the return of `on_shutdown()`.
3. `InputSubject` as an instance of `InputPorts` with one port, so that
   `ActiveQueue` rests on the same operations.
4. `TaskInteractionSubject`, once something uses it.
