-------------------------- MODULE ComponentShutdown --------------------------
(***************************************************************************)
(* ShutdownSubject and IShutdownObserver (smartIShutdownObserver.h): the   *)
(* component keeps a list of its tasks and communication patterns, and     *)
(* calls on_shutdown() of one after the other before it goes down.  The    *)
(* observers are constructed and destroyed by the main thread, outside of  *)
(* notify_sutdown(), and by the threads of the tasks at any time.          *)
(*                                                                         *)
(* Granularity.  observers_mutex is held through the whole notify_sutdown; *)
(* the other two critical sections, attach() and detach(), are one step    *)
(* each.  The list is modelled by the set of its entries and their order.  *)
(* An observer is attached by its base constructor, before its             *)
(* on_shutdown() exists, and detached by its base destructor, after it is  *)
(* gone.  An observer constructed without a subject takes no part.         *)
(*                                                                         *)
(* External.  What the threads do, start() and stop() (see ManagedTask),   *)
(* and connect(), disconnect() and serverInitiatedDisconnect() of a        *)
(* pattern, which are taken to return with it connected or disconnected.   *)
(*                                                                         *)
(* Callers.  The main thread runs notify_sutdown() once.  An observer is   *)
(* destroyed by the thread that constructed it, or by the main thread when *)
(* that thread is not running; a task when its thread is not running and   *)
(* what that constructed is gone.                                          *)
(***************************************************************************)
EXTENDS CommunicationPatterns

CONSTANTS Tasks,      \* observers that are tasks
          Patterns,   \* observers that are client or server patterns
          Class,      \* the class of a pattern
          Main,       \* the main thread
          Owner,      \* the thread that constructs the observer, Main or a task's
          Users       \* the threads that connect and disconnect a pattern

Observers == Tasks \cup Patterns

ASSUME OwnerAssumption ==
    /\ Tasks \cap Patterns = {}
    /\ Main \notin Observers
    /\ Owner \in [Observers -> Tasks \cup {Main}]
    /\ Class \in [Patterns -> PortClass]
    /\ Users \in [Patterns -> SUBSET (Tasks \cup {Main})]

VARIABLES
    observers,   \* the entries of the list ShutdownSubject::observers
    before,      \* their order: pairs of an entry and a later one
    shutdown,    \* "idle", "notifying" with observers_mutex held, "done"
    remaining,   \* what notify_sutdown() has not called yet
    calling,     \* the observer whose on_shutdown() it is in, if any, as a set
    life,        \* how much of an observer exists
    pc,          \* the thread of a task
    canceled,    \* what its test_canceled() returns
    connected,   \* patterns that are connected
    shut         \* observers whose on_shutdown() has returned (history)

listVars     == <<observers, before>>
notifyVars   == <<shutdown, remaining, calling, shut>>
threadVars   == <<pc, canceled>>
shutdownVars == <<listVars, notifyVars, life, threadVars, connected>>

ShutdownInit ==
    /\ observers = {}
    /\ before    = {}
    /\ shutdown  = "idle"
    /\ remaining = {}
    /\ calling   = {}
    /\ life      = [o \in Observers |-> "none"]
    /\ pc        = [t \in Tasks |-> "new"]
    /\ canceled  = [t \in Tasks |-> FALSE]
    /\ connected = {}
    /\ shut      = {}

-----------------------------------------------------------------------------
(***************************************************************************)
(* Construction and destruction.                                           *)
(***************************************************************************)

MutexFree == shutdown # "notifying"

Running(thread) == IF thread = Main THEN MutexFree ELSE pc[thread] = "running"

\* In a constructor or destructor: the thread that runs it does nothing else.
InTransit(o) == life[o] \in {"entering", "base", "stripped"}

\* The thread of the owner can begin something with o.
Idle(thread) == Running(thread) /\ \A o \in Observers : Owner[o] = thread => ~InTransit(o)

Live(o, stage) == life' = [life EXCEPT ![o] = stage]

\* A constructor is entered.  The address may be one that was used before.
Construct(o) ==
    /\ life[o] = "none"
    /\ Idle(Owner[o])
    /\ Owner[o] = Main => shutdown = "idle"
    /\ Live(o, "entering")
    /\ pc' = IF o \in Tasks THEN [pc EXCEPT ![o] = "new"] ELSE pc
    /\ canceled' = IF o \in Tasks THEN [canceled EXCEPT ![o] = FALSE] ELSE canceled
    /\ shut' = shut \ {o}
    /\ UNCHANGED <<listVars, shutdown, remaining, calling, connected>>

\* A list that grows at the front (for mutants).
AttachInFront(o) ==
    /\ life[o] = "entering"
    /\ MutexFree
    /\ observers' = observers \cup {o}
    /\ before' = before \cup ({o} \X observers)
    /\ Live(o, "base")
    /\ UNCHANGED <<notifyVars, threadVars, connected>>

\* The base constructor calls attach_self_to(): push_back under the lock.
attach(o) ==
    /\ life[o] = "entering"
    /\ MutexFree
    /\ observers' = observers \cup {o}
    /\ before' = before \cup (observers \X {o})
    /\ Live(o, "base")
    /\ UNCHANGED <<notifyVars, threadVars, connected>>

\* The constructors of the derived classes; that of a pattern may connect.
Constructed(o) ==
    /\ life[o] = "base"
    /\ Live(o, "built")
    /\ \/ o \in Patterns /\ TRUE \in Class[o].connected /\ connected' = connected \cup {o}
       \/ (o \in Patterns => FALSE \in Class[o].connected) /\ UNCHANGED connected
    /\ UNCHANGED <<listVars, notifyVars, threadVars>>

\* The destructors of the derived classes; that of a pattern disconnects.
Destroy(o) ==
    /\ life[o] = "built"
    /\ \/ Idle(Owner[o])
       \/ ~Running(Owner[o]) /\ Idle(Main)
    /\ o \in Tasks =>
           /\ pc[o] # "running"
           /\ \A p \in Observers : Owner[p] = o => life[p] = "none"
    /\ Live(o, "stripped")
    /\ connected' = connected \ {o}
    /\ UNCHANGED <<listVars, notifyVars, threadVars>>

\* A base destructor that forgets detach_self_from() (for mutants).
ForgetToDetach(o) ==
    /\ life[o] = "stripped"
    /\ MutexFree
    /\ Live(o, "none")
    /\ UNCHANGED <<listVars, notifyVars, threadVars, connected>>

\* The base destructor calls detach_self_from(): remove under the lock.
detach(o) ==
    /\ life[o] = "stripped"
    /\ MutexFree
    /\ observers' = observers \ {o}
    /\ before' = {pair \in before : o \notin {pair[1], pair[2]}}
    /\ Live(o, "none")
    /\ UNCHANGED <<notifyVars, threadVars, connected>>

-----------------------------------------------------------------------------
(***************************************************************************)
(* The threads of the tasks.                                               *)
(***************************************************************************)

\* start(), by the thread that constructed the task.
Start(t) ==
    /\ life[t] = "built"
    /\ pc[t] = "new"
    /\ Idle(Owner[t])
    /\ Owner[t] = Main => shutdown = "idle"
    /\ pc' = [pc EXCEPT ![t] = "running"]
    /\ UNCHANGED <<listVars, notifyVars, life, canceled, connected>>

\* task_execution() returns.  It may leave behind what it has constructed.
End(t) ==
    /\ pc[t] = "running"
    /\ Idle(t)
    /\ pc' = [pc EXCEPT ![t] = "done"]
    /\ UNCHANGED <<listVars, notifyVars, life, canceled, connected>>

\* connect() and disconnect() of a client, also while it is shut down.
Use(p, thread) ==
    /\ Class[p].reconnects
    /\ life[p] = "built"
    /\ thread \in Users[p]
    /\ Idle(thread)
    /\ thread = Main => shutdown = "idle"
    /\ connected' \in {connected \cup {p}, connected \ {p}}
    /\ UNCHANGED <<listVars, notifyVars, life, threadVars>>

-----------------------------------------------------------------------------
(***************************************************************************)
(* notify_sutdown().                                                       *)
(***************************************************************************)

NotifyBegin ==
    /\ shutdown = "idle"
    /\ Idle(Main)
    /\ \A o \in Observers : InTransit(o) => Running(Owner[o])
    /\ shutdown' = "notifying"
    /\ remaining' = observers
    /\ UNCHANGED <<listVars, calling, shut, life, threadVars, connected>>

\* on_shutdown() of o, the first of what remains, is called.
CallNext(o) ==
    /\ shutdown = "notifying"
    /\ calling = {}
    /\ o \in remaining
    /\ \A p \in remaining : <<p, o>> \notin before
    /\ calling' = {o}
    /\ remaining' = remaining \ {o}
    /\ UNCHANGED <<listVars, shutdown, shut, life, pc, connected>>

\* An on_shutdown() that only waits for the thread (for mutants).
CallWithoutStop(o) == CallNext(o) /\ UNCHANGED canceled

\* That of a task begins with telling its thread to stop.
Call(o) == CallNext(o) /\ canceled' = [t \in Tasks |-> canceled[t] \/ t = o]

\* An on_shutdown() that does not wait for the thread (for mutants).
ReturnUnjoined(o) == TRUE

\* That of a task, stop(), returns when its thread has ended or never began,
\* that of a pattern when it has disconnected it.
CanReturn(o) == o \in Tasks => pc[o] # "running"

\* A pattern whose on_shutdown() does not disconnect it (for mutants).
StayConnected(o) == UNCHANGED connected

\* disconnect() of a client, serverInitiatedDisconnect() of a server.
Disconnect(o) == connected' = connected \ {o}

Return(o) ==
    /\ calling = {o}
    /\ CanReturn(o)
    /\ calling' = {}
    /\ shut' = shut \cup {o}
    /\ Disconnect(o)
    /\ UNCHANGED <<listVars, shutdown, remaining, life, threadVars>>

NotifyEnd ==
    /\ shutdown = "notifying"
    /\ calling = {}
    /\ remaining = {}
    /\ shutdown' = "done"
    /\ UNCHANGED <<listVars, remaining, calling, shut, life, threadVars, connected>>

-----------------------------------------------------------------------------
NotifyStep == NotifyEnd \/ \E o \in Observers : Call(o) \/ Return(o)

TransitStep(o) == attach(o) \/ Constructed(o) \/ detach(o)

ShutdownNext ==
    \/ NotifyBegin \/ NotifyStep
    \/ \E o \in Observers : Construct(o) \/ Destroy(o) \/ TransitStep(o)
    \/ \E t \in Tasks : Start(t) \/ End(t)
    \/ \E p \in Patterns, thread \in Tasks \cup {Main} : Use(p, thread)

ShutdownSpec == ShutdownInit /\ [][ShutdownNext]_shutdownVars

(***************************************************************************)
(* Fairness: notify_sutdown() goes on, so does a constructor or destructor *)
(* that can, and a thread that was told to stop does not do other things   *)
(* for ever.                                                               *)
(***************************************************************************)
FairShutdownSpec ==
    /\ ShutdownSpec
    /\ WF_shutdownVars(NotifyStep)
    /\ \A o \in Observers : WF_shutdownVars(TransitStep(o))
    /\ \A t \in Tasks : SF_shutdownVars(canceled[t] /\ End(t))

-----------------------------------------------------------------------------
(***************************************************************************)
(* Properties.                                                             *)
(***************************************************************************)

\* Every variable has its type, and the list has an order and names each
\* attached observer once.
ShutdownTypeOK ==
    /\ observers = {o \in Observers : life[o] \in {"base", "built", "stripped"}}
    /\ before \subseteq observers \X observers
    /\ \A o, p \in observers : (<<o, p>> \in before) <=> (o # p /\ <<p, o>> \notin before)
    /\ shutdown \in {"idle", "notifying", "done"}
    /\ remaining \in SUBSET Observers
    /\ calling \in SUBSET Observers
    /\ life \in [Observers -> {"none", "entering", "base", "built", "stripped"}]
    /\ pc \in [Tasks -> {"new", "running", "done"}]
    /\ canceled \in [Tasks -> BOOLEAN]
    /\ connected \in SUBSET {p \in Patterns : life[p] = "built"}
    /\ shut \in SUBSET Observers

(***************************************************************************)
(* No pure virtual call, and no thread that goes on with what has been     *)
(* shut down: on_shutdown() runs only on whole observers whose             *)
(* constructing thread has ended, although base classes attach them too    *)
(* early and detach them too late, and threads construct and destroy some  *)
(* during the shutdown.  It is the order of the list that makes it so: the *)
(* task whose thread works on an observer comes first and is joined.       *)
(***************************************************************************)
CallsWholeObservers ==
    \A o \in calling :
        /\ life[o] = "built"
        /\ Owner[o] \in Tasks => pc[Owner[o]] # "running"

(***************************************************************************)
(* When notify_sutdown() has returned, every task and port that exists has *)
(* been shut down, also those that threads have constructed during the     *)
(* shutdown, and no thread of a task runs: the component may invalidate    *)
(* its own resources.                                                      *)
(***************************************************************************)
EverythingIsShut ==
    shutdown = "done" =>
        \A o \in Observers :
            life[o] # "none" => o \in shut /\ (o \in Tasks => pc[o] # "running")

(***************************************************************************)
(* on_shutdown() leaves a pattern disconnected, and from then on, until it *)
(* is destroyed, only one event connects it: the thread of a task that     *)
(* uses it, comes later in the list and has not been stopped yet connects  *)
(* it again.  So a pattern that comes after all tasks that use it is       *)
(* disconnected for good.  Nothing disconnects the others a second time    *)
(* when that task is stopped, and they can be left connected.              *)
(***************************************************************************)
ConnectsAgain(t, p) ==
    /\ t \in Users[p]
    /\ pc[t] = "running"
    /\ t \in remaining \cup calling
    /\ <<p, t>> \in before

StaysDisconnected ==
    [][\A p \in Patterns \cap shut' :
          p \in connected' => \/ p \in shut /\ p \in connected
                             \/ \E t \in Tasks : ConnectsAgain(t, p)]_shutdownVars

(***************************************************************************)
(* The component and the threads of its tasks treat every task as it may   *)
(* expect (TaskLife): none is started once on_shutdown() was called on it, *)
(* none is shut down twice or before its constructor is through, and none  *)
(* is destroyed while it is being shut down.  Nothing in start() or in the *)
(* destructor looks at any of this; it follows from who owns whom and from *)
(* the order of the list.                                                  *)
(***************************************************************************)
ThreadOf(t) ==
    IF life[t] # "built" THEN "none"
    ELSE IF pc[t] = "done" THEN "ended" ELSE pc[t]

StopOf(t) ==
    IF life[t] # "built" THEN "idle"
    ELSE IF t \in calling THEN "asked"
    ELSE IF t \in shut THEN "over" ELSE "idle"

Life ==
    INSTANCE TaskLife WITH
        thread <- [t \in Tasks |-> ThreadOf(t)],
        stop   <- [t \in Tasks |-> StopOf(t)]

KeepsTaskLife == Life!LifeSpec

(***************************************************************************)
(* notify_sutdown() returns, unless a thread it waits for is in a          *)
(* constructor or destructor that needs the mutex: that is the only way it *)
(* can hang.                                                               *)
(***************************************************************************)
WaitsForItself ==
    \E o \in Observers : Owner[o] \in calling /\ life[o] \in {"entering", "stripped"}

HangsOnlyOnItself == shutdown = "notifying" ~> (shutdown = "done" \/ WaitsForItself)

(***************************************************************************)
(* The comment of ITask says that tasks are stopped during the shutdown so *)
(* that "user-threads can properly shutdown and clean-up their local       *)
(* resources": the shutdown ends also when those are observers.            *)
(***************************************************************************)
ComponentShutdownEnds == shutdown = "notifying" ~> shutdown = "done"

=============================================================================
