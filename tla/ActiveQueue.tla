----------------------------- MODULE ActiveQueue -----------------------------
(***************************************************************************)
(* IActiveQueueInputHandlerDecorator                                       *)
(* (smartIActiveQueueInputHandlerDecorator_T.h): a handler that puts what  *)
(* it receives from the subject into a list, and a thread that takes it    *)
(* out and calls the inner handler, which it has detached.                 *)
(*                                                                         *)
(* Granularity.  input_mutex is held across one call only, that of the     *)
(* inner handler by the thread: it is free exactly when the thread is not  *)
(* "handling".  Construction and destruction are split where other threads *)
(* can see the object: it is attached before its own members and virtual   *)
(* functions exist and detached after they are gone.                       *)
(*                                                                         *)
(* External.  start() and stop() are those of ITask (see ManagedTask): the *)
(* owner starts the thread once, stop() waits for its end.                 *)
(***************************************************************************)
EXTENDS InputSubject, Sequences

CONSTANTS InnerFactors,      \* prescale factors of the inner handler
          SpuriousWakeups,   \* may the condition wait return unnotified?
          EarlyInputs,       \* do inputs arrive during construction and destruction?
          CarefulOwner       \* is the thread stopped before the destructor runs?

ASSUME ActiveQueueAssumption ==
    /\ Handlers = {"inner", "decorator"}
    /\ InnerFactors \subseteq UInt
    /\ {SpuriousWakeups, EarlyInputs, CarefulOwner} \subseteq BOOLEAN

VARIABLES
    life,          \* how much of the decorator exists
    input_list,
    cancelled,
    pc,            \* where the thread is in task_execution()
    shutdown,      \* how far on_shutdown() is
    handled,       \* inputs the inner handler was called with (history)
    fault          \* the undefined behaviour that has happened, if any

queueVars  == <<input_list, cancelled>>
threadVars == <<pc, handled, fault>>
activeVars == <<inputVars, queueVars, threadVars, life, shutdown>>

QueueInit ==
    /\ observers_mutex = "free"
    /\ visiting = {}
    /\ observers = {"inner"}
    /\ prescale \in {[h \in Handlers |-> IF h = "inner" THEN NewManager(factor) ELSE NewManager(1)] :
                       factor \in InnerFactors}
    /\ input = 0
    /\ life = "none"
    /\ input_list = <<>>
    /\ cancelled = FALSE
    /\ pc = "new"
    /\ shutdown = "idle"
    /\ handled = <<>>
    /\ fault = "none"

-----------------------------------------------------------------------------
(***************************************************************************)
(* The object.                                                             *)
(***************************************************************************)

\* The base constructor attaches the decorator, always with factor 1 ...
ConstructBase ==
    /\ life = "none"
    /\ attach("decorator", 1)
    /\ life' = "attached"
    /\ UNCHANGED <<queueVars, threadVars, shutdown>>

\* ... then its members are made ...
ConstructMembers ==
    /\ life = "attached"
    /\ life' = "built"
    /\ UNCHANGED <<inputVars, queueVars, threadVars, shutdown>>

\* ... then the body detaches the inner handler.
ConstructBody ==
    /\ life = "built"
    /\ detach("inner")
    /\ life' = "active"
    /\ UNCHANGED <<queueVars, threadVars, shutdown>>

\* A destructor that leaves the inner handler detached (for mutants).
DestroyUnattached ==
    /\ life = "active"
    /\ shutdown \in {"idle", "done"}
    /\ CarefulOwner => pc \in {"new", "done"}
    /\ life' = "leaving"
    /\ UNCHANGED <<inputVars, queueVars, threadVars, shutdown>>

\* The body of the destructor attaches the inner handler again, with factor 1.
DestroyBody ==
    /\ life = "active"
    /\ shutdown \in {"idle", "done"}
    /\ CarefulOwner => pc \in {"new", "done"}
    /\ attach("inner", 1)
    /\ life' = "leaving"
    /\ UNCHANGED <<queueVars, threadVars, shutdown>>

\* The members go, and with them what is still in the list ...
DestroyMembers ==
    /\ life = "leaving"
    /\ life' = "stripped"
    /\ input_list' = <<>>
    /\ UNCHANGED <<inputVars, cancelled, threadVars, shutdown>>

\* ... then the base destructor detaches the decorator.
DestroyBase ==
    /\ life = "stripped"
    /\ detach("decorator")
    /\ life' = "gone"
    /\ UNCHANGED <<queueVars, threadVars, shutdown>>

-----------------------------------------------------------------------------
(***************************************************************************)
(* notify_input(), and the handlers it calls.                              *)
(***************************************************************************)

Notify ==
    /\ EarlyInputs \/ life \in {"none", "active", "gone"}
    /\ NotifyBegin
    /\ UNCHANGED <<queueVars, threadVars, life, shutdown>>

\* notify_one on input_cond_var, whose only waiter is the thread.
WakeThread == pc' = IF pc = "waiting" THEN "woken" ELSE pc

\* The inner handler while it is attached itself.
VisitInner ==
    /\ NotifyVisit("inner")
    /\ handled' = IF UpdateDue(prescale["inner"]) THEN Append(handled, input) ELSE handled
    /\ UNCHANGED <<queueVars, pc, fault, life, shutdown>>

\* A handle_input() that does not notify (for mutants).
PushSilently ==
    /\ pc # "handling"
    /\ input_list' = Append(input_list, input)
    /\ UNCHANGED <<cancelled, threadVars>>

\* A list with room for one input, in which the notifier waits (for mutants).
PushBounded ==
    /\ pc # "handling"
    /\ input_list = <<>>
    /\ input_list' = <<input>>
    /\ WakeThread
    /\ UNCHANGED <<cancelled, handled, fault>>

\* handle_input() of the decorator.
handle_input ==
    /\ pc # "handling"
    /\ input_list' = Append(input_list, input)
    /\ WakeThread
    /\ UNCHANGED <<cancelled, handled, fault>>

\* The decorator, for which every input is due.  Its handle_input() is pure
\* virtual before its members are made and after they are gone.
VisitDecorator ==
    /\ NotifyVisit("decorator")
    /\ UpdateDue(prescale["decorator"])
    /\ UNCHANGED <<life, shutdown>>
    /\ \/ life \in {"built", "active", "leaving"} /\ handle_input
       \/ /\ life \in {"attached", "stripped"}
          /\ fault' = "pure virtual call"
          /\ UNCHANGED <<queueVars, pc, handled>>

NotifyReturn == NotifyEnd /\ UNCHANGED <<queueVars, threadVars, life, shutdown>>

-----------------------------------------------------------------------------
(***************************************************************************)
(* The thread: task_execution() and process_queue_entry().                 *)
(***************************************************************************)

Alive == life \in {"active", "leaving"}

Start ==
    /\ life = "active"
    /\ pc = "new"
    /\ shutdown = "idle"
    /\ pc' = "test"
    /\ UNCHANGED <<inputVars, queueVars, handled, fault, life, shutdown>>

\* A loop that runs while processing is cancelled (for mutants).
TestInverted ==
    /\ Alive
    /\ pc = "test"
    /\ pc' = IF cancelled THEN "process" ELSE "done"
    /\ UNCHANGED <<inputVars, queueVars, handled, fault, life, shutdown>>

\* while(!processing_cancelled())
Test ==
    /\ Alive
    /\ pc = "test"
    /\ pc' = IF cancelled THEN "done" ELSE "process"
    /\ UNCHANGED <<inputVars, queueVars, handled, fault, life, shutdown>>

\* Handles what is in the list although processing was cancelled (for mutants).
ServeRegardless ==
    /\ \/ input_list = <<>> /\ fault' = "front of empty list" /\ UNCHANGED <<pc, handled>>
       \/ /\ input_list # <<>>
          /\ pc' = "handling"
          /\ handled' = Append(handled, Head(input_list))
          /\ UNCHANGED fault
    /\ UNCHANGED <<inputVars, queueVars, life, shutdown>>

\* From the end of the wait to the call of the inner handler: front() is taken
\* without another look at the list.
Serve ==
    /\ \/ cancelled /\ pc' = "test" /\ UNCHANGED <<handled, fault>>
       \/ /\ ~cancelled
          /\ input_list = <<>>
          /\ fault' = "front of empty list"
          /\ UNCHANGED <<pc, handled>>
       \/ /\ ~cancelled
          /\ input_list # <<>>
          /\ pc' = "handling"
          /\ handled' = Append(handled, Head(input_list))
          /\ UNCHANGED fault
    /\ UNCHANGED <<inputVars, queueVars, life, shutdown>>

Process ==
    /\ Alive
    /\ pc = "process"
    /\ \/ input_list # <<>> /\ Serve
       \/ /\ input_list = <<>>
          /\ pc' = "waiting"
          /\ UNCHANGED <<inputVars, queueVars, handled, fault, life, shutdown>>

LeaveWait    == Alive /\ pc = "woken" /\ Serve
LeaveUnasked == SpuriousWakeups /\ Alive /\ pc = "waiting" /\ Serve

\* The inner handler has returned and the entry is never popped (for mutants).
HandledUnpopped ==
    /\ Alive
    /\ pc = "handling"
    /\ pc' = "test"
    /\ UNCHANGED <<inputVars, queueVars, handled, fault, life, shutdown>>

\* The inner handler has returned: pop_front().
Handled ==
    /\ Alive
    /\ pc = "handling"
    /\ input_list' = Tail(input_list)
    /\ pc' = "test"
    /\ UNCHANGED <<inputVars, cancelled, handled, fault, life, shutdown>>

\* The thread goes on when the decorator is gone, or is still waiting in its
\* condition variable.
RunOnDestroyed ==
    /\ life \in {"stripped", "gone"}
    /\ pc \notin {"new", "done"}
    /\ fault' = "use after destruction"
    /\ UNCHANGED <<inputVars, queueVars, pc, handled, life, shutdown>>

-----------------------------------------------------------------------------
(***************************************************************************)
(* on_shutdown(): cancel_processing(); stop().                             *)
(***************************************************************************)

ShutdownBegin ==
    /\ life = "active"
    /\ shutdown = "idle"
    /\ shutdown' = "cancel"
    /\ UNCHANGED <<inputVars, queueVars, threadVars, life>>

cancel_processing ==
    /\ shutdown = "cancel"
    /\ pc # "handling"
    /\ cancelled' = TRUE
    /\ WakeThread
    /\ shutdown' = "join"
    /\ UNCHANGED <<inputVars, input_list, handled, fault, life>>

ShutdownJoin ==
    /\ shutdown = "join"
    /\ pc \in {"new", "done"}
    /\ shutdown' = "done"
    /\ UNCHANGED <<inputVars, queueVars, threadVars, life>>

-----------------------------------------------------------------------------
ThreadStep == Test \/ Process \/ LeaveWait \/ Handled

QueueNext ==
    /\ fault = "none"     \* the program has no meaning beyond a fault
    /\ \/ ConstructBase \/ ConstructMembers \/ ConstructBody
       \/ DestroyBody \/ DestroyMembers \/ DestroyBase
       \/ Notify \/ VisitInner \/ VisitDecorator \/ NotifyReturn
       \/ Start \/ ThreadStep \/ LeaveUnasked \/ RunOnDestroyed
       \/ ShutdownBegin \/ cancel_processing \/ ShutdownJoin

QueueSpec == QueueInit /\ [][QueueNext]_activeVars

(***************************************************************************)
(* Fairness: the thread of the queue, a running notify_input() and a       *)
(* running on_shutdown() go on; that assumes that the inner handler        *)
(* returns.  Inputs, construction, start and shutdown need not happen.     *)
(***************************************************************************)
FairQueueSpec ==
    /\ QueueSpec
    /\ WF_activeVars(ThreadStep /\ fault = "none")
    /\ WF_activeVars((VisitInner \/ VisitDecorator \/ NotifyReturn) /\ fault = "none")
    /\ WF_activeVars((cancel_processing \/ ShutdownJoin) /\ fault = "none")

-----------------------------------------------------------------------------
(***************************************************************************)
(* Properties.                                                             *)
(***************************************************************************)

\* Every variable has its type.
QueueTypeOK ==
    /\ InputTypeOK
    /\ life \in {"none", "attached", "built", "active", "leaving", "stripped", "gone"}
    /\ input_list \in Seq(1 .. MaxInputs)
    /\ cancelled \in BOOLEAN
    /\ pc \in {"new", "test", "process", "waiting", "woken", "handling", "done"}
    /\ shutdown \in {"idle", "cancel", "join", "done"}
    /\ handled \in Seq(1 .. MaxInputs)
    /\ fault \in {"none", "pure virtual call", "front of empty list", "use after destruction"}

(***************************************************************************)
(* The inner handler, before, while and after it is decorated, gets its    *)
(* inputs through a channel that keeps their order and duplicates none.    *)
(***************************************************************************)
Channel ==
    INSTANCE InputChannel WITH
        arrived   <- input,
        offered   <- visiting # {},
        pending   <- IF pc = "handling" THEN Tail(input_list) ELSE input_list,
        delivered <- handled

KeepsOrder == Channel!ChannelSpec

(***************************************************************************)
(* What is undefined has one cause each.  The front of an empty list is    *)
(* only taken by a thread that nobody has notified: one that was woken by  *)
(* an input or by cancel_processing() finds an entry or leaves.  The       *)
(* thread outlives the decorator only if on_shutdown() was never called:   *)
(* an owner that calls it may destroy the decorator when it returns.  A    *)
(* pure virtual handle_input() is reached only by an input that begins to  *)
(* arrive during construction or destruction, never by one that these find *)
(* under way.                                                              *)
(***************************************************************************)
FaultsHaveCauses ==
    /\ fault = "front of empty list" => SpuriousWakeups /\ pc = "waiting"
    /\ fault = "use after destruction" => ~CarefulOwner /\ shutdown = "idle"
    /\ fault = "pure virtual call" => EarlyInputs

\* An owner that is careful on all three counts meets none of them.
NoFault == fault = "none"

(***************************************************************************)
(* The thread never sleeps on an input: handle_input() and the test before *)
(* the wait are under the same mutex.  (It can sleep on a cancellation:    *)
(* see QueueShutdownCompletes.)                                            *)
(***************************************************************************)
SleepsOnlyOnEmptyList == pc = "waiting" => input_list = <<>>

(***************************************************************************)
(* No input falls between the handlers: when notify_input() returns, the   *)
(* inner handler has been called or the input is in the list, also while   *)
(* the decorator is being constructed or destroyed.  (For an inner handler *)
(* with factor 1.)                                                         *)
(***************************************************************************)
Elements(list) == {list[k] : k \in DOMAIN list}

InputNeverMissed ==
    [][observers_mutex = "notifying" /\ observers_mutex' = "free"
          => input \in Elements(handled) \cup Elements(input_list)]_activeVars

\* An input in the list is handled, unless processing is cancelled first.
AcceptedIsHandled ==
    \A i \in 1 .. MaxInputs :
        (pc # "new" /\ i \in Elements(input_list)) ~> (cancelled \/ i \in Elements(handled))

\* notify_input() returns, although it waits for the inner handler the thread
\* is in.
NotifyCompletes == observers_mutex = "notifying" ~> observers_mutex = "free"

(***************************************************************************)
(* The comment of on_shutdown() says it stops the thread and waits for its *)
(* exit, that in cancel_processing() that it releases "all waiting         *)
(* processing calls": on_shutdown() returns, wherever it finds the thread. *)
(***************************************************************************)
QueueShutdownCompletes == shutdown = "cancel" ~> shutdown = "done"

=============================================================================
