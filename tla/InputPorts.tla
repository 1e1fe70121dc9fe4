------------------------------ MODULE InputPorts ------------------------------
(***************************************************************************)
(* The ports of a component that are an InputSubject, the middleware that  *)
(* calls their notify_input(), each port in a thread of its own, and the   *)
(* handlers that are constructed and destroyed meanwhile by the main       *)
(* thread or by what a handler does when it is called.                     *)
(*                                                                         *)
(* Granularity.  notify_input() holds observers_mutex of its port; each    *)
(* turn of its loop is a step, and so is the return of each handle_input().*)
(* attach() and detach() are one step each.  Each constructor and each     *)
(* destructor of a handler's class is a step: the base constructor         *)
(* attaches it before there is anything to call, and the base destructor   *)
(* detaches it when that is gone.  A call that then comes is a call of a   *)
(* pure virtual method, and a destructor of the user's class while its     *)
(* handle_input() runs takes away its members: that is undefined, and the  *)
(* model stops there.                                                      *)
(*                                                                         *)
(* Callers.  Ports exist from before the first handler until after the     *)
(* last one.  Each handler has one thread that constructs and destroys it; *)
(* that of a port does so only inside a call it makes.                     *)
(***************************************************************************)
EXTENDS PrescaleManager, CommunicationPatterns, Sequences

CONSTANTS Ports,             \* the InputSubject objects, and their threads
          Handlers,          \* the addresses of IInputHandler objects
          Main,              \* the main thread
          Class,             \* the class of a handler
          Subject,           \* the port it is constructed for
          Owner,             \* the thread that constructs and destroys it
          PrescaleFactors,   \* the factors users give
          MaxInputs          \* bound of the inputs of a port, for TLC

ASSUME InputPortsAssumption ==
    /\ Main \notin Ports
    /\ Class \in [Handlers -> HandlerClass]
    /\ Subject \in [Handlers -> Ports]
    /\ Owner \in [Handlers -> Ports \cup {Main}]
    /\ PrescaleFactors \subseteq UInt
    /\ MaxInputs \in Nat

VARIABLES
    notifying,       \* ports whose observers_mutex notify_input() holds
    observers,       \* keys of the maps InputSubject::observers
    prescale,        \* their values
    visiting,        \* handlers a loop still has to reach
    calling,         \* handlers whose handle_input() runs
    life,            \* what happens to a handler
    constructed,     \* how many of its constructors have run
    undefined,       \* has an undefined call happened?
    input,           \* inputs of a port so far (history)
    since,           \* those before a handler was attached (history)
    got              \* those it was called for since then (history)

subjectVars == <<notifying, observers, prescale, visiting, calling>>
handlerVars == <<life, constructed>>
historyVars == <<input, since, got>>
portVars    == <<subjectVars, handlerVars, undefined, historyVars>>

Factors(h) == IF Class[h].prescaled THEN PrescaleFactors ELSE {1}

PortInit ==
    /\ notifying   = {}
    /\ observers   = {}
    /\ prescale    = [h \in Handlers |-> NewManager(1)]
    /\ visiting    = {}
    /\ calling     = {}
    /\ life        = [h \in Handlers |-> "none"]
    /\ constructed = [h \in Handlers |-> 0]
    /\ undefined   = FALSE
    /\ input       = [p \in Ports |-> 0]
    /\ since       = [h \in Handlers |-> 0]
    /\ got         = [h \in Handlers |-> 0]

-----------------------------------------------------------------------------
(***************************************************************************)
(* Helpers.                                                                *)
(***************************************************************************)

HandlersOf(p) == {h \in Handlers : Subject[h] = p}

\* One mutex for the maps of all ports (for mutants).
OneMutexForAll(h) == notifying = {}

MutexFree(h) == Subject[h] \notin notifying

\* The number of its constructors.
Whole(h) == Len(Class[h].chain)

\* The thread is in a constructor or destructor, and does nothing else.
Busy(thread) == \E h \in Handlers : Owner[h] = thread /\ life[h] \in {"constructing", "destroying"}

\* The thread runs code that can construct or destroy a handler.
Running(thread) == thread = Main \/ HandlersOf(thread) \cap calling # {}

-----------------------------------------------------------------------------
(***************************************************************************)
(* Construction and destruction of a handler.                              *)
(***************************************************************************)

Construct(h) ==
    /\ life[h] = "none"
    /\ Running(Owner[h])
    /\ ~Busy(Owner[h])
    /\ life' = [life EXCEPT ![h] = "constructing"]
    /\ UNCHANGED <<subjectVars, constructed, undefined, historyVars>>

\* The base constructor: attach_self().  An entry is given a fresh manager.
attach(h) ==
    /\ life[h] = "constructing"
    /\ constructed[h] = 0
    /\ MutexFree(h)
    /\ observers' = observers \cup {h}
    /\ \E factor \in Factors(h) : prescale' = [prescale EXCEPT ![h] = NewManager(factor)]
    /\ constructed' = [constructed EXCEPT ![h] = 1]
    /\ since' = [since EXCEPT ![h] = input[Subject[h]]]
    /\ got' = [got EXCEPT ![h] = 0]
    /\ UNCHANGED <<notifying, visiting, calling, life, undefined, input>>

\* The next constructor; the last is that of the user's class.
ConstructDerived(h) ==
    /\ life[h] = "constructing"
    /\ constructed[h] \in 1 .. Whole(h) - 1
    /\ constructed' = [constructed EXCEPT ![h] = @ + 1]
    /\ life' = [life EXCEPT ![h] = IF constructed'[h] = Whole(h) THEN "built" ELSE @]
    /\ UNCHANGED <<subjectVars, undefined, historyVars>>

\* The destructor of the user's class.
Destroy(h) ==
    /\ life[h] = "built"
    /\ Running(Owner[h])
    /\ ~Busy(Owner[h])
    /\ life' = [life EXCEPT ![h] = "destroying"]
    /\ constructed' = [constructed EXCEPT ![h] = @ - 1]
    /\ undefined' = (h \in calling)
    /\ UNCHANGED <<subjectVars, historyVars>>

\* That of a class between the user's and the base class.
DestroyDerived(h) ==
    /\ life[h] = "destroying"
    /\ constructed[h] > 1
    /\ constructed' = [constructed EXCEPT ![h] = @ - 1]
    /\ UNCHANGED <<subjectVars, life, undefined, historyVars>>

\* A detach() that does not wait for a running notify_input() (for mutants).
DetachUnlocked(h) ==
    /\ life[h] = "destroying"
    /\ constructed[h] = 1
    /\ observers' = observers \ {h}
    /\ constructed' = [constructed EXCEPT ![h] = 0]
    /\ life' = [life EXCEPT ![h] = "none"]
    /\ UNCHANGED <<notifying, prescale, visiting, calling, undefined, historyVars>>

\* The base destructor: detach_self().  The address may be used again.
detach(h) ==
    /\ life[h] = "destroying"
    /\ constructed[h] = 1
    /\ MutexFree(h)
    /\ observers' = observers \ {h}
    /\ constructed' = [constructed EXCEPT ![h] = 0]
    /\ life' = [life EXCEPT ![h] = "none"]
    /\ UNCHANGED <<notifying, prescale, visiting, calling, undefined, historyVars>>

-----------------------------------------------------------------------------
(***************************************************************************)
(* notify_input().                                                         *)
(***************************************************************************)

NotifyBegin(p) ==
    /\ p \notin notifying
    /\ input[p] < MaxInputs
    /\ notifying' = notifying \cup {p}
    /\ visiting' = visiting \cup (HandlersOf(p) \cap observers)
    /\ input' = [input EXCEPT ![p] = @ + 1]
    /\ UNCHANGED <<observers, prescale, calling, handlerVars, undefined, since, got>>

\* The loop is between two turns.
BetweenCalls(p) == p \in notifying /\ HandlersOf(p) \cap calling = {}

\* A turn of the loop: the map is ordered by address, so any order can occur.
\* What is not whole has a pure virtual method where the call leads.
NotifyVisit(h) ==
    /\ BetweenCalls(Subject[h])
    /\ h \in visiting
    /\ visiting' = visiting \ {h}
    /\ prescale' = [prescale EXCEPT ![h] = Counted(@)]
    /\ got' = IF UpdateDue(prescale[h]) THEN [got EXCEPT ![h] = @ + 1] ELSE got
    /\ calling' = IF UpdateDue(prescale[h]) THEN calling \cup {h} ELSE calling
    /\ undefined' = (UpdateDue(prescale[h]) /\ constructed[h] < Whole(h))
    /\ UNCHANGED <<notifying, observers, handlerVars, input, since>>

\* handle_input() returns, after what it constructs or destroys.
Return(h) ==
    /\ h \in calling
    /\ ~Busy(Subject[h])
    /\ calling' = calling \ {h}
    /\ UNCHANGED <<notifying, observers, prescale, visiting, handlerVars, undefined, historyVars>>

NotifyEnd(p) ==
    /\ BetweenCalls(p)
    /\ visiting \cap HandlersOf(p) = {}
    /\ notifying' = notifying \ {p}
    /\ UNCHANGED <<observers, prescale, visiting, calling, handlerVars, undefined, historyVars>>

-----------------------------------------------------------------------------
HandlerStep(h) == attach(h) \/ ConstructDerived(h) \/ DestroyDerived(h) \/ detach(h)

PortNext ==
    /\ ~undefined
    /\ \/ \E h \in Handlers : Construct(h) \/ Destroy(h) \/ HandlerStep(h)
                                \/ NotifyVisit(h) \/ Return(h)
       \/ \E p \in Ports : NotifyBegin(p) \/ NotifyEnd(p)

PortSpec == PortInit /\ [][PortNext]_portVars

(***************************************************************************)
(* Fairness: the thread of a port goes on, through the loop and through    *)
(* the constructors and destructors a handler calls.  When it waits for an *)
(* observers_mutex it gets it, if that is free again and again; and what a *)
(* handler constructs and destroys does not go on for ever.                *)
(***************************************************************************)
ThreadStep(p) ==
    \/ NotifyEnd(p)
    \/ \E h \in HandlersOf(p) : NotifyVisit(h)
    \/ \E h \in Handlers : Owner[h] = p /\ HandlerStep(h)

ReturnStep(p) == \E h \in HandlersOf(p) : Return(h)

FairPortSpec ==
    /\ PortSpec
    /\ \A p \in Ports :
         /\ SF_portVars(~undefined /\ ThreadStep(p))
         /\ SF_portVars(~undefined /\ ReturnStep(p))

-----------------------------------------------------------------------------
(***************************************************************************)
(* Properties.                                                             *)
(***************************************************************************)

\* Every variable has its type, the counters of the managers are in the range
\* of an unsigned int, and no handler outgrows its class.
PortTypeOK ==
    /\ notifying \in SUBSET Ports
    /\ observers \in SUBSET Handlers
    /\ prescale \in [Handlers -> Manager]
    /\ visiting \in SUBSET Handlers
    /\ calling \in SUBSET Handlers
    /\ life \in [Handlers -> {"none", "constructing", "built", "destroying"}]
    /\ constructed \in [Handlers -> Nat]
    /\ \A h \in Handlers : constructed[h] <= Whole(h)
    /\ undefined \in BOOLEAN
    /\ input \in [Ports -> 0 .. MaxInputs]
    /\ since \in [Handlers -> 0 .. MaxInputs]
    /\ got \in [Handlers -> Nat]

(***************************************************************************)
(* Nothing that is freed is touched: what a loop still has to reach, and   *)
(* what it calls, is in the map it iterates over, and what is in a map is  *)
(* an object whose base destructor has not returned.  Handlers come and go *)
(* at any time, also from within a call.                                   *)
(***************************************************************************)
NothingFreedIsTouched ==
    /\ visiting \cup calling \subseteq observers
    /\ \A h \in observers : constructed[h] > 0

(***************************************************************************)
(* Every n-th input: of the inputs since it was attached, a handler was    *)
(* called for one in every period, for each period that is over, and for   *)
(* no other, whatever was attached and detached meanwhile.  A factor of 0  *)
(* has the period of a whole wrap-around of the counter.                   *)
(***************************************************************************)
Heard(h) == input[Subject[h]] - since[h] - (IF h \in visiting THEN 1 ELSE 0)

EveryNthInput ==
    \A h \in observers :
        /\ Heard(h) = got[h] * Period(prescale[h]) + Counting(prescale[h])
        /\ Counting(prescale[h]) < Period(prescale[h])

(***************************************************************************)
(* notify_input() ends, unless its handler waits, in attach() or detach(), *)
(* for a port whose notify_input() waits in turn: it hangs only when ports *)
(* wait for each other in a cycle, or a port for itself.                   *)
(***************************************************************************)
WaitsFor(p, q) ==
    \E h \in Handlers :
        /\ Owner[h] = p
        /\ Subject[h] = q
        /\ q \in notifying
        /\ \/ life[h] = "constructing" /\ constructed[h] = 0
           \/ life[h] = "destroying" /\ constructed[h] = 1

InCycle(p) == \E S \in SUBSET Ports : p \in S /\ \A q \in S : \E r \in S : WaitsFor(q, r)

HangsOnlyInCycle == \A p \in Ports : p \in notifying ~> (p \notin notifying \/ undefined \/ InCycle(p))

=============================================================================
