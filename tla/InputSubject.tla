---------------------------- MODULE InputSubject ----------------------------
(***************************************************************************)
(* InputSubject and the attachment of an IInputHandler                     *)
(* (smartIInputHandler_T.h): attach(), detach() and notify_input().  The   *)
(* handlers themselves, and who calls these operations, belong to the      *)
(* modules that extend this one.                                           *)
(*                                                                         *)
(* notify_input() holds observers_mutex while it calls handle_input() of   *)
(* one handler after the other; each call is a step of its own.  Inputs    *)
(* are numbered in the order in which the subject is notified of them.     *)
(***************************************************************************)
EXTENDS PrescaleManager

CONSTANTS Handlers,      \* the IInputHandler objects
          MaxInputs      \* bound of the stream of inputs, for TLC

ASSUME InputSubjectAssumption == MaxInputs \in Nat

VARIABLES
    observers_mutex,     \* "free", or "notifying" while notify_input() runs
    visiting,            \* handlers its loop still has to reach
    observers,           \* keys of the map InputSubject::observers
    prescale,            \* its values, where the key is present
    input                \* the input of the last notify_input()

inputVars == <<observers_mutex, visiting, observers, prescale, input>>

InputTypeOK ==
    /\ observers_mutex \in {"free", "notifying"}
    /\ visiting \in SUBSET Handlers
    /\ observers \in SUBSET Handlers
    /\ prescale \in [Handlers -> Manager]
    /\ input \in 0 .. MaxInputs

\* An attach() that does not take the mutex (for mutants).
AttachUnlocked(h, factor) ==
    /\ observers' = observers \cup {h}
    /\ prescale' = [prescale EXCEPT ![h] = NewManager(factor)]
    /\ UNCHANGED <<observers_mutex, visiting, input>>

\* attach_self(factor): an entry that is there gets a fresh manager.
attach(h, factor) ==
    /\ observers_mutex = "free"
    /\ observers' = observers \cup {h}
    /\ prescale' = [prescale EXCEPT ![h] = NewManager(factor)]
    /\ UNCHANGED <<observers_mutex, visiting, input>>

\* detach_self()
detach(h) ==
    /\ observers_mutex = "free"
    /\ observers' = observers \ {h}
    /\ prescale' = [prescale EXCEPT ![h] = NewManager(1)]
    /\ UNCHANGED <<observers_mutex, visiting, input>>

NotifyBegin ==
    /\ observers_mutex = "free"
    /\ input < MaxInputs
    /\ observers_mutex' = "notifying"
    /\ visiting' = observers
    /\ input' = input + 1
    /\ UNCHANGED <<observers, prescale>>

\* The loop reaches h.  Whether handle_input() is called is UpdateDue of its
\* manager before the step; the caller adds what the handler does then.
NotifyVisit(h) ==
    /\ observers_mutex = "notifying"
    /\ h \in visiting
    /\ visiting' = visiting \ {h}
    /\ prescale' = [prescale EXCEPT ![h] = Counted(@)]
    /\ UNCHANGED <<observers_mutex, observers, input>>

NotifyEnd ==
    /\ observers_mutex = "notifying"
    /\ visiting = {}
    /\ observers_mutex' = "free"
    /\ UNCHANGED <<visiting, observers, prescale, input>>

=============================================================================
