----------------------- MODULE QueryServerTaskTrigger -----------------------
(***************************************************************************)
(* QueryServerTaskTrigger (smartQueryServerTaskTrigger_T.h): handleQuery() *)
(* stores a request in a list and triggers the attached tasks, which take  *)
(* requests out of it with consumeRequest() and answer them.  Triggers     *)
(* coalesce, one flag per task; requests do not.  Composed with            *)
(* TaskTrigger, of which it is the only subject here.                      *)
(*                                                                         *)
(* Granularity.  requestMutex is held across trigger_all_tasks(), so the   *)
(* critical section of handleQuery() is several steps; that of             *)
(* consumeRequest() is one.                                                *)
(*                                                                         *)
(* External.  The tasks are user code.  The ones modelled go round the     *)
(* loop of IManagedTask (see ManagedTask; here without the request to stop *)
(* but with the cancellation), and consume and answer requests until none  *)
(* is left.                                                                *)
(*                                                                         *)
(* Callers.  The trigger is constructed before and destroyed after the     *)
(* tasks and the requests; a task is destroyed when it has left its loop.  *)
(***************************************************************************)
EXTENDS TaskTrigger, Sequences

CONSTANTS Server,        \* the QueryServerTaskTrigger, a TaskTriggerSubject
          MaxRequests    \* bound on the number of requests

ASSUME ServerAssumption ==
    /\ Subjects = {Server}
    /\ 1 \in PrescaleFactors
    /\ MaxRequests \in Nat

VARIABLES
    requestList,     \* numbers of the requests
    requestMutex,    \* "free", or "held" by handleQuery()
    arrived,         \* number of the last request
    pc,              \* of a task's thread: "wait", "execute", or "left"
    answering,       \* what a task has consumed and not answered, or 0
    answered,        \* requests that were answered
    since            \* last request before the task was attached (history)

listVars   == <<requestList, requestMutex, arrived>>
serveVars  == <<pc, answering, answered>>
queryVars  == <<listVars, serveVars, since>>
serverVars == <<triggerVars, queryVars>>

Request == 1 .. MaxRequests

QueryInit ==
    /\ TriggerInit
    /\ requestList  = <<>>
    /\ requestMutex = "free"
    /\ arrived      = 0
    /\ pc           = [o \in Observers |-> "left"]
    /\ answering    = [o \in Observers |-> 0]
    /\ answered     = {}
    /\ since        = [o \in Observers |-> 0]

-----------------------------------------------------------------------------
(***************************************************************************)
(* handleQuery().                                                          *)
(***************************************************************************)

\* A list that grows at the front (for mutants).
StoreInFront ==
    /\ requestMutex = "free"
    /\ arrived < MaxRequests
    /\ arrived' = arrived + 1
    /\ requestList' = <<arrived'>> \o requestList
    /\ requestMutex' = "held"
    /\ UNCHANGED <<triggerVars, serveVars, since>>

\* The lock is taken and the request pushed to the back of the list.
Store ==
    /\ requestMutex = "free"
    /\ arrived < MaxRequests
    /\ arrived' = arrived + 1
    /\ requestList' = Append(requestList, arrived')
    /\ requestMutex' = "held"
    /\ UNCHANGED <<triggerVars, serveVars, since>>

\* trigger_all_tasks(), called with the lock held, waits for subject_mutex.
Trigger ==
    /\ requestMutex = "held"
    /\ TriggerBegin(Server)
    /\ UNCHANGED queryVars

\* A trigger for the first request of a list only (for mutants).
FinishOrSkip ==
    /\ requestMutex = "held"
    /\ \/ TriggerEnd(Server)
       \/ Len(requestList) > 1 /\ subject_mutex[Server] = "free" /\ UNCHANGED triggerVars
    /\ requestMutex' = "free"
    /\ UNCHANGED <<requestList, arrived, serveVars, since>>

\* When all tasks are triggered both mutexes are released.
Finish ==
    /\ requestMutex = "held"
    /\ TriggerEnd(Server)
    /\ requestMutex' = "free"
    /\ UNCHANGED <<requestList, arrived, serveVars, since>>

-----------------------------------------------------------------------------
(***************************************************************************)
(* The tasks.                                                              *)
(***************************************************************************)

\* waitOnTrigger() in the loop: SMART_CANCELLED leaves it, whatever else is
\* returned begins an execution.
AfterWait(o) ==
    /\ pc' = [pc EXCEPT ![o] = IF wait'[o] # "running" THEN "wait"
                              ELSE IF status'[o] = "SMART_CANCELLED" THEN "left"
                              ELSE "execute"]
    /\ UNCHANGED <<listVars, answering, answered, since>>

Wait(o)         == pc[o] = "wait" /\ (waitOnTrigger(o, FALSE) \/ WakeNotified(o)) /\ AfterWait(o)
LeaveUnasked(o) == pc[o] = "wait" /\ WakeSpuriously(o) /\ AfterWait(o)

\* A consumeRequest() that leaves the request in the list (for mutants).
ConsumeUnpopped(o) ==
    /\ pc[o] = "execute"
    /\ answering[o] = 0
    /\ requestMutex = "free"
    /\ requestList # <<>>
    /\ answering' = [answering EXCEPT ![o] = Head(requestList)]
    /\ UNCHANGED <<triggerVars, listVars, pc, answered, since>>

\* consumeRequest() returns SMART_OK and the front of the list.
consumeRequest(o) ==
    /\ pc[o] = "execute"
    /\ answering[o] = 0
    /\ requestMutex = "free"
    /\ requestList # <<>>
    /\ answering' = [answering EXCEPT ![o] = Head(requestList)]
    /\ requestList' = Tail(requestList)
    /\ UNCHANGED <<triggerVars, requestMutex, arrived, pc, answered, since>>

answer(o) ==
    /\ answering[o] # 0
    /\ answered' = answered \cup {answering[o]}
    /\ answering' = [answering EXCEPT ![o] = 0]
    /\ UNCHANGED <<triggerVars, listVars, pc, since>>

\* consumeRequest() returns SMART_NODATA, and with it on_execute(): with zero,
\* or with an error that ends the task.
ConsumeNothing(o) ==
    /\ pc[o] = "execute"
    /\ answering[o] = 0
    /\ requestMutex = "free"
    /\ requestList = <<>>
    /\ \E next \in {"wait", "left"} : pc' = [pc EXCEPT ![o] = next]
    /\ UNCHANGED <<triggerVars, listVars, answering, answered, since>>

\* A task is constructed, attached with the default factor or not at all, and
\* its thread started.
Construct(o) ==
    /\ ConstructDetached(o) \/ ConstructAttached(Server, o, 1)
    /\ pc' = [pc EXCEPT ![o] = "wait"]
    /\ since' = [since EXCEPT ![o] = arrived]
    /\ UNCHANGED <<listVars, answering, answered>>

\* A task attached later hears of later requests.
Attach(o, factor) ==
    /\ attach(Server, o, factor)
    /\ since' = [since EXCEPT ![o] = arrived]
    /\ UNCHANGED <<listVars, serveVars>>

-----------------------------------------------------------------------------
HandleStep == Trigger \/ Finish

ServeStep(o) == consumeRequest(o) \/ answer(o) \/ ConsumeNothing(o)

QueryNext ==
    \/ Store \/ HandleStep
    \/ \E o \in Observers :
         \/ Wait(o) \/ LeaveUnasked(o) \/ ServeStep(o)
         \/ Construct(o)
         \/ \E factor \in PrescaleFactors : Attach(o, factor)
         \/ /\ \/ TriggerVisit(Server, o)
               \/ DetachBegin(Server, o) \/ DetachFinish(Server, o)
               \/ Cancel(o) \/ Free(o)
               \/ Destroy(o) /\ pc[o] = "left"
            /\ UNCHANGED queryVars

QuerySpec == QueryInit /\ [][QueryNext]_serverVars

(***************************************************************************)
(* Fairness: the threads of the tasks go on, and so does handleQuery(),    *)
(* also when it waits for subject_mutex, and whoever holds that.           *)
(***************************************************************************)
FairQuerySpec ==
    /\ QuerySpec
    /\ SubjectFairness
    /\ WF_serverVars(HandleStep)
    /\ \A o \in Observers : WF_serverVars(Wait(o) \/ ServeStep(o))

-----------------------------------------------------------------------------
(***************************************************************************)
(* Properties.                                                             *)
(***************************************************************************)

Waiting(o) == wait[o] \in Blocked /\ subject[o] = Server

\* Every variable has its type; the list holds the last requests in the order
\* of their arrival.
QueryTypeOK ==
    /\ TriggerTypeOK
    /\ arrived \in 0 .. MaxRequests
    /\ requestMutex \in {"free", "held"}
    /\ requestList \in Seq(Request)
    /\ Len(requestList) <= arrived
    /\ \A k \in 1 .. Len(requestList) : requestList[k] = arrived - Len(requestList) + k
    /\ pc \in [Observers -> {"wait", "execute", "left"}]
    /\ answering \in [Observers -> 0 .. MaxRequests]
    /\ answered \in SUBSET Request
    /\ since \in [Observers -> 0 .. MaxRequests]

(***************************************************************************)
(* The server keeps the promise of a RequestService: first come, first     *)
(* served, each request by one task, although tasks compete for the list,  *)
(* come and go, and are woken in any order.                                *)
(***************************************************************************)
Service ==
    INSTANCE RequestService WITH
        Workers <- Observers,
        taken   <- arrived - Len(requestList),
        serving <- answering

ServesInOrder == Service!ServiceSpec

(***************************************************************************)
(* No request is slept on.  When handleQuery() is over no attached task,   *)
(* unless it asked for fewer triggers, is asleep while a request waits     *)
(* that came after its attachment: although triggers coalesce, requests    *)
(* are consumed by several tasks, and one may come between the last        *)
(* consumeRequest() and the wait.                                          *)
(***************************************************************************)
NoRequestIsSleptOn ==
    \A o \in Observers :
        (/\ requestMutex = "free"
         /\ Waiting(o)
         /\ prescale[Server][o].prescaleFactor = 1)
            => \A k \in 1 .. Len(requestList) : requestList[k] <= since[o]

(***************************************************************************)
(* A request is answered if some task that was attached before it goes on  *)
(* serving: it neither leaves its loop nor is detached.                    *)
(***************************************************************************)
Serving(o) ==
    pc[o] # "left" /\ subject[o] = Server /\ prescale[Server][o].prescaleFactor = 1

RequestAnswered ==
    \A r \in Request, o \in Observers :
        (r <= arrived /\ since[o] < r /\ Serving(o))
            ~> (r \in answered \/ ~Serving(o) \/ since[o] >= r)

=============================================================================
