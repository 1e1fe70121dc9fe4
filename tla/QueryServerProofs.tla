-------------------------- MODULE QueryServerProofs --------------------------
(***************************************************************************)
(* The query server's list is safe for any number of tasks and requests:   *)
(* each request is consumed once, and none is slept on.                    *)
(***************************************************************************)
EXTENDS QueryServerTaskTrigger, TaskTriggerProofs

\* Every step of the server is a step of the trigger or leaves it alone.
LEMMA ServerStepIsTriggerStep == [QueryNext]_serverVars => [TriggerNext]_triggerVars
<1> SUFFICES ASSUME [QueryNext]_serverVars
             PROVE  [TriggerNext]_triggerVars
  OBVIOUS
<1> USE ServerAssumption
<1>1. CASE Store
  BY <1>1 DEF Store
<1>2. CASE HandleStep
  BY <1>2 DEF HandleStep, Trigger, Finish, TriggerNext, SubjectStep
<1>3. ASSUME NEW o \in Observers, ServeStep(o)
      PROVE  UNCHANGED triggerVars
  BY <1>3 DEF ServeStep, consumeRequest, answer, ConsumeNothing
<1>4. ASSUME NEW o \in Observers, Wait(o) \/ LeaveUnasked(o)
      PROVE  TriggerNext
  <2>1. WaitStep(o, FALSE)
    BY <1>4 DEF Wait, LeaveUnasked, WaitStep
  <2> QED
    BY <2>1 DEF TriggerNext
<1>5. ASSUME NEW o \in Observers, Construct(o)
      PROVE  TriggerNext
  BY <1>5 DEF Construct, ConstructStep, TriggerNext
<1>6. ASSUME NEW o \in Observers, NEW factor \in PrescaleFactors, Attach(o, factor)
      PROVE  TriggerNext
  BY <1>6 DEF Attach, SubjectStep, TriggerNext
<1>7. ASSUME NEW o \in Observers,
             \/ TriggerVisit(Server, o) \/ DetachBegin(Server, o) \/ DetachFinish(Server, o)
             \/ Cancel(o) \/ Free(o) \/ Destroy(o)
      PROVE  TriggerNext
  BY <1>7 DEF SubjectStep, TriggerNext
<1>8. CASE UNCHANGED serverVars
  BY <1>8 DEF serverVars
<1> QED
  BY <1>1, <1>2, <1>3, <1>4, <1>5, <1>6, <1>7, <1>8 DEF QueryNext

\* Whatever holds of the task trigger holds of the query server's.
THEOREM QueryServerIsTrigger == QuerySpec => TriggerSpec
<1>1. QueryInit => TriggerInit
  BY DEF QueryInit
<1> QED
  BY <1>1, ServerStepIsTriggerStep, PTL DEF QuerySpec, TriggerSpec

-----------------------------------------------------------------------------
\* The list holds the last requests in their order, pushed or popped.
Ordered(list, n) ==
    Len(list) <= n /\ \A k \in 1 .. Len(list) : list[k] = n - Len(list) + k

LEMMA PushKeepsOrder ==
    ASSUME NEW n \in Nat, n + 1 \in Request, NEW list \in Seq(Request), Ordered(list, n)
    PROVE  /\ Append(list, n + 1) \in Seq(Request)
           /\ Len(Append(list, n + 1)) = Len(list) + 1
           /\ Ordered(Append(list, n + 1), n + 1)
<1>1. /\ Append(list, n + 1) \in Seq(Request)
      /\ Len(Append(list, n + 1)) = Len(list) + 1
      /\ Len(list) \in Nat
  OBVIOUS
<1>2. ASSUME NEW k \in 1 .. Len(list) + 1
      PROVE  Append(list, n + 1)[k] = (n + 1) - (Len(list) + 1) + k
  BY <1>1 DEF Ordered
<1> QED
  BY <1>1, <1>2 DEF Ordered

LEMMA PopKeepsOrder ==
    ASSUME NEW n \in Nat, NEW list \in Seq(Request), list # <<>>, Ordered(list, n)
    PROVE  /\ Tail(list) \in Seq(Request)
           /\ Len(Tail(list)) = Len(list) - 1
           /\ Ordered(Tail(list), n)
           /\ Head(list) = n - Len(list) + 1
           /\ Head(list) \in Request
<1>1. /\ Tail(list) \in Seq(Request)
      /\ Len(Tail(list)) = Len(list) - 1
      /\ Head(list) = list[1]
      /\ Head(list) \in Request
      /\ Len(list) \in Nat \ {0}
  OBVIOUS
<1>2. ASSUME NEW k \in 1 .. Len(list) - 1
      PROVE  Tail(list)[k] = n - (Len(list) - 1) + k
  <2>1. Tail(list)[k] = list[k + 1]
    BY <1>1
  <2> QED
    BY <1>1, <2>1 DEF Ordered
<1> QED
  BY <1>1, <1>2 DEF Ordered

LEMMA QueryTypeStep ==
    ASSUME QueryTypeOK, [QueryNext]_serverVars
    PROVE  QueryTypeOK'
<1>1. TriggerTypeOK'
  BY ServerStepIsTriggerStep, TypeStep DEF QueryTypeOK
<1>2. Len(requestList) \in Nat
  BY DEF QueryTypeOK
<1> USE <1>1, <1>2, ServerAssumption DEF QueryTypeOK, listVars, serveVars, queryVars
<1>3. CASE Store
  <2>1. arrived' \in Request /\ Ordered(requestList, arrived) /\ arrived \in Nat
    BY <1>3 DEF Store, Request, Ordered
  <2>2. requestList' \in Seq(Request) /\ Ordered(requestList', arrived')
    BY <1>3, <2>1, PushKeepsOrder DEF Store
  <2> QED
    BY <1>3, <2>1, <2>2 DEF Store, Request, Ordered
<1>4. CASE HandleStep
  BY <1>4 DEF HandleStep, Trigger, Finish
<1>5. ASSUME NEW o \in Observers, consumeRequest(o)
      PROVE  QueryTypeOK'
  <2>1. Ordered(requestList, arrived) /\ arrived \in Nat
    BY DEF Ordered
  <2>2. /\ requestList' \in Seq(Request) /\ Ordered(requestList', arrived)
        /\ Head(requestList) \in Request
    BY <1>5, <2>1, PopKeepsOrder DEF consumeRequest
  <2> QED
    BY <1>5, <2>2 DEF consumeRequest, Request, Ordered
<1>6. ASSUME NEW o \in Observers, answer(o)
      PROVE  QueryTypeOK'
  <2>1. answering[o] \in Request
    BY <1>6 DEF answer, Request
  <2>2. answered' \in SUBSET Request
    BY <1>6, <2>1 DEF answer
  <2>3. answering' \in [Observers -> 0 .. MaxRequests]
    BY <1>6 DEF answer
  <2>4. UNCHANGED <<requestList, requestMutex, arrived, pc, since>>
    BY <1>6 DEF answer
  <2> QED
    BY <2>2, <2>3, <2>4
<1>10. ASSUME NEW o \in Observers, ConsumeNothing(o)
      PROVE  QueryTypeOK'
  BY <1>10 DEF ConsumeNothing
<1>7. ASSUME NEW o \in Observers, Wait(o) \/ LeaveUnasked(o)
      PROVE  QueryTypeOK'
  BY <1>7 DEF Wait, LeaveUnasked, AfterWait
<1>8. ASSUME NEW o \in Observers, Construct(o) \/ \E factor \in PrescaleFactors : Attach(o, factor)
      PROVE  QueryTypeOK'
  BY <1>8 DEF Construct, Attach
<1>9. CASE UNCHANGED queryVars
  BY <1>9
<1> QED
  BY <1>3, <1>4, <1>5, <1>6, <1>7, <1>8, <1>9, <1>10 DEF QueryNext, ServeStep, serverVars

THEOREM QueryTypes == QuerySpec => []QueryTypeOK
<1>1. QueryInit => QueryTypeOK
  BY TypeInit, ServerAssumption DEF QueryInit, QueryTypeOK, Request
<1>2. QueryTypeOK /\ [QueryNext]_serverVars => QueryTypeOK'
  BY QueryTypeStep
<1> QED
  BY <1>1, <1>2, PTL DEF QuerySpec

-----------------------------------------------------------------------------
\* What was taken from the list is with one task, or answered: what the
\* refinement below needs of a state, besides the order of the list.
EachRequestOnce ==
    \A r \in Request :
        /\ \A o, p \in Observers : answering[o] = r /\ answering[p] = r => o = p
        /\ r <= arrived - Len(requestList)
               <=> (r \in answered \/ \E o \in Observers : answering[o] = r)
        /\ r \in answered => \A o \in Observers : answering[o] # r

LEMMA OnceStep ==
    ASSUME QueryTypeOK, EachRequestOnce, [QueryNext]_serverVars
    PROVE  EachRequestOnce'
<1>1. Len(requestList) \in Nat /\ arrived \in Nat
  BY ServerAssumption DEF QueryTypeOK
<1> USE <1>1, ServerAssumption DEF QueryTypeOK, EachRequestOnce, Request
<1>2. CASE Store
  <2>1. Len(requestList') = Len(requestList) + 1
    BY <1>2 DEF Store
  <2> QED
    BY <1>2, <2>1 DEF Store, serveVars
<1>3. ASSUME NEW o \in Observers, consumeRequest(o)
      PROVE  EachRequestOnce'
  <2> DEFINE front == arrived - Len(requestList) + 1
  <2>1. Ordered(requestList, arrived)
    BY DEF Ordered
  <2>2. Len(requestList') = Len(requestList) - 1 /\ Head(requestList) = front /\ front \in Request
    BY <1>3, <2>1, PopKeepsOrder DEF consumeRequest
  <2>3. answering' = [answering EXCEPT ![o] = front]
    BY <1>3, <2>2 DEF consumeRequest
  <2>4. front \notin answered /\ \A p \in Observers : answering[p] # front
    BY <2>2
  <2>5. answering[o] = 0 /\ UNCHANGED <<arrived, answered>>
    BY <1>3 DEF consumeRequest
  <2> HIDE DEF front
  <2>6. ASSUME NEW r \in Request
        PROVE  r <= arrived - Len(requestList') <=> (r <= arrived - Len(requestList) \/ r = front)
    <3> DEFINE gone == arrived - Len(requestList)
    <3>1. arrived - Len(requestList') = gone + 1 /\ front = gone + 1
      BY <2>2 DEF front
    <3>2. gone \in Nat /\ r \in Nat
      OBVIOUS
    <3> HIDE DEF gone
    <3>3. r <= gone + 1 <=> (r <= gone \/ r = gone + 1)
      BY <3>2
    <3> QED
      BY <3>1, <3>3 DEF gone
  <2> QED
    BY <2>2, <2>3, <2>4, <2>5, <2>6
<1>4. ASSUME NEW o \in Observers, answer(o)
      PROVE  EachRequestOnce'
  BY <1>4 DEF answer, listVars
<1>5. CASE UNCHANGED <<requestList, arrived, answering, answered>>
  BY <1>5
<1> QED
  BY <1>2, <1>3, <1>4, <1>5
  DEF QueryNext, HandleStep, Trigger, Finish, ServeStep, ConsumeNothing, Wait, LeaveUnasked,
      AfterWait, Construct, Attach, listVars, serveVars, queryVars, serverVars

LEMMA RequestsAreConsumedOnce == QuerySpec => []EachRequestOnce
<1>1. QueryInit => EachRequestOnce
  BY ServerAssumption DEF QueryInit, EachRequestOnce, Request
<1>2. QueryTypeOK /\ EachRequestOnce /\ [QueryNext]_serverVars => EachRequestOnce'
  BY OnceStep
<1> QED
  BY <1>1, <1>2, QueryTypes, PTL DEF QuerySpec

-----------------------------------------------------------------------------
\* Every step of the server is one of the service it promises, or none.
LEMMA ServerStepIsServiceStep ==
    ASSUME QueryTypeOK, EachRequestOnce, [QueryNext]_serverVars
    PROVE  [Service!ServiceNext]_(Service!serviceVars)
<1> DEFINE taken == arrived - Len(requestList)
<1>1. Len(requestList) \in Nat /\ arrived \in Nat /\ requestList \in Seq(Request)
  BY ServerAssumption DEF QueryTypeOK
<1> USE DEF QueryTypeOK, Service!ServiceNext, Service!serviceVars
<1>2. CASE Store
  <2>1. arrived' = arrived + 1 /\ UNCHANGED <<answering, answered>>
    BY <1>2 DEF Store, serveVars
  <2>2. Len(requestList') = Len(requestList) + 1
    BY <1>1, <1>2 DEF Store
  <2>3. taken' = taken
    BY <1>1, <2>1, <2>2
  <2> QED
    BY <2>1, <2>3 DEF Service!Arrive
<1>3. ASSUME NEW o \in Observers, consumeRequest(o)
      PROVE  Service!Take(o)
  <2>1. /\ requestList # <<>> /\ requestList' = Tail(requestList)
        /\ answering[o] = 0 /\ answering' = [answering EXCEPT ![o] = Head(requestList)]
        /\ UNCHANGED <<arrived, answered>>
    BY <1>3 DEF consumeRequest
  <2>2. Ordered(requestList, arrived)
    BY DEF Ordered
  <2>3. Len(requestList') = Len(requestList) - 1 /\ Head(requestList) = taken + 1
    BY <1>1, <2>1, <2>2, PopKeepsOrder
  <2>4. taken < arrived /\ taken' = taken + 1
    BY <1>1, <2>1, <2>3
  <2> QED
    BY <2>1, <2>3, <2>4 DEF Service!Take
<1>4. ASSUME NEW o \in Observers, answer(o)
      PROVE  Service!Answer(o)
  <2>1. answering[o] # 0 /\ answering[o] \in Request
    BY <1>4, ServerAssumption DEF answer, Request
  <2>2. answering[o] \notin answered
    BY <2>1 DEF EachRequestOnce
  <2> QED
    BY <1>4, <2>1, <2>2 DEF answer, listVars, Service!Answer
<1>5. CASE UNCHANGED <<requestList, arrived, answering, answered>>
  BY <1>5
<1> QED
  BY <1>2, <1>3, <1>4, <1>5
  DEF QueryNext, HandleStep, Trigger, Finish, ServeStep, ConsumeNothing, Wait, LeaveUnasked,
      AfterWait, Construct, Attach, listVars, serveVars, queryVars, serverVars

\* The tasks serve the requests in the order of their arrival, each by one.
THEOREM RequestsAreServedInOrder == QuerySpec => ServesInOrder
<1>1. QueryInit => Service!ServiceInit
  <2> SUFFICES ASSUME QueryInit
               PROVE  Service!ServiceInit
    OBVIOUS
  <2>1. Len(requestList) = 0
    <3>1. requestList = <<>>
      BY DEF QueryInit
    <3> QED
      BY <3>1
  <2>2. arrived = 0 /\ answering = [o \in Observers |-> 0] /\ answered = {}
    BY DEF QueryInit
  <2> QED
    BY <2>1, <2>2 DEF Service!ServiceInit
<1>2. QueryTypeOK /\ EachRequestOnce /\ [QueryNext]_serverVars
      => [Service!ServiceNext]_(Service!serviceVars)
  BY ServerStepIsServiceStep
<1> QED
  BY <1>1, <1>2, QueryTypes, RequestsAreConsumedOnce, PTL
  DEF QuerySpec, ServesInOrder, Service!ServiceSpec

-----------------------------------------------------------------------------
\* Is a request in the list that came after the task was attached?
Due(o) == \E k \in 1 .. Len(requestList) : requestList[k] > since[o]

\* handleQuery() has still to tell the task.
Telling(o) ==
    /\ requestMutex = "held"
    /\ subject_mutex[Server] # "triggering" \/ o \in targets[Server]

Every(o) == prescale[Server][o].prescaleFactor = 1

\* An attached task that is neither being told nor awake has been told, and has
\* not been back in its loop since: when it leaves on_execute() the list is
\* empty.
Heard(o) ==
    /\ wait[o] # "running" => pc[o] = "wait"
    /\ Every(o) => prescale[Server][o].updateCounter = 1
    /\ (o \in observers[Server] /\ Every(o) /\ Due(o) /\ ~Telling(o))
           => signalled[o] \/ wait[o] \in Woken \/ pc[o] \in {"execute", "left"}

TriggersUnderLock == subject_mutex[Server] = "triggering" => requestMutex = "held"

HeardInv == TriggersUnderLock /\ \A o \in Observers : Heard(o)

\* What a step on another observer leaves alone.
LEMMA HeardUnaffected ==
    ASSUME NEW o \in Observers, Heard(o),
           UNCHANGED <<wait[o], pc[o], signalled[o], prescale[Server][o], since[o]>>,
           Due(o)' => Due(o), Telling(o) => Telling(o)',
           o \in observers'[Server] => o \in observers[Server]
    PROVE  Heard(o)'
BY DEF Heard, Every

LEMMA ListIsPast ==
    ASSUME QueryTypeOK, NEW k \in 1 .. Len(requestList)
    PROVE  requestList[k] \in Nat /\ ~(requestList[k] > arrived)
BY ServerAssumption DEF QueryTypeOK, Request

LEMMA DueStaysDue ==
    ASSUME QueryTypeOK, NEW o \in Observers, NEW p \in Observers, consumeRequest(p), Due(o)'
    PROVE  Due(o)
<1>1. PICK k \in 1 .. Len(requestList') : requestList'[k] > since'[o]
  BY DEF Due
<1>2. /\ requestList' = Tail(requestList)
      /\ since' = since
      /\ requestList # <<>>
      /\ requestList \in Seq(Request)
  BY DEF consumeRequest, QueryTypeOK
<1>3. k + 1 \in 1 .. Len(requestList) /\ requestList'[k] = requestList[k + 1]
  BY <1>1, <1>2
<1> QED
  BY <1>1, <1>2, <1>3 DEF Due

LEMMA HeardStep ==
    ASSUME TriggerInv, QueryTypeOK, HeardInv, [QueryNext]_serverVars
    PROVE  HeardInv'
<1> USE ServerAssumption DEF listVars, serveVars, queryVars
<1>1. /\ wait \in [Observers -> {"running"} \cup Blocked \cup Woken]
      /\ pc \in [Observers -> {"wait", "execute", "left"}]
      /\ signalled \in [Observers -> BOOLEAN] /\ since \in [Observers -> 0 .. MaxRequests]
      /\ prescale \in [Subjects -> [Observers -> Manager]]
      /\ observers \in [Subjects -> SUBSET Observers]
      /\ targets \in [Subjects -> SUBSET Observers]
      /\ subject_mutex \in [Subjects -> {"free", "triggering", "detaching"}]
      /\ Server \in Subjects
  BY DEF QueryTypeOK, TriggerTypeOK
<1>2. TriggersUnderLock /\ \A o \in Observers : Heard(o)
  BY DEF HeardInv
<1>3. CASE Store
  <2>1. /\ requestMutex' = "held" /\ subject_mutex[Server] # "triggering"
        /\ UNCHANGED <<triggerVars, pc, since>>
    BY <1>2, <1>3 DEF Store, TriggersUnderLock
  <2>2. TriggersUnderLock' /\ \A o \in Observers : Telling(o)'
    BY <2>1 DEF triggerVars, subjectVars, TriggersUnderLock, Telling
  <2> QED
    BY <1>2, <2>1, <2>2
    DEF HeardInv, Heard, Every, triggerVars, subjectVars, waiterVars, observerVars
<1>4. CASE Trigger
  <2>1. /\ requestMutex = "held" /\ UNCHANGED <<queryVars, wait, signalled, prescale, observers>>
        /\ targets'[Server] = observers[Server]
    BY <1>1, <1>4 DEF Trigger, TriggerBegin, observerVars, waiterVars
  <2>2. TriggersUnderLock' /\ \A o \in observers[Server] : Telling(o)'
    BY <2>1 DEF TriggersUnderLock, Telling
  <2> QED
    BY <1>2, <2>1, <2>2 DEF HeardInv, Heard, Every
<1>5. CASE Finish
  <2>1. /\ subject_mutex[Server] = "triggering" /\ targets[Server] = {}
        /\ subject_mutex'[Server] = "free"
        /\ UNCHANGED <<wait, signalled, prescale, observers, pc, since, requestList>>
    BY <1>1, <1>5 DEF Finish, TriggerEnd, observerVars, waiterVars
  <2>2. TriggersUnderLock' /\ \A o \in Observers : ~Telling(o) /\ Due(o)' = Due(o)
    BY <2>1 DEF TriggersUnderLock, Telling, Due
  <2> QED
    BY <1>2, <2>1, <2>2, HeardUnaffected DEF HeardInv
<1>6. ASSUME NEW p \in Observers, Wait(p) \/ LeaveUnasked(p)
      PROVE  HeardInv'
  <2>1. UNCHANGED <<subjectVars, requestList, requestMutex, since>> /\ pc[p] = "wait"
    BY <1>6 DEF Wait, LeaveUnasked, AfterWait, waitOnTrigger, WakeNotified, WakeSpuriously,
                ReturnFromWait
  <2>2. \A o \in Observers : o # p => UNCHANGED <<wait[o], pc[o], signalled[o]>>
    BY <1>1, <1>6 DEF Wait, LeaveUnasked, AfterWait, waitOnTrigger, WakeNotified, WakeSpuriously,
                      ReturnFromWait, Return
  <2>3. TriggersUnderLock'
    BY <1>2, <2>1 DEF TriggersUnderLock, subjectVars
  <2>4. \A o \in Observers : Due(o)' = Due(o) /\ Telling(o)' = Telling(o)
    BY <2>1 DEF Due, Telling, subjectVars
  <2>5. \A o \in Observers : o # p => Heard(o)'
    BY <1>2, <2>1, <2>2, <2>4, HeardUnaffected DEF subjectVars
  <2>6. pc' = [pc EXCEPT ![p] = IF wait'[p] # "running" THEN "wait"
                                ELSE IF status'[p] = "SMART_CANCELLED" THEN "left"
                                ELSE "execute"]
    BY <1>6 DEF Wait, LeaveUnasked, AfterWait
  <2>7. CASE wait'[p] = "running"
    <3>1. pc'[p] \in {"execute", "left"}
      BY <1>1, <2>6, <2>7
    <3>2. Heard(p)'
      BY <1>2, <2>1, <2>7, <3>1 DEF Heard, Every, subjectVars
    <3> QED
      BY <2>3, <2>5, <3>2 DEF HeardInv
  <2>8. CASE wait'[p] # "running"
    <3>1. pc'[p] = "wait"
      BY <1>1, <2>6, <2>8
    <3>2. wait[p] = "running" /\ ~signalled[p]
      BY <1>1, <1>6, <2>8 DEF Wait, LeaveUnasked, waitOnTrigger, WakeNotified, WakeSpuriously,
                              ReturnFromWait, Return
    <3>3. ~(p \in observers[Server] /\ Every(p) /\ Due(p) /\ ~Telling(p))
      BY <1>2, <2>1, <3>2 DEF Heard, Woken
    <3>4. Heard(p)'
      BY <1>2, <2>1, <2>4, <3>1, <3>3 DEF Heard, Every, subjectVars
    <3> QED
      BY <2>3, <2>5, <3>4 DEF HeardInv
  <2> QED
    BY <2>7, <2>8
<1>7. ASSUME NEW p \in Observers, consumeRequest(p)
      PROVE  HeardInv'
  <2>1. \A o \in Observers : Due(o)' => Due(o)
    BY <1>7, DueStaysDue
  <2>2. UNCHANGED <<triggerVars, requestMutex, pc, since>>
    BY <1>7 DEF consumeRequest
  <2>3. \A o \in Observers : Telling(o)' = Telling(o)
    BY <2>2 DEF Telling, triggerVars, subjectVars
  <2> QED
    BY <1>2, <2>1, <2>2, <2>3, HeardUnaffected
    DEF HeardInv, TriggersUnderLock, triggerVars, subjectVars, observerVars, waiterVars
<1>8. ASSUME NEW p \in Observers, ConsumeNothing(p)
      PROVE  HeardInv'
  <2>1. /\ requestList' = <<>> /\ UNCHANGED <<triggerVars, requestMutex>>
        /\ pc[p] = "execute" /\ \A o \in Observers : o # p => pc'[o] = pc[o]
    BY <1>1, <1>8 DEF ConsumeNothing
  <2>2. \A o \in Observers : ~Due(o)'
    BY <2>1 DEF Due
  <2> QED
    BY <1>2, <2>1, <2>2
    DEF HeardInv, Heard, Every, TriggersUnderLock, triggerVars, subjectVars, waiterVars
<1>9. ASSUME NEW p \in Observers, NEW factor \in PrescaleFactors,
             Construct(p) \/ Attach(p, factor)
      PROVE  HeardInv'
  <2>1. since'[p] = arrived /\ UNCHANGED <<requestList, requestMutex>>
    BY <1>1, <1>9 DEF Construct, Attach
  <2>2. ~Due(p)'
    BY <2>1, ListIsPast DEF Due
  <2>3. UNCHANGED <<subject_mutex, targets>>
    BY <1>9 DEF Construct, Attach, ConstructDetached, ConstructAttached, attach, AttachTo,
                subjectVars
  <2>4. ASSUME NEW o \in Observers, o # p
        PROVE  /\ UNCHANGED <<wait[o], pc[o], signalled[o], prescale[Server][o], since[o]>>
               /\ o \in observers'[Server] => o \in observers[Server]
    BY <1>1, <1>9, <2>4
    DEF Construct, Attach, ConstructDetached, ConstructAttached, NewObserver, attach, AttachTo,
        Return, subjectVars, waiterVars
  <2>5. \A o \in Observers : o # p => Heard(o)'
    BY <1>2, <2>1, <2>3, <2>4, HeardUnaffected DEF Due, Telling
  <2>6. wait'[p] # "running" => pc'[p] = "wait"
    BY <1>1, <1>2, <1>9
    DEF Construct, Attach, ConstructDetached, ConstructAttached, NewObserver, attach, Return,
        waiterVars, Heard
  <2>7. Every(p)' => prescale'[Server][p].updateCounter = 1
    BY <1>1, <1>2, <1>9
    DEF Construct, Attach, ConstructDetached, ConstructAttached, attach, AttachTo, NewManager,
        Heard, Every, subjectVars
  <2> QED
    BY <1>2, <2>1, <2>2, <2>3, <2>5, <2>6, <2>7 DEF HeardInv, Heard, TriggersUnderLock
<1>10. ASSUME NEW p \in Observers, TriggerVisit(Server, p), UNCHANGED queryVars
       PROVE  HeardInv'
  <2>1. /\ p \in targets[Server] /\ targets'[Server] = targets[Server] \ {p}
        /\ UNCHANGED <<subject_mutex, observers>>
    BY <1>1, <1>10 DEF TriggerVisit
  <2>2. ASSUME NEW o \in Observers, o # p
        PROVE  UNCHANGED <<wait[o], signalled[o], prescale[Server][o]>>
    BY <1>1, <1>10, <2>2 DEF TriggerVisit, signalTrigger, NotifyAll
  <2>3. \A o \in Observers : o # p => Heard(o)'
    BY <1>2, <1>10, <2>1, <2>2, HeardUnaffected DEF Due, Telling
  <2>4. prescale'[Server][p] = Counted(prescale[Server][p])
    BY <1>1, <1>10 DEF TriggerVisit
  <2>5. prescale[Server][p] \in Manager
    BY <1>1
  <2>6. Every(p)' => Every(p) /\ UpdateDue(prescale[Server][p])
    BY <1>2, <2>4, <2>5 DEF Every, Heard, Counted, UpdateDue, Manager
  <2>7. Every(p)' => prescale'[Server][p].updateCounter = 1
    BY <2>4, <2>5, <2>6 DEF Counted, Manager
  <2>8. Every(p)' => signalled'[p]
    BY <1>1, <1>10, <2>6 DEF TriggerVisit, signalTrigger
  <2>9. wait'[p] # "running" => wait[p] # "running"
    BY <1>1, <1>10 DEF TriggerVisit, signalTrigger, NotifyAll
  <2> QED
    BY <1>2, <1>10, <2>1, <2>3, <2>7, <2>8, <2>9 DEF HeardInv, Heard, TriggersUnderLock
<1>11. ASSUME NEW p \in Observers, DetachBegin(Server, p), UNCHANGED queryVars
       PROVE  HeardInv'
  <2>1. /\ subject_mutex[Server] # "triggering" /\ subject_mutex'[Server] # "triggering"
        /\ UNCHANGED <<observers, prescale, signalled, wait>>
    BY <1>1, <1>11 DEF DetachBegin, waiterVars
  <2> QED
    BY <1>2, <1>11, <2>1, HeardUnaffected DEF HeardInv, TriggersUnderLock, Due, Telling
<1>12. ASSUME NEW p \in Observers, DetachFinish(Server, p), UNCHANGED queryVars
       PROVE  HeardInv'
  <2>1. /\ subject_mutex[Server] # "triggering" /\ subject_mutex'[Server] # "triggering"
        /\ p \notin observers'[Server] /\ observers'[Server] \subseteq observers[Server]
    BY <1>1, <1>12 DEF DetachFinish
  <2>2. ASSUME NEW o \in Observers, o # p
        PROVE  UNCHANGED <<wait[o], signalled[o], prescale[Server][o]>>
    BY <1>1, <1>12, <2>2 DEF DetachFinish, cancelTrigger, NotifyAll
  <2>3. \A o \in Observers : o # p => Heard(o)'
    BY <1>2, <1>12, <2>1, <2>2, HeardUnaffected DEF Due, Telling
  <2>4. /\ prescale'[Server][p] = NewManager(1)
        /\ wait'[p] # "running" => wait[p] # "running"
    BY <1>1, <1>12 DEF DetachFinish, cancelTrigger, NotifyAll
  <2> QED
    BY <1>2, <1>12, <2>1, <2>3, <2>4 DEF HeardInv, Heard, TriggersUnderLock, NewManager
<1>13. ASSUME NEW p \in Observers, Cancel(p), UNCHANGED queryVars
       PROVE  HeardInv'
  <2>1. UNCHANGED <<subjectVars, signalled>>
    BY <1>13 DEF Cancel
  <2>2. \A o \in Observers :
            wait'[o] = wait[o] \/ (wait[o] # "running" /\ wait'[o] \in Woken)
    BY <1>1, <1>13 DEF Cancel, cancelTrigger, NotifyAll, Woken
  <2> QED
    BY <1>2, <1>13, <2>1, <2>2
    DEF HeardInv, Heard, Every, TriggersUnderLock, Due, Telling, subjectVars
<1>14. CASE UNCHANGED <<subjectVars, signalled, waiterVars, queryVars>>
  BY <1>2, <1>14, HeardUnaffected
  DEF HeardInv, TriggersUnderLock, Due, Telling, subjectVars, waiterVars
<1>15. ASSUME NEW p \in Observers, answer(p)
       PROVE  HeardInv'
  BY <1>2, <1>15, HeardUnaffected
  DEF answer, HeardInv, TriggersUnderLock, Due, Telling, triggerVars, subjectVars, observerVars,
      waiterVars
<1>16. ASSUME NEW p \in Observers, Free(p) \/ Destroy(p)
       PROVE  UNCHANGED <<subjectVars, signalled, waiterVars>>
  BY <1>16 DEF Free, Destroy, observerVars
<1> QED
  BY <1>3, <1>4, <1>5, <1>6, <1>7, <1>8, <1>9, <1>10, <1>11, <1>12, <1>13, <1>14, <1>15, <1>16
  DEF QueryNext, HandleStep, ServeStep, serverVars, triggerVars, observerVars

\* No task that is attached sleeps while a request waits that came after it.
THEOREM NoRequestWaitsForSleepers == QuerySpec => []NoRequestIsSleptOn
<1>1. QueryInit => HeardInv
  BY ServerAssumption
  DEF QueryInit, TriggerInit, HeardInv, Heard, TriggersUnderLock, NewManager
<1>2. /\ TriggerInv /\ QueryTypeOK /\ HeardInv /\ [QueryNext]_serverVars
      => HeardInv'
  BY HeardStep
<1>3. TriggerInv /\ QueryTypeOK /\ HeardInv => NoRequestIsSleptOn
  <2> SUFFICES ASSUME TriggerInv, QueryTypeOK, HeardInv, requestMutex = "free",
                      NEW o \in Observers, Waiting(o), Every(o),
                      NEW k \in 1 .. Len(requestList)
               PROVE  requestList[k] <= since[o]
    BY DEF NoRequestIsSleptOn, Every
  <2>1. o \in observers[Server]
    BY ServerAssumption DEF TriggerInv, AttachmentAgrees, Waiting
  <2>2. ~signalled[o] /\ wait[o] \notin Woken /\ pc[o] = "wait"
    BY DEF TriggerInv, NoLostWakeup, Waiting, HeardInv, Heard, Blocked, Woken
  <2>3. ~Due(o)
    BY <2>1, <2>2 DEF HeardInv, Heard, Telling
  <2>4. requestList[k] \in Nat /\ since[o] \in Nat
    BY ServerAssumption DEF QueryTypeOK, Request
  <2> QED
    BY <2>3, <2>4 DEF Due
<1> QED
  BY <1>1, <1>2, <1>3, QueryTypes, QueryServerIsTrigger, TriggerSafety, PTL DEF QuerySpec

=============================================================================
