----------------------- MODULE ComponentShutdownProofs -----------------------
(***************************************************************************)
(* The shutdown of a component is safe for any number of tasks and         *)
(* patterns and any ownership among them.                                  *)
(***************************************************************************)
EXTENDS ComponentShutdown, TLAPS

\* What a thread constructs comes after its task in the list, and goes before.
OwnerComesFirst ==
    \A o \in Observers :
        (Owner[o] \in Tasks /\ life[o] # "none") =>
            /\ life[Owner[o]] = "built"
            /\ pc[Owner[o]] # "new"
            /\ o \in observers => <<Owner[o], o>> \in before

RunningIsBuilt == \A t \in Tasks : pc[t] = "running" => life[t] = "built"

\* notify_sutdown() is in its loop: what it has called is over with, what it
\* has not called is the rest of the list.
Loop ==
    /\ remaining \subseteq observers
    /\ calling \subseteq observers \ remaining
    /\ \A p \in remaining \cup calling, q \in observers :
           <<p, q>> \in before => q \in remaining
    /\ \A o \in observers \ (remaining \cup calling) :
           o \in shut /\ (o \in Tasks => pc[o] # "running")
    /\ \A o \in Observers :
           InTransit(o) => Owner[o] \in Tasks /\ pc[Owner[o]] = "running"

LoopInv ==
    /\ shutdown = "notifying" => Loop
    /\ calling # {} => shutdown = "notifying"

ShutdownInv ==
    /\ ShutdownTypeOK
    /\ OwnerComesFirst
    /\ RunningIsBuilt
    /\ LoopInv
    /\ EverythingIsShut

-----------------------------------------------------------------------------
LEMMA ShutdownTypeStep ==
    ASSUME ShutdownTypeOK, [ShutdownNext]_shutdownVars
    PROVE  ShutdownTypeOK'
<1> USE DEF ShutdownTypeOK, Live, listVars, notifyVars, threadVars, Observers
<1>1. ASSUME NEW o \in Observers, Construct(o)
      PROVE  ShutdownTypeOK'
  BY <1>1 DEF Construct
<1>2. ASSUME NEW o \in Observers, attach(o)
      PROVE  ShutdownTypeOK'
  BY <1>2 DEF attach
<1>3. ASSUME NEW o \in Observers, Constructed(o) \/ Destroy(o)
      PROVE  ShutdownTypeOK'
  BY <1>3 DEF Constructed, Destroy
<1>4. ASSUME NEW o \in Observers, detach(o)
      PROVE  ShutdownTypeOK'
  BY <1>4 DEF detach
<1>5. ASSUME NEW t \in Tasks, Start(t) \/ End(t)
      PROVE  ShutdownTypeOK'
  BY <1>5 DEF Start, End
<1>6. ASSUME NEW o \in Observers, Call(o) \/ Return(o)
      PROVE  ShutdownTypeOK'
  BY <1>6 DEF Call, CallNext, Return, Disconnect
<1>7. CASE NotifyBegin \/ NotifyEnd
  BY <1>7 DEF NotifyBegin, NotifyEnd
<1>8. ASSUME NEW p \in Patterns, NEW thread, Use(p, thread)
      PROVE  ShutdownTypeOK'
  BY <1>8 DEF Use
<1>9. CASE UNCHANGED shutdownVars
  BY <1>9 DEF shutdownVars
<1> QED
  BY <1>1, <1>2, <1>3, <1>4, <1>5, <1>6, <1>7, <1>8, <1>9
  DEF ShutdownNext, NotifyStep, TransitStep

-----------------------------------------------------------------------------
\* The address of a thread's task is taken until what it constructed is gone.
LEMMA OwnerStep ==
    ASSUME ShutdownInv, [ShutdownNext]_shutdownVars
    PROVE  OwnerComesFirst' /\ RunningIsBuilt'
<1> USE OwnerAssumption
    DEF ShutdownInv, ShutdownTypeOK, OwnerComesFirst, RunningIsBuilt, Live, Observers,
        listVars, notifyVars, threadVars
<1>1. ASSUME NEW o \in Observers, Construct(o)
      PROVE  OwnerComesFirst' /\ RunningIsBuilt'
  <2>1. Owner[o] \in Tasks => pc[Owner[o]] = "running"
    BY <1>1 DEF Construct, Idle, Running
  <2>2. ASSUME NEW p \in Observers, Owner[p] = o
        PROVE  life[p] = "none"
    <3>1. life[o] # "built" /\ Owner[p] \in Tasks
      BY <1>1, <2>2 DEF Construct
    <3> QED
      BY <2>2, <3>1
  <2>3. Owner[o] # o
    BY <1>1, <2>1 DEF Construct
  <2> QED
    BY <1>1, <2>1, <2>2, <2>3 DEF Construct
<1>2. ASSUME NEW o \in Observers, attach(o)
      PROVE  OwnerComesFirst' /\ RunningIsBuilt'
  BY <1>2 DEF attach
<1>3. ASSUME NEW o \in Observers, Constructed(o) \/ Destroy(o)
      PROVE  OwnerComesFirst' /\ RunningIsBuilt'
  <2>1. CASE Constructed(o)
    <3>1. /\ life[o] = "base" /\ life' = [life EXCEPT ![o] = "built"]
          /\ UNCHANGED <<observers, before, pc>>
      BY <2>1 DEF Constructed
    <3> QED
      BY <3>1
  <2>2. CASE Destroy(o)
    BY <2>2 DEF Destroy
  <2> QED
    BY <1>3, <2>1, <2>2
<1>4. ASSUME NEW o \in Observers, detach(o)
      PROVE  OwnerComesFirst' /\ RunningIsBuilt'
  BY <1>4 DEF detach
<1>5. ASSUME NEW t \in Tasks, Start(t) \/ End(t)
      PROVE  OwnerComesFirst' /\ RunningIsBuilt'
  BY <1>5 DEF Start, End
<1>6. ASSUME NEW o \in Observers, Call(o) \/ Return(o)
      PROVE  OwnerComesFirst' /\ RunningIsBuilt'
  BY <1>6 DEF Call, CallNext, Return, Disconnect
<1>7. CASE NotifyBegin \/ NotifyEnd
  BY <1>7 DEF NotifyBegin, NotifyEnd
<1>8. ASSUME NEW p \in Patterns, NEW thread, Use(p, thread)
      PROVE  OwnerComesFirst' /\ RunningIsBuilt'
  BY <1>8 DEF Use
<1>9. CASE UNCHANGED shutdownVars
  BY <1>9 DEF shutdownVars
<1> QED
  BY <1>1, <1>2, <1>3, <1>4, <1>5, <1>6, <1>7, <1>8, <1>9
  DEF ShutdownNext, NotifyStep, TransitStep

-----------------------------------------------------------------------------
\* The loop is over with a task before what its thread constructed: a thread
\* that still runs, and its observers, are ahead of it.
LEMMA OwnerIsJoined ==
    ASSUME ShutdownInv, shutdown = "notifying",
           NEW o \in observers \ remaining, Owner[o] \in Tasks
    PROVE  pc[Owner[o]] # "running"
<1> DEFINE t == Owner[o]
<1>1. o \in Observers /\ t \in observers /\ <<t, o>> \in before
  BY DEF ShutdownInv, ShutdownTypeOK, OwnerComesFirst, Observers
<1>2. t \notin remaining \cup calling
  BY <1>1 DEF ShutdownInv, LoopInv, Loop
<1> QED
  BY <1>1, <1>2 DEF ShutdownInv, LoopInv, Loop

LEMMA LoopStep ==
    ASSUME ShutdownInv, [ShutdownNext]_shutdownVars
    PROVE  LoopInv'
<1> USE OwnerAssumption
    DEF ShutdownInv, ShutdownTypeOK, LoopInv, Loop, InTransit, Live, Observers,
        listVars, notifyVars, threadVars
<1>1. ASSUME NEW o \in Observers, Construct(o)
      PROVE  LoopInv'
  <2>1. o \notin observers
    BY <1>1 DEF Construct
  <2>2. shutdown = "notifying" => Owner[o] \in Tasks /\ pc[Owner[o]] = "running"
    BY <1>1 DEF Construct, Idle, Running
  <2>3. pc[o] # "running" \/ o \notin Tasks
    BY <1>1 DEF Construct, RunningIsBuilt
  <2>4. \A p \in Observers : p # o => life'[p] = life[p]
    BY <1>1 DEF Construct
  <2>5. shutdown = "notifying" => Owner[o] # o
    BY <2>2, <2>3
  <2>6. \A t \in Tasks : t # o => pc'[t] = pc[t]
    BY <1>1 DEF Construct
  <2>7. \A p \in Observers : InTransit(p) /\ shutdown = "notifying" => Owner[p] # o
    BY <2>3
  <2> QED
    BY <1>1, <2>1, <2>2, <2>4, <2>5, <2>6, <2>7 DEF Construct
<1>2. ASSUME NEW o \in Observers, attach(o) \/ detach(o)
      PROVE  LoopInv'
  BY <1>2 DEF attach, detach, MutexFree
<1>3. ASSUME NEW o \in Observers, Constructed(o)
      PROVE  LoopInv'
  BY <1>3 DEF Constructed
<1>4. ASSUME NEW o \in Observers, Destroy(o)
      PROVE  LoopInv'
  <2>1. shutdown = "notifying" => Owner[o] \in Tasks /\ pc[Owner[o]] = "running"
    BY <1>4 DEF Destroy, Idle, Running, MutexFree
  <2> QED
    BY <1>4, <2>1 DEF Destroy
<1>5. ASSUME NEW t \in Tasks, Start(t)
      PROVE  LoopInv'
  <2>1. shutdown = "notifying" => Owner[t] \in Tasks /\ pc[Owner[t]] = "running"
    BY <1>5 DEF Start, Idle, Running
  <2>2. shutdown = "notifying" => t \in remaining
    BY <1>5, <2>1, OwnerIsJoined DEF Start
  <2> QED
    BY <1>5, <2>2 DEF Start
<1>6. ASSUME NEW t \in Tasks, End(t)
      PROVE  LoopInv'
  BY <1>6 DEF End, Idle
<1>7. ASSUME NEW o \in Observers, Call(o)
      PROVE  LoopInv'
  BY <1>7 DEF Call, CallNext
<1>8. ASSUME NEW o \in Observers, Return(o)
      PROVE  LoopInv'
  BY <1>8 DEF Return, CanReturn, Disconnect
<1>9. CASE NotifyBegin
  <2>1. \A o \in Observers : InTransit(o) => Owner[o] \in Tasks /\ pc[Owner[o]] = "running"
    BY <1>9 DEF NotifyBegin, Idle, Running
  <2> QED
    BY <1>9, <2>1 DEF NotifyBegin
<1>10. CASE NotifyEnd
  BY <1>10 DEF NotifyEnd
<1>11. ASSUME NEW p \in Patterns, NEW thread, Use(p, thread)
       PROVE  LoopInv'
  BY <1>11 DEF Use
<1>12. CASE UNCHANGED shutdownVars
  BY <1>12 DEF shutdownVars
<1> QED
  BY <1>1, <1>2, <1>3, <1>4, <1>5, <1>6, <1>7, <1>8, <1>9, <1>10, <1>11, <1>12
  DEF ShutdownNext, NotifyStep, TransitStep

-----------------------------------------------------------------------------
\* Once it is over no thread is left that could begin anything.
LEMMA EndStep ==
    ASSUME ShutdownInv, [ShutdownNext]_shutdownVars
    PROVE  EverythingIsShut'
<1> USE OwnerAssumption
    DEF ShutdownInv, ShutdownTypeOK, EverythingIsShut, Live, Observers,
        listVars, notifyVars, threadVars
<1>1. ASSUME NEW o \in Observers, Construct(o) \/ (o \in Tasks /\ Start(o))
      PROVE  EverythingIsShut'
  <2>1. shutdown = "done" => Owner[o] \in Tasks /\ pc[Owner[o]] = "running"
    BY <1>1 DEF Construct, Start, Idle, Running
  <2>2. shutdown # "done"
    BY <2>1 DEF RunningIsBuilt
  <2> QED
    BY <1>1, <2>2 DEF Construct, Start
<1>2. ASSUME NEW o \in Observers, attach(o) \/ Constructed(o) \/ Destroy(o) \/ detach(o)
      PROVE  EverythingIsShut'
  <2>1. /\ life[o] # "none"
        /\ \A p \in Observers : life'[p] # "none" => life[p] # "none"
        /\ UNCHANGED <<shutdown, shut, pc>>
    BY <1>2 DEF attach, Constructed, Destroy, detach
  <2> QED
    BY <2>1
<1>3. ASSUME NEW t \in Tasks, End(t)
      PROVE  EverythingIsShut'
  BY <1>3 DEF End
<1>4. ASSUME NEW o \in Observers, Call(o) \/ Return(o)
      PROVE  EverythingIsShut'
  BY <1>4 DEF Call, CallNext, Return, Disconnect
<1>5. CASE NotifyBegin
  BY <1>5 DEF NotifyBegin
<1>6. CASE NotifyEnd
  <2> SUFFICES ASSUME NEW t \in Observers, life[t] # "none"
               PROVE  t \in shut /\ (t \in Tasks => pc[t] # "running")
    BY <1>6 DEF NotifyEnd
  <2>1. \A o \in observers : o \in shut /\ (o \in Tasks => pc[o] # "running")
    BY <1>6 DEF NotifyEnd, LoopInv, Loop
  <2>2. life[t] # "entering"
    <3>1. InTransit(t) => Owner[t] \in Tasks /\ pc[Owner[t]] = "running"
      BY <1>6 DEF NotifyEnd, LoopInv, Loop
    <3>2. Owner[t] \in Tasks => Owner[t] \in observers
      BY DEF OwnerComesFirst
    <3> QED
      BY <3>1, <3>2, <2>1 DEF InTransit
  <2>3. t \in observers
    BY <2>2
  <2> QED
    BY <2>1, <2>3
<1>7. ASSUME NEW p \in Patterns, NEW thread, Use(p, thread)
      PROVE  EverythingIsShut'
  BY <1>7 DEF Use
<1>8. CASE UNCHANGED shutdownVars
  BY <1>8 DEF shutdownVars
<1> QED
  BY <1>1, <1>2, <1>3, <1>4, <1>5, <1>6, <1>7, <1>8
  DEF ShutdownNext, NotifyStep, TransitStep

-----------------------------------------------------------------------------
\* A thread that runs belongs to a task the loop is not over with, and so not
\* to one that is ahead of a pattern it is over with.
LEMMA RunningComesLater ==
    ASSUME ShutdownInv, shutdown = "notifying",
           NEW p \in Patterns, life[p] = "built", p \notin remaining \cup calling,
           NEW t \in Tasks, pc[t] = "running"
    PROVE  <<p, t>> \in before
<1> USE DEF ShutdownInv, ShutdownTypeOK, RunningIsBuilt, LoopInv, Loop, Observers
<1>1. p \in observers /\ t \in observers /\ p # t
  BY OwnerAssumption
<1>2. t \in remaining \cup calling
  BY <1>1
<1>3. <<t, p>> \notin before
  BY <1>1, <1>2
<1> QED
  BY <1>1, <1>3

-----------------------------------------------------------------------------
\* The inductive invariant of the shutdown holds for any component.
THEOREM ShutdownSafety == ShutdownSpec => []ShutdownInv
<1>1. ShutdownInit => ShutdownInv
  BY OwnerAssumption
  DEF ShutdownInit, ShutdownInv, ShutdownTypeOK, OwnerComesFirst, RunningIsBuilt, LoopInv,
      EverythingIsShut, Observers
<1>2. ShutdownInv /\ [ShutdownNext]_shutdownVars => ShutdownInv'
  BY ShutdownTypeStep, OwnerStep, LoopStep, EndStep DEF ShutdownInv
<1> QED
  BY <1>1, <1>2, PTL DEF ShutdownSpec

\* Type correctness, and that the list names each attached observer once.
THEOREM ShutdownTypes == ShutdownSpec => []ShutdownTypeOK
<1>1. ShutdownInv => ShutdownTypeOK
  BY DEF ShutdownInv
<1> QED
  BY <1>1, ShutdownSafety, PTL

\* on_shutdown() is never called on an observer that is under construction or
\* destruction, or that a thread may still be working on.
THEOREM WholeObserversAreCalled == ShutdownSpec => []CallsWholeObservers
<1>1. ASSUME ShutdownInv, NEW o \in calling
      PROVE  life[o] = "built" /\ (Owner[o] \in Tasks => pc[Owner[o]] # "running")
  <2>1. shutdown = "notifying" /\ o \in observers \ remaining
    BY <1>1 DEF ShutdownInv, LoopInv, Loop
  <2>2. Owner[o] \in Tasks => pc[Owner[o]] # "running"
    BY <1>1, <2>1, OwnerIsJoined
  <2>3. ~InTransit(o)
    BY <1>1, <2>1, <2>2 DEF ShutdownInv, ShutdownTypeOK, LoopInv, Loop
  <2> QED
    BY <1>1, <2>1, <2>2, <2>3 DEF ShutdownInv, ShutdownTypeOK, InTransit
<1>2. ShutdownInv => CallsWholeObservers
  BY <1>1 DEF CallsWholeObservers
<1> QED
  BY <1>2, ShutdownSafety, PTL

\* When notify_sutdown() has returned every observer was shut down, and no
\* thread of a task runs.
THEOREM NothingIsLeftRunning == ShutdownSpec => []EverythingIsShut
<1>1. ShutdownInv => EverythingIsShut
  BY DEF ShutdownInv
<1> QED
  BY <1>1, ShutdownSafety, PTL

-----------------------------------------------------------------------------
(***************************************************************************)
(* What remains to be called has not been called, nothing has before the   *)
(* shutdown begins, and an observer under construction begins its life     *)
(* afresh.                                                                 *)
(***************************************************************************)
CalledOnce ==
    /\ shutdown = "idle" => shut = {}
    /\ shutdown = "done" => calling = {}
    /\ (remaining \cup calling) \cap shut = {}
    /\ \A o \in Observers :
           life[o] \in {"entering", "base"} => o \notin shut /\ (o \in Tasks => pc[o] = "new")

LEMMA CalledStep ==
    ASSUME ShutdownInv, CalledOnce, [ShutdownNext]_shutdownVars
    PROVE  CalledOnce'
<1> USE DEF CalledOnce, ShutdownInv, ShutdownTypeOK, LoopInv, Live, Observers,
            listVars, notifyVars, threadVars
<1>1. ASSUME NEW o \in Observers, Construct(o)
      PROVE  CalledOnce'
  BY <1>1 DEF Construct
<1>2. ASSUME NEW o \in Observers, attach(o) \/ Constructed(o) \/ Destroy(o) \/ detach(o)
      PROVE  CalledOnce'
  BY <1>2 DEF attach, Constructed, Destroy, detach
<1>3. ASSUME NEW t \in Tasks, Start(t) \/ End(t)
      PROVE  CalledOnce'
  BY <1>3 DEF Start, End, RunningIsBuilt
<1>4. ASSUME NEW o \in Observers, Call(o)
      PROVE  CalledOnce'
  BY <1>4 DEF Call, CallNext
<1>5. ASSUME NEW o \in Observers, Return(o)
      PROVE  CalledOnce'
  <2>1. shutdown = "notifying" /\ o \notin remaining /\ life[o] = "built"
    <3>1. o \in calling /\ shutdown = "notifying"
      BY <1>5 DEF Return
    <3>2. o \in observers \ remaining
      BY <3>1 DEF Loop
    <3>3. Owner[o] \in Tasks => pc[Owner[o]] # "running"
      BY <3>1, <3>2, OwnerIsJoined
    <3> QED
      BY <3>1, <3>2, <3>3 DEF Loop, InTransit
  <2> QED
    BY <1>5, <2>1 DEF Return
<1>6. CASE NotifyBegin \/ NotifyEnd
  BY <1>6 DEF NotifyBegin, NotifyEnd
<1>7. ASSUME NEW p \in Patterns, NEW thread, Use(p, thread)
      PROVE  CalledOnce'
  BY <1>7 DEF Use
<1>8. CASE UNCHANGED shutdownVars
  BY <1>8 DEF shutdownVars
<1> QED
  BY <1>1, <1>2, <1>3, <1>4, <1>5, <1>6, <1>7, <1>8 DEF ShutdownNext, NotifyStep, TransitStep

LEMMA CalledSafety == ShutdownSpec => []CalledOnce
<1>1. ShutdownInit => CalledOnce
  BY DEF ShutdownInit, CalledOnce, Observers
<1>2. ShutdownInv /\ CalledOnce /\ [ShutdownNext]_shutdownVars => CalledOnce'
  BY CalledStep
<1> QED
  BY ShutdownSafety, <1>1, <1>2, PTL DEF ShutdownSpec

-----------------------------------------------------------------------------
\* A pattern that was shut down can be connected again only by a thread that
\* the loop has not come to.
LEMMA UsedAgain ==
    ASSUME ShutdownInv, CalledOnce, NEW p \in Patterns, p \in shut,
           NEW thread \in Tasks \cup {Main}, Use(p, thread)
    PROVE  \E t \in Tasks : ConnectsAgain(t, p)
<1> USE DEF ShutdownInv, ShutdownTypeOK, Observers
<1>1. /\ life[p] = "built" /\ thread \in Users[p]
      /\ thread = Main => shutdown = "idle"
      /\ thread # Main => pc[thread] = "running"
  BY DEF Use, Idle, Running
<1>2. shutdown # "idle" /\ thread \in Tasks /\ pc[thread] = "running"
  BY <1>1 DEF CalledOnce
<1>3. life[thread] = "built"
  BY <1>2 DEF RunningIsBuilt
<1>4. shutdown = "notifying"
  BY <1>2, <1>3 DEF EverythingIsShut
<1>5. p \notin remaining \cup calling
  BY DEF CalledOnce
<1>6. <<p, thread>> \in before
  BY <1>1, <1>2, <1>4, <1>5, RunningComesLater
<1>7. thread \in remaining \cup calling
  BY <1>2, <1>3, <1>4 DEF LoopInv, Loop
<1> QED
  BY <1>1, <1>2, <1>6, <1>7 DEF ConnectsAgain

LEMMA DisconnectedStep ==
    ASSUME ShutdownInv, CalledOnce, ShutdownNext, NEW p \in Patterns, p \in shut', p \in connected'
    PROVE  \/ p \in shut /\ p \in connected
           \/ \E t \in Tasks : ConnectsAgain(t, p)
<1> USE DEF Live, Observers, listVars, notifyVars, threadVars
<1>1. ASSUME NEW o \in Observers, Construct(o) \/ attach(o) \/ Destroy(o) \/ detach(o)
      PROVE  p \in shut /\ p \in connected
  BY <1>1 DEF Construct, attach, Destroy, detach
<1>2. ASSUME NEW o \in Observers, Constructed(o)
      PROVE  p \in shut /\ p \in connected
  <2>1. o \notin shut /\ p \in shut /\ connected' \subseteq connected \cup {o}
    BY <1>2 DEF Constructed, CalledOnce
  <2> QED
    BY <2>1
<1>3. ASSUME NEW t \in Tasks, Start(t) \/ End(t)
      PROVE  p \in shut /\ p \in connected
  BY <1>3 DEF Start, End
<1>4. ASSUME NEW o \in Observers, Call(o)
      PROVE  p \in shut /\ p \in connected
  BY <1>4 DEF Call, CallNext
<1>5. ASSUME NEW o \in Observers, Return(o)
      PROVE  p \in shut /\ p \in connected
  BY <1>5 DEF Return, Disconnect
<1>6. CASE NotifyBegin \/ NotifyEnd
  BY <1>6 DEF NotifyBegin, NotifyEnd
<1>7. ASSUME NEW q \in Patterns, NEW thread \in Tasks \cup {Main}, Use(q, thread)
      PROVE  (p \in shut /\ p \in connected) \/ \E t \in Tasks : ConnectsAgain(t, p)
  <2>1. p \in shut /\ connected' \subseteq connected \cup {q}
    BY <1>7 DEF Use
  <2>2. CASE q = p
    BY <1>7, <2>1, <2>2, UsedAgain
  <2>3. CASE q # p
    BY <2>1, <2>3
  <2> QED
    BY <2>2, <2>3
<1> QED
  BY <1>1, <1>2, <1>3, <1>4, <1>5, <1>6, <1>7 DEF ShutdownNext, NotifyStep, TransitStep

\* A pattern whose on_shutdown() has returned is disconnected and stays so,
\* unless a task that uses it comes later in the list and its thread, not yet
\* stopped, connects it again.
THEOREM PatternsStayDisconnected == ShutdownSpec => StaysDisconnected
<1>1. ShutdownInv /\ CalledOnce /\ [ShutdownNext]_shutdownVars
        => [\A p \in Patterns \cap shut' :
               p \in connected' => \/ p \in shut /\ p \in connected
                                  \/ \E t \in Tasks : ConnectsAgain(t, p)]_shutdownVars
  BY DisconnectedStep
<1> QED
  BY ShutdownSafety, CalledSafety, <1>1, PTL DEF ShutdownSpec, StaysDisconnected

-----------------------------------------------------------------------------
(***************************************************************************)
(* The life of the tasks.                                                  *)
(***************************************************************************)

\* on_shutdown() is over, or runs, for tasks only that no thread starts any more.
LEMMA CalledIsNotStarted ==
    ASSUME ShutdownInv, CalledOnce, NEW t \in Tasks, Start(t)
    PROVE  t \notin shut \cup calling
<1> USE OwnerAssumption DEF ShutdownInv, ShutdownTypeOK, Observers
<1>1. /\ life[t] = "built" /\ t \in observers
      /\ Owner[t] = Main => shutdown = "idle"
      /\ Owner[t] # Main => pc[Owner[t]] = "running"
  BY DEF Start, Idle, Running
<1>2. CASE shutdown = "idle"
  BY <1>2 DEF CalledOnce, LoopInv
<1>3. CASE shutdown = "notifying"
  <2>1. Owner[t] \in Tasks /\ pc[Owner[t]] = "running"
    BY <1>1, <1>3
  <2>2. t \in remaining
    BY <1>1, <1>3, <2>1, OwnerIsJoined
  <2> QED
    BY <1>3, <2>2 DEF CalledOnce, LoopInv, Loop
<1>4. CASE shutdown = "done"
  <2>1. Owner[t] \in Tasks /\ pc[Owner[t]] = "running"
    BY <1>1, <1>4
  <2> QED
    BY <1>4, <2>1 DEF EverythingIsShut, RunningIsBuilt
<1> QED
  BY <1>2, <1>3, <1>4

\* What a step changes of one task in the eyes of TaskLife, nothing of others.
OnlyOf(t) == \A u \in Tasks : u # t => ThreadOf(u)' = ThreadOf(u) /\ StopOf(u)' = StopOf(u)

LEMMA OneTaskMoves ==
    ASSUME NEW t \in Tasks, OnlyOf(t),
           \/ /\ ThreadOf(t) = "none" /\ ThreadOf(t)' = "new"
              /\ StopOf(t)' = StopOf(t)
           \/ /\ ThreadOf(t) = "new" /\ ThreadOf(t)' = "running"
              /\ StopOf(t) = "idle" /\ StopOf(t)' = "idle"
           \/ /\ ThreadOf(t) = "running" /\ ThreadOf(t)' = "ended"
              /\ StopOf(t)' = StopOf(t)
           \/ /\ ThreadOf(t) # "none" /\ ThreadOf(t)' = ThreadOf(t)
              /\ StopOf(t) = "idle" /\ StopOf(t)' = "asked"
           \/ /\ ThreadOf(t) \in {"new", "ended"} /\ ThreadOf(t)' = ThreadOf(t)
              /\ StopOf(t) = "asked" /\ StopOf(t)' = "over"
           \/ /\ ThreadOf(t) \in {"new", "ended"} /\ ThreadOf(t)' = "none"
              /\ StopOf(t) # "asked" /\ StopOf(t)' = "idle"
           \/ ThreadOf(t)' = ThreadOf(t) /\ StopOf(t)' = StopOf(t)
    PROVE  [Life!LifeNext]_(Life!lifeVars)
<1> DEFINE threads == [u \in Tasks |-> ThreadOf(u)]
           stops   == [u \in Tasks |-> StopOf(u)]
<1>1. /\ threads[t] = ThreadOf(t) /\ threads' = [threads EXCEPT ![t] = ThreadOf(t)']
      /\ stops[t] = StopOf(t) /\ stops' = [stops EXCEPT ![t] = StopOf(t)']
  BY DEF OnlyOf
<1>2. ThreadOf(t)' = ThreadOf(t) => threads' = threads
  BY DEF OnlyOf
<1>3. StopOf(t)' = StopOf(t) => stops' = stops
  BY DEF OnlyOf
<1> QED
  BY <1>1, <1>2, <1>3
  DEF Life!LifeNext, Life!lifeVars, Life!Construct, Life!Begin, Life!Finish, Life!Ask, Life!Join,
      Life!Destroy, Life!Become

LEMMA ShutdownStepIsLifeStep ==
    ASSUME ShutdownInv, CalledOnce, [ShutdownNext]_shutdownVars
    PROVE  [Life!LifeNext]_(Life!lifeVars)
<1> USE DEF ShutdownInv, ShutdownTypeOK, Live, Observers, listVars, notifyVars, threadVars
<1>0. ASSUME \A t \in Tasks : ThreadOf(t)' = ThreadOf(t) /\ StopOf(t)' = StopOf(t)
      PROVE  UNCHANGED Life!lifeVars
  BY <1>0 DEF Life!lifeVars
<1>1. ASSUME NEW o \in calling
      PROVE  o \in observers /\ life[o] = "built" /\ shutdown = "notifying"
  <2>1. shutdown = "notifying" /\ o \in observers \ remaining
    BY <1>1 DEF LoopInv, Loop
  <2>2. Owner[o] \in Tasks => pc[Owner[o]] # "running"
    BY <2>1, OwnerIsJoined
  <2> QED
    BY <2>1, <2>2 DEF LoopInv, Loop, InTransit
<1>2. ASSUME NEW o \in Observers, Construct(o)
      PROVE  UNCHANGED Life!lifeVars
  <2>1. \A t \in Tasks : ThreadOf(t)' = ThreadOf(t) /\ StopOf(t)' = StopOf(t)
    BY <1>2 DEF Construct, ThreadOf, StopOf
  <2> QED
    BY <1>0, <2>1
<1>3. ASSUME NEW o \in Observers, attach(o) \/ detach(o)
      PROVE  UNCHANGED Life!lifeVars
  <2>1. \A t \in Tasks : ThreadOf(t)' = ThreadOf(t) /\ StopOf(t)' = StopOf(t)
    BY <1>3 DEF attach, detach, ThreadOf, StopOf
  <2> QED
    BY <1>0, <2>1
<1>4. ASSUME NEW o \in Observers, Constructed(o)
      PROVE  [Life!LifeNext]_(Life!lifeVars)
  <2>1. \A t \in Tasks : t # o => ThreadOf(t)' = ThreadOf(t) /\ StopOf(t)' = StopOf(t)
    BY <1>4 DEF Constructed, ThreadOf, StopOf
  <2>2. CASE o \in Tasks
    <3>1. pc[o] = "new" /\ o \notin shut \cup calling /\ life[o] = "base"
      BY <1>1, <1>4, <2>2 DEF Constructed, CalledOnce
    <3>2. /\ ThreadOf(o) = "none" /\ ThreadOf(o)' = "new"
          /\ StopOf(o)' = StopOf(o)
      BY <1>4, <3>1 DEF Constructed, ThreadOf, StopOf
    <3> QED
      BY <2>1, <2>2, <3>2, OneTaskMoves DEF OnlyOf
  <2>3. CASE o \notin Tasks
    BY <1>0, <2>1, <2>3
  <2> QED
    BY <2>2, <2>3
<1>5. ASSUME NEW o \in Observers, Destroy(o)
      PROVE  [Life!LifeNext]_(Life!lifeVars)
  <2>1. \A t \in Tasks : t # o => ThreadOf(t)' = ThreadOf(t) /\ StopOf(t)' = StopOf(t)
    BY <1>5 DEF Destroy, ThreadOf, StopOf
  <2>2. CASE o \in Tasks
    <3>1. o \notin calling
      <4>1. ASSUME o \in calling
            PROVE  FALSE
        <5>1. shutdown = "notifying" /\ o \in observers \ remaining
          BY <4>1 DEF LoopInv, Loop
        <5>2. Owner[o] \in Tasks => pc[Owner[o]] # "running"
          BY <5>1, OwnerIsJoined
        <5>3. ~Idle(Main)
          BY <5>1 DEF Idle, Running, MutexFree
        <5>4. Owner[o] \in Tasks \/ Owner[o] = Main
          BY OwnerAssumption
        <5> QED
          BY <1>5, <5>1, <5>2, <5>3, <5>4, OwnerAssumption DEF Destroy, Idle, Running
      <4> QED
        BY <4>1
    <3>2. /\ ThreadOf(o) \in {"new", "ended"} /\ ThreadOf(o)' = "none"
          /\ StopOf(o) # "asked" /\ StopOf(o)' = "idle"
      BY <1>5, <2>2, <3>1 DEF Destroy, ThreadOf, StopOf
    <3> QED
      BY <2>1, <2>2, <3>2, OneTaskMoves DEF OnlyOf
  <2>3. CASE o \notin Tasks
    BY <1>0, <2>1, <2>3
  <2> QED
    BY <2>2, <2>3
<1>6. ASSUME NEW t \in Tasks, Start(t)
      PROVE  [Life!LifeNext]_(Life!lifeVars)
  <2>1. t \notin shut \cup calling
    BY <1>6, CalledIsNotStarted
  <2>2. /\ ThreadOf(t) = "new" /\ ThreadOf(t)' = "running"
        /\ StopOf(t) = "idle" /\ StopOf(t)' = "idle"
    BY <1>6, <2>1 DEF Start, ThreadOf, StopOf
  <2>3. OnlyOf(t)
    BY <1>6 DEF OnlyOf, Start, ThreadOf, StopOf
  <2> QED
    BY <2>2, <2>3, OneTaskMoves
<1>7. ASSUME NEW t \in Tasks, End(t)
      PROVE  [Life!LifeNext]_(Life!lifeVars)
  <2>1. ThreadOf(t) = "running" /\ ThreadOf(t)' = "ended" /\ StopOf(t)' = StopOf(t)
    BY <1>7 DEF End, ThreadOf, StopOf, RunningIsBuilt
  <2>2. OnlyOf(t)
    BY <1>7 DEF OnlyOf, End, ThreadOf, StopOf
  <2> QED
    BY <2>1, <2>2, OneTaskMoves
<1>8. ASSUME NEW o \in Observers, Call(o)
      PROVE  [Life!LifeNext]_(Life!lifeVars)
  <2>1. /\ calling = {} /\ calling' = {o} /\ o \in remaining /\ shutdown = "notifying"
        /\ remaining' = remaining \ {o} /\ UNCHANGED <<life, pc, shut, observers>>
    BY <1>8 DEF Call, CallNext
  <2>2. \A t \in Tasks : t # o => ThreadOf(t)' = ThreadOf(t) /\ StopOf(t)' = StopOf(t)
    BY <2>1 DEF ThreadOf, StopOf
  <2>3. CASE o \in Tasks
    <3>1. o \notin shut /\ life[o] = "built"
      <4>1. o \in observers /\ Loop
        BY <2>1 DEF LoopInv, Loop
      <4>2. Owner[o] \in Tasks => Owner[o] \in observers /\ <<Owner[o], o>> \in before
        BY <4>1 DEF OwnerComesFirst
      <4>3. Owner[o] \in Tasks => Owner[o] \notin remaining \cup calling
        BY <1>8, <2>1, <4>2 DEF Call, CallNext
      <4>4. Owner[o] \in Tasks => pc[Owner[o]] # "running"
        BY <4>1, <4>2, <4>3 DEF Loop
      <4> QED
        BY <2>1, <4>1, <4>4 DEF CalledOnce, Loop, InTransit
    <3>2. /\ ThreadOf(o) # "none" /\ ThreadOf(o)' = ThreadOf(o)
          /\ StopOf(o) = "idle" /\ StopOf(o)' = "asked"
      BY <2>1, <2>3, <3>1 DEF ThreadOf, StopOf
    <3> QED
      BY <2>2, <2>3, <3>2, OneTaskMoves DEF OnlyOf
  <2>4. CASE o \notin Tasks
    BY <1>0, <2>2, <2>4
  <2> QED
    BY <2>3, <2>4
<1>9. ASSUME NEW o \in Observers, Return(o)
      PROVE  [Life!LifeNext]_(Life!lifeVars)
  <2>1. /\ calling = {o} /\ calling' = {} /\ shut' = shut \cup {o} /\ CanReturn(o)
        /\ UNCHANGED <<life, pc>>
    BY <1>9 DEF Return
  <2>2. \A t \in Tasks : t # o => ThreadOf(t)' = ThreadOf(t) /\ StopOf(t)' = StopOf(t)
    BY <2>1 DEF ThreadOf, StopOf
  <2>3. CASE o \in Tasks
    <3>1. life[o] = "built"
      BY <1>1, <2>1
    <3>2. /\ ThreadOf(o) \in {"new", "ended"} /\ ThreadOf(o)' = ThreadOf(o)
          /\ StopOf(o) = "asked" /\ StopOf(o)' = "over"
      BY <2>1, <2>3, <3>1 DEF ThreadOf, StopOf, CanReturn
    <3> QED
      BY <2>2, <2>3, <3>2, OneTaskMoves DEF OnlyOf
  <2>4. CASE o \notin Tasks
    BY <1>0, <2>2, <2>4
  <2> QED
    BY <2>3, <2>4
<1>10. ASSUME NotifyBegin \/ NotifyEnd \/ (\E p \in Patterns, thread \in Tasks \cup {Main} : Use(p, thread))
              \/ UNCHANGED shutdownVars
       PROVE  UNCHANGED Life!lifeVars
  <2>1. UNCHANGED <<life, pc, calling, shut>>
    BY <1>10 DEF NotifyBegin, NotifyEnd, Use, shutdownVars
  <2>2. \A t \in Tasks : ThreadOf(t)' = ThreadOf(t) /\ StopOf(t)' = StopOf(t)
    BY <2>1 DEF ThreadOf, StopOf
  <2> QED
    BY <1>0, <2>2
<1> QED
  BY <1>2, <1>3, <1>4, <1>5, <1>6, <1>7, <1>8, <1>9, <1>10
  DEF ShutdownNext, NotifyStep, TransitStep

\* The component and its threads treat their tasks as tasks may expect.
THEOREM ComponentKeepsTaskLife == ShutdownSpec => KeepsTaskLife
<1>1. ShutdownInit => Life!LifeInit
  BY DEF ShutdownInit, Life!LifeInit, ThreadOf, StopOf, Observers
<1>2. ShutdownInv /\ CalledOnce /\ [ShutdownNext]_shutdownVars => [Life!LifeNext]_(Life!lifeVars)
  BY ShutdownStepIsLifeStep
<1> QED
  BY ShutdownSafety, CalledSafety, <1>1, <1>2, PTL DEF ShutdownSpec, KeepsTaskLife, Life!LifeSpec

=============================================================================
