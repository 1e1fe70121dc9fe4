--------------------------- MODULE InputPortsProofs ---------------------------
(***************************************************************************)
(* What holds for every number of ports and handlers, whatever the         *)
(* classes, subjects and owners, the factors and the number of inputs.     *)
(***************************************************************************)
EXTENDS InputPorts, PrescaleProofs

\* Where a handler is in its life fixes which of its constructors have run,
\* and these whether its port knows it.
LifeInv ==
    \A h \in Handlers :
        /\ life[h] = "none" => constructed[h] = 0
        /\ life[h] = "constructing" => constructed[h] < Whole(h)
        /\ life[h] = "built" => constructed[h] = Whole(h)
        /\ life[h] = "destroying" => 0 < constructed[h] /\ constructed[h] < Whole(h)
        /\ h \in observers <=> 0 < constructed[h]

\* A loop, and the call it makes, are under the mutex of their port.
LoopInv ==
    \A h \in visiting \cup calling : h \in observers /\ Subject[h] \in notifying

\* No counter is ahead of its period, also that of a handler nobody knows.
CountsShort == \A h \in Handlers : Counting(prescale[h]) < Period(prescale[h])

\* The inductive invariant.
PortInv == PortTypeOK /\ LifeInv /\ LoopInv /\ CountsShort /\ EveryNthInput

\* Each class has the base class and that of the user.
LEMMA Chains == \A h \in Handlers : Whole(h) \in {2, 3}
<1> SUFFICES ASSUME NEW h \in Handlers PROVE Whole(h) \in {2, 3}
  OBVIOUS
<1>1. Class[h] \in HandlerClass
  BY InputPortsAssumption
<1>2. Len(IInputHandler.chain) = 2
  BY DEF IInputHandler
<1>3. /\ Len(IEventHandler.chain) = 3
      /\ Len(IQueryServerHandler.chain) = 3
      /\ Len(ISendServerHandler.chain) = 3
  BY DEF IEventHandler, IQueryServerHandler, ISendServerHandler, Delegating
<1> QED
  BY <1>1, <1>2, <1>3 DEF Whole, HandlerClass

\* Factors are unsigned integers, also the default one.
LEMMA FactorType == \A h \in Handlers : Factors(h) \subseteq UInt
BY InputPortsAssumption, UIntSizeAssumption DEF Factors, UInt

LEMMA PortInvInit == PortInit => PortInv
<1> SUFFICES ASSUME PortInit PROVE PortInv
  OBVIOUS
<1> USE DEF PortInit
<1>1. NewManager(1) \in Manager
  BY FreshManager, UIntSizeAssumption DEF UInt
<1>2. PortTypeOK
  <2>1. /\ prescale \in [Handlers -> Manager]
        /\ life \in [Handlers -> {"none", "constructing", "built", "destroying"}]
        /\ constructed \in [Handlers -> Nat]
        /\ undefined \in BOOLEAN
        /\ got \in [Handlers -> Nat]
    BY <1>1
  <2>2. input \in [Ports -> 0 .. MaxInputs] /\ since \in [Handlers -> 0 .. MaxInputs]
    BY InputPortsAssumption
  <2>3. \A h \in Handlers : constructed[h] <= Whole(h)
    BY Chains
  <2> QED
    BY <2>1, <2>2, <2>3 DEF PortTypeOK
<1>3. LifeInv
  BY DEF LifeInv
<1>4. LoopInv
  BY DEF LoopInv
<1>5. CountsShort
  BY FreshManager, UIntSizeAssumption DEF CountsShort, UInt
<1>6. EveryNthInput
  BY DEF EveryNthInput
<1> QED
  BY <1>2, <1>3, <1>4, <1>5, <1>6 DEF PortInv

\* Types are preserved.
LEMMA TypeStep == PortTypeOK /\ LifeInv /\ CountsShort /\ [PortNext]_portVars => PortTypeOK'
<1> SUFFICES ASSUME PortTypeOK /\ LifeInv /\ CountsShort, [PortNext]_portVars PROVE PortTypeOK'
  OBVIOUS
<1> USE DEF PortTypeOK
<1>1. ASSUME NEW h \in Handlers, Construct(h) PROVE PortTypeOK'
  BY <1>1 DEF Construct, subjectVars, historyVars
<1>2. ASSUME NEW h \in Handlers, attach(h) PROVE PortTypeOK'
  <2>1. PICK factor \in Factors(h) : prescale' = [prescale EXCEPT ![h] = NewManager(factor)]
    BY <1>2 DEF attach
  <2>2. NewManager(factor) \in Manager
    BY <2>1, FactorType, FreshManager
  <2>3. prescale' \in [Handlers -> Manager]
    BY <2>1, <2>2
  <2>4. input[Subject[h]] \in 0 .. MaxInputs
    BY InputPortsAssumption
  <2> QED
    BY <1>2, <2>3, <2>4, Chains DEF attach
<1>3. ASSUME NEW h \in Handlers, ConstructDerived(h) PROVE PortTypeOK'
  BY <1>3, Chains DEF ConstructDerived, subjectVars, historyVars
<1>4. ASSUME NEW h \in Handlers, Destroy(h) PROVE PortTypeOK'
  BY <1>4, Chains DEF Destroy, subjectVars, historyVars, LifeInv
<1>5. ASSUME NEW h \in Handlers, DestroyDerived(h) PROVE PortTypeOK'
  BY <1>5, Chains DEF DestroyDerived, subjectVars, historyVars
<1>6. ASSUME NEW h \in Handlers, detach(h) PROVE PortTypeOK'
  BY <1>6, Chains DEF detach, historyVars
<1>7. ASSUME NEW h \in Handlers, NotifyVisit(h) PROVE PortTypeOK'
  <2>1. prescale' \in [Handlers -> Manager]
    <3>1. Counted(prescale[h]) \in Manager
      BY CountStep DEF CountsShort
    <3> QED
      BY <1>7, <3>1 DEF NotifyVisit
  <2> QED
    BY <1>7, <2>1 DEF NotifyVisit, handlerVars
<1>8. ASSUME NEW h \in Handlers, Return(h) PROVE PortTypeOK'
  BY <1>8 DEF Return, handlerVars, historyVars
<1>9. ASSUME NEW p \in Ports, NotifyBegin(p) PROVE PortTypeOK'
  BY <1>9, InputPortsAssumption DEF NotifyBegin, handlerVars, HandlersOf
<1>10. ASSUME NEW p \in Ports, NotifyEnd(p) PROVE PortTypeOK'
  BY <1>10 DEF NotifyEnd, handlerVars, historyVars
<1>11. CASE UNCHANGED portVars
  BY <1>11 DEF portVars, subjectVars, handlerVars, historyVars
<1> QED
  BY <1>1, <1>2, <1>3, <1>4, <1>5, <1>6, <1>7, <1>8, <1>9, <1>10, <1>11 DEF PortNext, HandlerStep

\* The life of a handler, its constructors and its attachment stay in step.
LEMMA LifeStep == PortTypeOK /\ LifeInv /\ [PortNext]_portVars => LifeInv'
<1> SUFFICES ASSUME PortTypeOK /\ LifeInv, [PortNext]_portVars PROVE LifeInv'
  OBVIOUS
<1> USE DEF PortTypeOK, LifeInv
<1>1. ASSUME NEW h \in Handlers, Construct(h) PROVE LifeInv'
  BY <1>1, Chains DEF Construct, subjectVars, handlerVars, historyVars
<1>2. ASSUME NEW h \in Handlers, attach(h) PROVE LifeInv'
  BY <1>2, Chains DEF attach, subjectVars, handlerVars, historyVars
<1>3. ASSUME NEW h \in Handlers, ConstructDerived(h) PROVE LifeInv'
  BY <1>3, Chains DEF ConstructDerived, subjectVars, handlerVars, historyVars
<1>4. ASSUME NEW h \in Handlers, Destroy(h) PROVE LifeInv'
  BY <1>4, Chains DEF Destroy, subjectVars, handlerVars, historyVars
<1>5. ASSUME NEW h \in Handlers, DestroyDerived(h) PROVE LifeInv'
  BY <1>5, Chains DEF DestroyDerived, subjectVars, handlerVars, historyVars
<1>6. ASSUME NEW h \in Handlers, detach(h) PROVE LifeInv'
  BY <1>6, Chains DEF detach, subjectVars, handlerVars, historyVars
<1>7. ASSUME NEW h \in Handlers, NotifyVisit(h) PROVE LifeInv'
  BY <1>7, Chains DEF NotifyVisit, subjectVars, handlerVars, historyVars
<1>8. ASSUME NEW h \in Handlers, Return(h) PROVE LifeInv'
  BY <1>8, Chains DEF Return, subjectVars, handlerVars, historyVars
<1>9. ASSUME NEW p \in Ports, NotifyBegin(p) PROVE LifeInv'
  BY <1>9, Chains DEF NotifyBegin, subjectVars, handlerVars, historyVars
<1>10. ASSUME NEW p \in Ports, NotifyEnd(p) PROVE LifeInv'
  BY <1>10, Chains DEF NotifyEnd, subjectVars, handlerVars, historyVars
<1>11. CASE UNCHANGED portVars
  BY <1>11 DEF portVars, subjectVars, handlerVars, historyVars
<1> QED
  BY <1>1, <1>2, <1>3, <1>4, <1>5, <1>6, <1>7, <1>8, <1>9, <1>10, <1>11 DEF PortNext, HandlerStep

\* Nothing that a loop needs leaves the map while the mutex is held.
LEMMA LoopStep == PortTypeOK /\ LifeInv /\ LoopInv /\ [PortNext]_portVars => LoopInv'
<1> SUFFICES ASSUME PortTypeOK /\ LifeInv /\ LoopInv, [PortNext]_portVars PROVE LoopInv'
  OBVIOUS
<1> USE DEF PortTypeOK, LifeInv, LoopInv
<1>1. ASSUME NEW h \in Handlers, Construct(h) PROVE LoopInv'
  BY <1>1 DEF Construct, subjectVars, handlerVars, historyVars
<1>2. ASSUME NEW h \in Handlers, attach(h) PROVE LoopInv'
  BY <1>2 DEF attach, MutexFree, subjectVars, handlerVars, historyVars
<1>3. ASSUME NEW h \in Handlers, ConstructDerived(h) PROVE LoopInv'
  BY <1>3 DEF ConstructDerived, subjectVars, handlerVars, historyVars
<1>4. ASSUME NEW h \in Handlers, Destroy(h) PROVE LoopInv'
  BY <1>4 DEF Destroy, subjectVars, handlerVars, historyVars
<1>5. ASSUME NEW h \in Handlers, DestroyDerived(h) PROVE LoopInv'
  BY <1>5 DEF DestroyDerived, subjectVars, handlerVars, historyVars
<1>6. ASSUME NEW h \in Handlers, detach(h) PROVE LoopInv'
  BY <1>6 DEF detach, MutexFree, subjectVars, handlerVars, historyVars
<1>7. ASSUME NEW h \in Handlers, NotifyVisit(h) PROVE LoopInv'
  BY <1>7 DEF NotifyVisit, BetweenCalls, subjectVars, handlerVars, historyVars
<1>8. ASSUME NEW h \in Handlers, Return(h) PROVE LoopInv'
  BY <1>8 DEF Return, subjectVars, handlerVars, historyVars
<1>9. ASSUME NEW p \in Ports, NotifyBegin(p) PROVE LoopInv'
  BY <1>9 DEF NotifyBegin, HandlersOf, subjectVars, handlerVars, historyVars
<1>10. ASSUME NEW p \in Ports, NotifyEnd(p) PROVE LoopInv'
  BY <1>10 DEF NotifyEnd, BetweenCalls, HandlersOf, subjectVars, handlerVars, historyVars
<1>11. CASE UNCHANGED portVars
  BY <1>11 DEF portVars, subjectVars, handlerVars, historyVars
<1> QED
  BY <1>1, <1>2, <1>3, <1>4, <1>5, <1>6, <1>7, <1>8, <1>9, <1>10, <1>11 DEF PortNext, HandlerStep

\* Counters stay behind their periods.
LEMMA ShortStep == PortTypeOK /\ CountsShort /\ [PortNext]_portVars => CountsShort'
<1> SUFFICES ASSUME PortTypeOK /\ CountsShort, [PortNext]_portVars PROVE CountsShort'
  OBVIOUS
<1> USE DEF PortTypeOK, CountsShort
<1>1. ASSUME NEW h \in Handlers, Construct(h) PROVE CountsShort'
  BY <1>1 DEF Construct, subjectVars, handlerVars, historyVars
<1>2. ASSUME NEW h \in Handlers, attach(h) PROVE CountsShort'
  <2>1. PICK factor \in Factors(h) : prescale' = [prescale EXCEPT ![h] = NewManager(factor)]
    BY <1>2 DEF attach
  <2>2. Counting(NewManager(factor)) < Period(NewManager(factor))
    BY <2>1, FactorType, FreshManager
  <2> QED
    BY <2>1, <2>2
<1>3. ASSUME NEW h \in Handlers, ConstructDerived(h) PROVE CountsShort'
  BY <1>3 DEF ConstructDerived, subjectVars, handlerVars, historyVars
<1>4. ASSUME NEW h \in Handlers, Destroy(h) PROVE CountsShort'
  BY <1>4 DEF Destroy, subjectVars, handlerVars, historyVars
<1>5. ASSUME NEW h \in Handlers, DestroyDerived(h) PROVE CountsShort'
  BY <1>5 DEF DestroyDerived, subjectVars, handlerVars, historyVars
<1>6. ASSUME NEW h \in Handlers, detach(h) PROVE CountsShort'
  BY <1>6 DEF detach, subjectVars, handlerVars, historyVars
<1>7. ASSUME NEW h \in Handlers, NotifyVisit(h) PROVE CountsShort'
  <2>1. Counting(Counted(prescale[h])) < Period(Counted(prescale[h]))
    BY CountStep, CountType
  <2> QED
    BY <1>7, <2>1 DEF NotifyVisit
<1>8. ASSUME NEW h \in Handlers, Return(h) PROVE CountsShort'
  BY <1>8 DEF Return, subjectVars, handlerVars, historyVars
<1>9. ASSUME NEW p \in Ports, NotifyBegin(p) PROVE CountsShort'
  BY <1>9 DEF NotifyBegin, subjectVars, handlerVars, historyVars
<1>10. ASSUME NEW p \in Ports, NotifyEnd(p) PROVE CountsShort'
  BY <1>10 DEF NotifyEnd, subjectVars, handlerVars, historyVars
<1>11. CASE UNCHANGED portVars
  BY <1>11 DEF portVars, subjectVars, handlerVars, historyVars
<1> QED
  BY <1>1, <1>2, <1>3, <1>4, <1>5, <1>6, <1>7, <1>8, <1>9, <1>10, <1>11 DEF PortNext, HandlerStep

\* An input that begins is counted when the loop reaches the handler; an entry
\* that is made or erased meanwhile is none the loop has still to reach.
LEMMA EveryNthStep == PortTypeOK /\ LoopInv /\ EveryNthInput /\ [PortNext]_portVars => EveryNthInput'
<1> SUFFICES ASSUME PortTypeOK /\ LoopInv /\ EveryNthInput, [PortNext]_portVars PROVE EveryNthInput'
  OBVIOUS
<1> USE DEF EveryNthInput
<1>1. ASSUME NEW h \in Handlers, Construct(h) PROVE EveryNthInput'
  <2>1. observers' \subseteq observers /\ UNCHANGED <<prescale, visiting, input, since, got>>
    BY <1>1 DEF Construct, subjectVars, handlerVars, historyVars
  <2> QED
    BY <2>1 DEF Heard
<1>2. ASSUME NEW h \in Handlers, attach(h) PROVE EveryNthInput'
  <2> SUFFICES ASSUME NEW g \in observers'
               PROVE  /\ Heard(g)' = got'[g] * Period(prescale'[g]) + Counting(prescale'[g])
                      /\ Counting(prescale'[g]) < Period(prescale'[g])
    OBVIOUS
  <2>1. CASE g = h
    <3>1. PICK factor \in Factors(h) : prescale' = [prescale EXCEPT ![h] = NewManager(factor)]
      BY <1>2 DEF attach
    <3>2. Counting(prescale'[h]) = 0 /\ Period(prescale'[h]) \in Nat \ {0}
      BY <3>1, FactorType, FreshManager DEF PortTypeOK
    <3>3. h \notin visiting' /\ got'[h] = 0 /\ since'[h] = input'[Subject[h]]
      <4>1. h \notin visiting
        BY <1>2 DEF attach, MutexFree, LoopInv
      <4>2. got' = [got EXCEPT ![h] = 0] /\ since' = [since EXCEPT ![h] = input[Subject[h]]]
        BY <1>2 DEF attach
      <4>3. visiting' = visiting /\ input' = input
        BY <1>2 DEF attach
      <4> QED
        <5>1. got'[h] = 0 /\ since'[h] = input[Subject[h]]
          BY <4>2 DEF PortTypeOK
        <5> QED
          BY <4>1, <4>3, <5>1
    <3>4. input'[Subject[h]] \in Nat
      <4>1. Subject[h] \in Ports /\ 0 .. MaxInputs \subseteq Nat
        BY InputPortsAssumption
      <4>2. input' = input
        BY <1>2 DEF attach
      <4> QED
        BY <4>1, <4>2 DEF PortTypeOK
    <3>5. Heard(h)' = 0 /\ got'[h] * Period(prescale'[h]) = 0
      BY <3>2, <3>3, <3>4 DEF Heard
    <3> QED
      BY <2>1, <3>2, <3>5
  <2>2. CASE g # h
    BY <1>2, <2>2 DEF attach, Heard, PortTypeOK
  <2> QED
    BY <2>1, <2>2
<1>3. ASSUME NEW h \in Handlers, ConstructDerived(h) PROVE EveryNthInput'
  <2>1. observers' \subseteq observers /\ UNCHANGED <<prescale, visiting, input, since, got>>
    BY <1>3 DEF ConstructDerived, subjectVars, handlerVars, historyVars
  <2> QED
    BY <2>1 DEF Heard
<1>4. ASSUME NEW h \in Handlers, Destroy(h) PROVE EveryNthInput'
  <2>1. observers' \subseteq observers /\ UNCHANGED <<prescale, visiting, input, since, got>>
    BY <1>4 DEF Destroy, subjectVars, handlerVars, historyVars
  <2> QED
    BY <2>1 DEF Heard
<1>5. ASSUME NEW h \in Handlers, DestroyDerived(h) PROVE EveryNthInput'
  <2>1. observers' \subseteq observers /\ UNCHANGED <<prescale, visiting, input, since, got>>
    BY <1>5 DEF DestroyDerived, subjectVars, handlerVars, historyVars
  <2> QED
    BY <2>1 DEF Heard
<1>6. ASSUME NEW h \in Handlers, detach(h) PROVE EveryNthInput'
  <2>1. observers' \subseteq observers /\ UNCHANGED <<prescale, visiting, input, since, got>>
    BY <1>6 DEF detach, subjectVars, handlerVars, historyVars
  <2> QED
    BY <2>1 DEF Heard
<1>7. ASSUME NEW h \in Handlers, NotifyVisit(h) PROVE EveryNthInput'
  <2> DEFINE m == prescale[h]
  <2>1. h \in observers /\ observers' = observers
    BY <1>7 DEF NotifyVisit, LoopInv
  <2>2. /\ prescale' = [prescale EXCEPT ![h] = Counted(m)]
        /\ got' = IF UpdateDue(m) THEN [got EXCEPT ![h] = @ + 1] ELSE got
        /\ visiting' = visiting \ {h}
        /\ h \in visiting
        /\ UNCHANGED <<input, since>>
    BY <1>7 DEF NotifyVisit
  <2>3. Heard(h) \in Int /\ Heard(h)' = Heard(h) + 1
    <3>1. input[Subject[h]] \in Int /\ since[h] \in Int
      BY InputPortsAssumption DEF PortTypeOK
    <3>2. h \in visiting /\ h \notin visiting' /\ input' = input /\ since' = since
      BY <2>2
    <3> QED
      BY <3>1, <3>2 DEF Heard
  <2>4. /\ m \in Manager
        /\ got[h] \in Nat
        /\ Counting(m) < Period(m)
        /\ Heard(h) = got[h] * Period(m) + Counting(m)
    BY <2>1 DEF PortTypeOK
  <2>5. Heard(h) \in Nat
    BY <2>4, CountType
  <2>6. Heard(h) + 1 = (IF UpdateDue(m) THEN got[h] + 1 ELSE got[h]) * Period(Counted(m))
                           + Counting(Counted(m))
    <3> HIDE DEF m
    <3> QED
      BY <2>4, <2>5, EveryNthUpdate
  <2>7. Counting(Counted(m)) < Period(Counted(m))
    BY <2>4, CountStep, CountType
  <2>8. prescale'[h] = Counted(m) /\ got'[h] = IF UpdateDue(m) THEN got[h] + 1 ELSE got[h]
    BY <2>2 DEF PortTypeOK
  <2>9. ASSUME NEW g \in observers, g # h
        PROVE  Heard(g)' = Heard(g) /\ prescale'[g] = prescale[g] /\ got'[g] = got[g]
    BY <2>2, <2>9 DEF Heard, PortTypeOK
  <2> SUFFICES ASSUME NEW g \in observers'
               PROVE  /\ Heard(g)' = got'[g] * Period(prescale'[g]) + Counting(prescale'[g])
                      /\ Counting(prescale'[g]) < Period(prescale'[g])
    OBVIOUS
  <2>10. CASE g = h
    BY <2>3, <2>6, <2>7, <2>8, <2>10
  <2>11. CASE g # h
    BY <2>1, <2>9, <2>11
  <2> QED
    BY <2>10, <2>11
<1>8. ASSUME NEW h \in Handlers, Return(h) PROVE EveryNthInput'
  <2>1. observers' \subseteq observers /\ UNCHANGED <<prescale, visiting, input, since, got>>
    BY <1>8 DEF Return, subjectVars, handlerVars, historyVars
  <2> QED
    BY <2>1 DEF Heard
<1>9. ASSUME NEW p \in Ports, NotifyBegin(p) PROVE EveryNthInput'
  <2>1. ASSUME NEW g \in observers
        PROVE  Heard(g)' = Heard(g)
    <3>1. g \in Handlers /\ Subject[g] \in Ports
      BY InputPortsAssumption DEF PortTypeOK
    <3>2. CASE Subject[g] = p
      <4>1. g \notin visiting /\ g \in visiting'
        BY <1>9, <3>1, <3>2 DEF NotifyBegin, LoopInv, HandlersOf
      <4>2. input'[Subject[g]] = input[Subject[g]] + 1 /\ since' = since
        BY <1>9, <3>1, <3>2 DEF NotifyBegin, PortTypeOK
      <4> QED
        BY <3>1, <4>1, <4>2, InputPortsAssumption DEF Heard, PortTypeOK
    <3>3. CASE Subject[g] # p
      BY <1>9, <3>1, <3>3 DEF NotifyBegin, HandlersOf, Heard, PortTypeOK
    <3> QED
      BY <3>2, <3>3
  <2>2. UNCHANGED <<observers, prescale, got>>
    BY <1>9 DEF NotifyBegin
  <2> QED
    BY <2>1, <2>2
<1>10. ASSUME NEW p \in Ports, NotifyEnd(p) PROVE EveryNthInput'
  <2>1. observers' \subseteq observers /\ UNCHANGED <<prescale, visiting, input, since, got>>
    BY <1>10 DEF NotifyEnd, subjectVars, handlerVars, historyVars
  <2> QED
    BY <2>1 DEF Heard
<1>11. CASE UNCHANGED portVars
  <2>1. observers' \subseteq observers /\ UNCHANGED <<prescale, visiting, input, since, got>>
    BY <1>11 DEF portVars, subjectVars, handlerVars, historyVars
  <2> QED
    BY <2>1 DEF Heard
<1> QED
  BY <1>1, <1>2, <1>3, <1>4, <1>5, <1>6, <1>7, <1>8, <1>9, <1>10, <1>11 DEF PortNext, HandlerStep

\* The inductive invariant of ports and handlers.
LEMMA PortSafety == PortSpec => []PortInv
<1>1. PortInv /\ [PortNext]_portVars => PortInv'
  BY TypeStep, LifeStep, LoopStep, ShortStep, EveryNthStep DEF PortInv
<1> QED
  BY PortInvInit, <1>1, PTL DEF PortSpec

\* Type correctness; the unsigned counters of the managers wrap as they should.
THEOREM PortTypes == PortSpec => []PortTypeOK
<1>1. PortInv => PortTypeOK
  BY DEF PortInv
<1> QED
  BY PortSafety, <1>1, PTL

\* notify_input() never touches a handler whose base destructor has returned,
\* and no iterator of its loop is invalidated.
THEOREM NoFreedHandlerIsTouched == PortSpec => []NothingFreedIsTouched
<1>1. PortInv => NothingFreedIsTouched
  BY DEF PortInv, LoopInv, LifeInv, PortTypeOK, NothingFreedIsTouched
<1> QED
  BY PortSafety, <1>1, PTL

\* A handler is called for exactly every n-th input since its attachment.
THEOREM InputsAreCounted == PortSpec => []EveryNthInput
<1>1. PortInv => EveryNthInput
  BY DEF PortInv
<1> QED
  BY PortSafety, <1>1, PTL

=============================================================================
