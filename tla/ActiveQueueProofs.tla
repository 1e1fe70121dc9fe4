-------------------------- MODULE ActiveQueueProofs --------------------------
(***************************************************************************)
(* Safety of the active queue for any prescale factors and any number of   *)
(* inputs.                                                                 *)
(***************************************************************************)
EXTENDS ActiveQueue, SequenceTheorems, TLAPS

\* A new PrescaleManager and a counted one stay in the unsigned range.
LEMMA ManagerType ==
    /\ \A factor \in UInt : NewManager(factor) \in Manager
    /\ \A m \in Manager : Counted(m) \in Manager
    /\ 1 \in UInt
<1>1. 1 \in UInt /\ 0 \in UInt
  BY UIntSizeAssumption DEF UInt
<1>2. \A n \in UInt : n # UIntSize - 1 => n + 1 \in UInt
  BY UIntSizeAssumption DEF UInt
<1> QED
  BY <1>1, <1>2 DEF NewManager, Counted, Manager

\* What the proofs use of the constants.
LEMMA Constants ==
    /\ MaxInputs \in Nat
    /\ Handlers = {"inner", "decorator"}
    /\ \A factor \in InnerFactors : factor \in UInt
BY InputSubjectAssumption, ActiveQueueAssumption

\* The sequences of inputs, named so that the steps below need only these facts.
InputLists == Seq(1 .. MaxInputs)

LEMMA InputListFacts ==
    /\ <<>> \in InputLists
    /\ \A list \in InputLists, i \in 1 .. MaxInputs : Append(list, i) \in InputLists \ {<<>>}
    /\ \A list \in InputLists :
          list # <<>> => Tail(list) \in InputLists /\ Head(list) \in 1 .. MaxInputs
<1>1. <<>> \in InputLists
  BY EmptySeq DEF InputLists
<1>2. ASSUME NEW list \in InputLists, NEW i \in 1 .. MaxInputs
      PROVE  Append(list, i) \in InputLists \ {<<>>}
  <2>1. Append(list, i) \in Seq(1 .. MaxInputs) /\ Append(list, i) # <<>>
    BY AppendProperties DEF InputLists
  <2> QED
    BY <2>1 DEF InputLists
<1>3. \A list \in InputLists :
         list # <<>> => Tail(list) \in InputLists /\ Head(list) \in 1 .. MaxInputs
  BY HeadTailProperties DEF InputLists
<1> QED
  BY <1>1, <1>2, <1>3

(***************************************************************************)
(* The type invariant in three parts.  The subject: there is an input      *)
(* while it notifies.  Where the threads are.  The lists: there is an      *)
(* entry while the thread, which only a finished object starts, handles it.*)
(***************************************************************************)
SubjectInv ==
    /\ InputTypeOK
    /\ observers_mutex = "notifying" => input \in 1 .. MaxInputs

ControlInv ==
    /\ life \in {"none", "attached", "built", "active", "leaving", "stripped", "gone"}
    /\ cancelled \in BOOLEAN
    /\ pc \in {"new", "test", "process", "waiting", "woken", "handling", "done"}
    /\ shutdown \in {"idle", "cancel", "join", "done"}
    /\ fault \in {"none", "pure virtual call", "front of empty list", "use after destruction"}

ListInv ==
    /\ input_list \in InputLists
    /\ handled \in InputLists
    /\ life \in {"none", "attached", "built"} => pc = "new"
    /\ (Alive /\ pc = "handling") => input_list # <<>>

QueueInv == SubjectInv /\ ControlInv /\ ListInv

LEMMA QueueInvInit == QueueInit => QueueInv
<1> SUFFICES ASSUME QueueInit PROVE QueueInv
  OBVIOUS
<1>1. SubjectInv
  <2>1. prescale \in [Handlers -> Manager]
    BY ManagerType, Constants DEF QueueInit
  <2> QED
    BY <2>1, Constants DEF QueueInit, SubjectInv, InputTypeOK
<1>2. ControlInv
  BY DEF QueueInit, ControlInv
<1>3. ListInv
  BY InputListFacts DEF QueueInit, ListInv, Alive
<1> QED
  BY <1>1, <1>2, <1>3 DEF QueueInv

\* A step of the queue is one of the calls on the subject, or leaves it alone.
LEMMA SubjectSteps ==
    ASSUME [QueueNext]_activeVars
    PROVE  \/ \E h \in {"inner", "decorator"} : attach(h, 1) \/ detach(h) \/ NotifyVisit(h)
           \/ NotifyBegin \/ NotifyEnd
           \/ UNCHANGED inputVars
BY DEF QueueNext, activeVars, ConstructBase, ConstructMembers, ConstructBody, DestroyBody,
       DestroyMembers, DestroyBase, Notify, VisitInner, VisitDecorator, NotifyReturn, Start,
       ThreadStep, Test, Process, LeaveWait, LeaveUnasked, Serve, Handled, RunOnDestroyed,
       ShutdownBegin, cancel_processing, ShutdownJoin

LEMMA SubjectStepInv ==
    ASSUME SubjectInv, [QueueNext]_activeVars
    PROVE  SubjectInv'
<1> USE DEF SubjectInv, InputTypeOK
<1>1. ASSUME NEW h \in Handlers, attach(h, 1) \/ detach(h) \/ NotifyVisit(h)
      PROVE  SubjectInv'
  BY <1>1, ManagerType DEF attach, detach, NotifyVisit
<1>2. CASE NotifyBegin
  BY <1>2, Constants DEF NotifyBegin
<1>3. CASE NotifyEnd
  BY <1>3 DEF NotifyEnd
<1>4. CASE UNCHANGED inputVars
  BY <1>4 DEF inputVars
<1> QED
  BY <1>1, <1>2, <1>3, <1>4, SubjectSteps, Constants

LEMMA ControlStepInv ==
    ASSUME ControlInv, [QueueNext]_activeVars
    PROVE  ControlInv'
<1> USE DEF ControlInv, queueVars, threadVars
<1>1. CASE ConstructBase \/ ConstructMembers \/ ConstructBody
           \/ DestroyBody \/ DestroyMembers \/ DestroyBase
  BY <1>1 DEF ConstructBase, ConstructMembers, ConstructBody, DestroyBody, DestroyMembers, DestroyBase
<1>2. CASE Notify \/ VisitInner \/ VisitDecorator \/ NotifyReturn
  BY <1>2 DEF Notify, VisitInner, VisitDecorator, handle_input, WakeThread, NotifyReturn
<1>3. CASE Start \/ ThreadStep \/ LeaveUnasked \/ RunOnDestroyed
  BY <1>3 DEF Start, ThreadStep, Test, Process, LeaveWait, LeaveUnasked, Serve, Handled, RunOnDestroyed
<1>4. CASE ShutdownBegin \/ cancel_processing \/ ShutdownJoin
  BY <1>4 DEF ShutdownBegin, cancel_processing, WakeThread, ShutdownJoin
<1>5. CASE UNCHANGED activeVars
  BY <1>5 DEF activeVars
<1> QED
  BY <1>1, <1>2, <1>3, <1>4, <1>5 DEF QueueNext

LEMMA ListStepInv ==
    ASSUME SubjectInv, ListInv, [QueueNext]_activeVars
    PROVE  ListInv'
<1> USE InputListFacts DEF ListInv, Alive, queueVars, threadVars
<1>1. CASE ConstructBase \/ ConstructMembers \/ ConstructBody
           \/ DestroyBody \/ DestroyMembers \/ DestroyBase
  BY <1>1 DEF ConstructBase, ConstructMembers, ConstructBody, DestroyBody, DestroyMembers, DestroyBase
<1>2. CASE Notify \/ NotifyReturn
  BY <1>2 DEF Notify, NotifyReturn
<1>3. CASE VisitInner
  BY <1>3 DEF VisitInner, NotifyVisit, SubjectInv
<1>4. CASE VisitDecorator
  <2>1. input \in 1 .. MaxInputs
    BY <1>4 DEF VisitDecorator, NotifyVisit, SubjectInv
  <2> QED
    BY <1>4, <2>1 DEF VisitDecorator, handle_input, WakeThread
<1>5. CASE Start \/ Test \/ RunOnDestroyed
  BY <1>5 DEF Start, Test, RunOnDestroyed
<1>6. CASE Process \/ LeaveWait \/ LeaveUnasked
  BY <1>6 DEF Process, LeaveWait, LeaveUnasked, Serve
<1>7. CASE Handled
  BY <1>7 DEF Handled
<1>8. CASE ShutdownBegin \/ cancel_processing \/ ShutdownJoin
  BY <1>8 DEF ShutdownBegin, cancel_processing, WakeThread, ShutdownJoin
<1>9. CASE UNCHANGED activeVars
  BY <1>9 DEF activeVars
<1> QED
  BY <1>1, <1>2, <1>3, <1>4, <1>5, <1>6, <1>7, <1>8, <1>9 DEF QueueNext, ThreadStep

LEMMA QueueSafety == QueueSpec => []QueueInv
<1>1. QueueInv /\ [QueueNext]_activeVars => QueueInv'
  BY SubjectStepInv, ControlStepInv, ListStepInv DEF QueueInv
<1> QED
  BY QueueInvInit, <1>1, PTL DEF QueueSpec

\* Type correctness.
THEOREM QueueTypes == QueueSpec => []QueueTypeOK
<1>1. QueueInv => QueueTypeOK
  BY DEF QueueInv, SubjectInv, ControlInv, ListInv, InputLists, QueueTypeOK
<1> QED
  BY QueueSafety, <1>1, PTL

-----------------------------------------------------------------------------
\* The thread falls asleep with an empty list, and handle_input() wakes it.
THEOREM NoInputIsSleptOn == QueueSpec => []SleepsOnlyOnEmptyList
<1>1. QueueInit => SleepsOnlyOnEmptyList
  BY DEF QueueInit, SleepsOnlyOnEmptyList
<1>2. SleepsOnlyOnEmptyList /\ [QueueNext]_activeVars => SleepsOnlyOnEmptyList'
  <2> SUFFICES ASSUME SleepsOnlyOnEmptyList, [QueueNext]_activeVars
               PROVE  SleepsOnlyOnEmptyList'
    OBVIOUS
  <2> USE DEF SleepsOnlyOnEmptyList, queueVars, threadVars
  <2>1. CASE ConstructBase \/ ConstructMembers \/ ConstructBody
             \/ DestroyBody \/ DestroyMembers \/ DestroyBase
    BY <2>1 DEF ConstructBase, ConstructMembers, ConstructBody, DestroyBody, DestroyMembers, DestroyBase
  <2>2. CASE Notify \/ VisitInner \/ VisitDecorator \/ NotifyReturn
    BY <2>2 DEF Notify, VisitInner, VisitDecorator, handle_input, WakeThread, NotifyReturn
  <2>3. CASE Start \/ ThreadStep \/ LeaveUnasked \/ RunOnDestroyed
    BY <2>3 DEF Start, ThreadStep, Test, Process, LeaveWait, LeaveUnasked, Serve, Handled,
                RunOnDestroyed
  <2>4. CASE ShutdownBegin \/ cancel_processing \/ ShutdownJoin
    BY <2>4 DEF ShutdownBegin, cancel_processing, WakeThread, ShutdownJoin
  <2>5. CASE UNCHANGED activeVars
    BY <2>5 DEF activeVars
  <2> QED
    BY <2>1, <2>2, <2>3, <2>4, <2>5 DEF QueueNext
<1> QED
  BY <1>1, <1>2, PTL DEF QueueSpec

-----------------------------------------------------------------------------
(***************************************************************************)
(* The life of the decorator, for any owner: which handlers are attached   *)
(* is decided by it, and only while nobody notifies; inputs arrive in some *)
(* of its stages only unless they may come early; a careful owner has the  *)
(* thread only while the decorator is whole, and one that calls            *)
(* on_shutdown() has no thread when that has returned.                     *)
(***************************************************************************)
LifeInv ==
    /\ observers_mutex = "free" => visiting = {}
    /\ visiting \subseteq observers
    /\ life \in {"none", "gone"} => observers = {"inner"}
    /\ life = "active" => observers = {"decorator"}
    /\ life \in {"attached", "built", "leaving", "stripped"} => observers = {"inner", "decorator"}
    /\ observers_mutex = "notifying" => EarlyInputs \/ life \in {"none", "active", "gone"}
    /\ life # "active" => ~CarefulOwner \/ pc \in {"new", "done"}
    /\ life \in {"none", "attached", "built"} => shutdown = "idle"
    /\ life \in {"leaving", "stripped", "gone"} => shutdown \in {"idle", "done"}
    /\ shutdown = "done" => pc \in {"new", "done"}

LEMMA LifeInit == QueueInit => LifeInv
BY DEF QueueInit, LifeInv

LEMMA LifeStep ==
    ASSUME QueueInv, LifeInv, [QueueNext]_activeVars
    PROVE  LifeInv'
<1> USE DEF LifeInv, QueueInv, SubjectInv, InputTypeOK, inputVars, queueVars, threadVars
<1>1. CASE ConstructBase \/ ConstructMembers \/ ConstructBody
  BY <1>1 DEF ConstructBase, ConstructMembers, ConstructBody, attach, detach
<1>2. CASE DestroyBody \/ DestroyMembers \/ DestroyBase
  BY <1>2 DEF DestroyBody, DestroyMembers, DestroyBase, attach, detach
<1>3. CASE Notify \/ VisitInner \/ NotifyReturn
  BY <1>3 DEF Notify, NotifyBegin, VisitInner, NotifyVisit, NotifyReturn, NotifyEnd
<1>4. CASE VisitDecorator
  BY <1>4 DEF VisitDecorator, NotifyVisit, handle_input, WakeThread
<1>5. CASE Start \/ ThreadStep \/ LeaveUnasked \/ RunOnDestroyed
  BY <1>5 DEF Start, ThreadStep, Test, Process, LeaveWait, LeaveUnasked, Serve, Handled,
              RunOnDestroyed, Alive
<1>6. CASE ShutdownBegin \/ cancel_processing \/ ShutdownJoin
  BY <1>6 DEF ShutdownBegin, cancel_processing, WakeThread, ShutdownJoin, ControlInv
<1>7. CASE UNCHANGED activeVars
  BY <1>7 DEF activeVars
<1> QED
  BY <1>1, <1>2, <1>3, <1>4, <1>5, <1>6, <1>7 DEF QueueNext

LEMMA LifeSafety == QueueSpec => []LifeInv
<1>1. QueueInv /\ LifeInv /\ [QueueNext]_activeVars => LifeInv'
  BY LifeStep
<1> QED
  BY QueueSafety, LifeInit, <1>1, PTL DEF QueueSpec

-----------------------------------------------------------------------------
(***************************************************************************)
(* Order.  With no input during construction and destruction exactly one   *)
(* of the two handlers is attached whenever the subject notifies, and with *)
(* a careful owner the list is empty whenever it is the inner one.         *)
(***************************************************************************)
HandoverInv == life \notin {"active", "leaving"} => input_list = <<>>

LEMMA HandoverStep ==
    ASSUME ~EarlyInputs, CarefulOwner, QueueInv, LifeInv, HandoverInv, [QueueNext]_activeVars
    PROVE  HandoverInv'
<1> USE DEF HandoverInv, LifeInv, queueVars, threadVars
<1>1. CASE ConstructBase \/ ConstructMembers \/ ConstructBody
           \/ DestroyBody \/ DestroyMembers \/ DestroyBase
  BY <1>1 DEF ConstructBase, ConstructMembers, ConstructBody, DestroyBody, DestroyMembers, DestroyBase
<1>2. CASE Notify \/ VisitInner \/ NotifyReturn
  BY <1>2 DEF Notify, VisitInner, NotifyReturn
<1>3. CASE VisitDecorator
  BY <1>3 DEF VisitDecorator, NotifyVisit, handle_input
<1>4. CASE Start \/ ThreadStep \/ LeaveUnasked \/ RunOnDestroyed
  BY <1>4 DEF Start, ThreadStep, Test, Process, LeaveWait, LeaveUnasked, Serve, Handled,
              RunOnDestroyed, Alive
<1>5. CASE ShutdownBegin \/ cancel_processing \/ ShutdownJoin
  BY <1>5 DEF ShutdownBegin, cancel_processing, ShutdownJoin
<1>6. CASE UNCHANGED activeVars
  BY <1>6 DEF activeVars
<1> QED
  BY <1>1, <1>2, <1>3, <1>4, <1>5, <1>6 DEF QueueNext

LEMMA Handover ==
    ASSUME ~EarlyInputs, CarefulOwner
    PROVE  QueueSpec => []HandoverInv
<1>1. QueueInit => HandoverInv
  BY DEF QueueInit, HandoverInv
<1>2. QueueInv /\ LifeInv /\ HandoverInv /\ [QueueNext]_activeVars => HandoverInv'
  BY HandoverStep
<1> QED
  BY QueueSafety, LifeSafety, <1>1, <1>2, PTL DEF QueueSpec

\* What the channel sees of a state.
Offered == visiting # {}
Pending == IF pc = "handling" THEN Tail(input_list) ELSE input_list

\* Every step of the queue is a step of the channel, or invisible in it.
LEMMA QueueStepIsChannelStep ==
    ASSUME ~EarlyInputs, CarefulOwner, QueueInv, LifeInv, HandoverInv, [QueueNext]_activeVars
    PROVE  [Channel!Arrive \/ Channel!Accept \/ Channel!Deliver \/ Channel!GiveUp]_(Channel!channelVars)
<1> USE DEF LifeInv, HandoverInv, queueVars, threadVars
<1>1. ASSUME UNCHANGED <<input, visiting, handled>>, Pending' = Pending
      PROVE  UNCHANGED Channel!channelVars
  BY <1>1 DEF Channel!channelVars, Pending
<1>2. CASE ConstructBase \/ ConstructMembers \/ ConstructBody \/ DestroyBody \/ DestroyBase
  BY <1>1, <1>2 DEF ConstructBase, ConstructMembers, ConstructBody, DestroyBody, DestroyBase,
                    attach, detach, inputVars, Pending
<1>3. CASE DestroyMembers
  <2>1. Pending' = <<>> /\ UNCHANGED <<input, visiting, handled>>
    BY <1>3 DEF DestroyMembers, inputVars, Pending
  <2> QED
    BY <2>1 DEF Channel!GiveUp, Pending
<1>4. CASE Notify
  <2>1. visiting = {} /\ input' = input + 1 /\ UNCHANGED handled /\ Pending' = Pending
    BY <1>4 DEF Notify, NotifyBegin, Pending
  <2> QED
    BY <2>1 DEF Channel!Arrive, Pending
<1>5. CASE VisitInner
  <2>1. visiting = {"inner"} /\ visiting' = {} /\ Pending = <<>> /\ Pending' = <<>>
    BY <1>5 DEF VisitInner, NotifyVisit, Pending, QueueInv, SubjectInv, InputTypeOK
  <2>2. UNCHANGED input /\ (handled' = Append(handled, input) \/ UNCHANGED handled)
    BY <1>5 DEF VisitInner, NotifyVisit
  <2> QED
    BY <2>1, <2>2 DEF Channel!Accept, Pending
<1>6. CASE VisitDecorator
  <2>1. visiting = {"decorator"} /\ visiting' = {} /\ life = "active"
    BY <1>6 DEF VisitDecorator, NotifyVisit, QueueInv, SubjectInv, InputTypeOK
  <2>2. UNCHANGED <<input, handled>> /\ Pending' = Append(Pending, input)
    BY <1>6, <2>1 DEF VisitDecorator, NotifyVisit, handle_input, WakeThread, Pending
  <2> QED
    BY <2>1, <2>2 DEF Channel!Accept, Pending
<1>7. ASSUME pc # "handling", Serve
      PROVE  Channel!Deliver \/ UNCHANGED Channel!channelVars
  <2>1. CASE pc' = "handling"
    <3>1. Pending = input_list /\ Pending' = Tail(input_list) /\ input_list # <<>>
      BY <1>7, <2>1 DEF Serve, Pending
    <3>2. handled' = Append(handled, Head(input_list)) /\ UNCHANGED <<input, visiting>>
      BY <1>7, <2>1 DEF Serve, inputVars
    <3> QED
      BY <3>1, <3>2 DEF Channel!Deliver, Pending
  <2>2. CASE pc' # "handling"
    BY <1>1, <1>7, <2>2 DEF Serve, inputVars, Pending
  <2> QED
    BY <2>1, <2>2
<1>8. CASE Process \/ LeaveWait \/ LeaveUnasked
  <2>1. CASE Serve
    BY <1>7, <1>8, <2>1 DEF Process, LeaveWait, LeaveUnasked
  <2>2. CASE ~Serve
    BY <1>1, <1>8, <2>2 DEF Process, LeaveWait, LeaveUnasked, inputVars, Pending
  <2> QED
    BY <2>1, <2>2
<1>9. CASE Start \/ Test \/ Handled \/ RunOnDestroyed
  BY <1>1, <1>9 DEF Start, Test, Handled, RunOnDestroyed, inputVars, Pending
<1>10. CASE NotifyReturn \/ ShutdownBegin \/ cancel_processing \/ ShutdownJoin
  BY <1>1, <1>10 DEF NotifyReturn, NotifyEnd, ShutdownBegin, cancel_processing, WakeThread,
                     ShutdownJoin, inputVars, Pending
<1>11. CASE UNCHANGED activeVars
  BY <1>1, <1>11 DEF activeVars, inputVars, Pending
<1> QED
  BY <1>2, <1>3, <1>4, <1>5, <1>6, <1>8, <1>9, <1>10, <1>11 DEF QueueNext, ThreadStep

\* The inner handler gets its inputs in order and each at most once.
THEOREM OrderIsKept ==
    ASSUME ~EarlyInputs, CarefulOwner
    PROVE  QueueSpec => KeepsOrder
<1>1. QueueInit => Channel!ChannelInit
  BY DEF QueueInit, Channel!ChannelInit
<1>2. QueueInv /\ LifeInv /\ HandoverInv /\ [QueueNext]_activeVars
        => [Channel!Arrive \/ Channel!Accept \/ Channel!Deliver \/ Channel!GiveUp]_(Channel!channelVars)
  BY QueueStepIsChannelStep
<1> QED
  BY QueueSafety, LifeSafety, Handover, <1>1, <1>2, PTL DEF QueueSpec, KeepsOrder, Channel!ChannelSpec

-----------------------------------------------------------------------------
\* A thread that was woken finds an entry, or processing cancelled, as long as
\* there is a list to look at.
WokenForAReason == (Alive /\ pc = "woken") => input_list # <<>> \/ cancelled

LEMMA FaultStep ==
    ASSUME QueueInv, LifeInv, FaultsHaveCauses, WokenForAReason, [QueueNext]_activeVars
    PROVE  FaultsHaveCauses' /\ WokenForAReason'
<1>1. CASE UNCHANGED activeVars
  BY <1>1 DEF activeVars, FaultsHaveCauses, WokenForAReason, Alive, queueVars, threadVars
<1> SUFFICES ASSUME QueueNext
             PROVE  FaultsHaveCauses' /\ WokenForAReason'
  BY <1>1
<1>2. fault = "none"
  BY DEF QueueNext
<1> USE <1>2 DEF FaultsHaveCauses, WokenForAReason, Alive, LifeInv, queueVars, threadVars
<1>3. CASE ConstructBase \/ ConstructMembers \/ ConstructBody
           \/ DestroyBody \/ DestroyMembers \/ DestroyBase
  BY <1>3 DEF ConstructBase, ConstructMembers, ConstructBody, DestroyBody, DestroyMembers, DestroyBase,
              QueueInv, ListInv
<1>4. CASE Notify \/ VisitInner \/ NotifyReturn
  BY <1>4 DEF Notify, VisitInner, NotifyReturn
<1>5. CASE VisitDecorator
  <2>1. input \in 1 .. MaxInputs /\ input_list \in InputLists
    BY <1>5 DEF VisitDecorator, NotifyVisit, QueueInv, SubjectInv, ListInv
  <2>2. Append(input_list, input) # <<>>
    BY <2>1, InputListFacts
  <2> QED
    BY <1>5, <2>2 DEF VisitDecorator, NotifyVisit, handle_input, WakeThread
<1>6. CASE Start \/ ThreadStep \/ LeaveUnasked
  BY <1>6 DEF Start, ThreadStep, Test, Process, LeaveWait, LeaveUnasked, Serve, Handled
<1>7. CASE RunOnDestroyed
  BY <1>7 DEF RunOnDestroyed
<1>8. CASE ShutdownBegin \/ cancel_processing \/ ShutdownJoin
  BY <1>8 DEF ShutdownBegin, cancel_processing, WakeThread, ShutdownJoin
<1> QED
  BY <1>3, <1>4, <1>5, <1>6, <1>7, <1>8 DEF QueueNext

\* Whatever the owner, the inputs and the wakeups do: what is undefined has one
\* cause, and on_shutdown() is enough for the destructor to be safe.
THEOREM UndefinedHasACause == QueueSpec => []FaultsHaveCauses
<1>1. QueueInit => FaultsHaveCauses /\ WokenForAReason
  BY DEF QueueInit, FaultsHaveCauses, WokenForAReason
<1>2. QueueInv /\ LifeInv /\ FaultsHaveCauses /\ WokenForAReason /\ [QueueNext]_activeVars
        => FaultsHaveCauses' /\ WokenForAReason'
  BY FaultStep
<1> QED
  BY QueueSafety, LifeSafety, <1>1, <1>2, PTL DEF QueueSpec

\* A careful owner, who decorates between inputs, has nothing undefined happen
\* if no wakeup is spurious.
THEOREM NothingIsUndefined ==
    ASSUME ~EarlyInputs, CarefulOwner, ~SpuriousWakeups
    PROVE  QueueSpec => []NoFault
<1>1. QueueInv /\ FaultsHaveCauses => NoFault
  BY DEF QueueInv, ControlInv, FaultsHaveCauses, NoFault
<1> QED
  BY QueueSafety, UndefinedHasACause, <1>1, PTL

-----------------------------------------------------------------------------
(***************************************************************************)
(* No input is missed.  Until the loop of notify_input() is over its input *)
(* has reached the inner handler or is going to, or the decorator is whole *)
(* and has it in its list or is going to; and it stays whole, since only   *)
(* who holds observers_mutex can begin to destroy it.                      *)
(***************************************************************************)
InputInv ==
    observers_mutex = "notifying" =>
        \/ "inner" \in visiting
        \/ input \in Elements(handled)
        \/ life = "active" /\ ("decorator" \in visiting \/ input \in Elements(input_list))

\* With factor 1 everywhere every input is due.
AlwaysDue == \A h \in {"inner", "decorator"} : prescale[h] = NewManager(1)

\* What the thread is about to pop has been handled.
HandledFirst == (Alive /\ pc = "handling") => Head(input_list) \in Elements(handled)

LEMMA ElementFacts ==
    /\ \A list \in InputLists, i \in 1 .. MaxInputs :
          Elements(Append(list, i)) = Elements(list) \cup {i}
    /\ \A list \in InputLists :
          list # <<>> => /\ Elements(list) \subseteq {Head(list)} \cup Elements(Tail(list))
                         /\ Head(list) \in Elements(list)
<1>1. ASSUME NEW list \in InputLists, NEW i \in 1 .. MaxInputs
      PROVE  Elements(Append(list, i)) = Elements(list) \cup {i}
  <2>1. list \in Seq(1 .. MaxInputs) /\ DOMAIN list = 1 .. Len(list) /\ Len(list) \in Nat
    BY LenProperties DEF InputLists
  <2>2. /\ DOMAIN Append(list, i) = 1 .. Len(list) + 1
        /\ Append(list, i)[Len(list) + 1] = i
        /\ \A k \in 1 .. Len(list) : Append(list, i)[k] = list[k]
    BY <2>1, AppendProperties, LenProperties
  <2> QED
    BY <2>1, <2>2 DEF Elements
<1>2. ASSUME NEW list \in InputLists, list # <<>>
      PROVE  /\ Elements(list) \subseteq {Head(list)} \cup Elements(Tail(list))
             /\ Head(list) \in Elements(list)
  <2>1. /\ list \in Seq(1 .. MaxInputs) /\ DOMAIN list = 1 .. Len(list)
        /\ Len(list) \in Nat \ {0} /\ Head(list) = list[1]
    BY <1>2, LenProperties, EmptySeq DEF InputLists
  <2>2. /\ DOMAIN Tail(list) = 1 .. Len(list) - 1
        /\ \A k \in 1 .. Len(list) - 1 : Tail(list)[k] = list[k + 1]
    BY <1>2, <2>1, HeadTailProperties, LenProperties
  <2>3. ASSUME NEW k \in 1 .. Len(list), k # 1
        PROVE  list[k] \in Elements(Tail(list))
    <3>1. k - 1 \in DOMAIN Tail(list) /\ Tail(list)[k - 1] = list[k]
      BY <2>1, <2>2, <2>3
    <3> QED
      BY <3>1 DEF Elements
  <2> QED
    BY <2>1, <2>3 DEF Elements
<1> QED
  BY <1>1, <1>2

LEMMA DueStep ==
    ASSUME AlwaysDue, SubjectInv, [QueueNext]_activeVars
    PROVE  AlwaysDue'
<1> USE DEF AlwaysDue, SubjectInv, InputTypeOK
<1>1. Counted(NewManager(1)) = NewManager(1)
  BY DEF Counted, UpdateDue, NewManager
<1>2. ASSUME NEW h \in {"inner", "decorator"}, attach(h, 1) \/ detach(h) \/ NotifyVisit(h)
      PROVE  AlwaysDue'
  BY <1>1, <1>2, Constants DEF attach, detach, NotifyVisit
<1>3. CASE NotifyBegin \/ NotifyEnd \/ UNCHANGED inputVars
  BY <1>3 DEF NotifyBegin, NotifyEnd, inputVars
<1> QED
  BY <1>2, <1>3, SubjectSteps

LEMMA InputStep ==
    ASSUME QueueInv, LifeInv, AlwaysDue, HandledFirst, InputInv, [QueueNext]_activeVars
    PROVE  HandledFirst' /\ InputInv'
<1> USE DEF LifeInv, HandledFirst, InputInv, Alive, inputVars, queueVars, threadVars
<1>0. /\ input_list \in InputLists /\ handled \in InputLists
      /\ (Alive /\ pc = "handling") => input_list # <<>>
      /\ observers_mutex \in {"free", "notifying"}
      /\ observers_mutex = "notifying" => input \in 1 .. MaxInputs
      /\ life \in {"none", "attached", "built"} => pc = "new"
  BY DEF QueueInv, ListInv, SubjectInv, InputTypeOK
<1>1. CASE ConstructBase \/ ConstructBody \/ DestroyBody \/ DestroyBase
  BY <1>0, <1>1 DEF ConstructBase, ConstructBody, DestroyBody, DestroyBase, attach, detach
<1>2. CASE ConstructMembers \/ DestroyMembers
  BY <1>0, <1>2 DEF ConstructMembers, DestroyMembers
<1>3. CASE Notify
  <2>1. \/ "inner" \in visiting'
        \/ life' = "active" /\ "decorator" \in visiting'
    BY <1>3 DEF Notify, NotifyBegin, QueueInv, ControlInv
  <2> QED
    BY <1>3, <2>1 DEF Notify, NotifyBegin
<1>4. CASE VisitInner
  <2>1. handled' = Append(handled, input) /\ UNCHANGED <<input, input_list, pc, life>>
    BY <1>4 DEF VisitInner, NotifyVisit, AlwaysDue, UpdateDue, NewManager
  <2>2. Elements(handled') = Elements(handled) \cup {input}
    BY <1>0, <1>4, <2>1, ElementFacts DEF VisitInner, NotifyVisit
  <2> QED
    BY <2>1, <2>2
<1>5. CASE VisitDecorator
  <2>1. /\ observers_mutex = "notifying" /\ visiting' = visiting \ {"decorator"}
        /\ UNCHANGED <<observers_mutex, input, life, handled>>
    BY <1>5 DEF VisitDecorator, NotifyVisit, handle_input
  <2>2. CASE handle_input
    <3>1. Elements(input_list') = Elements(input_list) \cup {input}
      BY <1>0, <2>1, <2>2, ElementFacts DEF handle_input
    <3>2. pc' # "handling"
      BY <2>2 DEF handle_input, WakeThread
    <3> QED
      BY <2>1, <3>1, <3>2
  <2>3. CASE ~handle_input
    <3>1. life \in {"attached", "stripped"} /\ UNCHANGED <<input_list, pc>>
      BY <1>5, <2>3 DEF VisitDecorator
    <3> QED
      BY <2>1, <3>1
  <2> QED
    BY <2>2, <2>3
<1>6. ASSUME Serve, Alive, pc # "handling"
      PROVE  HandledFirst' /\ InputInv'
  <2>1. /\ UNCHANGED <<observers_mutex, visiting, input, life, input_list>>
        /\ \/ pc' # "handling" /\ UNCHANGED handled
           \/ input_list # <<>> /\ handled' = Append(handled, Head(input_list))
    BY <1>6 DEF Serve
  <2>2. input_list # <<>> =>
           Elements(Append(handled, Head(input_list))) = Elements(handled) \cup {Head(input_list)}
    BY <1>0, ElementFacts, InputListFacts
  <2> QED
    BY <2>1, <2>2
<1>7. CASE Process \/ LeaveWait \/ LeaveUnasked
  <2>1. CASE Serve
    BY <1>6, <1>7, <2>1 DEF Process, LeaveWait, LeaveUnasked
  <2>2. CASE ~Serve
    BY <1>7, <2>2 DEF Process, LeaveWait, LeaveUnasked
  <2> QED
    BY <2>1, <2>2
<1>8. CASE Handled
  <2>1. /\ Alive /\ pc = "handling" /\ pc' = "test" /\ input_list' = Tail(input_list)
        /\ UNCHANGED <<observers_mutex, visiting, input, life, handled>>
    BY <1>8 DEF Handled
  <2>2. Elements(input_list) \subseteq {Head(input_list)} \cup Elements(Tail(input_list))
    BY <1>0, <2>1, ElementFacts
  <2> QED
    BY <2>1, <2>2
<1>9. CASE NotifyReturn
  BY <1>9 DEF NotifyReturn, NotifyEnd
<1>10. CASE Start \/ Test \/ RunOnDestroyed
  BY <1>10 DEF Start, Test, RunOnDestroyed
<1>11. CASE ShutdownBegin \/ cancel_processing \/ ShutdownJoin
  BY <1>11 DEF ShutdownBegin, cancel_processing, WakeThread, ShutdownJoin
<1>12. CASE UNCHANGED activeVars
  BY <1>12 DEF activeVars
<1> QED
  BY <1>1, <1>2, <1>3, <1>4, <1>5, <1>7, <1>8, <1>9, <1>10, <1>11, <1>12 DEF QueueNext, ThreadStep

\* The step that ends notify_input() finds its input handled or in the list.
LEMMA ReturnsServed ==
    ASSUME QueueInv, LifeInv, InputInv, [QueueNext]_activeVars,
           observers_mutex = "notifying", observers_mutex' = "free"
    PROVE  input \in Elements(handled) \cup Elements(input_list)
<1>1. NotifyEnd
  BY SubjectSteps DEF attach, detach, NotifyVisit, NotifyBegin, inputVars
<1> QED
  BY <1>1 DEF NotifyEnd, InputInv

\* No input falls between the two handlers, for any owner, whenever inputs
\* come, and whatever the thread is doing.
THEOREM NoInputIsMissed ==
    ASSUME InnerFactors \subseteq {1}
    PROVE  QueueSpec => InputNeverMissed
<1>1. QueueInit => AlwaysDue /\ HandledFirst /\ InputInv
  BY Constants DEF QueueInit, AlwaysDue, HandledFirst, InputInv, Alive
<1>2. QueueInv /\ LifeInv /\ AlwaysDue /\ HandledFirst /\ InputInv /\ [QueueNext]_activeVars
        => AlwaysDue' /\ HandledFirst' /\ InputInv'
  BY DueStep, InputStep DEF QueueInv
<1>3. QueueInv /\ LifeInv /\ InputInv /\ [QueueNext]_activeVars
        => [observers_mutex = "notifying" /\ observers_mutex' = "free"
              => input \in Elements(handled) \cup Elements(input_list)]_activeVars
  BY ReturnsServed
<1> QED
  BY QueueSafety, LifeSafety, <1>1, <1>2, <1>3, PTL DEF QueueSpec, InputNeverMissed

=============================================================================
