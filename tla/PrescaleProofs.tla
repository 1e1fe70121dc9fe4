---------------------------- MODULE PrescaleProofs ----------------------------
(***************************************************************************)
(* What a PrescaleManager counts, for every factor and every width of the  *)
(* counter: the facts on which proofs about streams of updates rest.       *)
(***************************************************************************)
EXTENDS PrescaleManager, Integers, TLAPS

\* A fresh manager is one, and counts from the start of a period.
LEMMA FreshManager ==
    ASSUME NEW factor \in UInt
    PROVE  /\ NewManager(factor) \in Manager
           /\ Counting(NewManager(factor)) = 0
           /\ Period(NewManager(factor)) \in Nat \ {0}
<1>1. 1 \in UInt
  BY UIntSizeAssumption DEF UInt
<1>2. NewManager(factor) \in Manager
  BY <1>1 DEF NewManager, Manager
<1>3. Counting(NewManager(factor)) = 0
  BY DEF NewManager, Counting
<1>4. Period(NewManager(factor)) \in Nat \ {0}
  BY UIntSizeAssumption DEF NewManager, Period, UInt
<1> QED
  BY <1>2, <1>3, <1>4

\* The count and the period are numbers.
LEMMA CountType ==
    ASSUME NEW m \in Manager
    PROVE  Counting(m) \in Nat /\ Period(m) \in Nat \ {0}
BY UIntSizeAssumption DEF Manager, UInt, Counting, Period

\* One call of isUpdateDue(): either the period is full and the count starts
\* again, or the count grows by one; the counter that wraps to 0 is counted on.
LEMMA CountStep ==
    ASSUME NEW m \in Manager, Counting(m) < Period(m)
    PROVE  /\ Counted(m) \in Manager
           /\ Period(Counted(m)) = Period(m)
           /\ UpdateDue(m) => Counting(m) + 1 = Period(m) /\ Counting(Counted(m)) = 0
           /\ ~UpdateDue(m) => /\ Counting(Counted(m)) = Counting(m) + 1
                               /\ Counting(m) + 1 < Period(m)
<1> DEFINE f == m.prescaleFactor
           c == m.updateCounter
<1>1. f \in 0 .. UIntSize - 1 /\ c \in 0 .. UIntSize - 1 /\ UIntSize \in Nat /\ UIntSize > 1
  BY UIntSizeAssumption DEF Manager, UInt
<1>2. Counted(m).prescaleFactor = f
  BY DEF Counted, Manager
<1>3. Counted(m).updateCounter
        = IF c = f THEN 1 ELSE IF c = UIntSize - 1 THEN 0 ELSE c + 1
  BY DEF Counted, UpdateDue, Manager
<1>4. Counted(m) \in Manager
  <2>1. Counted(m).updateCounter \in 0 .. UIntSize - 1
    BY <1>1, <1>3
  <2> QED
    BY <1>2, <2>1 DEF Counted, Manager, UInt
<1>5. Period(Counted(m)) = Period(m)
  BY <1>2 DEF Period
<1>6. Counting(Counted(m)) = IF c = f THEN 0
                             ELSE IF c = UIntSize - 1 THEN UIntSize - 1 ELSE c
  BY <1>1, <1>3 DEF Counting
<1>7. Counting(m) = IF c = 0 THEN UIntSize - 1 ELSE c - 1
  BY DEF Counting
<1>8. Period(m) = IF f = 0 THEN UIntSize ELSE f
  BY DEF Period
<1>9. UpdateDue(m) <=> c = f
  BY DEF UpdateDue
<1> HIDE DEF f, c
<1>10. CASE c = f
  BY <1>1, <1>4, <1>5, <1>6, <1>7, <1>8, <1>9, <1>10
<1>11. CASE c # f
  BY <1>1, <1>4, <1>5, <1>6, <1>7, <1>8, <1>9, <1>11
<1> QED
  BY <1>10, <1>11

\* So one more update is one more counted, or one more delivered: the number
\* of updates remains that of the deliveries, in periods, and what is counted.
THEOREM EveryNthUpdate ==
    ASSUME NEW m \in Manager, Counting(m) < Period(m),
           NEW updates \in Nat, NEW delivered \in Nat,
           updates = delivered * Period(m) + Counting(m)
    PROVE  updates + 1 = (IF UpdateDue(m) THEN delivered + 1 ELSE delivered) * Period(Counted(m))
                             + Counting(Counted(m))
<1> DEFINE p == Period(m)
<1>1. p \in Nat /\ Counting(m) \in Nat /\ Counting(Counted(m)) \in Nat /\ Period(Counted(m)) = p
  BY CountStep, CountType
<1>2. delivered * p \in Nat /\ (delivered + 1) * p = delivered * p + p
  BY <1>1
<1>3. updates = delivered * p + Counting(m)
  OBVIOUS
<1>4. CASE UpdateDue(m)
  <2>1. Counting(m) + 1 = p /\ Counting(Counted(m)) = 0
    BY <1>4, CountStep
  <2> HIDE DEF p
  <2> QED
    BY <1>1, <1>2, <1>3, <1>4, <2>1
<1>5. CASE ~UpdateDue(m)
  <2>1. Counting(Counted(m)) = Counting(m) + 1
    BY <1>5, CountStep
  <2> HIDE DEF p
  <2> QED
    BY <1>1, <1>2, <1>3, <1>5, <2>1
<1> QED
  BY <1>4, <1>5

=============================================================================
