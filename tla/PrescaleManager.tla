--------------------------- MODULE PrescaleManager ---------------------------
(***************************************************************************)
(* The PrescaleManager of smartPrescaleManager.h: the counter an           *)
(* InputSubject or a TaskTriggerSubject keeps for each observer, so that   *)
(* the observer hears only every n-th update.  Both members are C++        *)
(* unsigned integers; the counter wraps.                                   *)
(***************************************************************************)
EXTENDS Naturals

CONSTANT UIntSize    \* number of values of an unsigned int, 2^32 in the code

ASSUME UIntSizeAssumption == UIntSize \in Nat \ {0, 1}

UInt == 0 .. UIntSize - 1

Manager == [prescaleFactor : UInt, updateCounter : UInt]

\* The conversion constructor: the counter starts at 1.
NewManager(factor) == [prescaleFactor |-> factor, updateCounter |-> 1]

\* What isUpdateDue returns ...
UpdateDue(m) == m.updateCounter = m.prescaleFactor

\* A counter that restarts at 0 instead of 1 (for mutants).
CountFromZero(m) ==
    [m EXCEPT !.updateCounter =
        IF UpdateDue(m) THEN 0 ELSE IF @ = UIntSize - 1 THEN 0 ELSE @ + 1]

\* ... and how it leaves the manager: back to 1 when the update is due, one
\* more, modulo the width of the type, when it is not.
Counted(m) ==
    [m EXCEPT !.updateCounter =
        IF UpdateDue(m) THEN 1 ELSE IF @ = UIntSize - 1 THEN 0 ELSE @ + 1]

-----------------------------------------------------------------------------
\* The number of updates between two that are due: the factor, except that a
\* factor of 0 is only met after the counter wrapped around.
Period(m) == IF m.prescaleFactor = 0 THEN UIntSize ELSE m.prescaleFactor

\* Updates already counted towards the next one.
Counting(m) == IF m.updateCounter = 0 THEN UIntSize - 1 ELSE m.updateCounter - 1

=============================================================================
