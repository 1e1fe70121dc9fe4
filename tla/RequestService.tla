---------------------------- MODULE RequestService ----------------------------
(***************************************************************************)
(* What a query server promises its clients, whatever tasks it has: the    *)
(* requests are taken in the order of their arrival, each by one task, and *)
(* answered by the task that took it.                                      *)
(***************************************************************************)
EXTENDS Naturals

CONSTANT Workers      \* the tasks

VARIABLES arrived,    \* number of the last request
          taken,      \* number of the last one a task took
          serving,    \* what a task has taken and not answered, or 0
          answered    \* the requests that were answered

serviceVars == <<arrived, taken, serving, answered>>

ServiceInit ==
    /\ arrived  = 0
    /\ taken    = 0
    /\ serving  = [w \in Workers |-> 0]
    /\ answered = {}

Arrive == arrived' = arrived + 1 /\ UNCHANGED <<taken, serving, answered>>

Take(w) ==
    /\ taken < arrived
    /\ serving[w] = 0
    /\ taken' = taken + 1
    /\ serving' = [serving EXCEPT ![w] = taken']
    /\ UNCHANGED <<arrived, answered>>

Answer(w) ==
    /\ serving[w] # 0
    /\ serving[w] \notin answered
    /\ answered' = answered \cup {serving[w]}
    /\ serving' = [serving EXCEPT ![w] = 0]
    /\ UNCHANGED <<arrived, taken>>

ServiceNext == Arrive \/ \E w \in Workers : Take(w) \/ Answer(w)

ServiceSpec == ServiceInit /\ [][ServiceNext]_serviceVars

=============================================================================
