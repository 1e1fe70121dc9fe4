---------------------------- MODULE MCQueryServer ----------------------------
(***************************************************************************)
(* Instances of QueryServerTaskTrigger: tasks are interchangeable.         *)
(***************************************************************************)
EXTENDS QueryServerTaskTrigger, TLC

TaskSymmetry == Permutations(Observers)

=============================================================================
