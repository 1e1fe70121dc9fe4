--------------------------- MODULE MCInputTrigger ---------------------------
(***************************************************************************)
(* Instances of InputTaskTrigger: tasks are interchangeable.               *)
(***************************************************************************)
EXTENDS InputTaskTrigger, TLC

TaskSymmetry == Permutations(Observers)

=============================================================================
