---------------------------- MODULE MCTaskTrigger ----------------------------
(***************************************************************************)
(* Instances of TaskTrigger.  Observers are interchangeable: nothing in    *)
(* the module orders or names them.                                        *)
(***************************************************************************)
EXTENDS TaskTrigger, TLC

ObserverSymmetry == Permutations(Observers)

=============================================================================
