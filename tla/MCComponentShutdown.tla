------------------------- MODULE MCComponentShutdown -------------------------
(***************************************************************************)
(* A component whose main() constructs two tasks and a port that both use. *)
(* The thread of one task constructs a port of its own; that of the other  *)
(* a subtask, whose thread constructs a port in turn.                      *)
(***************************************************************************)
EXTENDS ComponentShutdown

CONSTANTS task, subtask, subport, other, port, shared

ChainOwner ==
    [o \in {task, subtask, subport, other, port, shared} |->
        CASE o = subtask -> task
          [] o = subport -> subtask
          [] o = port    -> other
          [] OTHER       -> Main]

ChainUsers ==
    [p \in {subport, port, shared} |->
        CASE p = shared -> {subtask, other}
          [] p = port   -> {other}
          [] OTHER      -> {}]

ChainClass ==
    [p \in {subport, port, shared} |->
        CASE p = shared -> ISendClientPattern
          [] p = port   -> IPushClientPattern
          [] OTHER      -> IQueryServerPattern]

=============================================================================
