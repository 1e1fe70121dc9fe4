----------------------------- MODULE MCInputPorts -----------------------------
(***************************************************************************)
(* Two ports.  main() constructs a handler of each, and two more are       *)
(* constructed and destroyed by what the handlers of the other port do.    *)
(* What those of the first port do may also construct one of their own.    *)
(***************************************************************************)
EXTENDS InputPorts

CONSTANTS p1, p2, plain, own, event, query, send

HandlerClasses ==
    [h \in {plain, own, event, query, send} |->
        CASE h = event -> IEventHandler
          [] h = query -> IQueryServerHandler
          [] h = send  -> ISendServerHandler
          [] OTHER     -> IInputHandler]

HandlerSubject ==
    [h \in {plain, own, event, query, send} |-> IF h \in {query, send} THEN p2 ELSE p1]

HandlerOwner ==
    [h \in {plain, own, event, query, send} |->
        CASE h = event          -> p2
          [] h \in {query, own} -> p1
          [] OTHER              -> Main]

=============================================================================
