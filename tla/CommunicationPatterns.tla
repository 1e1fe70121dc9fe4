------------------------ MODULE CommunicationPatterns ------------------------
(***************************************************************************)
(* The classes of ports and of their handlers, as far as they bring code   *)
(* of their own: how a port comes out of its constructor, what can connect *)
(* it again, whether it is an InputSubject; and the chain of constructors  *)
(* of a handler.  Their user API is pure virtual and has no code here.     *)
(***************************************************************************)
\* A port is a shutdown observer of its component.
ICommunicationPattern(connected, reconnects) ==
    [connected  |-> connected,     \* outcomes of the constructor
     reconnects |-> reconnects,    \* by connect(), called by the user
     inputs     |-> FALSE]         \* is it an InputSubject?

\* The connection constructor leaves the autoconnect to derived classes.
IClientPattern == ICommunicationPattern(BOOLEAN, TRUE)

\* Clients connect to a server as soon as it is constructed.
IServerPattern == ICommunicationPattern({TRUE}, FALSE)

InputSubjectOf(base) == [base EXCEPT !.inputs = TRUE]

IPushClientPattern  == InputSubjectOf(IClientPattern)
IEventClientPattern == InputSubjectOf(IClientPattern)
IQueryClientPattern == IClientPattern
ISendClientPattern  == IClientPattern

IPushServerPattern  == IServerPattern
IEventServerPattern == IServerPattern
IQueryServerPattern == InputSubjectOf(IServerPattern)
ISendServerPattern  == InputSubjectOf(IServerPattern)

PortClass ==
    {IPushClientPattern, IEventClientPattern, IQueryClientPattern, ISendClientPattern,
     IPushServerPattern, IEventServerPattern, IQueryServerPattern, ISendServerPattern}

-----------------------------------------------------------------------------
\* A handler class: its constructors, and whether the user gives a factor.
IInputHandler == [chain |-> <<"IInputHandler", "user">>, prescaled |-> TRUE]

\* Classes whose handle_input() hands the parts of the input to one more pure
\* virtual method, and whose constructor attaches with the default factor.
Delegating(class) == [chain |-> <<"IInputHandler", class, "user">>, prescaled |-> FALSE]

IEventHandler       == Delegating("IEventHandler")
IQueryServerHandler == Delegating("IQueryServerHandler")
ISendServerHandler  == Delegating("ISendServerHandler")

HandlerClass == {IInputHandler, IEventHandler, IQueryServerHandler, ISendServerHandler}

=============================================================================
