------------------------------- MODULE TaskLife -------------------------------
(***************************************************************************)
(* What a task needs of those who construct, start, shut down and destroy  *)
(* it, and does not test itself: it is started at most once, while the     *)
(* object exists and not once on_shutdown() was called; that is called at  *)
(* most once on an object, and returns when there is no thread left; the   *)
(* object is destroyed neither during the shutdown nor under its thread.   *)
(***************************************************************************)
CONSTANT Tasks      \* the addresses of tasks

VARIABLES thread,   \* "none" without an object, "new", "running" or "ended"
          stop      \* its shutdown: "idle", "asked", or "over"

lifeVars == <<thread, stop>>

LifeInit ==
    /\ thread = [t \in Tasks |-> "none"]
    /\ stop   = [t \in Tasks |-> "idle"]

Become(t, stage) == thread' = [thread EXCEPT ![t] = stage]

Construct(t) == thread[t] = "none" /\ Become(t, "new") /\ UNCHANGED stop

Begin(t) ==
    /\ thread[t] = "new"
    /\ stop[t] = "idle"
    /\ Become(t, "running")
    /\ UNCHANGED stop

Finish(t) == thread[t] = "running" /\ Become(t, "ended") /\ UNCHANGED stop

\* on_shutdown() is called ...
Ask(t) ==
    /\ thread[t] # "none"
    /\ stop[t] = "idle"
    /\ stop' = [stop EXCEPT ![t] = "asked"]
    /\ UNCHANGED thread

\* ... and returns.
Join(t) ==
    /\ thread[t] \in {"new", "ended"}
    /\ stop[t] = "asked"
    /\ stop' = [stop EXCEPT ![t] = "over"]
    /\ UNCHANGED thread

Destroy(t) ==
    /\ thread[t] \in {"new", "ended"}
    /\ stop[t] # "asked"
    /\ Become(t, "none")
    /\ stop' = [stop EXCEPT ![t] = "idle"]

LifeNext ==
    \E t \in Tasks :
        Construct(t) \/ Begin(t) \/ Finish(t) \/ Ask(t) \/ Join(t) \/ Destroy(t)

LifeSpec == LifeInit /\ [][LifeNext]_lifeVars

=============================================================================
