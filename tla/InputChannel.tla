---------------------------- MODULE InputChannel ----------------------------
(***************************************************************************)
(* What a handler may rely on, decorated or not: each input reaches it at  *)
(* most once and in the order of arrival; an input that was accepted is    *)
(* passed over only when the whole queue is given up.                      *)
(***************************************************************************)
EXTENDS Naturals, Sequences

VARIABLES arrived,       \* number of the last input
          offered,       \* is it still to be passed on?
          pending,       \* inputs accepted and not yet delivered
          delivered      \* inputs the handler has been called with

channelVars == <<arrived, offered, pending, delivered>>

ChannelInit == arrived = 0 /\ ~offered /\ pending = <<>> /\ delivered = <<>>

\* The next input, for nobody when no handler is attached.
Arrive ==
    /\ ~offered
    /\ arrived' = arrived + 1
    /\ offered' \in BOOLEAN
    /\ UNCHANGED <<pending, delivered>>

\* The input is queued, handed over directly (which must not overtake what is
\* queued), or not due for this handler.
Accept ==
    /\ offered
    /\ offered' = FALSE
    /\ \/ pending' = Append(pending, arrived) /\ UNCHANGED delivered
       \/ pending = <<>> /\ delivered' = Append(delivered, arrived) /\ UNCHANGED pending
       \/ UNCHANGED <<pending, delivered>>
    /\ UNCHANGED arrived

Deliver ==
    /\ pending # <<>>
    /\ delivered' = Append(delivered, Head(pending))
    /\ pending' = Tail(pending)
    /\ UNCHANGED <<arrived, offered>>

GiveUp == pending' = <<>> /\ UNCHANGED <<arrived, offered, delivered>>

ChannelSpec == ChannelInit /\ [][Arrive \/ Accept \/ Deliver \/ GiveUp]_channelVars

=============================================================================
