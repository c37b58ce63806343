------------------------------- MODULE Channel -------------------------------
(***************************************************************************)
(* What one TCP connection promises the nodes at its two ends: the messages*)
(* are received once each and in the order in which they were sent, until  *)
(* the connection closes.  FrameStream is shown to implement this module,  *)
(* which is how Scheduler and Worker see a link.                           *)
(***************************************************************************)
EXTENDS Naturals, Sequences

VARIABLES sent,          \* number of messages sent
          received,      \* the messages received, each named by its number
          up             \* the connection is open

channelVars == <<sent, received, up>>

ChannelInit == sent = 0 /\ received = <<>> /\ up = TRUE

Transmit ==
    /\ up
    /\ sent' = sent + 1
    /\ UNCHANGED <<received, up>>

Accept ==
    /\ up /\ Len(received) < sent
    /\ received' = Append(received, Len(received) + 1)
    /\ UNCHANGED <<sent, up>>

\* The receiver closes the connection because of the message it has just got.
Refuse ==
    /\ up /\ Len(received) < sent
    /\ received' = Append(received, Len(received) + 1)
    /\ up' = FALSE
    /\ UNCHANGED sent

Close ==
    /\ up
    /\ up' = FALSE
    /\ UNCHANGED <<sent, received>>

ChannelNext == Transmit \/ Accept \/ Refuse \/ Close

ChannelSpec == ChannelInit /\ [][ChannelNext]_channelVars

=============================================================================
