----------------------------- MODULE PacketChannel -----------------------------
(***************************************************************************)
(* What the gateway promises once it has copied a packet: it comes out, in *)
(* its turn.  Buffers, tasks and memory are the business of EspnowRx,      *)
(* which implements this module.                                           *)
(***************************************************************************)
EXTENDS Sequences

CONSTANT Packets

VARIABLES
    waiting,    \* what has been accepted and not handed on, in order
    delivered   \* what has been handed on, in order

channelVars == <<waiting, delivered>>

ChannelInit == waiting = <<>> /\ delivered = <<>>

Accept(p) ==
    /\ waiting' = Append(waiting, p)
    /\ UNCHANGED delivered

HandOn ==
    /\ waiting # <<>>
    /\ delivered' = Append(delivered, Head(waiting))
    /\ waiting' = Tail(waiting)

ChannelNext == HandOn \/ \E p \in Packets : Accept(p)

ChannelSafety == ChannelInit /\ [][ChannelNext]_channelVars

ChannelSpec == ChannelSafety /\ WF_channelVars(HandOn)
================================================================================
