------------------------------ MODULE EspnowBridge ------------------------------
(***************************************************************************)
(* The way of a reading from the air to the database: the gateway of       *)
(* EspnowRx prints it on a serial line, espnow-pub.sh reads it there and   *)
(* publishes it, the broker keeps it for the script of Mqtt2Influx.        *)
(***************************************************************************)
EXTENDS EspnowRx, Mqtt2Influx

CONSTANT TtySize    \* lines that fit in the host's serial buffer

ASSUME BridgeAssumption ==
    /\ Packets = Messages
    /\ TtySize \in Nat \ {0}

VARIABLES
    serial,     \* lines in the serial buffer
    publisher   \* the line espnow-pub.sh is publishing

vars == <<rxVars, scriptVars, serial, publisher>>

TypeOK ==
    /\ RxTypeOK
    /\ ScriptTypeOK
    /\ serial \in Seq(Packets) /\ Len(serial) <= TtySize
    /\ publisher \in Packets \union {None}

Init ==
    /\ RxInit
    /\ ScriptInit
    /\ serial = <<>>
    /\ publisher = None

-------------------------------------------------------------------------------
(* What the gateway prints goes to the serial buffer, or nowhere if that   *)
(* is full: the line has no flow control.                                  *)
GatewayPrints ==
    /\ PrintAndFree
    /\ serial' = IF Len(serial) < TtySize THEN Append(serial, reader) ELSE serial
    /\ UNCHANGED <<scriptVars, publisher>>

GatewayMoves ==
    /\ \/ Enqueue \/ Take
       \/ \E p \in Packets : Receive(p)
    /\ UNCHANGED <<scriptVars, serial, publisher>>

(* espnow-pub.sh: read a line ... *)
ReadLine ==
    /\ publisher = None
    /\ serial # <<>>
    /\ publisher' = Head(serial)
    /\ serial' = Tail(serial)
    /\ UNCHANGED <<rxVars, scriptVars>>

(* ... and publish it with its time.  Nobody looks at whether that worked. *)
MosquittoPub ==
    /\ publisher # None
    /\ publisher' = None
    /\ Publish(publisher)
    /\ UNCHANGED <<rxVars, serial>>

MosquittoPubFails ==
    /\ publisher # None
    /\ publisher' = None
    /\ UNCHANGED <<rxVars, scriptVars, serial>>

ScriptMoves == ScriptNext /\ UNCHANGED <<rxVars, serial, publisher>>

Next ==
    \/ GatewayPrints \/ GatewayMoves
    \/ ReadLine \/ MosquittoPub \/ MosquittoPubFails
    \/ ScriptMoves

Spec == Init /\ [][Next]_vars

(* The tasks of the gateway run.  The script goes round its loop: loop,    *)
(* on_message and send_rejecteds get their turn, and a database that is in *)
(* reach does not always fail.                                             *)
Bridged(A) == A /\ UNCHANGED <<rxVars, serial, publisher>>

FairSpec ==
    /\ Spec
    /\ WF_vars(GatewayPrints)
    /\ WF_vars((Enqueue \/ Take) /\ UNCHANGED <<scriptVars, serial, publisher>>)
    /\ SF_vars(Bridged(Client))
    /\ SF_vars(Bridged(OnMessage))
    /\ SF_vars(Bridged(ReadRejecteds))
    /\ SF_vars(Bridged(ResendOk))
    /\ WF_vars(Bridged(SendRejecteds))
===============================================================================
