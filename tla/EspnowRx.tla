------------------------------- MODULE EspnowRx -------------------------------
(***************************************************************************)
(* espnow-rx: the gateway that prints what its radio hears.  The callback  *)
(* runs on the WiFi driver's task; it copies a packet to the heap and puts *)
(* it on a queue, for as long as that takes.  A task of its own takes it   *)
(* from there, prints it on the serial line and frees the copy.            *)
(***************************************************************************)
EXTENDS Naturals, Sequences

CONSTANTS
    Packets,    \* the packets sensors send, each of them once
    QueueSize,  \* CONFIG_ESPNOW_QUEUE_SIZE
    None        \* no packet

ASSUME RxAssumption ==
    /\ QueueSize \in Nat \ {0}
    /\ None \notin Packets

VARIABLES
    air,        \* packets that have not come down yet
    callback,   \* evt of my_espnow_recv_cb, while the callback runs
    queue,      \* received_data_queue
    reader,     \* evt of read_incoming_data, from the queue to free
    heap,       \* packets whose copy is allocated
    heard,      \* history: packets copied to the heap, in order
    printed     \* history: packets printed, in order

rxVars == <<air, callback, queue, reader, heap, heard, printed>>

RxTypeOK ==
    /\ air \subseteq Packets
    /\ callback \in Packets \union {None}
    /\ queue \in Seq(Packets)
    /\ Len(queue) <= QueueSize
    /\ reader \in Packets \union {None}
    /\ heap \subseteq Packets
    /\ heard \in Seq(Packets)
    /\ printed \in Seq(Packets)

RxInit ==
    /\ air = Packets
    /\ callback = None
    /\ queue = <<>>
    /\ reader = None
    /\ heap = {}
    /\ heard = <<>>
    /\ printed = <<>>

-------------------------------------------------------------------------------
(* my_espnow_recv_cb up to xQueueSend.  A packet that nobody hears, that    *)
(* the driver has no room for while the callback blocks, or that malloc    *)
(* has no room for, changes nothing: it is a packet that never gets here.  *)
Receive(p) ==
    /\ p \in air
    /\ callback = None
    /\ air' = air \ {p}
    /\ callback' = p
    /\ heap' = heap \union {p}
    /\ heard' = Append(heard, p)
    /\ UNCHANGED <<queue, reader, printed>>

(* xQueueSend with portMAX_DELAY returns only when there is room.          *)
(* (EnqueueNoWait: with a timeout, and the free of its error branch;       *)
(* EnqueueLeaking: the same without the free.)                             *)
HasRoomInclusive == Len(queue) <= QueueSize
HasRoom == Len(queue) < QueueSize

EnqueueNoWait ==
    /\ callback # None
    /\ IF HasRoom
       THEN queue' = Append(queue, callback) /\ UNCHANGED heap
       ELSE heap' = heap \ {callback} /\ UNCHANGED queue
    /\ callback' = None
    /\ UNCHANGED <<air, reader, heard, printed>>

EnqueueLeaking ==
    /\ callback # None
    /\ queue' = IF HasRoom THEN Append(queue, callback) ELSE queue
    /\ callback' = None
    /\ UNCHANGED <<air, reader, heap, heard, printed>>

Enqueue ==
    /\ callback # None
    /\ HasRoom
    /\ queue' = Append(queue, callback)
    /\ callback' = None
    /\ UNCHANGED <<air, reader, heap, heard, printed>>

(* xQueueReceive returns, and the LED goes on. *)
Take ==
    /\ reader = None
    /\ queue # <<>>
    /\ reader' = Head(queue)
    /\ queue' = Tail(queue)
    /\ UNCHANGED <<air, callback, heap, heard, printed>>

(* printf and free, and the LED goes off. *)
PrintAndFree ==
    /\ reader # None
    /\ printed' = Append(printed, reader)
    /\ heap' = heap \ {reader}
    /\ reader' = None
    /\ UNCHANGED <<air, callback, queue, heard>>

-------------------------------------------------------------------------------
RxStep == Enqueue \/ Take \/ PrintAndFree
RxNext == RxStep \/ \E p \in Packets : Receive(p)

RxSpec == RxInit /\ [][RxNext]_rxVars

-------------------------------------------------------------------------------
(* Properties. *)

Held(p) == IF p = None THEN <<>> ELSE <<p>>
Pipeline == Held(reader) \o queue \o Held(callback)

(* Packets leave in the order in which they were heard, and none that was  *)
(* copied is dropped on the way, however slow the serial line is: heard    *)
(* splits into what is printed and what waits (main.c:60, portMAX_DELAY).  *)
InOrder == heard = printed \o Pipeline

(* The gateway is a channel that hands on, sooner or later and in order,   *)
(* whatever my_espnow_recv_cb has copied (main.c:43-118).                  *)
Channel == INSTANCE PacketChannel WITH waiting <- Pipeline, delivered <- printed
HandsOn == Channel!ChannelSpec

(* Every copy on the heap has exactly one owner, who will free it: the     *)
(* callback, an element of the queue or the reader (main.c:53,62,114).     *)
HeapOwned ==
    /\ \A i, j \in DOMAIN Pipeline : Pipeline[i] = Pipeline[j] => i = j
    /\ heap = {Pipeline[i] : i \in DOMAIN Pipeline}
===============================================================================
