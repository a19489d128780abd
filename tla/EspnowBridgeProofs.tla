--------------------------- MODULE EspnowBridgeProofs ---------------------------
(***************************************************************************)
(* The bridge loses nothing between the radio and the database.  First the *)
(* gateway of EspnowRx, for any packets and any size of queue; then the    *)
(* script of Mqtt2Influx, for any messages, whoever publishes them, and    *)
(* any number of deaths; last the whole bridge.                            *)
(***************************************************************************)
EXTENDS EspnowBridge, SequenceTheorems, FiniteSetTheorems, TLAPS

(* A packet in the pipeline has come down. *)
Landed == \A i \in 1 .. Len(Pipeline) : Pipeline[i] \notin air

IInv == RxTypeOK /\ InOrder /\ HeapOwned /\ Landed

-------------------------------------------------------------------------------
(* Sequences without repetition that hold the elements of a set. *)
Lists(s, set) ==
    /\ \A i, j \in 1 .. Len(s) : s[i] = s[j] => i = j
    /\ set = {s[i] : i \in 1 .. Len(s)}

LEMMA ListsEmpty == Lists(<<>>, {})
BY DEF Lists

LEMMA ListsAppend ==
    ASSUME NEW S, NEW s \in Seq(S), NEW e \in S, NEW set, Lists(s, set),
           \A i \in 1 .. Len(s) : s[i] # e
    PROVE  Lists(Append(s, e), set \union {e})
<1> DEFINE t == Append(s, e)
<1>1. /\ t \in Seq(S) /\ Len(s) \in Nat /\ Len(t) = Len(s) + 1
      /\ \A i \in 1 .. Len(s) : t[i] = s[i]
      /\ t[Len(s) + 1] = e
  BY AppendProperties, LenProperties
<1> HIDE DEF t
<1>2. \A i, j \in 1 .. Len(t) : t[i] = t[j] => i = j
  BY <1>1 DEF Lists
<1>3. {t[i] : i \in 1 .. Len(t)} = {t[i] : i \in 1 .. Len(s)} \union {e}
  BY <1>1
<1>4. {t[i] : i \in 1 .. Len(s)} = {s[i] : i \in 1 .. Len(s)}
  BY <1>1
<1> QED
  BY <1>2, <1>3, <1>4 DEF Lists, t

LEMMA ListsTail ==
    ASSUME NEW S, NEW s \in Seq(S), s # <<>>, NEW set, Lists(s, set)
    PROVE  Lists(Tail(s), set \ {Head(s)})
<1> DEFINE t == Tail(s)
<1>1. /\ t \in Seq(S) /\ Len(s) \in Nat /\ Len(s) > 0 /\ Len(t) = Len(s) - 1
      /\ \A i \in 1 .. Len(t) : t[i] = s[i + 1]
      /\ Head(s) = s[1]
  BY HeadTailProperties, LenProperties, EmptySeq
<1> HIDE DEF t
<1>2. \A i, j \in 1 .. Len(t) : t[i] = t[j] => i = j
  BY <1>1 DEF Lists
<1>3. ASSUME NEW x \in set, x # s[1]
      PROVE  \E i \in 1 .. Len(t) : x = t[i]
  <2>1. PICK k \in 1 .. Len(s) : x = s[k]
    BY <1>3 DEF Lists
  <2>2. k - 1 \in 1 .. Len(t) /\ x = t[k - 1]
    BY <1>1, <1>3, <2>1
  <2> QED
    BY <2>2
<1>4. ASSUME NEW i \in 1 .. Len(t)
      PROVE  t[i] \in set \ {s[1]}
  BY <1>1 DEF Lists
<1>5. set \ {s[1]} = {t[i] : i \in 1 .. Len(t)}
  BY <1>3, <1>4
<1> QED
  BY <1>1, <1>2, <1>5 DEF Lists, t

-------------------------------------------------------------------------------
(* A sequence is its head and its tail. *)
LEMMA FrontOf ==
    ASSUME NEW S, NEW e \in S, NEW s \in Seq(S)
    PROVE  /\ <<e>> \o s # <<>>
           /\ Head(<<e>> \o s) = e
           /\ Tail(<<e>> \o s) = s
<1> DEFINE t == <<e>> \o s
<1>1. <<e>> \in Seq(S) /\ Len(<<e>>) = 1 /\ <<e>>[1] = e /\ Len(s) \in Nat
  BY LenProperties
<1>2. /\ t \in Seq(S) /\ Len(t) = 1 + Len(s)
      /\ \A i \in 1 .. 1 + Len(s) : t[i] = IF i <= 1 THEN e ELSE s[i - 1]
  BY <1>1, ConcatProperties
<1> HIDE DEF t
<1>3. t # <<>> /\ Head(t) = e
  BY <1>1, <1>2, EmptySeq
<1>4. Tail(t) \in Seq(S) /\ Len(Tail(t)) = Len(s)
  BY <1>1, <1>2, <1>3, HeadTailProperties
<1>5. \A i \in 1 .. Len(s) : Tail(t)[i] = s[i]
  BY <1>1, <1>2, <1>3, <1>4, HeadTailProperties
<1>6. Tail(t) = s
  BY <1>4, <1>5, SeqEqual
<1> QED
  BY <1>3, <1>6 DEF t

LEMMA HeadTailOnly ==
    ASSUME NEW S, NEW s \in Seq(S), s # <<>>
    PROVE  <<Head(s)>> \o Tail(s) = s
<1>1. Len(s) \in 1 .. Len(s) /\ 1 \in 1 .. Len(s) /\ Head(s) = s[1]
  BY EmptySeq, LenProperties
<1>2. SubSeq(s, 1, Len(s)) = <<s[1]>> \o SubSeq(s, 2, Len(s))
  BY <1>1, SubSeqRecursiveFirst
<1>3. Tail(s) = SubSeq(s, 2, Len(s)) /\ SubSeq(s, 1, Len(s)) = s
  BY <1>1, SubSeqFull, TailIsSubSeq
<1> QED
  BY <1>1, <1>2, <1>3

(* The pipeline and its two ends. *)
LEMMA PipelineType ==
    ASSUME RxTypeOK
    PROVE  /\ Pipeline \in Seq(Packets)
           /\ Held(reader) \in Seq(Packets)
           /\ Held(callback) \in Seq(Packets)
<1>1. Held(reader) \in Seq(Packets) /\ Held(callback) \in Seq(Packets)
  BY EmptySeq DEF RxTypeOK, Held
<1> QED
  BY <1>1, ConcatProperties DEF Pipeline, RxTypeOK

LEMMA HeapLists == RxTypeOK => (HeapOwned <=> Lists(Pipeline, heap))
<1> SUFFICES ASSUME RxTypeOK PROVE HeapOwned <=> Lists(Pipeline, heap)
  OBVIOUS
<1>1. DOMAIN Pipeline = 1 .. Len(Pipeline)
  BY PipelineType, LenProperties
<1> QED
  BY <1>1 DEF HeapOwned, Lists

(* A packet that is not None enters at the back... *)
LEMMA ReceivePipeline ==
    ASSUME RxTypeOK, NEW p \in Packets, Receive(p)
    PROVE  Pipeline' = Append(Pipeline, p)
<1> DEFINE r == Held(reader)
<1>1. r \in Seq(Packets) /\ queue \in Seq(Packets) /\ r \o queue \in Seq(Packets)
  BY PipelineType, ConcatProperties DEF RxTypeOK
<1>2. r' = r /\ queue' = queue
  BY DEF Receive, Held
<1>3. Held(callback) = <<>> /\ Held(callback)' = <<p>>
  BY RxAssumption DEF Receive, Held
<1> HIDE DEF r
<1>4. Pipeline = r \o queue
  BY <1>1, <1>3, ConcatEmptySeq DEF Pipeline, r
<1>5. Pipeline' = (r \o queue) \o <<p>>
  BY <1>2, <1>3 DEF Pipeline, r
<1> QED
  BY <1>1, <1>4, <1>5, AppendIsConcat

(* ... moves along it without changing it ... *)
LEMMA EnqueuePipeline ==
    ASSUME RxTypeOK, Enqueue
    PROVE  Pipeline' = Pipeline
<1> DEFINE r == Held(reader)
<1>1. /\ r \in Seq(Packets) /\ queue \in Seq(Packets)
      /\ r \o queue \in Seq(Packets)
      /\ callback \in Packets /\ <<callback>> \in Seq(Packets)
      /\ <<>> \in Seq(Packets)
  BY PipelineType, ConcatProperties DEF RxTypeOK, Enqueue
<1>2. r' = r /\ queue' = queue \o <<callback>>
  BY <1>1, AppendIsConcat DEF Enqueue, Held
<1>3. Held(callback) = <<callback>> /\ Held(callback)' = <<>>
  BY RxAssumption DEF Enqueue, Held
<1> HIDE DEF r
<1>4. Pipeline = (r \o queue) \o <<callback>>
  BY <1>3 DEF Pipeline, r
<1>5. Pipeline' = (r \o (queue \o <<callback>>)) \o <<>>
  BY <1>2, <1>3 DEF Pipeline, r
<1>6. r \o (queue \o <<callback>>) = (r \o queue) \o <<callback>>
  BY <1>1, ConcatAssociative
<1>7. (r \o queue) \o <<callback>> \in Seq(Packets)
  BY <1>1, ConcatProperties
<1> QED
  BY <1>4, <1>5, <1>6, <1>7, ConcatEmptySeq

LEMMA TakePipeline ==
    ASSUME RxTypeOK, Take
    PROVE  Pipeline' = Pipeline
<1> DEFINE c == Held(callback)
<1>1. /\ c \in Seq(Packets) /\ queue \in Seq(Packets) /\ queue # <<>>
      /\ Head(queue) \in Packets /\ Tail(queue) \in Seq(Packets)
  BY PipelineType, HeadTailProperties DEF RxTypeOK, Take
<1>2. c' = c /\ queue' = Tail(queue)
  BY DEF Take, Held
<1>3. Held(reader) = <<>> /\ Held(reader)' = <<Head(queue)>>
  BY <1>1, RxAssumption DEF Take, Held
<1> HIDE DEF c
<1>4. Pipeline = (<<>> \o queue) \o c
  BY <1>3 DEF Pipeline, c
<1>5. Pipeline' = (<<Head(queue)>> \o Tail(queue)) \o c
  BY <1>2, <1>3 DEF Pipeline, c
<1>6. <<>> \o queue = queue
  BY <1>1, ConcatEmptySeq
<1>7. <<Head(queue)>> \o Tail(queue) = queue
  BY <1>1, HeadTailOnly
<1> QED
  BY <1>4, <1>5, <1>6, <1>7

(* ... and leaves at the front. *)
LEMMA PrintPipeline ==
    ASSUME RxTypeOK, PrintAndFree
    PROVE  /\ Pipeline # <<>>
           /\ reader = Head(Pipeline)
           /\ Pipeline' = Tail(Pipeline)
<1> DEFINE rest == queue \o Held(callback)
<1>1. /\ queue \in Seq(Packets) /\ Held(callback) \in Seq(Packets)
      /\ reader \in Packets /\ <<reader>> \in Seq(Packets)
      /\ rest \in Seq(Packets)
  BY PipelineType, ConcatProperties DEF RxTypeOK, PrintAndFree
<1>2. Held(callback)' = Held(callback) /\ queue' = queue
  BY DEF PrintAndFree, Held
<1>3. Held(reader) = <<reader>> /\ Held(reader)' = <<>>
  BY RxAssumption DEF PrintAndFree, Held
<1>4. Pipeline = <<reader>> \o rest
  BY <1>1, <1>3, ConcatAssociative DEF Pipeline
<1>5. Pipeline' = (<<>> \o queue) \o Held(callback)
  BY <1>2, <1>3 DEF Pipeline
<1>6. Pipeline' = rest
  BY <1>1, <1>5, ConcatEmptySeq
<1> HIDE DEF rest
<1> QED
  BY <1>1, <1>4, <1>6, FrontOf

-------------------------------------------------------------------------------
LEMMA RxInitIInv == RxInit => IInv
<1> SUFFICES ASSUME RxInit PROVE IInv
  OBVIOUS
<1> USE DEF RxInit
<1>1. RxTypeOK
  BY RxAssumption, EmptySeq DEF RxTypeOK
<1>2. Pipeline = <<>>
  BY EmptySeq, ConcatEmptySeq DEF Pipeline, Held
<1>3. InOrder /\ Landed
  BY <1>2, EmptySeq, ConcatEmptySeq DEF InOrder, Landed
<1>4. HeapOwned
  BY <1>1, <1>2, HeapLists, ListsEmpty
<1> QED
  BY <1>1, <1>3, <1>4 DEF IInv

LEMMA RxType == RxTypeOK /\ [RxNext]_rxVars => RxTypeOK'
<1> SUFFICES ASSUME RxTypeOK, [RxNext]_rxVars PROVE RxTypeOK'
  OBVIOUS
<1> USE DEF RxTypeOK
<1>1. ASSUME NEW p \in Packets, Receive(p) PROVE RxTypeOK'
  <2>1. heard' \in Seq(Packets)
    BY <1>1, AppendProperties DEF Receive
  <2> QED
    BY <1>1, <2>1 DEF Receive
<1>2. CASE Enqueue
  <2>1. callback \in Packets
    BY <1>2 DEF Enqueue
  <2>2. queue' \in Seq(Packets) /\ Len(queue') = Len(queue) + 1
    BY <1>2, <2>1, AppendProperties DEF Enqueue
  <2>3. Len(queue') <= QueueSize
    BY <1>2, <2>2, LenProperties, RxAssumption DEF Enqueue, HasRoom
  <2> QED
    BY <1>2, <2>2, <2>3 DEF Enqueue
<1>3. CASE Take
  <2>1. /\ Head(queue) \in Packets /\ Tail(queue) \in Seq(Packets)
        /\ Len(Tail(queue)) = Len(queue) - 1
    BY <1>3, HeadTailProperties DEF Take
  <2>2. Len(queue') <= QueueSize
    BY <1>3, <2>1, LenProperties, RxAssumption DEF Take
  <2> QED
    BY <1>3, <2>1, <2>2 DEF Take
<1>4. CASE PrintAndFree
  <2>1. printed' \in Seq(Packets)
    BY <1>4, AppendProperties DEF PrintAndFree
  <2> QED
    BY <1>4, <2>1 DEF PrintAndFree
<1>5. CASE UNCHANGED rxVars
  BY <1>5 DEF rxVars
<1> QED
  BY <1>1, <1>2, <1>3, <1>4, <1>5 DEF RxNext, RxStep

(* A packet that is still in the air is not in the pipeline: what comes    *)
(* down is new to the heap.                                                *)
LEMMA ReceiveIInv ==
    ASSUME IInv, RxTypeOK', NEW p \in Packets, Receive(p)
    PROVE  IInv'
<1> USE DEF IInv
<1>1. Pipeline \in Seq(Packets) /\ Len(Pipeline) \in Nat
  BY PipelineType, LenProperties
<1>2. Pipeline' = Append(Pipeline, p)
  BY ReceivePipeline
<1>3. /\ heard \in Seq(Packets) /\ printed \in Seq(Packets)
      /\ printed \o Pipeline \in Seq(Packets) /\ <<p>> \in Seq(Packets)
  BY <1>1, ConcatProperties DEF RxTypeOK
<1>4. InOrder'
  <2>1. heard' = (printed \o Pipeline) \o <<p>>
    BY <1>3, AppendIsConcat DEF Receive, InOrder
  <2>2. heard' = printed \o (Pipeline \o <<p>>)
    BY <1>1, <1>3, <2>1, ConcatAssociative
  <2>3. Pipeline' = Pipeline \o <<p>>
    BY <1>1, <1>2, AppendIsConcat
  <2> QED
    BY <2>2, <2>3 DEF InOrder, Receive
<1>5. HeapOwned'
  <2>1. \A i \in 1 .. Len(Pipeline) : Pipeline[i] # p
    BY DEF Landed, Receive
  <2>2. Lists(Append(Pipeline, p), heap \union {p})
    BY <1>1, <2>1, HeapLists, ListsAppend
  <2>3. Lists(Pipeline', heap')
    BY <1>2, <2>2 DEF Receive
  <2>4. DOMAIN Pipeline' = 1 .. Len(Pipeline')
    BY <1>1, <1>2, AppendProperties, LenProperties
  <2> QED
    BY <2>3, <2>4 DEF HeapOwned, Lists
<1>6. Landed'
  <2>1. /\ Len(Pipeline') = Len(Pipeline) + 1
        /\ \A i \in 1 .. Len(Pipeline) : Pipeline'[i] = Pipeline[i]
        /\ Pipeline'[Len(Pipeline) + 1] = p
    BY <1>1, <1>2, AppendProperties
  <2> QED
    BY <1>1, <2>1 DEF Landed, Receive
<1> QED
  BY <1>4, <1>5, <1>6

LEMMA MoveIInv ==
    ASSUME IInv, RxTypeOK', Enqueue \/ Take
    PROVE  IInv'
<1>1. Pipeline' = Pipeline
  BY EnqueuePipeline, TakePipeline DEF IInv
<1>2. UNCHANGED <<air, heap, heard, printed>>
  BY DEF Enqueue, Take
<1> QED
  BY <1>1, <1>2 DEF IInv, InOrder, HeapOwned, Landed

LEMMA PrintIInv ==
    ASSUME IInv, RxTypeOK', PrintAndFree
    PROVE  IInv'
<1> USE DEF IInv
<1>1. Pipeline \in Seq(Packets) /\ Len(Pipeline) \in Nat
  BY PipelineType, LenProperties
<1>2. Pipeline # <<>> /\ reader = Head(Pipeline) /\ Pipeline' = Tail(Pipeline)
  BY PrintPipeline
<1>3. /\ printed \in Seq(Packets) /\ <<reader>> \in Seq(Packets)
      /\ reader \in Packets /\ Tail(Pipeline) \in Seq(Packets)
  BY <1>1, <1>2, HeadTailProperties DEF RxTypeOK
<1>4. InOrder'
  <2>1. printed' = printed \o <<reader>>
    BY <1>3, AppendIsConcat DEF PrintAndFree
  <2>2. Pipeline = <<reader>> \o Tail(Pipeline)
    BY <1>1, <1>2, HeadTailOnly
  <2>3. heard' = printed \o (<<reader>> \o Tail(Pipeline))
    BY <2>2 DEF InOrder, PrintAndFree
  <2>4. heard' = printed' \o Pipeline'
    BY <1>2, <1>3, <2>1, <2>3, ConcatAssociative
  <2> QED
    BY <2>4 DEF InOrder
<1>5. HeapOwned'
  <2>1. Lists(Tail(Pipeline), heap \ {Head(Pipeline)})
    BY <1>1, <1>2, HeapLists, ListsTail
  <2>2. Lists(Pipeline', heap')
    BY <1>2, <2>1 DEF PrintAndFree
  <2>3. DOMAIN Pipeline' = 1 .. Len(Pipeline')
    BY <1>2, <1>3, LenProperties
  <2> QED
    BY <2>2, <2>3 DEF HeapOwned, Lists
<1>6. Landed'
  <2>1. /\ Len(Pipeline') = Len(Pipeline) - 1
        /\ \A i \in 1 .. Len(Pipeline') : Pipeline'[i] = Pipeline[i + 1]
    BY <1>1, <1>2, HeadTailProperties
  <2>2. \A i \in 1 .. Len(Pipeline') : i + 1 \in 1 .. Len(Pipeline)
    BY <1>1, <2>1
  <2> QED
    BY <2>1, <2>2 DEF Landed, PrintAndFree
<1> QED
  BY <1>4, <1>5, <1>6

LEMMA RxNextIInv == IInv /\ [RxNext]_rxVars => IInv'
<1> SUFFICES ASSUME IInv, [RxNext]_rxVars PROVE IInv'
  OBVIOUS
<1>1. RxTypeOK'
  BY RxType DEF IInv
<1>2. CASE UNCHANGED rxVars
  BY <1>1, <1>2
  DEF rxVars, IInv, InOrder, HeapOwned, Landed, Pipeline, Held
<1> QED
  BY <1>1, <1>2, ReceiveIInv, MoveIInv, PrintIInv DEF RxNext, RxStep

-------------------------------------------------------------------------------
(* Whatever the rest of the bridge does, the gateway makes its own steps.  *)
LEMMA BridgeSteps == [Next]_vars => [RxNext]_rxVars
<1>1. GatewayPrints => RxNext
  BY DEF GatewayPrints, RxNext, RxStep
<1>2. GatewayMoves => RxNext
  BY DEF GatewayMoves, RxNext, RxStep
<1>3. ReadLine \/ MosquittoPub \/ MosquittoPubFails \/ ScriptMoves
        => UNCHANGED rxVars
  BY DEF ReadLine, MosquittoPub, MosquittoPubFails, ScriptMoves
<1>4. UNCHANGED vars => UNCHANGED rxVars
  BY DEF vars
<1> QED
  BY <1>1, <1>2, <1>3, <1>4 DEF Next

LEMMA Invariance == Spec => []IInv
<1>1. Init => IInv
  BY RxInitIInv DEF Init
<1>2. IInv /\ [Next]_vars => IInv'
  BY BridgeSteps, RxNextIInv
<1> QED
  BY <1>1, <1>2, PTL DEF Spec

(* The types of the gateway; its queue never holds more than it has room   *)
(* for (main.c:60).                                                        *)
THEOREM GatewayTypeCorrect == Spec => []RxTypeOK
  BY Invariance, PTL DEF IInv

(* Packets leave in the order in which they were heard, and none that was  *)
(* copied is dropped on the way, however slow the serial line is           *)
(* (main.c:60, portMAX_DELAY).                                             *)
THEOREM PrintedInOrder == Spec => []InOrder
  BY Invariance, PTL DEF IInv

(* Every copy on the heap has exactly one owner, who will free it          *)
(* (main.c:53,62,114).                                                     *)
THEOREM EveryCopyOwned == Spec => []HeapOwned
  BY Invariance, PTL DEF IInv

-------------------------------------------------------------------------------
(* The gateway as a channel.                                               *)

LEMMA InitIsChannelInit == RxInit => Channel!ChannelInit
<1> SUFFICES ASSUME RxInit PROVE Channel!ChannelInit
  OBVIOUS
<1>1. Pipeline = <<>>
  BY EmptySeq, ConcatEmptySeq DEF Pipeline, Held, RxInit
<1> QED
  BY <1>1 DEF Channel!ChannelInit, RxInit

LEMMA StepIsChannelStep ==
    IInv /\ [RxNext]_rxVars => [Channel!ChannelNext]_(Channel!channelVars)
<1> SUFFICES ASSUME IInv, [RxNext]_rxVars
             PROVE  [Channel!ChannelNext]_(Channel!channelVars)
  OBVIOUS
<1> USE DEF Channel!ChannelNext, Channel!channelVars
<1>1. ASSUME NEW p \in Packets, Receive(p)
      PROVE  Channel!Accept(p)
  BY <1>1, ReceivePipeline DEF Channel!Accept, Receive, IInv
<1>2. ASSUME Enqueue \/ Take
      PROVE  UNCHANGED <<Pipeline, printed>>
  BY <1>2, EnqueuePipeline, TakePipeline DEF Enqueue, Take, IInv
<1>3. CASE PrintAndFree
  <2>1. Channel!HandOn
    BY <1>3, PrintPipeline DEF Channel!HandOn, PrintAndFree, IInv
  <2> QED
    BY <2>1
<1>4. CASE UNCHANGED rxVars
  BY <1>4 DEF rxVars, Pipeline, Held
<1> QED
  BY <1>1, <1>2, <1>3, <1>4 DEF RxNext, RxStep

(* The safety of HandsOn: whatever my_espnow_recv_cb has copied is printed *)
(* in its turn (main.c:43-118), at every step of the whole bridge.         *)
THEOREM ImplementsChannel == Spec => Channel!ChannelSafety
<1>1. Init => Channel!ChannelInit
  BY InitIsChannelInit DEF Init
<1>2. IInv /\ [Next]_vars => [Channel!ChannelNext]_(Channel!channelVars)
  BY BridgeSteps, StepIsChannelStep
<1> QED
  BY <1>1, <1>2, Invariance, PTL DEF Spec, Channel!ChannelSafety

-------------------------------------------------------------------------------
(* The script of Mqtt2Influx keeps the promise of Archive.                 *)

(* The exchange with the broker: what is past PUBREC or in memory is in    *)
(* the session, on_message runs for the first message, which is a line.    *)
Exchange ==
    /\ released <= Len(session)
    /\ received \subseteq Range(session)
    /\ pc \in {"send", "store"} => Known /\ Head(session) \in Lines

(* send_rejecteds has read the whole file, and removes it only when all of *)
(* it is in the database: nobody writes to the file in between.            *)
Resending ==
    /\ pc \in {"resend", "remove"} => batch = rejected
    /\ pc = "remove" => rejected \subseteq database

(* A line that the broker has let go of, or whose text it no longer has    *)
(* and the script neither, is somewhere else, or died with the script.     *)
Elsewhere == lost \union rejected \union database

Handed ==
    /\ completed \cap Lines \subseteq Elsewhere
    /\ \A i \in 1 .. released :
          session[i] \in Lines \ received => session[i] \in Elsewhere

ScriptInv == ScriptTypeOK /\ Exchange /\ Resending /\ Handed

ScriptSteps == ScriptNext \/ \E m \in Messages : Publish(m)

-------------------------------------------------------------------------------
(* The messages of a session that grows at its end and shrinks at its head. *)

LEMMA RangeOfEmpty == Range(<<>>) = {}
BY DEF Range

LEMMA RangeOfAppend ==
    ASSUME NEW S, NEW s \in Seq(S), NEW e \in S
    PROVE  /\ Append(s, e) \in Seq(S) /\ Append(s, e) # <<>>
           /\ Len(s) \in Nat /\ Len(Append(s, e)) = Len(s) + 1
           /\ Range(Append(s, e)) = Range(s) \union {e}
           /\ \A i \in 1 .. Len(s) : Append(s, e)[i] = s[i]
           /\ s # <<>> => Head(Append(s, e)) = Head(s)
<1> DEFINE t == Append(s, e)
<1>1. /\ t \in Seq(S) /\ Len(s) \in Nat /\ Len(t) = Len(s) + 1
      /\ \A i \in 1 .. Len(s) : t[i] = s[i]
      /\ t[Len(s) + 1] = e
      /\ DOMAIN s = 1 .. Len(s) /\ DOMAIN t = 1 .. Len(s) + 1
  BY AppendProperties, LenProperties
<1>2. t # <<>>
  BY <1>1, EmptySeq
<1> HIDE DEF t
<1>3. Range(t) = Range(s) \union {e}
  BY <1>1 DEF Range
<1>4. ASSUME s # <<>> PROVE Head(t) = Head(s)
  BY <1>1, <1>2, <1>4, EmptySeq, HeadTailProperties
<1> QED
  BY <1>1, <1>2, <1>3, <1>4 DEF t

LEMMA RangeOfTail ==
    ASSUME NEW S, NEW s \in Seq(S), s # <<>>
    PROVE  /\ Head(s) \in S /\ Tail(s) \in Seq(S)
           /\ Len(s) \in Nat \ {0} /\ Len(Tail(s)) = Len(s) - 1
           /\ Head(s) = s[1]
           /\ \A i \in 1 .. Len(s) - 1 : Tail(s)[i] = s[i + 1]
           /\ Range(s) = Range(Tail(s)) \union {Head(s)}
<1> DEFINE t == Tail(s)
<1>1. /\ t \in Seq(S) /\ Len(s) \in Nat /\ Len(s) > 0 /\ Len(t) = Len(s) - 1
      /\ \A i \in 1 .. Len(t) : t[i] = s[i + 1]
      /\ Head(s) = s[1] /\ Head(s) \in S
      /\ DOMAIN s = 1 .. Len(s) /\ DOMAIN t = 1 .. Len(t)
  BY HeadTailProperties, LenProperties, EmptySeq
<1> HIDE DEF t
<1>2. ASSUME NEW i \in 1 .. Len(s)
      PROVE  s[i] \in Range(t) \union {Head(s)}
  <2>1. CASE i = 1
    BY <1>1, <2>1
  <2>2. CASE i # 1
    <3>1. i - 1 \in 1 .. Len(t) /\ s[i] = t[i - 1]
      BY <1>1, <2>2
    <3> QED
      BY <1>1, <3>1 DEF Range
  <2> QED
    BY <2>1, <2>2
<1>3. ASSUME NEW i \in 1 .. Len(t)
      PROVE  t[i] \in Range(s)
  BY <1>1 DEF Range
<1>4. Head(s) \in Range(s)
  BY <1>1 DEF Range
<1>5. Range(s) = Range(t) \union {Head(s)}
  BY <1>1, <1>2, <1>3, <1>4 DEF Range
<1> QED
  BY <1>1, <1>5 DEF t

LEMMA RangeHolds ==
    ASSUME NEW S, NEW s \in Seq(S)
    PROVE  /\ Len(s) \in Nat /\ DOMAIN s = 1 .. Len(s)
           /\ \A i \in 1 .. Len(s) : s[i] \in Range(s)
           /\ Range(s) \subseteq S
BY LenProperties DEF Range

(* The first n elements of a sequence are no more than n.                  *)
LEMMA FirstOnes ==
    ASSUME NEW s, NEW n \in Nat
    PROVE  /\ IsFiniteSet({s[i] : i \in 1 .. n})
           /\ Cardinality({s[i] : i \in 1 .. n}) <= n
<1> DEFINE T == {s[i] : i \in 1 .. n}
           f == [i \in 1 .. n |-> s[i]]
<1>1. f \in Surjection(1 .. n, T)
  BY DEF Surjection
<1>2. IsFiniteSet(1 .. n) /\ Cardinality(1 .. n) = n
  BY FS_Interval
<1> QED
  BY <1>1, <1>2, FS_Surjection

(* What is past PUBREC and in memory.                                      *)
LEMMA MemoryBounded ==
    ASSUME ScriptInv, NEW set \in SUBSET InMemory
    PROVE  /\ set \subseteq Range(session)
           /\ IsFiniteSet(set) /\ Cardinality(set) <= InFlight
<1> DEFINE T == {session[i] : i \in 1 .. released}
<1>1. /\ released \in Nat /\ released <= Len(session) /\ released <= InFlight
      /\ InFlight \in Nat /\ session \in Seq(Messages)
  BY ScriptAssumption DEF ScriptInv, ScriptTypeOK, Exchange
<1>2. set \subseteq T
  BY DEF InMemory
<1>3. T \subseteq Range(session)
  BY <1>1, RangeHolds
<1>4. IsFiniteSet(T) /\ Cardinality(T) <= released
  BY <1>1, FirstOnes
<1> HIDE DEF T
<1>5. IsFiniteSet(set) /\ Cardinality(set) <= Cardinality(T)
  BY <1>2, <1>4, FS_Subset
<1>6. Cardinality(T) \in Nat /\ Cardinality(set) \in Nat
  BY <1>4, <1>5, FS_CardinalityType
<1> QED
  BY <1>1, <1>2, <1>3, <1>4, <1>5, <1>6

-------------------------------------------------------------------------------
LEMMA ScriptInvInit == ScriptInit => ScriptInv
<1> SUFFICES ASSUME ScriptInit PROVE ScriptInv
  OBVIOUS
<1> USE DEF ScriptInit
<1>1. ScriptTypeOK
  <2>1. session \in Seq(Messages)
    BY EmptySeq
  <2>2. released \in 0 .. InFlight
    BY ScriptAssumption
  <2> QED
    BY <2>1, <2>2 DEF ScriptTypeOK
<1>2. Len(session) = 0
  BY EmptySeq
<1>3. Exchange /\ Resending /\ Handed
  BY <1>2 DEF Exchange, Resending, Handed, Elsewhere
<1> QED
  BY <1>1, <1>3 DEF ScriptInv

(* A new message goes behind those that wait.                              *)
LEMMA PublishInv ==
    ASSUME ScriptInv, NEW m \in Messages, Publish(m)
    PROVE  ScriptInv'
<1> USE DEF ScriptInv, Publish, storeVars, historyVars
<1>1. session \in Seq(Messages) /\ released \in Nat
  BY ScriptAssumption DEF ScriptTypeOK
<1>2. /\ session' \in Seq(Messages) /\ session' # <<>>
      /\ Len(session) \in Nat /\ Len(session') = Len(session) + 1
      /\ Range(session') = Range(session) \union {m}
      /\ \A i \in 1 .. Len(session) : session'[i] = session[i]
      /\ session # <<>> => Head(session') = Head(session)
  BY <1>1, RangeOfAppend
<1>3. ScriptTypeOK'
  BY <1>2 DEF ScriptTypeOK
<1>4. Exchange'
  <2>1. Known => Known'
    BY <1>1, <1>2, EmptySeq DEF Known, Exchange
  <2>2. Head(session') = Head(session) \/ session = <<>>
    BY <1>2
  <2>3. Known => session # <<>>
    BY <1>1, EmptySeq DEF Known, Exchange
  <2> QED
    BY <1>1, <1>2, <2>1, <2>2, <2>3 DEF Exchange, Lines
<1>5. Handed'
  <2>1. \A i \in 1 .. released : session'[i] = session[i]
    BY <1>1, <1>2 DEF Exchange
  <2> QED
    BY <2>1 DEF Handed, Elsewhere, Lines
<1> QED
  BY <1>3, <1>4, <1>5 DEF Resending

(* The exchange of a message goes on.                                      *)
LEMMA DeliverInv ==
    ASSUME ScriptInv, Deliver
    PROVE  ScriptInv'
<1> USE DEF ScriptInv, storeVars, historyVars, AtLoop, Deliver
<1>1. session \in Seq(Messages)
  BY DEF ScriptTypeOK
<1>2. PICK i \in DOMAIN session : received' = received \union {session[i]}
  OBVIOUS
<1>3. session[i] \in Messages /\ session[i] \in Range(session)
  BY <1>1, RangeHolds
<1>4. ScriptTypeOK'
  BY <1>2, <1>3 DEF ScriptTypeOK
<1>5. Exchange' /\ Resending' /\ Handed'
  BY <1>2, <1>3 DEF Exchange, Resending, Handed, Elsewhere, Lines
<1> QED
  BY <1>4, <1>5

LEMMA ReleaseInv ==
    ASSUME ScriptInv, Release
    PROVE  ScriptInv'
<1> USE DEF ScriptInv, storeVars, historyVars, Release
<1>1. released \in Nat /\ Len(session) \in Nat /\ InFlight \in Nat
  BY ScriptAssumption, RangeHolds DEF ScriptTypeOK
<1>2. ScriptTypeOK'
  BY <1>1 DEF ScriptTypeOK
<1>3. Exchange'
  BY <1>1 DEF Exchange, Known, Lines
<1>4. ASSUME NEW i \in 1 .. released', session[i] \in Lines \ received
      PROVE  session[i] \in Elsewhere
  <2>1. i \in 1 .. released
    BY <1>1, <1>4
  <2> QED
    BY <1>4, <2>1 DEF Handed
<1>5. Resending' /\ Handed'
  BY <1>4 DEF Resending, Handed, Elsewhere, Lines
<1> QED
  BY <1>2, <1>3, <1>5

LEMMA WriteInv ==
    ASSUME ScriptInv,
           MessageFormatted \/ SendFails \/ ReadRejecteds \/ ResendOk
           \/ ResendFails \/ Remove
    PROVE  ScriptInv'
<1> USE DEF ScriptInv, storeVars, historyVars, AtLoop, Accepts, Leaves
<1>1. database \subseteq database' /\ database' \subseteq Readings
  BY DEF MessageFormatted, SendFails, ReadRejecteds, ResendOk, ResendFails,
         Remove, ScriptTypeOK
<1>2. ScriptTypeOK'
  BY <1>1
  DEF ScriptTypeOK, MessageFormatted, SendFails, ReadRejecteds, ResendOk,
      ResendFails, Remove
<1>3. UNCHANGED <<session, released, received, completed>>
  BY DEF MessageFormatted, SendFails, ReadRejecteds, ResendOk, ResendFails,
         Remove
<1>4. Exchange'
  BY <1>3 DEF Exchange, Known, MessageFormatted, SendFails, ReadRejecteds,
         ResendOk, ResendFails, Remove, Lines
<1>5. Resending'
  BY <1>1 DEF Resending, MessageFormatted, SendFails, ReadRejecteds, ResendOk,
         ResendFails, Remove
<1>6. Elsewhere \subseteq Elsewhere'
  BY <1>1 DEF Elsewhere, Resending, MessageFormatted, SendFails, ReadRejecteds,
         ResendOk, ResendFails, Remove
<1>7. Handed'
  BY <1>3, <1>6 DEF Handed, Lines
<1> QED
  BY <1>2, <1>4, <1>5, <1>7

LEMMA WorldInv ==
    ASSUME ScriptInv, Disconnect \/ Start \/ InfluxChanges
    PROVE  ScriptInv'
<1> USE DEF ScriptInv, storeVars, historyVars
<1>1. /\ UNCHANGED <<session, released, received, pc, batch, rejected,
                    database, completed, lost, deaths>>
      /\ run' \in {"up", "deaf", "dead"} /\ influx' \in BOOLEAN
  BY DEF Disconnect, Start, InfluxChanges, ScriptTypeOK
<1>2. ScriptTypeOK'
  BY <1>1 DEF ScriptTypeOK
<1>3. Exchange' /\ Resending' /\ Handed'
  BY <1>1 DEF Exchange, Known, Resending, Handed, Elsewhere, Lines
<1> QED
  BY <1>2, <1>3

(* The first message leaves the session: those behind it move up.          *)
LEMMA CompleteInv ==
    ASSUME ScriptInv, released > 0, Complete,
           Head(session) \in Lines => Head(session) \in Elsewhere',
           Elsewhere \subseteq Elsewhere', pc' = "loop"
    PROVE  /\ session' \in Seq(Messages) /\ released' \in 0 .. InFlight
           /\ received' \subseteq Messages /\ completed' \subseteq Messages
           /\ Exchange' /\ Handed'
<1> USE DEF ScriptInv, Complete
<1>1. /\ session \in Seq(Messages) /\ Len(session) \in Nat /\ InFlight \in Nat
      /\ released \in Nat /\ released <= Len(session) /\ released <= InFlight
  BY ScriptAssumption, RangeHolds DEF ScriptTypeOK, Exchange
<1>2. session # <<>>
  BY <1>1, EmptySeq
<1>3. /\ Head(session) \in Messages /\ session' \in Seq(Messages)
      /\ Len(session') = Len(session) - 1
      /\ Head(session) = session[1]
      /\ \A i \in 1 .. Len(session) - 1 : session'[i] = session[i + 1]
      /\ Range(session) = Range(session') \union {Head(session)}
  BY <1>1, <1>2, RangeOfTail
<1>4. /\ released' \in 0 .. InFlight /\ released' <= Len(session')
      /\ received' \subseteq Messages /\ completed' \subseteq Messages
  BY <1>1, <1>3 DEF ScriptTypeOK
<1>5. received' \subseteq Range(session')
  BY <1>3 DEF Exchange
<1>6. ASSUME NEW i \in 1 .. released', session'[i] \in Lines \ received'
      PROVE  session'[i] \in Elsewhere'
  <2>1. i + 1 \in 1 .. released /\ session'[i] = session[i + 1]
    BY <1>1, <1>3
  <2>2. CASE session[i + 1] = Head(session)
    BY <1>6, <2>1, <2>2
  <2>3. CASE session[i + 1] # Head(session)
    <3>1. session[i + 1] \in Lines \ received
      BY <1>6, <2>1, <2>3
    <3> QED
      BY <2>1, <3>1 DEF Handed
  <2> QED
    BY <2>2, <2>3
<1>7. Handed'
  BY <1>6 DEF Handed, Lines
<1> QED
  BY <1>3, <1>4, <1>5, <1>7 DEF Exchange

(* on_message has returned: the message is let go of, or, when the         *)
(* connection is broken, stays with the broker without its text.           *)
Forgotten ==
    /\ received' = received \ {Head(session)}
    /\ UNCHANGED <<session, released, completed>>

LEMMA EndInv ==
    ASSUME ScriptInv, CompleteUnknown \/ MessageRefused \/ SendOk \/ Store
    PROVE  ScriptInv'
<1> USE DEF ScriptInv, AtLoop, storeVars
<1>1. /\ Complete \/ Forgotten
      /\ released > 0
  BY DEF CompleteUnknown, MessageRefused, SendOk, Store, Acknowledged, Known,
         Exchange, Forgotten
<1>2. /\ session \in Seq(Messages) /\ released \in Nat /\ Len(session) \in Nat
      /\ released <= Len(session)
  BY RangeHolds DEF ScriptTypeOK, Exchange
<1>3. session # <<>> /\ 1 \in 1 .. released
  BY <1>1, <1>2, EmptySeq
<1>4. Head(session) = session[1] /\ Head(session) \in Messages
  BY <1>2, <1>3, RangeOfTail
<1>5. Elsewhere \subseteq Elsewhere'
  BY DEF CompleteUnknown, MessageRefused, SendOk, Store, Elsewhere
<1>6. Head(session) \in Lines => Head(session) \in Elsewhere'
  <2>1. CASE CompleteUnknown
    BY <1>3, <1>4, <1>5, <2>1 DEF CompleteUnknown, Known, Handed
  <2>2. CASE MessageRefused \/ SendOk \/ Store
    BY <2>2 DEF MessageRefused, SendOk, Store, Elsewhere, Lines
  <2> QED
    BY <2>1, <2>2
<1>7. /\ pc' = "loop" /\ run' = run /\ batch' = batch /\ influx' = influx
      /\ lost' = lost /\ deaths' = deaths
      /\ rejected' \subseteq Lines /\ database' \subseteq Readings
  BY DEF CompleteUnknown, MessageRefused, SendOk, Store, ScriptTypeOK,
         Exchange, Accepts
<1>8. /\ session' \in Seq(Messages) /\ released' \in 0 .. InFlight
      /\ received' \subseteq Messages /\ completed' \subseteq Messages
      /\ Exchange' /\ Handed'
  <2>1. CASE Complete
    BY <1>1, <1>5, <1>6, <1>7, <2>1, CompleteInv
  <2>2. CASE Forgotten
    <3>1. ASSUME NEW i \in 1 .. released, session[i] \in Lines \ received'
          PROVE  session[i] \in Elsewhere'
      BY <1>5, <1>6, <2>2, <3>1 DEF Handed, Forgotten
    <3>2. Handed'
      BY <1>5, <2>2, <3>1 DEF Handed, Forgotten, Lines
    <3> QED
      BY <1>7, <2>2, <3>2 DEF Exchange, Forgotten, ScriptTypeOK
  <2> QED
    BY <1>1, <2>1, <2>2
<1>9. ScriptTypeOK'
  BY <1>7, <1>8 DEF ScriptTypeOK
<1>10. Resending'
  BY <1>7 DEF Resending
<1> QED
  BY <1>8, <1>9, <1>10

(* The script dies: what the broker would not send again goes with it.     *)
LEMMA DeathInv ==
    ASSUME ScriptInv, MessageOfUnknownBytes \/ Crash
    PROVE  ScriptInv'
<1> USE DEF ScriptInv
<1>1. Dies /\ UNCHANGED <<session, released, influx, rejected, database, completed>>
  BY DEF MessageOfUnknownBytes, Crash, storeVars
<1>2. lost \subseteq lost' /\ lost' \subseteq Messages
  <2>1. InMemory \subseteq Messages
    BY DEF InMemory, ScriptTypeOK
  <2> QED
    BY <1>1, <2>1 DEF Dies, ScriptTypeOK
<1>3. ASSUME NEW i \in 1 .. released, session[i] \in received
      PROVE  session[i] \in Elsewhere'
  BY <1>1, <1>3 DEF Dies, Elsewhere, InMemory
<1>4. ScriptTypeOK'
  BY <1>1, <1>2 DEF ScriptTypeOK, Dies
<1>5. Exchange' /\ Resending'
  BY <1>1 DEF Exchange, Resending, Dies
<1>6. Elsewhere \subseteq Elsewhere'
  BY <1>1, <1>2 DEF Elsewhere
<1>7. Handed'
  BY <1>1, <1>3, <1>6 DEF Handed, Lines
<1> QED
  BY <1>4, <1>5, <1>7

LEMMA ScriptInvStep == ScriptInv /\ [ScriptSteps]_scriptVars => ScriptInv'
<1> SUFFICES ASSUME ScriptInv, [ScriptSteps]_scriptVars PROVE ScriptInv'
  OBVIOUS
<1>1. CASE UNCHANGED scriptVars
  BY <1>1 DEF scriptVars, ScriptInv, ScriptTypeOK, Exchange, Known, Resending,
              Handed, Elsewhere, Lines, Readings
<1> QED
  BY <1>1, PublishInv, DeliverInv, ReleaseInv, WriteInv, WorldInv, EndInv,
     DeathInv
  DEF ScriptSteps, ScriptNext, ScriptStep, Client, OnMessage, SendRejecteds

-------------------------------------------------------------------------------
(* The fate of a message, line or no line.                                 *)

LEMMA FateOfLine ==
    ASSUME ScriptInv, NEW m \in Lines
    PROVE  /\ m \in lost => Fate(m) = "lost"
           /\ m \notin lost /\ m \in database => Fate(m) = "stored"
           /\ m \notin lost \union database /\ m \in rejected => Fate(m) = "kept"
           /\ m \notin Elsewhere /\ m \in Range(session) => Fate(m) = "open"
           /\ m \notin Elsewhere \union Range(session) => Fate(m) = "unseen"
BY DEF ScriptInv, Handed, Elsewhere, Fate

LEMMA FateOfOther ==
    ASSUME ScriptInv, NEW m \in Messages, m \notin Lines
    PROVE  /\ m \in lost \union completed => Fate(m) = "dropped"
           /\ m \notin lost \union completed /\ m \in Range(session)
                  => Fate(m) = "open"
           /\ m \notin lost \union completed \union Range(session)
                  => Fate(m) = "unseen"
BY DEF ScriptInv, ScriptTypeOK, Lines, Readings, Fate

-------------------------------------------------------------------------------
(* The steps of the script as steps of Archive.                            *)

ArchiveStep == [Ledger!ArchiveNext]_(Ledger!archiveVars)

LEMMA Becomes ==
    ASSUME NEW set, NEW end,
           \A m \in Messages : Fate(m)' = IF m \in set THEN end ELSE Fate(m)
    PROVE  Ledger!Become(set, end)
BY DEF Ledger!Become

LEMMA Stays ==
    ASSUME \A m \in Messages : Fate(m)' = Fate(m), UNCHANGED deaths
    PROVE  ArchiveStep
BY DEF ArchiveStep, Ledger!archiveVars

(* A line moves between the session, the file and the database, and none   *)
(* vanishes: some are stored, or nothing happens.                          *)
LEMMA LinesMove ==
    ASSUME ScriptInv, ScriptInv', UNCHANGED <<lost, deaths>>,
           database \subseteq database', rejected' \subseteq rejected,
           \A m \in Lines :
               m \in Elsewhere' \union Range(session')
                   <=> m \in Elsewhere \union Range(session),
           rejected \subseteq rejected' \union database',
           \A m \in Messages \ Lines :
               /\ m \in completed' <=> m \in completed
               /\ m \in Range(session') <=> m \in Range(session)
    PROVE  ArchiveStep
<1> DEFINE set == {m \in Lines : m \in database' /\ m \notin database \union lost}
<1>1. ASSUME NEW m \in Messages, m \notin Lines
      PROVE  Fate(m)' = Fate(m)
  BY <1>1 DEF Fate, ScriptInv, ScriptTypeOK, Lines, Readings
<1>2. ASSUME NEW m \in Lines
      PROVE  Fate(m)' = IF m \in set THEN "stored" ELSE Fate(m)
  BY <1>2 DEF Fate, ScriptInv, Handed, Elsewhere, Lines
<1>3. ASSUME NEW m \in set
      PROVE  m \in Lines /\ Fate(m) \in {"open", "kept"}
  <2>1. /\ m \in Lines /\ m \notin database \union lost
        /\ m \in rejected \union Range(session)
    BY <1>3 DEF Elsewhere
  <2> QED
    BY <2>1, FateOfLine DEF Elsewhere
<1>4. Ledger!Become(set, "stored")
  BY <1>1, <1>2, <1>3, Becomes
<1>5. set \in SUBSET ((Ledger!Open \union Ledger!Kept) \ (Messages \ Lines))
  BY <1>3 DEF Ledger!Open, Ledger!Kept, Lines
<1> QED
  BY <1>4, <1>5 DEF ArchiveStep, Ledger!ArchiveNext, Ledger!Store

(* A line that goes to the file is kept.                                   *)
LEMMA LineKept ==
    ASSUME ScriptInv, ScriptInv', UNCHANGED <<lost, deaths, database>>,
           NEW m \in Lines, m \in Range(session),
           rejected' = rejected \union {m},
           Range(session') \subseteq Range(session),
           Range(session) \subseteq Range(session') \union {m},
           \A x \in Messages \ Lines : x \in completed' <=> x \in completed
    PROVE  ArchiveStep
<1>1. ASSUME NEW x \in Messages, x # m
      PROVE  Fate(x)' = Fate(x)
  <2>1. CASE x \in Lines
    BY <1>1, <2>1 DEF Fate, ScriptInv, Handed, Elsewhere, Lines
  <2>2. CASE x \notin Lines
    BY <1>1, <2>2 DEF Fate, ScriptInv, ScriptTypeOK, Lines, Readings
  <2> QED
    BY <2>1, <2>2
<1>2. CASE m \in Elsewhere
  <2>1. Fate(m)' = Fate(m)
    BY <1>2 DEF Fate, Elsewhere, Lines
  <2> QED
    BY <1>1, <2>1, Stays
<1>3. CASE m \notin Elsewhere
  <2>1. Fate(m) = "open" /\ Fate(m)' = "kept"
    BY <1>3, FateOfLine DEF Fate, Elsewhere
  <2>2. Ledger!Become({m}, "kept")
    BY <1>1, <2>1, Becomes
  <2>3. m \in Ledger!Open \ (Messages \ Lines)
    BY <2>1 DEF Ledger!Open, Lines
  <2> QED
    BY <2>2, <2>3 DEF ArchiveStep, Ledger!ArchiveNext, Ledger!Keep
<1> QED
  BY <1>2, <1>3

(* What is no line is dropped by lineformat.                               *)
LEMMA OtherDropped ==
    ASSUME ScriptInv, ScriptInv', NEW m \in Messages, m \notin Lines,
           m \in Range(session), completed' = completed \union {m},
           UNCHANGED <<rejected, database, lost, deaths>>,
           Range(session) = Range(session') \union {m}
    PROVE  ArchiveStep
<1>1. ASSUME NEW x \in Messages, x # m
      PROVE  Fate(x)' = Fate(x)
  <2>1. CASE x \in Lines
    BY <1>1, <2>1 DEF Fate, ScriptInv, Handed, Elsewhere, Lines
  <2>2. CASE x \notin Lines
    BY <1>1, <2>2 DEF Fate, ScriptInv, ScriptTypeOK, Lines, Readings
  <2> QED
    BY <2>1, <2>2
<1>2. Fate(m)' = "dropped"
  BY DEF Fate, ScriptInv, ScriptTypeOK, Lines, Readings
<1>3. CASE m \in lost \union completed
  <2>1. Fate(m) = "dropped"
    BY <1>3, FateOfOther
  <2> QED
    BY <1>1, <1>2, <2>1, Stays
<1>4. CASE m \notin lost \union completed
  <2>1. Fate(m) = "open"
    BY <1>4, FateOfOther
  <2>2. Ledger!Become({m}, "dropped")
    BY <1>1, <1>2, <2>1, Becomes
  <2>3. m \in Ledger!Open \cap (Messages \ Lines)
    BY <2>1 DEF Ledger!Open
  <2> QED
    BY <2>2, <2>3 DEF ArchiveStep, Ledger!ArchiveNext, Ledger!Drop
<1> QED
  BY <1>3, <1>4

LEMMA PublishStep ==
    ASSUME ScriptInv, ScriptInv', NEW m \in Messages, Publish(m)
    PROVE  ArchiveStep
<1> USE DEF Publish, storeVars, historyVars
<1>1. Range(session') = Range(session) \union {m}
  BY RangeOfAppend DEF ScriptInv, ScriptTypeOK
<1>2. ASSUME NEW x \in Messages, x # m
      PROVE  Fate(x)' = Fate(x)
  BY <1>1, <1>2 DEF Fate, Lines
<1>3. CASE m \in Elsewhere \union Range(session)
                \/ m \in completed \/ m \in lost
  <2>1. Fate(m)' = Fate(m)
    BY <1>1, <1>3 DEF Fate, Lines, Elsewhere, ScriptInv, Handed
  <2> QED
    BY <1>2, <2>1, Stays
<1>4. CASE m \notin Elsewhere \union Range(session) \union completed \union lost
  <2>1. Fate(m) = "unseen" /\ Fate(m)' = "open"
    BY <1>1, <1>4 DEF Fate, Lines, Elsewhere
  <2>2. Ledger!Become({m}, "open")
    BY <1>2, <2>1, Becomes
  <2> QED
    BY <2>1, <2>2 DEF ArchiveStep, Ledger!ArchiveNext, Ledger!Arrive
<1> QED
  BY <1>3, <1>4

LEMMA MoveStep ==
    ASSUME ScriptInv, ScriptInv',
           \/ Deliver \/ Release \/ MessageFormatted \/ SendFails
           \/ ReadRejecteds \/ ResendOk \/ ResendFails \/ Remove
           \/ Disconnect \/ Start \/ InfluxChanges
    PROVE  ArchiveStep
<1> USE DEF storeVars, historyVars, Deliver, Release, MessageFormatted,
            SendFails, ReadRejecteds, ResendOk, ResendFails, Remove,
            Disconnect, Start, InfluxChanges
<1>1. UNCHANGED <<session, completed, lost, deaths>>
  OBVIOUS
<1>2. database \subseteq database'
  BY DEF Leaves
<1>3. Head(session) \in Range(session) \/ pc # "send"
  BY DEF ScriptInv, Exchange, Known
<1>4. \A m \in database' : m \in database \union rejected \union Range(session)
  BY <1>3 DEF Leaves, ScriptInv, Resending
<1>5. Elsewhere \subseteq Elsewhere'
  BY <1>1, <1>2 DEF Elsewhere, ScriptInv, Resending
<1>6. rejected' \subseteq rejected /\ rejected \subseteq rejected' \union database'
  BY DEF ScriptInv, Resending
<1>7. Elsewhere' \subseteq Elsewhere \union Range(session)
  BY <1>1, <1>4, <1>6 DEF Elsewhere
<1> QED
  BY <1>1, <1>2, <1>5, <1>6, <1>7, LinesMove

LEMMA EndStep ==
    ASSUME ScriptInv, ScriptInv',
           CompleteUnknown \/ MessageRefused \/ SendOk \/ Store
    PROVE  ArchiveStep
<1> DEFINE head == Head(session)
<1> USE DEF ScriptInv, storeVars
<1>1. released > 0
  BY DEF CompleteUnknown, MessageRefused, SendOk, Store, Known, Exchange
<1>2. /\ session \in Seq(Messages) /\ session # <<>>
      /\ 1 \in 1 .. released
  BY <1>1, RangeHolds, EmptySeq DEF ScriptTypeOK, Exchange
<1>3. /\ head \in Messages /\ head = session[1]
      /\ Range(session) = Range(Tail(session)) \union {head}
  BY <1>2, RangeOfTail
<1>4. Complete \/ Forgotten
  BY DEF CompleteUnknown, MessageRefused, SendOk, Store, Acknowledged, Forgotten
<1>5. UNCHANGED <<lost, deaths>>
  BY DEF CompleteUnknown, MessageRefused, SendOk, Store
<1>6. /\ Range(session') \subseteq Range(session)
      /\ Range(session) \subseteq Range(session') \union {head}
      /\ completed' \subseteq completed \union {head}
      /\ completed \subseteq completed'
      /\ head \in Range(session)
  BY <1>3, <1>4 DEF Complete, Forgotten
<1>7. CASE head \in Lines
  <2>1. \A m \in Messages \ Lines :
            /\ m \in completed' <=> m \in completed
            /\ m \in Range(session') <=> m \in Range(session)
    BY <1>6, <1>7
  <2>2. CASE Store
    <3>1. rejected' = rejected \union {head} /\ UNCHANGED database
      BY <2>2 DEF Store
    <3> HIDE DEF head
    <3> QED
      BY <1>5, <1>6, <1>7, <2>1, <3>1, LineKept
  <2>3. CASE CompleteUnknown \/ MessageRefused \/ SendOk
    <3>1. /\ head \in Elsewhere'
          /\ Elsewhere' \subseteq Elsewhere \union {head}
          /\ Elsewhere \subseteq Elsewhere'
          /\ database \subseteq database' /\ rejected' = rejected
      <4>1. CASE CompleteUnknown
        BY <1>2, <1>3, <1>7, <4>1 DEF CompleteUnknown, Known, Handed, Elsewhere
      <4>2. CASE MessageRefused \/ SendOk
        BY <1>7, <4>2 DEF MessageRefused, SendOk, Elsewhere, Lines
      <4> QED
        BY <2>3, <4>1, <4>2
    <3> HIDE DEF head
    <3>2. \A m \in Lines :
              m \in Elsewhere' \union Range(session')
                  <=> m \in Elsewhere \union Range(session)
      BY <1>6, <3>1
    <3> QED
      BY <1>5, <2>1, <3>1, <3>2, LinesMove
  <2> QED
    BY <2>2, <2>3
<1>8. CASE head \notin Lines
  <2>1. Complete /\ UNCHANGED <<rejected, database>>
    BY <1>8 DEF CompleteUnknown, MessageRefused, SendOk, Store, Exchange
  <2>2. /\ completed' = completed \union {head}
        /\ Range(session) = Range(session') \union {head}
    BY <1>3, <2>1 DEF Complete
  <2> HIDE DEF head
  <2> QED
    BY <1>3, <1>5, <1>6, <1>8, <2>1, <2>2, OtherDropped
<1> QED
  BY <1>7, <1>8

(* A death costs what was in memory past PUBREC, and was open.             *)
LEMMA DeathStep ==
    ASSUME ScriptInv, ScriptInv', MessageOfUnknownBytes \/ Crash
    PROVE  ArchiveStep
<1> DEFINE taken == InMemory \ (rejected \union database)
           gone == {m \in taken : Fate(m) = "open"}
<1> USE DEF ScriptInv
<1>1. /\ UNCHANGED <<session, rejected, database, completed>>
      /\ lost' = lost \union taken
      /\ deaths' = deaths + 1
  BY DEF MessageOfUnknownBytes, Crash, Dies, storeVars
<1>2. gone \in SUBSET InMemory /\ taken \in SUBSET InMemory
  OBVIOUS
<1>3. /\ taken \subseteq Range(session)
      /\ IsFiniteSet(gone) /\ Cardinality(gone) <= InFlight
  BY <1>2, MemoryBounded
<1>4. Range(session) \subseteq Messages
  BY RangeHolds DEF ScriptTypeOK
<1>5. /\ \A m \in taken : m \notin rejected \union database
      /\ \A m \in gone : m \in taken /\ Fate(m) = "open"
      /\ \A m \in taken : Fate(m) = "open" => m \in gone
  OBVIOUS
<1> HIDE DEF taken, gone
<1>6. ASSUME NEW m \in Messages
      PROVE  Fate(m)' = IF m \notin gone THEN Fate(m)
                        ELSE IF m \in Messages \ Lines THEN "dropped" ELSE "lost"
  <2>1. CASE m \notin taken
    <3>1. m \notin gone
      BY <1>5, <2>1
    <3>2. m \in lost' <=> m \in lost
      BY <1>1, <2>1
    <3> QED
      BY <1>1, <3>1, <3>2 DEF Fate, Lines
  <2>2. CASE m \in taken /\ m \in Lines
    <3>1. Fate(m)' = "lost"
      BY <1>1, <2>2 DEF Fate, Lines
    <3>2. m \in gone \/ Fate(m) = "lost"
      BY <1>3, <1>5, <2>2, FateOfLine DEF Elsewhere
    <3> QED
      BY <2>2, <3>1, <3>2
  <2>3. CASE m \in taken /\ m \notin Lines
    <3>1. Fate(m)' = "dropped"
      BY <1>1, <1>5, <2>3 DEF Fate, Lines
    <3>2. m \in gone \/ Fate(m) = "dropped"
      BY <1>3, <1>5, <2>3, FateOfOther
    <3> QED
      BY <2>3, <3>1, <3>2
  <2> QED
    BY <2>1, <2>2, <2>3
<1>7. gone \in SUBSET Ledger!Open
  BY <1>3, <1>4, <1>5 DEF Ledger!Open
<1>8. Ledger!IsFiniteSet(gone) /\ Ledger!Cardinality(gone) = Cardinality(gone)
  BY <1>3, Zenon DEF Ledger!IsFiniteSet, IsFiniteSet, Ledger!Cardinality, Cardinality
<1>9. [m \in Messages |-> Fate(m)]' =
          [m \in Messages |->
              IF m \notin gone THEN [x \in Messages |-> Fate(x)][m]
              ELSE IF m \in Messages \ Lines THEN "dropped" ELSE "lost"]
  BY <1>6
<1>10. Ledger!Die
  BY <1>1, <1>3, <1>7, <1>8, <1>9 DEF Ledger!Die
<1> QED
  BY <1>10 DEF ArchiveStep, Ledger!ArchiveNext

LEMMA ScriptIsArchive ==
    ScriptInv /\ [ScriptSteps]_scriptVars => [Ledger!ArchiveNext]_(Ledger!archiveVars)
<1> SUFFICES ASSUME ScriptInv, [ScriptSteps]_scriptVars PROVE ArchiveStep
  BY DEF ArchiveStep
<1>1. ScriptInv'
  BY ScriptInvStep
<1>2. CASE UNCHANGED scriptVars
  <2>1. \A m \in Messages : Fate(m)' = Fate(m)
    BY <1>2 DEF scriptVars, Fate, Lines
  <2> QED
    BY <1>2, <2>1, Stays DEF scriptVars
<1> QED
  BY <1>1, <1>2, PublishStep, MoveStep, EndStep, DeathStep
  DEF ScriptSteps, ScriptNext, ScriptStep, Client, OnMessage, SendRejecteds

LEMMA ScriptStartsArchive == ScriptInit => Ledger!ArchiveInit
<1> SUFFICES ASSUME ScriptInit PROVE Ledger!ArchiveInit
  OBVIOUS
<1>1. ASSUME NEW m \in Messages PROVE Fate(m) = "unseen"
  BY RangeOfEmpty DEF ScriptInit, Fate
<1> QED
  BY <1>1 DEF Ledger!ArchiveInit, ScriptInit

-------------------------------------------------------------------------------
(* Whatever the gateway and the publisher do, the script makes its own     *)
(* steps, and what is published comes from the gateway.                    *)
LEMMA HostSteps ==
    ASSUME publisher \in Packets \union {None}, [Next]_vars
    PROVE  [ScriptSteps]_scriptVars
<1>1. CASE MosquittoPub
  BY <1>1, BridgeAssumption DEF MosquittoPub, ScriptSteps
<1>2. CASE ScriptMoves
  BY <1>2 DEF ScriptMoves, ScriptSteps
<1>3. GatewayPrints \/ GatewayMoves \/ ReadLine \/ MosquittoPubFails
        => UNCHANGED scriptVars
  BY DEF GatewayPrints, GatewayMoves, ReadLine, MosquittoPubFails
<1>4. UNCHANGED vars => UNCHANGED scriptVars
  BY DEF vars
<1> QED
  BY <1>1, <1>2, <1>3, <1>4 DEF Next

(* What is printed, buffered and published are packets.                    *)
LineInv ==
    /\ serial \in Seq(Packets) /\ Len(serial) <= TtySize
    /\ publisher \in Packets \union {None}

HostInv == RxTypeOK /\ LineInv /\ ScriptInv

LEMMA LineStep == RxTypeOK /\ LineInv /\ [Next]_vars => LineInv'
<1> SUFFICES ASSUME RxTypeOK, LineInv, [Next]_vars PROVE LineInv'
  OBVIOUS
<1> USE DEF LineInv
<1>1. CASE GatewayPrints
  <2>1. /\ Append(serial, reader) \in Seq(Packets) /\ Len(serial) \in Nat
        /\ Len(Append(serial, reader)) = Len(serial) + 1
    BY <1>1, AppendProperties, LenProperties
    DEF GatewayPrints, PrintAndFree, RxTypeOK
  <2> QED
    BY <1>1, <2>1, BridgeAssumption DEF GatewayPrints
<1>2. CASE ReadLine
  <2>1. /\ Head(serial) \in Packets /\ Tail(serial) \in Seq(Packets)
        /\ Len(serial) \in Nat /\ Len(Tail(serial)) = Len(serial) - 1
    BY <1>2, HeadTailProperties, LenProperties DEF ReadLine
  <2> QED
    BY <1>2, <2>1, BridgeAssumption DEF ReadLine
<1>3. GatewayMoves \/ MosquittoPub \/ MosquittoPubFails \/ ScriptMoves
        => UNCHANGED serial /\ publisher' \in {publisher, None}
  BY DEF GatewayMoves, MosquittoPub, MosquittoPubFails, ScriptMoves
<1>4. UNCHANGED vars => UNCHANGED <<serial, publisher>>
  BY DEF vars
<1> QED
  BY <1>1, <1>2, <1>3, <1>4 DEF Next

LEMMA HostInvariance == Spec => []HostInv
<1>1. Init => HostInv
  BY RxInitIInv, ScriptInvInit, EmptySeq, BridgeAssumption
  DEF Init, HostInv, LineInv, IInv
<1>2. HostInv /\ [Next]_vars => HostInv'
  BY BridgeSteps, RxType, LineStep, HostSteps, ScriptInvStep DEF HostInv, LineInv
<1> QED
  BY <1>1, <1>2, PTL DEF Spec

(* No line gets lost between the broker, the database and the file of      *)
(* rejected lines (mqtt2influx.py:77-102): the script implements Archive.  *)
(* A death of the script, killed or of bytes that are no text (:30), costs *)
(* at most as many messages as the broker has in flight, and no line that  *)
(* is in the file.                                                         *)
THEOREM ImplementsArchive == Spec => NothingForgotten
<1>1. Init => Ledger!ArchiveInit
  BY ScriptStartsArchive DEF Init
<1>2. HostInv /\ [Next]_vars => [Ledger!ArchiveNext]_(Ledger!archiveVars)
  BY HostSteps, ScriptIsArchive DEF HostInv, LineInv
<1> QED
  BY <1>1, <1>2, HostInvariance, PTL
  DEF Spec, NothingForgotten, Ledger!ArchiveSpec

(* The types of the whole bridge; no buffer holds more than it has room    *)
(* for (espnow-rx main.c:60).                                              *)
THEOREM TypeCorrect == Spec => []TypeOK
<1>1. HostInv => TypeOK
  BY DEF HostInv, LineInv, ScriptInv, TypeOK
<1> QED
  BY <1>1, HostInvariance, PTL
================================================================================
