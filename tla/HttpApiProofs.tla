----------------------------- MODULE HttpApiProofs -----------------------------
(***************************************************************************)
(* The safety of HttpApi, for every size of the buffer, all lengths of     *)
(* bodies and any number of clients that fit in the heap.                  *)
(***************************************************************************)
EXTENDS HttpApi, TLAPS

(* How far a call has got: what is in the buffer is what was delivered, as *)
(* long as it fits.                                                        *)
Stored(n) == IF n < BufferSize THEN n ELSE BufferSize - 1

ProgressInv ==
    /\ sent <= reply.size
    /\ pc = "connecting" => sent = 0
    /\ pc = "receiving" => readed = Stored(sent)
    /\ pc = "parsing" => readed = sent

(* The text in the buffer is this reply's as soon as any of it is there,   *)
(* and a verdict stands until the next call only.                          *)
TextInv ==
    /\ pc # "idle" => verdict = "none"
    /\ pc # "idle" /\ sent > 0 =>
        /\ buffer.doc = reply.doc
        /\ buffer.whole => readed = reply.size

IInv == TypeOK /\ HandlesAccounted /\ ProgressInv /\ TextInv /\ CutAnswersFail

-------------------------------------------------------------------------------
LEMMA InitIInv == Init => IInv
<1> SUFFICES ASSUME Init PROVE IInv
  OBVIOUS
<1>1. NoText \in [doc : Docs, whole : BOOLEAN, fresh : BOOLEAN]
  BY DEF NoText, Docs
<1>2. 0 \in 0 .. BufferSize - 1 /\ 0 \in 0 .. MaxHandles
  BY HttpAssumption
<1>3. TypeOK
  BY <1>1, <1>2 DEF Init, TypeOK
<1>4. reply.size \in Nat
  BY HttpAssumption DEF Init, Replies
<1> QED
  BY <1>3, <1>4 DEF Init, IInv, HandlesAccounted, ProgressInv, TextInv, CutAnswersFail

(* What a size may be. *)
LEMMA Sized == TypeOK => reply.size \in Nat /\ reply.doc \in Docs
<1> QED
  BY HttpAssumption DEF TypeOK, Replies

LEMMA CallIInv == IInv /\ Call => IInv'
<1> SUFFICES ASSUME IInv, Call PROVE IInv'
  OBVIOUS
<1>1. TypeOK'
  <2>1. FALSE \in BOOLEAN
    OBVIOUS
  <2>2. buffer' \in [doc : Docs, whole : BOOLEAN, fresh : BOOLEAN]
    BY <2>1 DEF IInv, Call, TypeOK
  <2>3. handles' \in 0 .. MaxHandles
    BY HttpAssumption DEF IInv, Call, TypeOK
  <2> QED
    BY <2>2, <2>3 DEF IInv, Call, TypeOK
<1>2. HandlesAccounted'
  BY DEF IInv, Call, TypeOK, HandlesAccounted
<1>3. reply'.size \in Nat
  BY HttpAssumption DEF Call, Replies
<1> QED
  BY <1>1, <1>2, <1>3 DEF Call, IInv, ProgressInv, TextInv, CutAnswersFail

LEMMA OutOfMemoryIInv == IInv /\ OutOfMemory => IInv'
<1> SUFFICES ASSUME IInv, OutOfMemory PROVE IInv'
  OBVIOUS
<1>1. NoText \in [doc : Docs, whole : BOOLEAN, fresh : BOOLEAN]
  BY DEF NoText, Docs
<1>2. TypeOK'
  BY <1>1, HttpAssumption DEF IInv, OutOfMemory, TypeOK
<1> QED
  BY <1>2, Sized
  DEF OutOfMemory, IInv, HandlesAccounted, ProgressInv, TextInv, CutAnswersFail

LEMMA OnConnectedIInv == IInv /\ OnConnected => IInv'
<1> SUFFICES ASSUME IInv, OnConnected PROVE IInv'
  OBVIOUS
<1>1. TypeOK'
  BY HttpAssumption DEF IInv, OnConnected, TypeOK
<1>2. HandlesAccounted'
  BY DEF IInv, OnConnected, HandlesAccounted
<1>3. ProgressInv'
  BY HttpAssumption DEF IInv, OnConnected, ProgressInv, Stored
<1> QED
  BY <1>1, <1>2, <1>3 DEF OnConnected, IInv, ProgressInv, TextInv, CutAnswersFail

(* The handler never writes past the last byte but one. *)
LEMMA OnDataIInv == IInv /\ OnData => IInv'
<1> SUFFICES ASSUME IInv, OnData PROVE IInv'
  OBVIOUS
<1>1. PICK len \in 1 .. reply.size - sent :
        sent' = sent + len /\ readed' = readed + ToCopy(len)
  BY DEF OnData
<1>2. reply.size \in Nat /\ reply.doc \in Docs
  BY Sized DEF IInv
<1>3. sent \in Nat /\ readed \in 0 .. BufferSize - 1 /\ BufferSize \in Nat \ {0}
  BY HttpAssumption DEF IInv, TypeOK
<1>4. readed = Stored(sent) /\ pc = "receiving"
  BY DEF IInv, ProgressInv, OnData
<1>5. readed' = Stored(sent') /\ sent' \in Nat /\ sent' <= reply.size
  BY <1>1, <1>2, <1>3, <1>4 DEF ToCopy, Remaining, Stored
<1>6. readed' \in 0 .. BufferSize - 1
  BY <1>3, <1>5 DEF Stored
<1>7. buffer' = [doc |-> reply.doc, whole |-> readed' = reply.size, fresh |-> TRUE]
  BY DEF OnData, Appended
<1>8. (readed' = reply.size) \in BOOLEAN
  OBVIOUS
<1>9. buffer' \in [doc : Docs, whole : BOOLEAN, fresh : BOOLEAN]
  BY <1>2, <1>7, <1>8
<1>10. TypeOK'
  BY <1>5, <1>6, <1>9 DEF IInv, OnData, TypeOK
<1>11. HandlesAccounted'
  BY DEF IInv, OnData, HandlesAccounted
<1>12. ProgressInv'
  BY <1>4, <1>5 DEF OnData, ProgressInv
<1>13. TextInv'
  <2>1. buffer'.doc = reply.doc /\ buffer'.whole = (readed' = reply.size)
    BY <1>7
  <2>2. buffer'.whole => readed' = reply.size
    BY <2>1
  <2> QED
    BY <1>4, <2>1, <2>2 DEF IInv, OnData, TextInv
<1>14. CutAnswersFail'
  BY <1>4 DEF IInv, OnData, TextInv, CutAnswersFail
<1> QED
  BY <1>10, <1>11, <1>12, <1>13, <1>14 DEF IInv

LEMMA PerformFailsIInv == IInv /\ PerformFails => IInv'
<1> SUFFICES ASSUME IInv, PerformFails PROVE IInv'
  OBVIOUS
<1>1. HandlesAccounted' /\ failures' \in 0 .. MaxHandles
  BY HttpAssumption DEF IInv, PerformFails, TypeOK, HandlesAccounted
<1>2. TypeOK'
  BY <1>1 DEF IInv, PerformFails, TypeOK
<1> QED
  BY <1>1, <1>2 DEF PerformFails, IInv, ProgressInv, TextInv, CutAnswersFail

(* A body that passes the check of its length has lost nothing. *)
LEMMA PerformOkIInv == IInv /\ PerformOk => IInv'
<1> SUFFICES ASSUME IInv, PerformOk PROVE IInv'
  OBVIOUS
<1>1. HandlesAccounted' /\ handles' \in 0 .. MaxHandles
  BY HttpAssumption DEF IInv, PerformOk, TypeOK, HandlesAccounted
<1>2. TypeOK'
  BY <1>1 DEF IInv, PerformOk, TypeOK
<1>3. ProgressInv'
  <2>1. sent \in Nat /\ reply.size \in Nat /\ BufferSize \in Nat
    BY Sized, HttpAssumption DEF IInv, TypeOK
  <2>2. readed = Stored(sent) /\ sent <= reply.size
    BY DEF IInv, ProgressInv, PerformOk
  <2>3. ~TooBig => readed = sent
    BY <2>1, <2>2 DEF TooBig, Stored
  <2> QED
    BY <2>2, <2>3 DEF PerformOk, ProgressInv
<1> QED
  BY <1>1, <1>2, <1>3 DEF PerformOk, IInv, TextInv, CutAnswersFail

LEMMA ParseIInv == IInv /\ Parse => IInv'
<1> SUFFICES ASSUME IInv, Parse PROVE IInv'
  OBVIOUS
<1>1. TypeOK'
  BY DEF IInv, Parse, TypeOK
<1>2. CutAnswersFail'
  BY DEF IInv, Parse, ProgressInv, TextInv, CutAnswersFail, Accepted
<1> QED
  BY <1>1, <1>2 DEF Parse, IInv, HandlesAccounted, ProgressInv, TextInv

LEMMA NextIInv == IInv /\ [Next]_vars => IInv'
<1>1. IInv /\ UNCHANGED vars => IInv'
  BY DEF vars, IInv, TypeOK, HandlesAccounted, ProgressInv, TextInv, CutAnswersFail
<1> QED
  BY <1>1, CallIInv, OutOfMemoryIInv, OnConnectedIInv, OnDataIInv,
     PerformFailsIInv, PerformOkIInv, ParseIInv DEF Next

LEMMA Invariance == Spec => []IInv
  BY InitIInv, NextIInv, PTL DEF Spec

-------------------------------------------------------------------------------
(* The index of the event handler never leaves the buffer, whatever is     *)
(* delivered and however it is cut into chunks (http_api.c:41-47), and no  *)
(* client is counted that was not allocated.                               *)
THEOREM TypeCorrect == Spec => []TypeOK
  BY Invariance, PTL DEF IInv

(* The check of the content length (http_api.c:94,198) lets no body pass   *)
(* that the handler had to cut, for any size of the buffer.                *)
THEOREM NothingTruncated == Spec => []NotTruncated
<1>1. IInv => NotTruncated
  BY DEF IInv, ProgressInv, NotTruncated
<1> QED
  BY <1>1, Invariance, PTL

(* A connection cut in the middle of a body never counts as an answer, and *)
(* neither does a mixture of two bodies (http_api.c:38-49).                *)
THEOREM OnlyWholeAnswers == Spec => []CutAnswersFail
  BY Invariance, PTL DEF IInv

(* Clients are left over by failed performs only (http_api.c:106-109).     *)
THEOREM LeaksAccounted == Spec => []HandlesAccounted
  BY Invariance, PTL DEF IInv
================================================================================
