-------------------------------- MODULE HttpApi --------------------------------
(***************************************************************************)
(* http_api.c of esp_bus: emt_login and emt_arrive_times, one call after   *)
(* the other, over one global text buffer that the HTTP client's event     *)
(* handler fills chunk by chunk and that no call empties.                  *)
(*                                                                         *)
(* A body is its length and what it says; a text in the buffer is what it  *)
(* says, whether it is the whole body, and whose body it is.               *)
(***************************************************************************)
EXTENDS Naturals

CONSTANTS
    BufferSize,     \* MAX_HTTP_RESPONSE_SIZE
    Sizes,          \* the lengths of bodies
    MaxHandles      \* HTTP clients that fit in the heap

ASSUME HttpAssumption ==
    /\ BufferSize \in Nat \ {0}
    /\ Sizes \subseteq Nat
    /\ MaxHandles \in Nat \ {0}

VARIABLES
    pc,         \* "idle", or where the call is
    kind,       \* the call: "login" or "arrive"
    reply,      \* what the server answers this call
    sent,       \* bytes of it handed to the event handler
    readed,     \* readed of _http_event_handler
    buffer,     \* http_response, up to its first NUL
    handles,    \* HTTP clients allocated
    failures,   \* history: performs that failed since the last boot
    verdict     \* what the last call returned

vars == <<pc, kind, reply, sent, readed, buffer, handles, failures, verdict>>

Kinds == {"login", "arrive"}

(* What a body says: the token a login asks for, the arrivals at the stop, *)
(* arrivals with a field missing, an error of the API, or no JSON at all.  *)
Docs == {"token", "arrivals", "incomplete", "error", "noJson"}

Replies == [size : Sizes, chunked : BOOLEAN, status : {200, 500}, doc : Docs]

NoText == [doc |-> "noJson", whole |-> FALSE, fresh |-> FALSE]

TypeOK ==
    /\ pc \in {"idle", "connecting", "receiving", "parsing"}
    /\ kind \in Kinds
    /\ reply \in Replies
    /\ sent \in Nat
    /\ readed \in 0 .. BufferSize - 1
    /\ buffer \in [doc : Docs, whole : BOOLEAN, fresh : BOOLEAN]
    /\ handles \in 0 .. MaxHandles
    /\ failures \in 0 .. MaxHandles
    /\ verdict \in {"none", "ok", "fail"}

(* A boot: http_response is zeroed memory. *)
Init ==
    /\ pc = "idle"
    /\ kind \in Kinds
    /\ reply \in Replies
    /\ sent = 0
    /\ readed = 0
    /\ buffer = NoText
    /\ handles = 0
    /\ failures = 0
    /\ verdict = "none"

-------------------------------------------------------------------------------
(* esp_http_client_init, headers and body, and esp_http_client_perform up  *)
(* to the connection.  What the buffer holds is now an earlier call's.     *)
Call ==
    /\ pc = "idle"
    /\ handles < MaxHandles
    /\ handles' = handles + 1
    /\ \E k \in Kinds : kind' = k
    /\ \E r \in Replies : reply' = r
    /\ sent' = 0
    /\ buffer' = [buffer EXCEPT !.fresh = FALSE]
    /\ verdict' = "none"
    /\ pc' = "connecting"
    /\ UNCHANGED <<readed, failures>>

(* No memory for another client: the null handle is used and the chip      *)
(* restarts.                                                               *)
OutOfMemory ==
    /\ pc = "idle"
    /\ handles = MaxHandles
    /\ sent' = 0
    /\ readed' = 0
    /\ buffer' = NoText
    /\ handles' = 0
    /\ failures' = 0
    /\ verdict' = "none"
    /\ UNCHANGED <<pc, kind, reply>>

(* HTTP_EVENT_ON_CONNECTED *)
OnConnected ==
    /\ pc = "connecting"
    /\ readed' = 0
    /\ pc' = "receiving"
    /\ UNCHANGED <<kind, reply, sent, buffer, handles, failures, verdict>>

(* HTTP_EVENT_ON_DATA: what still fits is appended and the text is         *)
(* terminated after it.  (ToCopyUnchecked: without the size of the buffer; *)
(* AppendedUnended: without the terminator, what an earlier and longer     *)
(* text left in the buffer goes on after the new bytes.)                   *)
Remaining == BufferSize - readed - 1
ToCopyUnchecked(len) == len
ToCopy(len) == IF Remaining > len THEN len ELSE Remaining

AppendedUnended(total) ==
    [doc |-> reply.doc, whole |-> total = reply.size \/ buffer.whole,
     fresh |-> TRUE]
Appended(total) ==
    [doc |-> reply.doc, whole |-> total = reply.size, fresh |-> TRUE]

OnData ==
    /\ pc = "receiving"
    /\ \E len \in 1 .. reply.size - sent :
        /\ sent' = sent + len
        /\ readed' = readed + ToCopy(len)
    /\ buffer' = Appended(readed')
    /\ UNCHANGED <<pc, kind, reply, handles, failures, verdict>>

(* esp_http_client_perform fails: no connection, TLS, timeout.  The call   *)
(* returns without esp_http_client_cleanup.                                *)
PerformFails ==
    /\ pc \in {"connecting", "receiving"}
    /\ failures' = failures + 1
    /\ verdict' = "fail"
    /\ pc' = "idle"
    /\ UNCHANGED <<kind, reply, sent, readed, buffer, handles>>

(* Perform returns ESP_OK: at the end of the body, or because the server   *)
(* closed before it.  The content length of a chunked body is -1, which is *)
(* huge as a size_t.  The client is cleaned up before anything is judged.  *)
TooBigOffByOne == reply.chunked \/ reply.size > BufferSize
TooBig == reply.chunked \/ reply.size >= BufferSize

PerformOkLateCleanup ==
    /\ pc = "receiving"
    /\ IF TooBig \/ reply.status # 200
       THEN pc' = "idle" /\ verdict' = "fail" /\ UNCHANGED handles
       ELSE pc' = "parsing" /\ UNCHANGED verdict /\ handles' = handles - 1
    /\ UNCHANGED <<kind, reply, sent, readed, buffer, failures>>

PerformOk ==
    /\ pc = "receiving"
    /\ handles' = handles - 1
    /\ IF TooBig \/ reply.status # 200
       THEN pc' = "idle" /\ verdict' = "fail"
       ELSE pc' = "parsing" /\ UNCHANGED verdict
    /\ UNCHANGED <<kind, reply, sent, readed, buffer, failures>>

(* cJSON_Parse and the checks on what it finds: a text that is cut is no   *)
(* JSON; a login wants a token, the other call complete arrivals.          *)
Accepted ==
    /\ buffer.whole
    /\ buffer.doc = IF kind = "login" THEN "token" ELSE "arrivals"

Parse ==
    /\ pc = "parsing"
    /\ verdict' = IF Accepted THEN "ok" ELSE "fail"
    /\ pc' = "idle"
    /\ UNCHANGED <<kind, reply, sent, readed, buffer, handles, failures>>

-------------------------------------------------------------------------------
Next ==
    \/ Call \/ OutOfMemory
    \/ OnConnected \/ OnData
    \/ PerformFails \/ PerformOk
    \/ Parse

Spec == Init /\ [][Next]_vars

-------------------------------------------------------------------------------
(* Properties. *)

(* A text that reaches the parser has lost nothing to the size of the      *)
(* buffer: the check of the content length (http_api.c:94,198) and the     *)
(* truncation of the handler (http_api.c:41-43) agree on the limit.        *)
NotTruncated == pc = "parsing" => readed = sent

(* An answer of which anything arrived is judged by itself and in full: a  *)
(* connection cut in the middle of a body never counts as an answer, and   *)
(* neither does a mixture of two bodies.                                   *)
CutAnswersFail ==
    verdict = "ok" /\ sent > 0 =>
        /\ sent = reply.size
        /\ reply.doc = IF kind = "login" THEN "token" ELSE "arrivals"

(* Every client that is not cleaned up goes back to a perform that failed  *)
(* (http_api.c:106-109,210-213): the other ways out leave none behind.     *)
HandlesAccounted ==
    handles = failures + IF pc \in {"connecting", "receiving"} THEN 1 ELSE 0

(* A success is the success of this call: the buses or the token come from *)
(* the answer to it (http_api.c:60-65,157-164).                            *)
FreshAnswer == verdict = "ok" => buffer.fresh
===============================================================================
