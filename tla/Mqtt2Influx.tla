------------------------------ MODULE Mqtt2Influx ------------------------------
(***************************************************************************)
(* mqtt2influx.py: a script with a persistent QoS 2 session at the broker  *)
(* turns every message into a line and writes it to InfluxDB.  A line that *)
(* is refused goes to the end of a file, and the whole file is sent again  *)
(* after every turn of the loop, until that succeeds.                      *)
(*                                                                         *)
(* The script may die between any two steps and be started again, the      *)
(* connection to the broker may break, and the database may be out of      *)
(* reach, or write and fail to say so.  Nothing in the script limits how   *)
(* many messages are under way at once: the limit is the broker's.  A      *)
(* message is its line: both carry the publisher's time in nanoseconds.    *)
(***************************************************************************)
EXTENDS Naturals, Sequences, FiniteSets, Functions

CONSTANTS
    Messages,   \* what may be published
    Kind,       \* what each message is
    InFlight,   \* max_inflight_messages of the broker: 20
    MaxDeaths   \* the script is killed only while it has died less often

(* A "reading" of the sensor; a "poison" line, which passes for one but    *)
(* which InfluxDB cannot parse; and "garbage": fields that lineformat      *)
(* refuses, or bytes that are no text.                                     *)
Kinds == {"reading", "poison", "garbage"}

ASSUME ScriptAssumption ==
    /\ Kind \in [Messages -> Kinds]
    /\ InFlight \in Nat \ {0}
    /\ MaxDeaths \in Nat

VARIABLES
    session,    \* the broker: messages of the session it has not let go of
    released,   \* the broker: how many of the first are past PUBREC
    received,   \* the script: _in_messages of the MQTT client, and msg
    run,        \* the script: "up", "deaf" (connection lost) or "dead"
    pc,         \* where the script is in its loop
    rejected,   \* rejected.dat
    batch,      \* lines of send_rejecteds
    database,   \* the lines in InfluxDB
    influx,     \* InfluxDB can be reached
    completed,  \* history: messages the broker has let go of
    lost,       \* history: messages that died with the script
    deaths      \* history: how often it died

scriptVars == <<session, released, received, run, pc, rejected, batch,
                database, influx, completed, lost, deaths>>

Lines == {m \in Messages : Kind[m] \in {"reading", "poison"}}
Readings == {m \in Messages : Kind[m] = "reading"}

ScriptTypeOK ==
    /\ session \in Seq(Messages)
    /\ released \in 0 .. InFlight
    /\ received \subseteq Messages
    /\ run \in {"up", "deaf", "dead"}
    /\ pc \in {"loop", "send", "store", "resend", "remove"}
    /\ rejected \subseteq Lines
    /\ batch \subseteq Lines
    /\ database \subseteq Readings
    /\ influx \in BOOLEAN
    /\ completed \subseteq Messages
    /\ lost \subseteq Messages
    /\ deaths \in Nat

(* The script has connected once, which created its session. *)
ScriptInit ==
    /\ session = <<>>
    /\ released = 0
    /\ received = {}
    /\ run = "up"
    /\ pc = "loop"
    /\ rejected = {}
    /\ batch = {}
    /\ database = {}
    /\ influx \in BOOLEAN
    /\ completed = {}
    /\ lost = {}
    /\ deaths = 0

storeVars == <<rejected, database>>
historyVars == <<completed, lost, deaths>>

-------------------------------------------------------------------------------
(* The MQTT client and the broker, external.  A message is kept in memory  *)
(* until the broker's PUBREL hands it to on_message; from its PUBREC on    *)
(* the broker no longer has its text.  Up to InFlight messages are in that *)
(* exchange at once, each step of which takes them in their order.         *)

Publish(m) ==
    /\ session' = Append(session, m)
    /\ UNCHANGED <<released, received, run, pc, batch, influx, storeVars,
                   historyVars>>

AtLoop == run = "up" /\ pc = "loop"

(* PUBLISH, answered with PUBREC; for the second time if the first answer  *)
(* has not arrived.                                                        *)
Deliver ==
    /\ AtLoop
    /\ \E i \in DOMAIN session :
        /\ released < i /\ i <= InFlight
        /\ \A j \in released + 1 .. i - 1 : session[j] \in received
        /\ session[i] \notin received
        /\ received' = received \union {session[i]}
    /\ UNCHANGED <<session, released, run, pc, batch, influx, storeVars,
                   historyVars>>

(* PUBREC reaches the broker, whatever the script is doing. *)
Release ==
    /\ run = "up"
    /\ released < InFlight /\ released < Len(session)
    /\ session[released + 1] \in received
    /\ released' = released + 1
    /\ UNCHANGED <<session, received, run, pc, batch, influx, storeVars,
                   historyVars>>

(* PUBCOMP: on_message has returned, or there was no message for it. *)
Complete ==
    /\ session' = Tail(session)
    /\ released' = released - 1
    /\ received' = received \ {Head(session)}
    /\ completed' = completed \union {Head(session)}

(* PUBREL arrives for the first message. *)
Known == released > 0 /\ Head(session) \in received

CompleteUnknown ==
    /\ AtLoop
    /\ released > 0 /\ ~Known
    /\ Complete
    /\ UNCHANGED <<run, pc, batch, influx, storeVars, lost, deaths>>

Disconnect ==
    /\ run = "up"
    /\ run' = "deaf"
    /\ UNCHANGED <<session, released, received, pc, batch, influx, storeVars,
                   historyVars>>

-------------------------------------------------------------------------------
(* on_message *)

(* The script dies, and with it what the broker would not send again.      *)
InMemory == {session[i] : i \in 1 .. released} \cap received

Dies ==
    /\ run' = "dead"
    /\ pc' = "loop"
    /\ received' = {}
    /\ batch' = {}
    /\ lost' = lost \union (InMemory \ (rejected \union database))
    /\ deaths' = deaths + 1

(* decode fails outside of any try. *)
MessageOfUnknownBytes ==
    /\ AtLoop
    /\ Known /\ Kind[Head(session)] = "garbage"
    /\ Dies
    /\ UNCHANGED <<session, released, influx, storeVars, completed>>

(* lineformat raises: the message is dropped. *)
MessageRefused ==
    /\ AtLoop
    /\ Known /\ Kind[Head(session)] = "garbage"
    /\ Complete
    /\ UNCHANGED <<run, pc, batch, influx, storeVars, lost, deaths>>

MessageFormatted ==
    /\ AtLoop
    /\ Known /\ Head(session) \in Lines
    /\ pc' = "send"
    /\ UNCHANGED <<session, released, received, run, batch, influx, storeVars,
                   historyVars>>

(* What a write of lines may leave in the database when it succeeds, and   *)
(* when it fails.  With a poison line among them it fails.                 *)
Accepts(lines) == influx /\ lines \subseteq Readings
Leaves(lines) == {database} \union
    IF influx THEN {database \union l : l \in SUBSET (lines \cap Readings)} ELSE {}

(* A connection that broke while on_message ran swallows the PUBCOMP.      *)
Acknowledged ==
    IF run = "up" THEN Complete
    ELSE /\ received' = received \ {Head(session)}
         /\ UNCHANGED <<session, released, completed>>

SendOk ==
    /\ run # "dead" /\ pc = "send"
    /\ Accepts({Head(session)})
    /\ database' = database \union {Head(session)}
    /\ Acknowledged
    /\ pc' = "loop"
    /\ UNCHANGED <<run, batch, influx, rejected, lost, deaths>>

SendFails ==
    /\ run # "dead" /\ pc = "send"
    /\ database' \in Leaves({Head(session)})
    /\ pc' = "store"
    /\ UNCHANGED <<session, released, received, run, batch, influx, rejected,
                   historyVars>>

(* store_as_rejected, and the same with the file opened for writing.       *)
StoreOverwriting ==
    /\ run # "dead" /\ pc = "store"
    /\ rejected' = {Head(session)}
    /\ Acknowledged
    /\ pc' = "loop"
    /\ UNCHANGED <<run, batch, influx, database, lost, deaths>>

Store ==
    /\ run # "dead" /\ pc = "store"
    /\ rejected' = rejected \union {Head(session)}
    /\ Acknowledged
    /\ pc' = "loop"
    /\ UNCHANGED <<run, batch, influx, database, lost, deaths>>

-------------------------------------------------------------------------------
(* send_rejecteds, whenever loop returns: also without a connection. *)

ReadRejecteds ==
    /\ run # "dead" /\ pc = "loop"
    /\ rejected # {}
    /\ batch' = rejected
    /\ pc' = "resend"
    /\ UNCHANGED <<session, released, received, run, influx, storeVars,
                   historyVars>>

ResendOk ==
    /\ run # "dead" /\ pc = "resend"
    /\ Accepts(batch)
    /\ database' = database \union batch
    /\ pc' = "remove"
    /\ UNCHANGED <<session, released, received, run, batch, influx, rejected,
                   historyVars>>

(* (ResendFailsRemoving: without the return.) *)
ResendFailsRemoving ==
    /\ run # "dead" /\ pc = "resend"
    /\ database' \in Leaves(batch)
    /\ pc' = "remove"
    /\ UNCHANGED <<session, released, received, run, batch, influx, rejected,
                   historyVars>>

ResendFails ==
    /\ run # "dead" /\ pc = "resend"
    /\ database' \in Leaves(batch)
    /\ batch' = {}
    /\ pc' = "loop"
    /\ UNCHANGED <<session, released, received, run, influx, rejected,
                   historyVars>>

(* os.remove *)
Remove ==
    /\ run # "dead" /\ pc = "remove"
    /\ rejected' = {}
    /\ batch' = {}
    /\ pc' = "loop"
    /\ UNCHANGED <<session, released, received, run, influx, database,
                   historyVars>>

-------------------------------------------------------------------------------
(* The world. *)

Crash ==
    /\ run # "dead"
    /\ deaths < MaxDeaths
    /\ Dies
    /\ UNCHANGED <<session, released, influx, storeVars, completed>>

(* init_mqtt: clean_session=False resumes the session. *)
Start ==
    /\ run = "dead"
    /\ run' = "up"
    /\ UNCHANGED <<session, released, received, pc, batch, influx, storeVars,
                   historyVars>>

InfluxChanges ==
    /\ influx' = ~influx
    /\ UNCHANGED <<session, released, received, run, pc, batch, storeVars,
                   historyVars>>

-------------------------------------------------------------------------------
Client == Deliver \/ Release \/ CompleteUnknown
OnMessage ==
    \/ MessageOfUnknownBytes \/ MessageRefused \/ MessageFormatted
    \/ SendOk \/ SendFails \/ Store
SendRejecteds == ReadRejecteds \/ ResendOk \/ ResendFails \/ Remove

ScriptStep == Client \/ OnMessage \/ SendRejecteds
ScriptNext == ScriptStep \/ Disconnect \/ Crash \/ Start \/ InfluxChanges

-------------------------------------------------------------------------------
(* Properties. *)

(* What has become of a message: a line that died with the script is lost  *)
(* whatever happens to the session later; a line is kept as long as the    *)
(* file has it, and a message is open as long as the broker does.          *)
Fate(m) ==
    IF m \in lost \cap Lines THEN "lost"
    ELSE IF m \in database THEN "stored"
    ELSE IF m \in rejected THEN "kept"
    ELSE IF m \in (lost \union completed) \ Lines THEN "dropped"
    ELSE IF m \in Range(session) THEN "open"
    ELSE IF m \in completed THEN "dropped"
    ELSE "unseen"

(* The script implements Archive: no line gets lost between the end of the *)
(* QoS 2 exchange, the database and the file, nor when the file is sent,   *)
(* fails, and is removed (mqtt2influx.py:77-102).  When the script dies,   *)
(* killed or of bytes that are no text (:30), it costs what is past PUBREC *)
(* and in neither of them: as many lines as the broker has in flight, and  *)
(* no more.                                                                *)
Ledger == INSTANCE Archive WITH
    fate <- [m \in Messages |-> Fate(m)], Worthless <- Messages \ Lines
NothingForgotten == Ledger!ArchiveSpec

(* Once the script stays connected and InfluxDB stays in reach, every      *)
(* reading in the session or in the file comes to the database, unless it  *)
(* dies with the script, or a line that InfluxDB cannot parse stays in the *)
(* file for ever and holds up the others.                                  *)
Poisoned == \E m \in rejected : Kind[m] = "poison"

Delivered ==
    <>[](run = "up" /\ influx /\ ~Poisoned) =>
        \A m \in Readings :
            m \in Range(session) \union rejected ~> m \in database \union lost
===============================================================================
