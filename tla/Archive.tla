-------------------------------- MODULE Archive --------------------------------
(***************************************************************************)
(* What mqtt2influx.py promises to those who publish: a message that has   *)
(* reached the broker stays open until it is stored or kept in a file;     *)
(* what is kept is stored some day or stays kept, nothing that is stored   *)
(* is undone, and only what is no line may be dropped.  When the script    *)
(* dies it may take open lines along, but no more than InFlight of them,   *)
(* and none that is kept.  Sessions, files and retries are the business of *)
(* Mqtt2Influx, which implements this module.                              *)
(***************************************************************************)
EXTENDS Naturals, FiniteSets

CONSTANTS
    Messages,   \* what may be published
    Worthless,  \* the messages that are no line for the database
    InFlight    \* the lines that one death may cost, at most

VARIABLES
    fate,       \* what has become of each message
    deaths      \* how often the script has died

archiveVars == <<fate, deaths>>

Fates == {"unseen", "open", "kept", "stored", "dropped", "lost"}

Open == {m \in Messages : fate[m] = "open"}
Kept == {m \in Messages : fate[m] = "kept"}

ArchiveInit ==
    /\ fate = [m \in Messages |-> "unseen"]
    /\ deaths = 0

(* The messages of some set come to an end. *)
Become(set, end) ==
    fate' = [m \in Messages |-> IF m \in set THEN end ELSE fate[m]]

Arrive ==
    /\ \E m \in Messages : fate[m] = "unseen" /\ Become({m}, "open")
    /\ UNCHANGED deaths

Keep ==
    /\ \E m \in Open \ Worthless : Become({m}, "kept")
    /\ UNCHANGED deaths

(* A write stores one line or many. *)
Store ==
    /\ \E set \in SUBSET ((Open \union Kept) \ Worthless) : Become(set, "stored")
    /\ UNCHANGED deaths

Drop ==
    /\ \E m \in Open \cap Worthless : Become({m}, "dropped")
    /\ UNCHANGED deaths

(* What was in flight goes with the script, lines or not. *)
Die ==
    /\ deaths' = deaths + 1
    /\ \E gone \in SUBSET Open :
        /\ IsFiniteSet(gone) /\ Cardinality(gone) <= InFlight
        /\ fate' = [m \in Messages |->
                IF m \notin gone THEN fate[m]
                ELSE IF m \in Worthless THEN "dropped" ELSE "lost"]

ArchiveNext == Arrive \/ Keep \/ Store \/ Drop \/ Die

ArchiveSpec == ArchiveInit /\ [][ArchiveNext]_archiveVars
================================================================================
