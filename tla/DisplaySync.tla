---------------------------- MODULE DisplaySync ----------------------------
(***************************************************************************)
(* The display service (src/server/display_service.rs): a connection gets  *)
(* the list of displays with its login and afterwards, by a PeerInfo       *)
(* message, whenever the list in SYNC_DISPLAYS is marked not synced.       *)
(*                                                                         *)
(* SYNC_DISPLAYS is read and written by the service's thread, by logins    *)
(* and by the video service, each of which first asks the system for the   *)
(* displays and takes the lock afterwards.  A list of displays is one      *)
(* value.  Wayland, where the list does not change, is left out.           *)
(***************************************************************************)
EXTENDS FiniteSets

CONSTANTS
    Conn,       \* connections; an id is never used again
    Displays,   \* lists of displays the system may report
    Empty       \* the list before anybody asked: vec![]

ASSUME DisplaySyncAssumption == Empty \notin Displays /\ Displays # {}

VARIABLES
    real,               \* what the system has
    displays, isSynced, \* SYNC_DISPLAYS
    ignoring,           \* TEMP_IGNORE_DISPLAYS_CHANGED and the end of its holder
    subscribes, newSubscribes,  \* ServiceInner of the service
    phase, got,         \* of each connection: its login, the list it has read
    told,               \* the list each connection was sent last
    videoGot,           \* the list the video service has read, Empty: none
    pc, threadGot,      \* the service's thread: where it is, the list it works with
    handover,           \* history: who joined silently with another list
    left,               \* history: a subscriber has left
    settled             \* history: the displays change no more

sync == <<displays, isSynced>>
service == <<subscribes, newSubscribes>>
login == <<phase, got, told>>
thread == <<pc, threadGot>>
history == <<handover, left, settled>>
vars == <<real, sync, ignoring, service, login, videoGot, thread, history>>

members == subscribes \cup newSubscribes

Init ==
    /\ real \in Displays /\ displays = Empty /\ isSynced = FALSE /\ ignoring = "no"
    /\ subscribes = {} /\ newSubscribes = {}
    /\ phase = [c \in Conn |-> "new"]
    /\ got = [c \in Conn |-> Empty] /\ told = [c \in Conn |-> Empty]
    /\ videoGot = Empty /\ pc = "top" /\ threadGot = Empty
    /\ handover = {} /\ left = FALSE /\ settled = FALSE

\* SyncDisplaysInfo::check_changed that forgets to mark the change.
CheckChangedSilently(d) == displays' = d /\ UNCHANGED isSynced

\* SyncDisplaysInfo::check_changed.
CheckChanged(d) ==
    /\ displays' = d
    /\ isSynced' = (isSynced /\ (d = displays \/ ignoring = "yes"))

-----------------------------------------------------------------------------
(* The system, and the holder of temp_ignore_displays_changed. *)

Change(d) ==
    /\ ~settled /\ d # real /\ real' = d
    /\ UNCHANGED <<sync, ignoring, service, login, videoGot, thread, history>>

Settle ==
    /\ ~settled /\ settled' = TRUE
    /\ UNCHANGED <<real, sync, ignoring, service, login, videoGot, thread, handover, left>>

IgnoreStart ==
    /\ ~settled /\ ignoring = "no" /\ ignoring' = "yes"
    /\ UNCHANGED <<real, sync, service, login, videoGot, thread, history>>

\* A holder that ends without triggering the message.
IgnoreEndForgets ==
    /\ \/ ignoring = "yes" /\ ignoring' = "ending"
       \/ ignoring = "ending" /\ ignoring' = "no"
    /\ UNCHANGED <<real, sync, service, login, videoGot, thread, history>>

\* The holder is dropped: first the flag, then the message is triggered.
IgnoreEnd ==
    /\ \/ ignoring = "yes" /\ ignoring' = "ending" /\ UNCHANGED isSynced
       \/ ignoring = "ending" /\ ignoring' = "no" /\ isSynced' = FALSE
    /\ UNCHANGED <<real, displays, service, login, videoGot, thread, history>>

-----------------------------------------------------------------------------
(* Connections: update_get_sync_displays_on_login, then add_connection. *)

LoginRead(c) ==
    /\ phase[c] = "new"
    /\ phase' = [phase EXCEPT ![c] = "read"] /\ got' = [got EXCEPT ![c] = real]
    /\ UNCHANGED <<real, sync, ignoring, service, told, videoGot, thread, history>>

LoginStore(c) ==
    /\ phase[c] = "read"
    /\ phase' = [phase EXCEPT ![c] = "stored"] /\ got' = [got EXCEPT ![c] = Empty]
    /\ CheckChanged(got[c])
    /\ UNCHANGED <<real, ignoring, service, told, videoGot, thread, history>>

\* The lock is taken again for the list that goes into the response.
LoginRespond(c) ==
    /\ phase[c] = "stored"
    /\ phase' = [phase EXCEPT ![c] = "in"] /\ told' = [told EXCEPT ![c] = displays]
    /\ UNCHANGED <<real, sync, ignoring, service, got, videoGot, thread, history>>

Subscribe(c) ==
    /\ phase[c] = "in" /\ phase' = [phase EXCEPT ![c] = "subscribed"]
    /\ newSubscribes' = newSubscribes \cup {c}
    /\ UNCHANGED <<real, sync, ignoring, subscribes, got, told, videoGot, thread, history>>

Close(c) ==
    /\ phase[c] \in {"read", "stored", "in", "subscribed"}
    /\ phase' = [phase EXCEPT ![c] = "gone"]
    /\ subscribes' = subscribes \ {c} /\ newSubscribes' = newSubscribes \ {c}
    /\ handover' = handover \ {c}
    /\ left' = (left \/ c \in members)
    /\ UNCHANGED <<real, sync, ignoring, got, told, videoGot, thread, settled>>

\* check_displays_changed, called by a video service.
VideoRead ==
    /\ videoGot = Empty /\ (\E c \in Conn : phase[c] = "subscribed")
    /\ videoGot' = real
    /\ UNCHANGED <<real, sync, ignoring, service, login, thread, history>>

VideoStore ==
    /\ videoGot # Empty /\ CheckChanged(videoGot) /\ videoGot' = Empty
    /\ UNCHANGED <<real, ignoring, service, login, thread, history>>

-----------------------------------------------------------------------------
(* The thread: run. *)

\* sp.ok(), here or in ServiceTmpl::run.
Top ==
    /\ pc = "top" /\ members # {} /\ pc' = "snapshot"
    /\ UNCHANGED <<real, sync, ignoring, service, login, videoGot, threadGot, history>>

SnapshotCheck ==
    /\ pc = "snapshot" /\ pc' = IF newSubscribes = {} THEN "read" ELSE "callback"
    /\ UNCHANGED <<real, sync, ignoring, service, login, videoGot, threadGot, history>>

\* A callback that bails without asking for the message.
SnapshotCallbackSilent ==
    /\ pc = "callback"
    /\ pc' = IF ignoring # "yes" /\ subscribes # {} THEN "dropErr" ELSE "drop"
    /\ UNCHANGED <<real, sync, ignoring, service, login, videoGot, threadGot, history>>

\* The callback of snapshot: beside old subscribers a new one makes the list
\* go to all; alone it relies on what its login said.
SnapshotCallback ==
    /\ pc = "callback"
    /\ \/ /\ ignoring # "yes" /\ subscribes # {}
          /\ isSynced' = FALSE /\ pc' = "dropErr"
       \/ /\ ignoring = "yes" \/ subscribes = {}
          /\ pc' = "drop" /\ UNCHANGED isSynced
    /\ UNCHANGED <<real, displays, ignoring, service, login, videoGot, threadGot, history>>

\* ServiceSwap::drop; an error of the callback ends run.
SwapDrop ==
    /\ pc \in {"drop", "dropErr"} /\ pc' = IF pc = "drop" THEN "read" ELSE "top"
    /\ subscribes' = members /\ newSubscribes' = {}
    /\ handover' = IF isSynced /\ ignoring = "no"
                   THEN handover \cup {c \in newSubscribes : told[c] # displays}
                   ELSE handover
    /\ UNCHANGED <<real, sync, ignoring, login, videoGot, threadGot, left, settled>>

\* check_get_displays_changed_msg: the system is asked, in vain or not,
Read ==
    /\ pc = "read" /\ pc' = "store" /\ threadGot' = real
    /\ UNCHANGED <<real, sync, ignoring, service, login, videoGot, history>>

ReadFails ==
    /\ pc = "read" /\ pc' = "top"
    /\ UNCHANGED <<real, sync, ignoring, service, login, videoGot, threadGot, history>>

\* the answer is stored,
Store ==
    /\ pc = "store" /\ pc' = "get" /\ CheckChanged(threadGot) /\ threadGot' = Empty
    /\ UNCHANGED <<real, ignoring, service, login, videoGot, history>>

\* and get_update_sync_displays takes the list if it is to be sent.
Get ==
    /\ pc = "get"
    /\ IF isSynced THEN pc' = "top" /\ UNCHANGED <<isSynced, threadGot>>
       ELSE isSynced' = TRUE /\ threadGot' = displays /\ pc' = "send"
    /\ UNCHANGED <<real, displays, ignoring, service, login, videoGot, history>>

\* sp.send: to subscribes, not to new_subscribes.
Send ==
    /\ pc = "send" /\ pc' = "top"
    /\ told' = [c \in Conn |-> IF c \in subscribes THEN threadGot ELSE told[c]]
    /\ handover' = handover \ subscribes /\ threadGot' = Empty
    /\ UNCHANGED <<real, sync, ignoring, service, phase, got, videoGot, left, settled>>

Thread ==
    \/ Top \/ SnapshotCheck \/ SnapshotCallback \/ SwapDrop
    \/ Read \/ Store \/ Get \/ Send

Next ==
    \/ \E d \in Displays : Change(d)
    \/ Settle \/ IgnoreStart \/ IgnoreEnd
    \/ \E c \in Conn :
        LoginRead(c) \/ LoginStore(c) \/ LoginRespond(c) \/ Subscribe(c) \/ Close(c)
    \/ VideoRead \/ VideoStore
    \/ Thread \/ ReadFails

Spec == Init /\ [][Next]_vars

\* The thread is scheduled, the system answers again and again, and the
\* holder of temp_ignore_displays_changed is dropped.
FairSpec == Spec /\ WF_vars(Thread) /\ SF_vars(Read) /\ WF_vars(IgnoreEnd)

-----------------------------------------------------------------------------
(* Properties. *)

\* Types; nobody is in both maps of the service.
TypeOK ==
    /\ real \in Displays /\ displays \in Displays \cup {Empty} /\ isSynced \in BOOLEAN
    /\ ignoring \in {"no", "yes", "ending"}
    /\ subscribes \subseteq Conn /\ newSubscribes \subseteq Conn
    /\ subscribes \cap newSubscribes = {}
    /\ phase \in [Conn -> {"new", "read", "stored", "in", "subscribed", "gone"}]
    /\ \A c \in members : phase[c] = "subscribed"
    /\ got \in [Conn -> Displays \cup {Empty}] /\ told \in [Conn -> Displays \cup {Empty}]
    /\ videoGot \in Displays \cup {Empty} /\ threadGot \in Displays \cup {Empty}
    /\ pc \in {"top", "snapshot", "callback", "drop", "dropErr", "read", "store", "get", "send"}
    /\ handover \subseteq Conn /\ left \in BOOLEAN /\ settled \in BOOLEAN

\* Nothing is pending: the list is marked synced, no message is on its way
\* and changes are not being ignored.
Quiet == isSynced /\ ignoring = "no" /\ pc # "send"

\* Whatever logins, the video service and the thread do to SYNC_DISPLAYS,
\* when is_synced says so every subscriber of the display service was sent
\* the list that is stored, unless it joined silently.
SyncedMeansTold == Quiet => \A c \in subscribes \ handover : told[c] = displays

\* A subscriber joins silently with another list only if some subscriber
\* has left before: a message went out when nobody else was there to make
\* the next newcomer trigger another one.
HandoverNeedsDeparture == handover # {} => left

\* When the displays stay as they are, every subscriber that did not join
\* silently is told.
TheRestIsTold ==
    \A c \in Conn : (settled /\ c \in subscribes)
        ~> (told[c] = real \/ c \in handover \/ c \notin subscribes)

=============================================================================
