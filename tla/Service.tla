------------------------------ MODULE Service ------------------------------
(***************************************************************************)
(* One publish/subscribe service (src/server/service.rs) and the Server    *)
(* that owns it (src/server.rs).                                           *)
(*                                                                         *)
(* Two threads meet on the RwLock of ServiceInner: the thread of the       *)
(* service, spawned by ServiceTmpl::run, and the task that holds the       *)
(* Server's write lock.  Every action below is one acquisition of the lock *)
(* of ServiceInner, so what the code does under two acquisitions (the two  *)
(* reads of is_subed, the callback of snapshot and the Drop of its         *)
(* ServiceSwap) is two steps here.                                         *)
(***************************************************************************)
EXTENDS Integers, FiniteSets

CONSTANTS
    Conn,           \* connection ids
    NeedSnapshot    \* ServiceInner.need_snapshot

ASSUME NeedSnapshotAssumption == NeedSnapshot \in BOOLEAN

HIBERNATE_TIMEOUT == 30
MAX_ERROR_TIMEOUT == 1000

VARIABLES
    subscribes, newSubscribes, active, handle,  \* ServiceInner
    pc,             \* where the thread of the service is
    errorTimeout,   \* local of ServiceTmpl::run
    tasks,          \* connections whose Connection::start is running
    connections,    \* Server.connections
    call,           \* the Server call in progress
    asked,          \* history: whom the Server's last call subscribed
    straddled       \* history: moved between the two reads of is_subed

inner == <<subscribes, newSubscribes, active, handle>>
thread == <<pc, errorTimeout>>
server == <<tasks, connections, call, asked, straddled>>
vars == <<inner, thread, server>>

members == subscribes \cup newSubscribes

Idle(at) == [at |-> at, conn |-> {}, sub |-> FALSE]
Busy(at, c, sub) == [at |-> at, conn |-> {c}, sub |-> sub]

Init ==
    /\ subscribes = {} /\ newSubscribes = {}
    /\ active = TRUE /\ handle = TRUE
    /\ pc = "active" /\ errorTimeout = HIBERNATE_TIMEOUT
    /\ tasks = {} /\ connections = {} /\ call = Idle("idle")
    /\ asked = {} /\ straddled = {}

-----------------------------------------------------------------------------
(* The methods of ServiceInner: one write lock each. *)

\* A resubscription that forgets the first test of on_subscribe.
OnSubscribeTwice(c) ==
    /\ newSubscribes' = IF NeedSnapshot THEN newSubscribes \cup {c} ELSE newSubscribes
    /\ subscribes' = IF NeedSnapshot THEN subscribes ELSE subscribes \cup {c}

OnSubscribe(c) ==
    \/ c \in subscribes /\ UNCHANGED <<subscribes, newSubscribes>>
    \/ /\ c \notin subscribes /\ NeedSnapshot
       /\ newSubscribes' = newSubscribes \cup {c}
       /\ UNCHANGED subscribes
    \/ /\ c \notin subscribes /\ ~NeedSnapshot
       /\ subscribes' = subscribes \cup {c}
       /\ UNCHANGED newSubscribes

\* An unsubscription that only looks at the established subscribers.
OnUnsubscribeEstablished(c) ==
    /\ subscribes' = subscribes \ {c}
    /\ UNCHANGED newSubscribes

OnUnsubscribe(c) ==
    IF c \in subscribes
    THEN /\ subscribes' = subscribes \ {c}
         /\ UNCHANGED newSubscribes
    ELSE /\ newSubscribes' = newSubscribes \ {c}
         /\ UNCHANGED subscribes

\* A swap that clears new_subscribes without inserting what it held.
SwapForgets ==
    /\ newSubscribes' = {}
    /\ UNCHANGED subscribes

SwapNewSubscribes ==
    /\ subscribes' = subscribes \cup newSubscribes
    /\ newSubscribes' = {}

-----------------------------------------------------------------------------
(* The Server.  Its write lock admits one call at a time; `call' is the    *)
(* point that call has reached.  Every call about a connection is made by  *)
(* the task of that connection, Connection::start.                         *)

\* A connection gets an id nobody uses and its task starts.
Start(c) ==
    /\ c \notin tasks
    /\ tasks' = tasks \cup {c}
    /\ UNCHANGED <<inner, thread, connections, call, asked, straddled>>

AddConnection(c, permitted) ==
    /\ call.at = "idle" /\ c \in tasks
    /\ connections' = connections \cup {c}
    /\ IF permitted THEN OnSubscribe(c) ELSE UNCHANGED <<subscribes, newSubscribes>>
    /\ asked' = IF permitted THEN asked \cup {c} ELSE asked
    /\ UNCHANGED <<active, handle, thread, tasks, call, straddled>>

\* The call returns having done what it was asked, as far as it can tell.
Return(c, sub) ==
    /\ call' = Idle("idle")
    /\ asked' = IF sub THEN asked \cup {c} ELSE asked \ {c}

\* Server::subscribe up to the first read of is_subed.  It does not ask
\* whether the connection has been added: a permission switched before the
\* login subscribes a connection the Server does not know.
IsSubedFirstRead(c, sub) ==
    /\ call.at = "idle" /\ c \in tasks
    /\ IF c \in subscribes /\ sub
       THEN Return(c, sub)
       ELSE /\ call' = Busy(IF c \in subscribes THEN "apply" ELSE "second", c, sub)
            /\ UNCHANGED asked
    /\ UNCHANGED <<inner, thread, tasks, connections, straddled>>

\* The second read of is_subed, and the early return of Server::subscribe.
IsSubedSecondRead(c) ==
    /\ call.at = "second" /\ call.conn = {c}
    /\ IF (c \in newSubscribes) = call.sub
       THEN Return(c, call.sub)
       ELSE call' = Busy("apply", c, call.sub) /\ UNCHANGED asked
    /\ UNCHANGED <<inner, thread, tasks, connections, straddled>>

SubscribeApply(c) ==
    /\ call.at = "apply" /\ call.conn = {c}
    /\ IF call.sub THEN OnSubscribe(c) ELSE OnUnsubscribe(c)
    /\ Return(c, call.sub)
    /\ straddled' = IF call.sub THEN straddled ELSE straddled \ {c}
    /\ UNCHANGED <<active, handle, thread, tasks, connections>>

\* A remove_connection that uses the guarded subscribe(.., false) path.
RemoveConnectionLeaves(c) ==
    /\ call.at = "idle" /\ c \in tasks
    /\ OnUnsubscribeEstablished(c)
    /\ tasks' = tasks \ {c} /\ connections' = connections \ {c}
    /\ asked' = asked \ {c} /\ straddled' = straddled \ {c}
    /\ UNCHANGED <<active, handle, thread, call>>

\* The last thing the task does, whether it was ever added or not.
RemoveConnection(c) ==
    /\ call.at = "idle" /\ c \in tasks
    /\ OnUnsubscribe(c)
    /\ tasks' = tasks \ {c} /\ connections' = connections \ {c}
    /\ asked' = asked \ {c} /\ straddled' = straddled \ {c}
    /\ UNCHANGED <<active, handle, thread, call>>

\* Drop of the Server: Service::join, three acquisitions.
JoinDeactivate ==
    /\ call.at = "idle"
    /\ active' = FALSE
    /\ call' = Idle("joining")
    /\ UNCHANGED <<subscribes, newSubscribes, handle, thread, tasks, connections, asked, straddled>>

JoinTakeHandle ==
    /\ call.at = "joining"
    /\ handle' = FALSE
    /\ call' = Idle("taken")
    /\ UNCHANGED <<subscribes, newSubscribes, active, thread, tasks, connections, asked, straddled>>

JoinWait ==
    /\ call.at = "taken" /\ pc = "exit"
    /\ call' = Idle("joined")
    /\ UNCHANGED <<inner, thread, tasks, connections, asked, straddled>>

Server ==
    \/ \E c \in Conn :
        \/ \E b \in BOOLEAN : AddConnection(c, b) \/ IsSubedFirstRead(c, b)
        \/ Start(c) \/ IsSubedSecondRead(c) \/ SubscribeApply(c) \/ RemoveConnection(c)
    \/ JoinDeactivate \/ JoinTakeHandle \/ JoinWait

-----------------------------------------------------------------------------
(* The thread of the service: ServiceTmpl::run around a callback of the    *)
(* shape of display_service::run, audio_service::run and                   *)
(* video_service::run: while ok { work; snapshot; send }, or an error.     *)

Goto(from, to) ==
    /\ pc = from /\ pc' = to
    /\ UNCHANGED <<inner, errorTimeout, server>>

\* A loop that never looks at `active' again.
RunForever == Goto("active", "hasSubscribes")

RunActive == Goto("active", IF active THEN "hasSubscribes" ELSE "exit")

RunHasSubscribes == Goto("hasSubscribes", IF members # {} THEN "work" ELSE "sleep")

\* What an iteration does before its snapshot: the capturer and the encoder
\* are set up, the loop is checked, the cursor or the frame is fetched.  It
\* may fail, and it may end the iteration without a snapshot.
Work == \E to \in {"snapshot", "failed", "ok"} : Goto("work", to)

\* ServiceTmpl::snapshot: is there anyone new?  If so the callback runs
\* with a live ServiceSwap, and succeeds or fails before the Drop.
SnapshotCheck == Goto("snapshot", IF newSubscribes # {} THEN "callback" ELSE "send")

SnapshotCallback == \E to \in {"drop", "dropFailed"} : Goto("callback", to)

\* A Drop that is skipped when the callback has failed.
SwapDropOnSuccess ==
    /\ pc \in {"drop", "dropFailed"}
    /\ pc' = IF pc = "drop" THEN "send" ELSE "failed"
    /\ IF pc = "drop" THEN SwapNewSubscribes ELSE UNCHANGED <<subscribes, newSubscribes>>
    /\ UNCHANGED <<active, handle, errorTimeout, server>>

SwapDrop ==
    /\ pc \in {"drop", "dropFailed"}
    /\ pc' = IF pc = "drop" THEN "send" ELSE "failed"
    /\ SwapNewSubscribes
    /\ straddled' = IF call.at = "second" THEN straddled \cup (call.conn \cap newSubscribes)
                                          ELSE straddled
    /\ UNCHANGED <<active, handle, errorTimeout, tasks, connections, call, asked>>

\* The rest of an iteration: what it sends goes to subscribes only.
SendShared == \E to \in {"ok", "failed"} : Goto("send", to)

\* The test of the callback's loop; a callback of ServiceTmpl::repeat
\* returns after one iteration.
CallbackOk ==
    \/ Goto("ok", IF active /\ members # {} THEN "work" ELSE "sleep")
    \/ Goto("ok", "sleep")

\* The callback has failed: after more than MAX_ERROR_TIMEOUT in it the
\* back-off starts again, otherwise it doubles up to the maximum.
BackOff ==
    /\ pc = "failed" /\ pc' = "sleep"
    /\ \E t \in {HIBERNATE_TIMEOUT, errorTimeout * 2} :
         errorTimeout' = IF t > MAX_ERROR_TIMEOUT THEN MAX_ERROR_TIMEOUT ELSE t
    /\ UNCHANGED <<inner, server>>

Sleep == Goto("sleep", "active")

Thread ==
    \/ RunActive \/ RunHasSubscribes
    \/ Work \/ SnapshotCheck \/ SnapshotCallback \/ SwapDrop
    \/ SendShared \/ CallbackOk \/ BackOff \/ Sleep

Next == Server \/ Thread

\* The operating system schedules the thread; a Server call that holds the
\* write lock runs to its end.
Fairness ==
    /\ WF_vars(Thread)
    /\ \A c \in Conn : WF_vars(IsSubedSecondRead(c)) /\ WF_vars(SubscribeApply(c))
    /\ WF_vars(JoinTakeHandle) /\ WF_vars(JoinWait)

Spec == Init /\ [][Next]_vars

FairSpec == Spec /\ Fairness

-----------------------------------------------------------------------------
(* Properties. *)

CallAt == {"idle", "second", "apply", "joining", "taken", "joined"}

PcAt == {"active", "hasSubscribes", "work", "snapshot", "callback", "drop", "dropFailed",
         "send", "ok", "failed", "sleep", "exit"}

\* Types, with the bound of the error back-off of ServiceTmpl::run: never
\* below HIBERNATE_TIMEOUT, never above MAX_ERROR_TIMEOUT.
TypeOK ==
    /\ subscribes \subseteq Conn /\ newSubscribes \subseteq Conn
    /\ active \in BOOLEAN /\ handle \in BOOLEAN
    /\ pc \in PcAt
    /\ errorTimeout \in HIBERNATE_TIMEOUT .. MAX_ERROR_TIMEOUT
    /\ tasks \subseteq Conn /\ connections \subseteq Conn
    /\ call \in [at : CallAt, conn : SUBSET Conn, sub : BOOLEAN]
    /\ asked \subseteq Conn /\ straddled \subseteq Conn

\* A connection is never held in subscribes and in new_subscribes at once:
\* on_unsubscribe removes it from one of them only (service.rs:121), so a
\* connection held twice would survive its unsubscription.
HeldOnce == subscribes \cap newSubscribes = {}

\* Only connections whose task still runs are served: once remove_connection
\* (connection.rs:1058) has returned, whatever the thread of the service was
\* doing (a snapshot callback, the Drop of its ServiceSwap), the connection
\* is in neither map.  This is not about Server.connections: a permission
\* switched before the login subscribes a connection that is not there.
ServesRunningOnly == members \subseteq tasks

\* Server::subscribe(.., true) and add_connection are never lost, whatever
\* is_subed answered.
SubscribeNeverLost == asked \subseteq members

\* Server::subscribe(.., false) is lost only when the swap of a snapshot
\* moved the connection between the two reads of is_subed (service.rs:103).
UnsubscribeLostOnlyByStraddle ==
    members \subseteq asked \cup straddled

\* When Service::join has returned, the thread has left its loop and will
\* send nothing more.
JoinedIsSilent == call.at = "joined" => pc = "exit"

\* Membership is changed by the Server only: no step of the service thread
\* adds or drops a connection.
ThreadKeepsMembers == [][Thread => members' = members]_vars

\* The Drop of the Server comes back: join cannot wait for a thread that
\* never leaves its loop.
JoinReturns == call.at = "joining" ~> call.at = "joined"

\* A connection that waits in new_subscribes is moved, or leaves, as long
\* as the service is active and its iterations keep reaching the snapshot:
\* the callbacks of the snapshots may all fail.  A callback that fails
\* before its snapshot every time (video_service.rs:540-611, the cursor
\* before input_service.rs:416) serves nobody new, which the premise says.
NewSubscriberServed ==
    []<>(pc = "snapshot") =>
        \A c \in Conn : c \in newSubscribes ~> (c \notin newSubscribes \/ ~active)

-----------------------------------------------------------------------------
(* What the Server sees of the service (PubSub). *)

Abstract == INSTANCE PubSub WITH
    connected <- connections, open <- active

\* The service is a set of members that only the Server's calls change.
ImplementsPubSub == Abstract!Spec
=============================================================================
