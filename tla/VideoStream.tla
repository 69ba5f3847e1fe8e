---------------------------- MODULE VideoStream ----------------------------
(***************************************************************************)
(* The video service of one display (src/server/video_service.rs): the     *)
(* thread that captures, encodes and broadcasts frames, the connections    *)
(* that fetch them, and the acknowledgements by which the thread paces     *)
(* itself (FRAME_FETCHED_NOTIFIERS, DISPLAY_CONN_IDS).                     *)
(*                                                                         *)
(* The maps of ServiceInner are used through their methods, one step each; *)
(* module Service looks inside them.  The reasons to start the encoder     *)
(* again (codec, i444, quality, privacy mode, display or desktop changed)  *)
(* come from outside and are one nondeterministic event, Switch.           *)
(***************************************************************************)
EXTENDS Integers, FiniteSets

CONSTANTS
    Conn,           \* connections; an id is never used again
    Web,            \* those with video_ack_required
    WaitRounds,     \* rounds of 300ms in the 3s a frame is waited for
    MaxPending,     \* bound: frames queued per connection
    MAX_FAIL_TIMES  \* consecutive encoding errors before a hardware encoder is disabled

ASSUME VideoStreamAssumption ==
    /\ IsFiniteSet(Conn) /\ Web \subseteq Conn
    /\ WaitRounds \in Nat \ {0} /\ MaxPending \in Nat \ {0} /\ MAX_FAIL_TIMES \in Nat \ {0}

VARIABLES
    subscribes, newSubscribes, refresh,     \* ServiceInner: the maps, OPTION_REFRESH
    conn,           \* life of each connection
    pending,        \* frames sent to a connection and not acknowledged by it
    channel,        \* ids in the notifier's channel; the receiver drains it whole
    displayConnIds, \* DISPLAY_CONN_IDS at this display; {} when there is no entry
    pc,             \* where the thread is
    encoder,        \* of the current inner loop: has it put out a frame, its failures
    sendConnIds, fetched, rounds,   \* VideoFrameController and the waiting loop
    keyed,          \* history: who was sent the first frame of this encoder
    blind,          \* history: who was sent a later frame without the first one
    handover,       \* history: who joined a running encoder nobody else used
    disturbed       \* history: a wait was given up, or a connection has closed

service == <<subscribes, newSubscribes, refresh>>
client == <<conn, pending>>
acks == <<channel, displayConnIds>>
waiting == <<sendConnIds, fetched, rounds>>
history == <<keyed, blind, handover, disturbed>>
vars == <<service, client, acks, pc, encoder, waiting, history>>

members == subscribes \cup newSubscribes

\* Only hardware encoders need several inputs for their first output.
NewEncoder ==
    [started : {FALSE}, tried : {FALSE}, fails : {0}, hardware : BOOLEAN, repeat : {FALSE}]
      \cup [started : {FALSE}, tried : {FALSE}, fails : {0}, hardware : {TRUE}, repeat : {TRUE}]
NoEncoder ==
    [started |-> FALSE, tried |-> FALSE, fails |-> 0, hardware |-> FALSE, repeat |-> FALSE]

Init ==
    /\ subscribes = {} /\ newSubscribes = {} /\ refresh = FALSE
    /\ conn = [c \in Conn |-> "new"] /\ pending = [c \in Conn |-> 0]
    /\ channel = {} /\ displayConnIds = {}
    /\ pc = "outside" /\ encoder = NoEncoder
    /\ sendConnIds = {} /\ fetched = {} /\ rounds = 0
    /\ keyed = {} /\ blind = {} /\ handover = {} /\ disturbed = FALSE

-----------------------------------------------------------------------------
(* Connections. *)

\* Authorized: Server::add_connection, or a later subscription.
Subscribe(c) ==
    /\ conn[c] \in {"new", "open"} /\ c \notin members
    /\ newSubscribes' = newSubscribes \cup {c}
    /\ conn' = [conn EXCEPT ![c] = "open"]
    /\ UNCHANGED <<subscribes, refresh, pending, acks, pc, encoder, waiting, history>>

Leave(c) ==
    /\ subscribes' = subscribes \ {c} /\ newSubscribes' = newSubscribes \ {c}
    /\ keyed' = keyed \ {c} /\ blind' = blind \ {c} /\ handover' = handover \ {c}
    /\ UNCHANGED <<refresh, pending, acks, pc, encoder, waiting, disturbed>>

Unsubscribe(c) ==
    /\ conn[c] = "open" /\ c \in members
    /\ Leave(c)
    /\ UNCHANGED conn

\* The event loop takes a frame from rx_video and writes it out; an
\* acknowledgement by the client is not awaited.
FetchFrame(c) ==
    /\ conn[c] = "open" /\ pending[c] > 0 /\ c \notin Web
    /\ pending' = [pending EXCEPT ![c] = @ - 1]
    /\ channel' = channel \cup {c}
    /\ UNCHANGED <<service, conn, displayConnIds, pc, encoder, waiting, history>>

\* VideoReceived of a web client: it names no display, the acknowledgement
\* goes where DISPLAY_CONN_IDS says the connection is waited for.
NotifyByConnId(c) ==
    channel' = IF c \in displayConnIds THEN channel \cup {c} ELSE channel

VideoReceived(c) ==
    /\ conn[c] = "open" /\ pending[c] > 0 /\ c \in Web
    /\ pending' = [pending EXCEPT ![c] = @ - 1]
    /\ NotifyByConnId(c)
    /\ UNCHANGED <<service, conn, displayConnIds, pc, encoder, waiting, history>>

\* The event loop has ended: first the notification, later
\* Server::remove_connection.
CloseNotify(c) ==
    /\ conn[c] = "open"
    /\ conn' = [conn EXCEPT ![c] = "closing"]
    /\ NotifyByConnId(c)
    /\ disturbed' = TRUE
    /\ UNCHANGED <<service, pending, displayConnIds, pc, encoder, waiting, keyed, blind, handover>>

CloseRemove(c) ==
    /\ conn[c] = "closing"
    /\ conn' = [conn EXCEPT ![c] = "gone"]
    /\ Leave(c)

\* Connection::refresh_video_display.
RefreshVideo(c) ==
    /\ conn[c] = "open"
    /\ refresh' = TRUE
    /\ UNCHANGED <<subscribes, newSubscribes, client, acks, pc, encoder, waiting, history>>

Client == \E c \in Conn :
    \/ Subscribe(c) \/ Unsubscribe(c) \/ RefreshVideo(c)
    \/ FetchFrame(c) \/ VideoReceived(c) \/ CloseNotify(c) \/ CloseRemove(c)

-----------------------------------------------------------------------------
(* The thread. *)

\* The inner loop returns, with or without an error: Raii::drop, and the
\* encoder and the frame controller are gone.
Exit ==
    /\ pc' = "outside"
    /\ displayConnIds' = {}
    /\ encoder' = NoEncoder
    /\ sendConnIds' = {} /\ fetched' = {} /\ rounds' = 0
    /\ keyed' = {} /\ blind' = {} /\ handover' = {}
    /\ UNCHANGED channel

\* ServiceTmpl::run calls run(vs): capturer and encoder.  When the encoder
\* cannot be made, or the fallback cannot either, run fails.
Setup ==
    /\ pc = "outside" /\ members # {}
    /\ \/ /\ encoder' \in NewEncoder /\ pc' = "clear"
          /\ UNCHANGED <<acks, waiting, keyed, blind, handover>>
       \/ Exit
    /\ UNCHANGED <<service, client, disturbed>>

\* A refresh asked for while the encoder was being made is served by it.
ClearRefresh ==
    /\ pc = "clear" /\ pc' = "top"
    /\ refresh' = FALSE
    /\ UNCHANGED <<subscribes, newSubscribes, client, acks, encoder, waiting, history>>

\* A loop head that clears the refresh and goes on with the same encoder.
LoopHeadForgetsRefresh ==
    /\ pc = "top"
    /\ \/ members = {} /\ Exit
       \/ /\ members # {} /\ pc' = "capture" /\ sendConnIds' = {}
          /\ UNCHANGED <<acks, encoder, fetched, rounds, keyed, blind, handover>>
    /\ refresh' = FALSE
    /\ UNCHANGED <<subscribes, newSubscribes, client, disturbed>>

\* A loop head that does not look at OPTION_REFRESH.
LoopHeadIgnoresRefresh ==
    /\ pc = "top"
    /\ \/ members = {} /\ Exit
       \/ /\ members # {} /\ pc' = "capture" /\ sendConnIds' = {}
          /\ UNCHANGED <<acks, encoder, fetched, rounds, keyed, blind, handover>>
    /\ UNCHANGED <<service, client, disturbed>>

\* while sp.ok(), the test of OPTION_REFRESH, VideoFrameController::reset.
LoopHead ==
    /\ pc = "top"
    /\ \/ (members = {} \/ refresh) /\ Exit
       \/ /\ members # {} /\ ~refresh /\ pc' = "capture" /\ sendConnIds' = {}
          /\ UNCHANGED <<acks, encoder, fetched, rounds, keyed, blind, handover>>
    /\ UNCHANGED <<service, client, disturbed>>

\* bail!("SWITCH"), at the head of the loop or while a frame is waited for.
Switch ==
    /\ pc \in {"top", "wait"} /\ (pc = "top" => members # {} /\ ~refresh)
    /\ disturbed' = (disturbed \/ pc = "wait")
    /\ Exit
    /\ UNCHANGED <<service, client>>

\* try_broadcast_display_changed: the new display goes to old and new
\* subscribers, through a snapshot of its own, and then SWITCH.
DisplayChanged ==
    /\ pc = "top" /\ members # {}
    /\ subscribes' = members /\ newSubscribes' = {}
    /\ Exit
    /\ UNCHANGED <<refresh, client, disturbed>>

\* c.frame(spf): a frame, WouldBlock, or an error.
Capture ==
    /\ pc = "capture"
    /\ \/ /\ pc' = "snapshot" /\ \A c \in Conn : pending[c] < MaxPending
          /\ UNCHANGED <<acks, encoder, waiting, keyed, blind, handover>>
       \/ /\ pc' = "wait" /\ fetched' = {} /\ rounds' = WaitRounds
          /\ UNCHANGED <<acks, encoder, sendConnIds, keyed, blind, handover>>
       \/ Exit
    /\ UNCHANGED <<service, client, disturbed>>

\* handle_one_frame: is there anyone new?
SnapshotCheck ==
    /\ pc = "snapshot" /\ pc' = IF newSubscribes = {} THEN "encode" ELSE "callback"
    /\ UNCHANGED <<service, client, acks, encoder, waiting, history>>

\* A callback that lets the new subscribers in beside the old ones.
CallbackKeepsEncoder ==
    /\ pc = "callback" /\ pc' = "drop"
    /\ UNCHANGED <<service, client, acks, encoder, waiting, history>>

\* The callback: with old subscribers the encoder must be switched.
SnapshotCallback ==
    /\ pc = "callback" /\ pc' = IF subscribes # {} THEN "dropSwitch" ELSE "drop"
    /\ UNCHANGED <<service, client, acks, encoder, waiting, history>>

\* Drop of the ServiceSwap.
SwapDrop ==
    /\ pc \in {"drop", "dropSwitch"}
    /\ subscribes' = members /\ newSubscribes' = {}
    /\ \/ pc = "dropSwitch" /\ Exit
       \/ /\ pc = "drop" /\ pc' = "encode"
          /\ handover' = IF encoder.started /\ subscribes = {}
                         THEN handover \cup newSubscribes ELSE handover
          /\ UNCHANGED <<acks, encoder, waiting, keyed, blind>>
    /\ UNCHANGED <<refresh, client, disturbed>>

\* encode_to_message succeeds: send_video_frame.
EncodeSend ==
    /\ pc = "encode" /\ pc' = "sent"
    /\ encoder' = [encoder EXCEPT !.started = TRUE, !.tried = TRUE, !.fails = 0]
    /\ pending' = [c \in Conn |-> pending[c] + (IF c \in subscribes THEN 1 ELSE 0)]
    /\ sendConnIds' = subscribes
    /\ keyed' = IF encoder.started THEN keyed ELSE subscribes
    /\ blind' = IF encoder.started THEN blind \cup (subscribes \ keyed) ELSE blind
    /\ UNCHANGED <<service, conn, acks, fetched, rounds, handover, disturbed>>

\* encode_to_message fails: a hardware encoder is given up at the first
\* frame, unless it needs several inputs for it (not latency_free), or after
\* MAX_FAIL_TIMES in a row; any encoder is when the error says so.
EncodeFail ==
    /\ pc = "encode"
    /\ LET fails == encoder.fails + 1
           giveUp == (~encoder.tried /\ ~encoder.repeat) \/ fails >= MAX_FAIL_TIMES IN
       \/ Exit
       \/ /\ ~(giveUp /\ encoder.hardware) /\ pc' = "wait"
          /\ encoder' = [encoder EXCEPT !.tried = TRUE, !.fails = IF giveUp THEN 0 ELSE fails]
          /\ fetched' = {} /\ rounds' = WaitRounds
          /\ UNCHANGED <<acks, sendConnIds, keyed, blind, handover>>
    /\ UNCHANGED <<service, client, disturbed>>

\* VideoFrameController::set_send, after the frame has gone out.
SetSend ==
    /\ pc = "sent" /\ pc' = "wait"
    /\ displayConnIds' = IF sendConnIds # {} THEN sendConnIds ELSE displayConnIds
    /\ fetched' = {} /\ rounds' = WaitRounds
    /\ UNCHANGED <<service, client, channel, encoder, sendConnIds, history>>

\* A wait that ends with the first acknowledgement.
AnyFetched(f) == sendConnIds = {} \/ f # {}

\* Everybody who is waited for, by number.
AllFetched(f) == Cardinality(f) >= Cardinality(sendConnIds)

\* A wait without the limit of three seconds.
RoundNeverEnds(f) ==
    /\ pc' = IF AllFetched(f) THEN "done" ELSE "wait"
    /\ UNCHANGED <<rounds, disturbed>>

\* The loop's test after a round: all fetched, or three seconds over.  A
\* round that received something may have taken less than its 300ms.
RoundEnds(f) ==
    \/ AllFetched(f) /\ pc' = "done" /\ UNCHANGED <<rounds, disturbed>>
    \/ /\ ~AllFetched(f) /\ rounds' = rounds - 1
       /\ pc' = IF rounds' = 0 THEN "done" ELSE "wait"
       /\ disturbed' = (disturbed \/ rounds' = 0)
    \/ ~AllFetched(f) /\ channel # {} /\ UNCHANGED <<pc, rounds, disturbed>>

\* try_wait_next: nothing to wait for, nothing in 300ms, or the channel is
\* drained into fetched_conn_ids.
WaitNext ==
    /\ pc = "wait"
    /\ IF sendConnIds = {} THEN UNCHANGED <<fetched, channel>>
       ELSE fetched' = fetched \cup channel /\ channel' = {}
    /\ RoundEnds(fetched')
    /\ UNCHANGED <<service, client, displayConnIds, encoder, sendConnIds, keyed, blind, handover>>

\* The frame is done with; so is its entry in DISPLAY_CONN_IDS.
FrameDone ==
    /\ pc = "done" /\ pc' = "top"
    /\ displayConnIds' = {} /\ fetched' = {} /\ rounds' = 0
    /\ UNCHANGED <<service, client, channel, encoder, sendConnIds, history>>

Step ==
    \/ Setup \/ ClearRefresh \/ LoopHead \/ Capture
    \/ SnapshotCheck \/ SnapshotCallback \/ SwapDrop
    \/ EncodeSend \/ EncodeFail \/ SetSend \/ WaitNext \/ FrameDone

Next == Client \/ Step \/ Switch \/ DisplayChanged

Spec == Init /\ [][Next]_vars

\* The thread is scheduled and an encoder can be made in the end.  Nothing
\* forces the events that switch the encoder, and no client owes anything.
FairSpec == Spec /\ WF_vars(Step)

-----------------------------------------------------------------------------
(* Properties. *)

\* Types; the frames waited for are limited to WaitRounds rounds.
TypeOK ==
    /\ subscribes \subseteq Conn /\ newSubscribes \subseteq Conn /\ refresh \in BOOLEAN
    /\ conn \in [Conn -> {"new", "open", "closing", "gone"}]
    /\ pending \in [Conn -> 0 .. MaxPending]
    /\ channel \subseteq Conn /\ displayConnIds \subseteq Conn
    /\ pc \in {"outside", "clear", "top", "capture", "snapshot", "callback", "drop",
               "dropSwitch", "encode", "sent", "wait", "done"}
    /\ encoder \in [started : BOOLEAN, tried : BOOLEAN, fails : 0 .. MAX_FAIL_TIMES - 1,
                    hardware : BOOLEAN, repeat : BOOLEAN]
    /\ sendConnIds \subseteq Conn /\ fetched \subseteq Conn /\ rounds \in 0 .. WaitRounds
    /\ keyed \subseteq Conn /\ blind \subseteq Conn /\ handover \subseteq Conn
    /\ disturbed \in BOOLEAN

\* A subscriber is sent a later frame of an encoder only after its first
\* one (the key frame), except when it takes over a running encoder from a
\* last subscriber that left within one iteration of the loop.
BlindOnlyAfterHandover == blind \subseteq handover

\* Pacing: as long as no wait was given up and nobody has left, no
\* connection has more than one frame under way.
OneFrameUnderWay == ~disturbed => \A c \in Conn : pending[c] <= 1

\* A request to refresh disappears only together with the encoder it asked
\* to replace: the next frame is the first one of a new encoder.
RefreshMakesKeyFrame == [][refresh /\ ~refresh' => ~encoder'.started]_vars

\* A client that never acknowledges holds the thread for three seconds, not
\* for ever.
WaitEnds == pc = "wait" ~> pc # "wait"

\* A request to refresh is taken up while anybody is subscribed.
RefreshTakenUp == refresh ~> (~refresh \/ members = {})

=============================================================================
