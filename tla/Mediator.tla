------------------------------ MODULE Mediator ------------------------------
(***************************************************************************)
(* RendezvousMediator::start_all, restart and the tasks that serve the     *)
(* requests of peers (src/rendezvous_mediator.rs): a loop that starts the  *)
(* registration again whenever it ends, other threads that change options  *)
(* and ask for that, one task for every request that comes from the        *)
(* rendezvous server, and the listener of direct_server.  What a running   *)
(* registration does is the subject of Registration.                       *)
(*                                                                         *)
(* A request and the connection it leads to are one element of Requests.   *)
(* A connection is added to the Server when it has logged in to see a      *)
(* screen or a camera; connections that transfer files, forward ports or   *)
(* show a terminal never are.                                              *)
(* installing_service() is left out, since it has the effect of            *)
(* stop-service, and MANUAL_RESTARTED, which only says how long the loop   *)
(* sleeps.                                                                 *)
(***************************************************************************)
EXTENDS Naturals, FiniteSets

CONSTANTS
    Requests,           \* what peers will ask for
    Addrs,              \* addresses of peers
    NoAddr,             \* the address that LAST_MSG begins with
    MaxSettings,           \* changes of options
    MaxFails            \* errors of the registration and of listening

ASSUME AddrsAssumption == NoAddr \notin Addrs
ASSUME MediatorBoundsAssumption == MaxSettings \in Nat /\ MaxFails \in Nat

VARIABLES
    pc,                 \* of the loop of start_all
    should_exit,        \* SHOULD_EXIT
    mode,               \* the transport start() has chosen
    stop, tcp_option,          \* options
    caller,             \* a thread is about to call restart()
    last,               \* last[l]: LAST_MSG and LAST_RELAY_MSG
    req,                \* req[r]: a request, its task and its connection
    listener,           \* direct_server listens
    direct,             \* where direct_server is
    settings, errors,
    missed              \* history: restart() came between the test of
                        \* stop-service and the store to SHOULD_EXIT

loop == <<pc, should_exit, mode, missed>>
options == <<stop, tcp_option, caller, settings>>
peers == <<last, req>>
directs == <<listener, direct>>
mediatorVars == <<loop, options, peers, directs, errors>>

Locks == {"msg", "relay"}

PeerRequest == [
    state : {"none", "read", "write", "decide", "serve", "relay",
             "connected", "added", "told", "skipped", "over"},
    lock : Locks,                   \* which messages it is compared with
    addr : Addrs \cup {NoAddr},
    seen : Addrs \cup {NoAddr},     \* the address read from last
    fresh : BOOLEAN]                \* that was less than 100 ms ago

NoRequest == [state |-> "none", lock |-> "msg", addr |-> NoAddr,
              seen |-> NoAddr, fresh |-> FALSE]

-----------------------------------------------------------------------------
(* start_all *)

(* close_connections sends stop_service to the Server's connections. *)
Told ==
    [r \in Requests |-> IF req[r].state = "added"
                        THEN [req[r] EXCEPT !.state = "told"] ELSE req[r]]

(* Test of stop-service; connections told only once after each restart. *)
CheckStopsOnce ==
    /\ pc = "check"
    /\ pc' = IF stop THEN "ended" ELSE "reset"
    /\ req' = IF stop /\ should_exit THEN Told ELSE req
    /\ should_exit' = (should_exit /\ ~stop)
    /\ UNCHANGED <<mode, missed, options, last, directs,
                   errors>>

(* Test of stop-service; while it is set, connections are told to close. *)
Check ==
    /\ pc = "check"
    /\ pc' = IF stop THEN "ended" ELSE "reset"
    /\ req' = IF stop THEN Told ELSE req
    /\ UNCHANGED <<should_exit, mode, missed, options,
                   last, directs, errors>>

(* The store of FALSE to SHOULD_EXIT. *)
Reset ==
    /\ pc = "reset"
    /\ pc' = "start"
    /\ should_exit' = FALSE
    /\ missed' = (stop /\ ~caller)
    /\ UNCHANGED <<mode, options, peers, directs, errors>>

(* start: the choice of the transport; then a registration runs. *)
Begin ==
    /\ pc = "start"
    /\ pc' = "running"
    /\ mode' = tcp_option
    /\ UNCHANGED <<should_exit, missed, options, peers,
                   directs, errors>>

(* A tick finds SHOULD_EXIT, or an error ends the registration.  The task  *)
(* sets SHOULD_EXIT, join_all returns and ONLINE is reset.                 *)
End ==
    /\ pc = "running"
    /\ \/ should_exit /\ UNCHANGED errors
       \/ errors < MaxFails /\ errors' = errors + 1
    /\ pc' = "ended"
    /\ should_exit' = TRUE
    /\ UNCHANGED <<mode, missed, options, peers, directs>>

(* The loop has slept for CONNECT_TIMEOUT or, after restart(), for 33 ms. *)
Wake ==
    /\ pc = "ended"
    /\ pc' = "check"
    /\ UNCHANGED <<should_exit, mode, missed, options,
                   peers, directs, errors>>

-----------------------------------------------------------------------------
(* Other threads: an option is set, then restart() stores to the flags.    *)
(* CheckIfRestart calls it only for a change.                              *)

SetOptions ==
    /\ ~caller /\ settings < MaxSettings
    /\ caller' = TRUE
    /\ settings' = settings + 1
    /\ \/ stop' = ~stop /\ UNCHANGED tcp_option
       \/ tcp_option' = ~tcp_option /\ UNCHANGED stop
    /\ UNCHANGED <<loop, peers, directs, errors>>

(* restart(): the second store only, and both. *)
RestartOnlyManual ==
    /\ caller
    /\ caller' = FALSE
    /\ UNCHANGED <<loop, stop, tcp_option, settings, peers, directs, errors>>

RestartMediator ==
    /\ caller
    /\ caller' = FALSE
    /\ should_exit' = TRUE
    /\ missed' = FALSE
    /\ UNCHANGED <<pc, mode, stop, tcp_option, settings, peers,
                   directs, errors>>

-----------------------------------------------------------------------------
(* The tasks of handle_punch_hole and handle_intranet (LAST_MSG) and of    *)
(* handle_request_relay (LAST_RELAY_MSG).                                  *)

Task(r, from, to) ==
    /\ req[r].state = from
    /\ req' = [req EXCEPT ![r].state = to]
    /\ UNCHANGED <<loop, options, last, directs, errors>>

(* A message of the rendezvous server; copies of it may have come before. *)
Arrive(r) ==
    /\ pc = "running"
    /\ req[r].state = "none"
    /\ \E a \in Addrs, l \in Locks :
          req' = [req EXCEPT ![r].state = "read", ![r].addr = a,
                             ![r].lock = l]
    /\ UNCHANGED <<loop, options, last, directs, errors>>

(* The first lock, with the store before the load. *)
ReadLastAfterStore(r) ==
    /\ req[r].state = "read"
    /\ req' = [req EXCEPT ![r].state = "write", ![r].seen = req[r].addr,
                          ![r].fresh = TRUE]
    /\ UNCHANGED <<loop, options, last, directs, errors>>

(* The first lock: a copy of what the last message was. *)
ReadLast(r) ==
    /\ req[r].state = "read"
    /\ LET l == last[req[r].lock] IN
       req' = [req EXCEPT ![r].state = "write", ![r].seen = l.addr,
                          ![r].fresh = l.fresh]
    /\ UNCHANGED <<loop, options, last, directs, errors>>

(* The second lock. *)
WriteLast(r) ==
    /\ req[r].state = "write"
    /\ req' = [req EXCEPT ![r].state = "decide"]
    /\ last' = [last EXCEPT ![req[r].lock] =
                    [addr |-> req[r].addr, fresh |-> TRUE]]
    /\ UNCHANGED <<loop, options, directs, errors>>

Decide(r) ==
    /\ req[r].state = "decide"
    /\ req' = [req EXCEPT ![r] = [NoRequest EXCEPT
                  !.addr = req[r].addr, !.lock = req[r].lock,
                  !.state = IF req[r].seen = req[r].addr /\ req[r].fresh
                            THEN "skipped" ELSE "serve"]]
    /\ UNCHANGED <<loop, options, last, directs, errors>>

(* 100 ms have passed since every message so far. *)
Elapse ==
    /\ last' = [l \in Locks |-> [last[l] EXCEPT !.fresh = FALSE]]
    /\ req' = [r \in Requests |-> [req[r] EXCEPT !.fresh = FALSE]]
    /\ UNCHANGED <<loop, options, directs, errors>>

(* A way to the peer is tried: intranet, hole or relay.  When the intranet *)
(* fails a relay is tried; a failure of the others ends the task.          *)
ServeRequest(r) ==
    \/ Task(r, "serve", "connected")
    \/ Task(r, "relay", "connected")
    \/ req[r].lock = "msg" /\ Task(r, "serve", "relay")
    \/ Task(r, "serve", "over")
    \/ Task(r, "relay", "over")

(* add_connection, or add_camera_connection, after a login. *)
Add(r) == Task(r, "connected", "added")

(* The connection ends since it was told to, or by itself. *)
Leave(r) == Task(r, "told", "over")
Hangup(r) == Task(r, "connected", "over") \/ Task(r, "added", "over")

-----------------------------------------------------------------------------
(* direct_server, when the option that allows it is set. *)

(* The head of the loop: read the options, listen or stop listening. *)
DirectCheck ==
    /\ direct = "check"
    /\ \/ stop /\ listener' = FALSE /\ UNCHANGED <<direct, errors>>
       \/ ~stop /\ listener' = TRUE /\ direct' = "accept" /\ UNCHANGED errors
       \/ /\ ~stop /\ ~listener /\ errors < MaxFails
          /\ errors' = errors + 1
          /\ direct' = "busy"
          /\ UNCHANGED listener
    /\ UNCHANGED <<loop, options, peers>>

(* Listening failed: wait until direct-access-port names another port. *)
DirectBusy ==
    /\ direct = "busy" /\ settings < MaxSettings
    /\ settings' = settings + 1
    /\ direct' = "check"
    /\ UNCHANGED <<loop, stop, tcp_option, caller, peers, listener, errors>>

DirectTimeout ==
    /\ direct = "accept"
    /\ direct' = "check"
    /\ UNCHANGED <<loop, options, peers, listener, errors>>

DirectAccept(r) ==
    /\ direct = "accept"
    /\ direct' = "check"
    /\ req[r].state = "none"
    /\ req' = [req EXCEPT ![r].state = "connected"]
    /\ UNCHANGED <<loop, options, last, listener, errors>>

-----------------------------------------------------------------------------
MediatorInit ==
    /\ pc = "check"
    /\ should_exit = FALSE
    /\ mode = FALSE /\ missed = FALSE
    /\ stop \in BOOLEAN /\ tcp_option \in BOOLEAN /\ caller = FALSE
    /\ last = [l \in Locks |-> [addr |-> NoAddr, fresh |-> FALSE]]
    /\ req = [r \in Requests |-> NoRequest]
    /\ listener = FALSE /\ direct = "check"
    /\ settings = 0 /\ errors = 0

StartAll == Check \/ Reset \/ Begin \/ End \/ Wake
Tasks(r) ==
    ReadLast(r) \/ WriteLast(r) \/ Decide(r) \/ ServeRequest(r) \/ Leave(r)
DirectServer == DirectCheck \/ DirectTimeout

MediatorNext ==
    \/ StartAll \/ SetOptions \/ RestartMediator \/ Elapse
    \/ DirectServer \/ DirectBusy
    \/ \E r \in Requests : Arrive(r) \/ Tasks(r) \/ Add(r)
                              \/ Hangup(r) \/ DirectAccept(r)

MediatorSpec == MediatorInit /\ [][MediatorNext]_mediatorVars

MediatorFairSpec ==
    /\ MediatorSpec
    /\ WF_mediatorVars(StartAll) /\ WF_mediatorVars(RestartMediator)
    /\ WF_mediatorVars(DirectServer)
    /\ \A r \in Requests : WF_mediatorVars(Tasks(r))

-----------------------------------------------------------------------------
MediatorTypeOK ==
    /\ pc \in {"check", "reset", "start", "running", "ended"}
    /\ {should_exit, mode, stop, tcp_option, caller, listener, missed}
          \subseteq BOOLEAN
    /\ last \in [Locks -> [addr : Addrs \cup {NoAddr}, fresh : BOOLEAN]]
    /\ req \in [Requests -> PeerRequest]
    /\ \A r \in Requests : req[r].state = "none" => req[r] = NoRequest
    /\ direct \in {"check", "busy", "accept"}
    /\ settings \in 0 .. MaxSettings /\ errors \in 0 .. MaxFails

(* A peer that asked is served by the task of one of its messages: copies  *)
(* of a message, whose tasks read and store LAST_MSG in any order, never   *)
(* take each other for the copy to serve.                                  *)
AskedIsServed ==
    \A r \in Requests : req[r].state = "skipped" =>
        \E s \in Requests \ {r} :
            /\ req[s].addr = req[r].addr /\ req[s].lock = req[r].lock
            /\ req[s].state \notin {"none", "skipped"}

(* Options are in force in the end: a registration runs, with the          *)
(* transport they ask for, or the service has stopped; except that         *)
(* stop-service is missed if it is set right after it was tested.          *)
InForce ==
    IF stop THEN pc \in {"ended", "check"}
            ELSE pc = "running" /\ mode = tcp_option
OptionsTakeEffect == []<>(InForce \/ missed)

(* While the service stays stopped nobody sees the screen, also by         *)
(* requests, direct accesses and logins that were under way when it was    *)
(* stopped.                                                                *)
StoppedMeansAlone ==
    []<>(stop /\ ~missed =>
            \A r \in Requests : req[r].state \notin {"added", "told"})
=============================================================================
