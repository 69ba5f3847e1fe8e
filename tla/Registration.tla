---------------------------- MODULE Registration ----------------------------
(***************************************************************************)
(* How this device registers its id and public key with the rendezvous     *)
(* server (src/rendezvous_mediator.rs), over UDP or over TCP, while a      *)
(* user gives the device another id, the service of root replaces the      *)
(* configuration (src/server.rs), and the server finds that the id belongs *)
(* to another device.                                                      *)
(*                                                                         *)
(* An answer of the server does not say which id or key it is about.  In   *)
(* the model messages carry both, but the device reads neither in an       *)
(* answer: they tell the properties what the answer was to.                *)
(*                                                                         *)
(* There is one server (start_all uses FORCED_RENDEZVOUS_SERVER only), so  *)
(* SOLVING_PK_MISMATCH never names another host and no test of it fails;   *)
(* using_public_server() is false, so the timeout of a registration never  *)
(* grows.  Time is counted in ticks of the loop's timer.                   *)
(***************************************************************************)
EXTENDS Integers, Sequences, SequencesExt

CONSTANTS
    Ids, RootId,        \* ids of devices; the id root's configuration has
    OwnPk, RootPk,      \* the key generated here and the key of root
    Foreign,            \* registered by another device
    NoPk, Forgotten,    \* not registered; no longer registered
    REG_INTERVAL, MIN_REG_TIMEOUT, DNS_INTERVAL,    \* in ticks
    KeepAlives,         \* values of keep_alive, in ticks
    DEFAULT_KEEP_ALIVE,
    MaxNet,             \* messages under way
    MaxFaults,          \* messages lost or repeated, errors, refusals
    MaxEdits            \* what users do

Pks == {OwnPk, RootPk}

ASSUME IdsAssumption == RootId \in Ids /\ Ids \ {RootId} # {}
ASSUME PksAssumption ==
    /\ OwnPk # RootPk
    /\ {Foreign, NoPk, Forgotten} \cap Pks = {}
    /\ NoPk # Foreign /\ NoPk # Forgotten /\ Forgotten # Foreign
ASSUME TimesAssumption ==
    /\ REG_INTERVAL \in Nat \ {0}
    /\ MIN_REG_TIMEOUT \in Nat \ {0}
    /\ DNS_INTERVAL \in Nat
    /\ KeepAlives \subseteq Nat \ {0}
    /\ DEFAULT_KEEP_ALIVE \in KeepAlives
ASSUME BoundsAssumption ==
    MaxNet \in Nat \ {0} /\ MaxFaults \in Nat /\ MaxEdits \in Nat

VARIABLES
    \* The loop of start_udp or start_tcp.
    phase,              \* "down", "udp" or "tcp"
    sent,               \* ticks since last_register_sent, or Never
    resp,               \* ticks since last_register_resp, or Never
    recv,               \* ticks since last_recv_msg (start_tcp)
    fails,
    measured,           \* ema_latency > 0
    dns,                \* ticks since last_dns_check
    keep_alive,
    marking,            \* register_pk has sent and not yet stored
    \* What the rest of the process shares.
    id, pk,             \* Config.id, KEY_PAIR
    key_confirmed, host_key_confirmed,
    online,             \* ONLINE: -1 offline, 0 not known, 1 a latency
    sent_register_pk,   \* SENT_REGISTER_PK
    tcp,                \* the options say proxy, websocket or no UDP
    edit,               \* an id that is being set, or Never
    sync,               \* of root's configuration: "todo", "check", "done"
    root_confirmed,     \* root's configuration says key_confirmed
    \* The server and the network.
    registry,           \* registry[i]: the key the server has for i
    toServer, toClient,
    faults, edits,
    \* History.
    raced,              \* id or key changed with a registration under way
    silence             \* ticks since the last answer, or since the start

session == <<sent, resp, recv, fails, measured, dns, keep_alive>>
identity == <<id, pk, key_confirmed, host_key_confirmed>>
net == <<toServer, toClient>>
others == <<tcp, edit, sync, root_confirmed, edits>>
vars == <<phase, session, marking, identity, online, sent_register_pk,
          others, registry, net, faults, raced, silence>>

MAX_FAILS1 == 2
MAX_FAILS2 == 4

Never == -1

Request == [type : {"peer", "pk"}, id : Ids, pk : Pks, live : BOOLEAN]
Answer ==
    [type : {"known", "request_pk", "ok", "mismatch", "refused", "heartbeat"},
     id : Ids, pk : Pks, keep_alive : KeepAlives \cup {0}]

(* How long the server can be silent before it is no longer shown online. *)
Patience ==
    IF phase = "tcp" THEN (3 * keep_alive) \div 2 + 1
                     ELSE REG_INTERVAL + MAX_FAILS1 * MIN_REG_TIMEOUT

Later(age, cap) == IF age = Never \/ age >= cap THEN age ELSE age + 1

(* A registration, or its acceptance, is under way. *)
InFlight(requests, answers) ==
    \/ marking
    \/ \E i \in DOMAIN requests : requests[i].type = "pk"
    \/ \E i \in DOMAIN answers : answers[i].type = "ok"

Fault == faults < MaxFaults /\ faults' = faults + 1

-----------------------------------------------------------------------------
(* What this device sends. *)

(* RegisterPk carries the identity and the key of this moment. *)
RegisterPkMsg(i, k) == [type |-> "pk", id |-> i, pk |-> k, live |-> TRUE]

(* The socket, or the connection, is closed: no answer reaches it. *)
Abandon(requests) ==
    [n \in DOMAIN requests |-> [requests[n] EXCEPT !.live = FALSE]]

(* A full network loses a datagram. *)
Send(requests, m) ==
    toServer' = IF phase = "udp" /\ Len(requests) + Len(toClient') >= MaxNet
                THEN requests ELSE Append(requests, m)

register_pk(requests, i) ==
    /\ Send(requests, RegisterPkMsg(i, pk))
    /\ marking' = TRUE

(* A device that has not been confirmed registers its key instead. *)
register_peer(requests) ==
    IF ~key_confirmed \/ ~host_key_confirmed
    THEN register_pk(requests, id)
    ELSE /\ Send(requests,
                [type |-> "peer", id |-> id, pk |-> pk, live |-> TRUE])
         /\ UNCHANGED marking

(* The store that follows the send in register_pk. *)
StoreSent ==
    /\ marking
    /\ marking' = FALSE
    /\ sent_register_pk' = TRUE
    /\ UNCHANGED <<phase, session, identity, online, others, registry, net,
                   faults, raced, silence>>

-----------------------------------------------------------------------------
(* start_udp, start_tcp and what ends them. *)

Start ==
    /\ phase = "down"
    /\ phase' = IF tcp THEN "tcp" ELSE "udp"
    /\ sent' = Never /\ resp' = Never
    /\ recv' = 0 /\ fails' = 0 /\ dns' = 0
    /\ measured' = FALSE
    /\ keep_alive' = DEFAULT_KEEP_ALIVE
    /\ host_key_confirmed' = (host_key_confirmed /\ ~tcp)
    /\ silence' = 0
    /\ UNCHANGED <<marking, id, pk, key_confirmed, online, sent_register_pk,
                   others, registry, net, faults, raced>>

(* The loop ends; start_all calls Config::reset_online. *)
Exit ==
    /\ phase # "down"
    /\ ~marking
    /\ phase' = "down"
    /\ toServer' = Abandon(toServer)
    /\ toClient' = <<>>
    /\ online' = 0
    /\ UNCHANGED <<session, marking, identity, sent_register_pk, registry,
                   raced, silence>>

(* Options have been changed and restart() called. *)
Restart ==
    /\ Exit
    /\ edits < MaxEdits
    /\ edits' = edits + 1
    /\ tcp' \in BOOLEAN
    /\ UNCHANGED <<edit, sync, root_confirmed, faults>>

(* A send or a receive fails. *)
Fail == Exit /\ Fault /\ UNCHANGED others

UdpTickLater ==
    /\ resp' = Later(resp, REG_INTERVAL)
    /\ dns' = Later(dns, DNS_INTERVAL + 1)
    /\ silence' = Later(silence, Patience)

(* The timer of start_udp: nothing to do. *)
UdpWait ==
    /\ phase = "udp" /\ ~marking
    /\ UdpTickLater
    /\ sent' = Later(sent, MIN_REG_TIMEOUT)
    /\ IF sent = Never THEN resp # Never /\ resp' < REG_INTERVAL
                       ELSE sent' < MIN_REG_TIMEOUT
    /\ UNCHANGED <<phase, recv, fails, measured, keep_alive, marking,
                   identity, online, sent_register_pk, others, registry, net,
                   faults, raced>>

(* The timer of start_udp: the last answer is old. *)
UdpRegister ==
    /\ phase = "udp" /\ ~marking
    /\ sent = Never
    /\ UdpTickLater
    /\ resp # Never => resp' >= REG_INTERVAL
    /\ sent' = 0
    /\ UNCHANGED toClient
    /\ register_peer(toServer)
    /\ UNCHANGED <<phase, recv, fails, measured, keep_alive, identity,
                   online, sent_register_pk, others, registry, faults,
                   raced>>

(* What is shown after n timeouts; first, one timeout too late. *)
ShownAfterLate(n) ==
    IF n >= MAX_FAILS2 THEN -1 ELSE IF n > MAX_FAILS1 THEN 0 ELSE online

ShownAfter(n) ==
    IF n >= MAX_FAILS2 THEN -1 ELSE IF n >= MAX_FAILS1 THEN 0 ELSE online

(* The timer of start_udp: no answer in time.  After MAX_FAILS2 of these   *)
(* the name is looked up again now and then, and a new socket is bound.    *)
UdpTimeout ==
    /\ phase = "udp" /\ ~marking
    /\ sent # Never
    /\ sent + 1 >= MIN_REG_TIMEOUT
    /\ resp' = Later(resp, REG_INTERVAL)
    /\ silence' = Later(silence, Patience)
    /\ fails' = Later(fails, MAX_FAILS2)
    /\ online' = ShownAfter(fails')
    /\ sent' = 0
    /\ LET lookup == fails' = MAX_FAILS2 /\ dns >= DNS_INTERVAL
       IN /\ dns' = IF lookup THEN 0 ELSE Later(dns, DNS_INTERVAL + 1)
          /\ toClient' = IF lookup THEN <<>> ELSE toClient
          /\ register_peer(IF lookup THEN Abandon(toServer) ELSE toServer)
    /\ UNCHANGED <<phase, recv, measured, keep_alive, identity,
                   sent_register_pk, others, registry, faults, raced>>

TcpTickLater ==
    /\ phase = "tcp" /\ ~marking
    /\ recv + 1 <= (3 * keep_alive) \div 2
    /\ recv' = recv + 1
    /\ silence' = Later(silence, Patience)
    /\ UNCHANGED <<phase, resp, fails, measured, dns, keep_alive, identity,
                   online, sent_register_pk, others, registry, toClient,
                   faults, raced>>

(* The timer of start_tcp: only a key that is not confirmed is registered. *)
Unconfirmed ==
    /\ ~key_confirmed \/ ~host_key_confirmed
    /\ sent # Never => sent + 1 >= REG_INTERVAL

TcpWait ==
    /\ TcpTickLater
    /\ ~Unconfirmed
    /\ sent' = Later(sent, REG_INTERVAL)
    /\ UNCHANGED <<toServer, marking>>

TcpRegister ==
    /\ TcpTickLater
    /\ Unconfirmed
    /\ Len(toServer) + Len(toClient) < MaxNet
    /\ sent' = 0
    /\ register_pk(toServer, id)

(* Nothing was received for one and a half times keep_alive.  The server   *)
(* sends something more often; that it does not is a fault.                *)
TcpDead ==
    /\ phase = "tcp"
    /\ recv + 1 > (3 * keep_alive) \div 2
    /\ Exit /\ Fault
    /\ UNCHANGED others

-----------------------------------------------------------------------------
(* handle_resp *)

(* Which messages the network can deliver: any over UDP, over TCP those of *)
(* the connection in their order.                                          *)
Arrives(requests, i) ==
    phase = "tcp" /\ requests[i].live =>
        \A j \in 1 .. i - 1 : ~requests[j].live

(* The message is taken from the network, or once more taken by mistake.   *)
Taken(wire, i, rest) ==
    \/ rest = RemoveAt(wire, i) /\ UNCHANGED faults
    \/ phase # "tcp" /\ rest = wire /\ Fault

(* update_latency: a slow answer is an answer, but shows nothing. *)
update_latency ==
    /\ silence' = 0
    /\ IF phase = "tcp"
       THEN /\ recv' = 0
            /\ online' = IF sent = Never THEN 0 ELSE 1
            /\ UNCHANGED <<sent, resp, fails, measured>>
       ELSE /\ sent' = Never /\ resp' = 0 /\ fails' = 0
            /\ UNCHANGED recv
            /\ IF sent \in {Never, 0}
               THEN /\ measured' = (measured \/ sent = 0)
                    /\ online' = IF measured' THEN 1 ELSE 0
               ELSE UNCHANGED <<measured, online>>

Receive(type) ==
    \E i \in DOMAIN toClient :
        /\ phase # "down" /\ ~marking
        /\ toClient[i].type = type
        /\ phase = "tcp" => i = 1
        /\ \E rest \in {RemoveAt(toClient, i), toClient} :
              Taken(toClient, i, rest) /\ toClient' = rest
        /\ keep_alive' = IF toClient[i].keep_alive > 0
                         THEN toClient[i].keep_alive ELSE keep_alive
        /\ UNCHANGED <<phase, dns, pk, sent_register_pk, others, registry>>

OnKnown ==
    /\ Receive("known") /\ update_latency
    /\ UNCHANGED <<toServer, marking, id, key_confirmed, host_key_confirmed,
                   raced>>

(* The same without an answer to request_pk. *)
OnRequestPkIgnored ==
    /\ Receive("request_pk") /\ update_latency
    /\ UNCHANGED <<toServer, marking, id, key_confirmed, host_key_confirmed,
                   raced>>

OnRequestPk ==
    /\ Receive("request_pk") /\ update_latency
    /\ register_pk(toServer, id)
    /\ UNCHANGED <<id, key_confirmed, host_key_confirmed, raced>>

OnOk ==
    /\ Receive("ok") /\ update_latency
    /\ key_confirmed' = TRUE
    /\ host_key_confirmed' = TRUE
    /\ UNCHANGED <<toServer, marking, id, raced>>

(* A result other than OK and UUID_MISMATCH is only logged. *)
OnRefused ==
    /\ Receive("refused") /\ update_latency
    /\ UNCHANGED <<toServer, marking, id, key_confirmed, host_key_confirmed,
                   raced>>

(* handle_uuid_mismatch: take another id, at random, and register it. *)
OnMismatch ==
    /\ Receive("mismatch") /\ update_latency
    /\ key_confirmed' = FALSE
    /\ host_key_confirmed' = (host_key_confirmed /\ ~key_confirmed)
    /\ \E new \in Ids \ {id} :
          id' = new /\ register_pk(toServer, new)
    /\ raced' = (raced \/ InFlight(toServer, toClient'))

(* An empty message; the device sends one back. *)
OnHeartbeat ==
    /\ Receive("heartbeat")
    /\ recv' = 0
    /\ silence' = 0
    /\ UNCHANGED <<sent, resp, fails, measured, online, toServer, marking,
                   id, key_confirmed, host_key_confirmed, raced>>

-----------------------------------------------------------------------------
(* The rest of the process. *)

(* change_id_shared has asked the server for a new id and got it: the ipc  *)
(* handler clears the confirmation and then, in a second step, sets the id.*)
EditClears ==
    /\ edit = Never /\ edits < MaxEdits
    /\ \E new \in Ids \ {id} :
          /\ registry[new] # Foreign
          /\ edit' = new
    /\ edits' = edits + 1
    /\ key_confirmed' = FALSE
    /\ host_key_confirmed' = (host_key_confirmed /\ ~key_confirmed)
    /\ UNCHANGED <<phase, session, marking, id, pk, online, sent_register_pk,
                   tcp, sync, root_confirmed, registry, net, faults, raced,
                   silence>>

EditSets ==
    /\ edit # Never
    /\ edit' = Never
    /\ id' = edit
    /\ raced' = (raced \/ key_confirmed \/ InFlight(toServer, toClient))
    /\ UNCHANGED <<phase, session, marking, pk, key_confirmed,
                   host_key_confirmed, online, sent_register_pk, tcp, sync,
                   root_confirmed, edits, registry, net, faults, silence>>

(* sync_and_watch_config_dir, on macOS: the configuration of root replaces *)
(* this one, and Config::set drops the cached key.  Not modelled is Linux, *)
(* where Config::set keeps that key and no CheckIfResendPk follows.        *)
SyncSets ==
    /\ sync = "todo"
    /\ sync' = "check"
    /\ id' = RootId /\ pk' = RootPk
    /\ key_confirmed' = root_confirmed
    /\ host_key_confirmed' = root_confirmed
    /\ raced' = (raced \/ InFlight(toServer, toClient))
    /\ UNCHANGED <<phase, session, marking, online, sent_register_pk, tcp,
                   edit, root_confirmed, edits, registry, net, faults,
                   silence>>

(* The drop of CheckIfResendPk; first, as if it forgot what it is for. *)
CheckIfResendPkNever ==
    /\ sync = "check"
    /\ sync' = "done"
    /\ UNCHANGED <<phase, session, marking, identity, online,
                   sent_register_pk, tcp, edit, root_confirmed, edits,
                   registry, net, faults, raced, silence>>

CheckIfResendPk ==
    /\ sync = "check"
    /\ sync' = "done"
    /\ key_confirmed' = (key_confirmed /\ ~sent_register_pk)
    /\ host_key_confirmed' =
          (host_key_confirmed /\ ~(sent_register_pk /\ key_confirmed))
    /\ UNCHANGED <<phase, session, marking, id, pk, online, sent_register_pk,
                   tcp, edit, root_confirmed, edits, registry, net, faults,
                   raced, silence>>

-----------------------------------------------------------------------------
(* The server and the network, which are not part of the repository.       *)

Serve(i, answers) ==
    /\ toServer' = RemoveAt(toServer, i)
    /\ IF toServer[i].live /\ phase # "down"
       THEN \E type \in answers, k \in KeepAlives \cup {0} :
              /\ (type \in {"known", "request_pk"} => k = 0)
              /\ toClient' = Append(toClient,
                    [type |-> type, id |-> toServer[i].id,
                     pk |-> toServer[i].pk, keep_alive |-> k])
       ELSE UNCHANGED toClient
    /\ UNCHANGED <<phase, session, marking, identity, online,
                   sent_register_pk, others, raced, silence>>

ServePeer ==
    \E i \in DOMAIN toServer :
        /\ toServer[i].type = "peer" /\ Arrives(toServer, i)
        /\ Serve(i, IF registry[toServer[i].id] \in Pks
                    THEN {"known"} ELSE {"request_pk"})
        /\ UNCHANGED <<registry, faults>>

ServePk ==
    \E i \in DOMAIN toServer :
        /\ toServer[i].type = "pk" /\ Arrives(toServer, i)
        /\ IF registry[toServer[i].id] = Foreign
           THEN Serve(i, {"mismatch"}) /\ UNCHANGED registry
           ELSE /\ Serve(i, {"ok"})
                /\ registry' =
                      [registry EXCEPT ![toServer[i].id] = toServer[i].pk]
        /\ UNCHANGED faults

ServerRefuses ==
    \E i \in DOMAIN toServer :
        /\ toServer[i].type = "pk" /\ Arrives(toServer, i)
        /\ Serve(i, {"refused"}) /\ Fault
        /\ UNCHANGED registry

ServerHeartbeat ==
    /\ phase = "tcp" /\ toClient = <<>> /\ recv > 0
    /\ toClient' = <<[type |-> "heartbeat", id |-> id, pk |-> pk,
                      keep_alive |-> 0]>>
    /\ UNCHANGED <<phase, session, marking, identity, online,
                   sent_register_pk, others, registry, toServer, faults,
                   raced, silence>>

ServerForgets ==
    /\ Fault
    /\ registry[id] \in Pks
    /\ registry' = [registry EXCEPT ![id] = Forgotten]
    /\ UNCHANGED <<phase, session, marking, identity, online,
                   sent_register_pk, others, net, raced, silence>>

Lose ==
    /\ phase # "tcp" /\ Fault
    /\ \/ /\ \E i \in DOMAIN toServer : toServer' = RemoveAt(toServer, i)
          /\ UNCHANGED toClient
       \/ /\ \E i \in DOMAIN toClient : toClient' = RemoveAt(toClient, i)
          /\ UNCHANGED toServer
    /\ UNCHANGED <<phase, session, marking, identity, online,
                   sent_register_pk, others, registry, raced, silence>>

-----------------------------------------------------------------------------
Init ==
    /\ phase = "down"
    /\ sent = Never /\ resp = Never /\ recv = 0
    /\ fails = 0 /\ measured = FALSE /\ dns = 0
    /\ keep_alive = DEFAULT_KEEP_ALIVE
    /\ marking = FALSE
    /\ id = RootId /\ pk = OwnPk
    /\ online = 0 /\ sent_register_pk = FALSE
    /\ tcp \in BOOLEAN /\ edit = Never /\ sync = "todo"
    /\ toServer = <<>> /\ toClient = <<>>
    /\ faults = 0 /\ edits = 0 /\ raced = FALSE /\ silence = 0
    \* An earlier process, or root's, may have registered.
    /\ \E had \in {NoPk, Foreign, OwnPk, RootPk} :
          /\ registry = [i \in Ids |-> IF i = RootId THEN had ELSE NoPk]
          /\ key_confirmed = (had = OwnPk)
          /\ root_confirmed = (had = RootPk)
    /\ host_key_confirmed = key_confirmed

Loop == Start \/ UdpWait \/ UdpRegister \/ UdpTimeout \/ TcpWait
           \/ TcpRegister \/ TcpDead \/ StoreSent
Resp == OnKnown \/ OnRequestPk \/ OnOk \/ OnRefused \/ OnMismatch
           \/ OnHeartbeat
Process == EditClears \/ EditSets \/ SyncSets \/ CheckIfResendPk
Server == ServePeer \/ ServePk \/ ServerRefuses \/ ServerHeartbeat
             \/ ServerForgets

Next == Loop \/ Restart \/ Fail \/ Resp \/ Process \/ Server \/ Lose

Spec == Init /\ [][Next]_vars

Answered == toClient' # toClient

(* The timer ticks and tasks run.  The server serves, and its answers are  *)
(* not for ever too late for the socket they are sent to.  Root's          *)
(* configuration need not come.                                            *)
Fairness ==
    /\ WF_vars(Loop)
    /\ WF_vars(EditSets) /\ WF_vars(CheckIfResendPk)
    /\ WF_vars(ServerHeartbeat) /\ WF_vars(ServePeer \/ ServePk)
    /\ SF_vars(ServePeer /\ Answered) /\ SF_vars(ServePk /\ Answered)
    /\ SF_vars(OnKnown \/ OnRequestPk \/ OnOk \/ OnRefused \/ OnMismatch)
    /\ WF_vars(OnHeartbeat)

FairSpec == Spec /\ Fairness

-----------------------------------------------------------------------------
TypeOK ==
    /\ phase \in {"down", "udp", "tcp"}
    /\ sent \in Nat \cup {Never} /\ resp \in Nat \cup {Never}
    /\ recv \in Nat
    /\ fails \in 0 .. MAX_FAILS2
    /\ measured \in BOOLEAN
    /\ dns \in 0 .. DNS_INTERVAL + 1
    /\ keep_alive \in KeepAlives
    /\ marking \in BOOLEAN
    /\ id \in Ids /\ pk \in Pks
    /\ key_confirmed \in BOOLEAN /\ host_key_confirmed \in BOOLEAN
    /\ online \in {-1, 0, 1}
    /\ sent_register_pk \in BOOLEAN /\ tcp \in BOOLEAN
    /\ edit \in Ids \cup {Never}
    /\ sync \in {"todo", "check", "done"}
    /\ root_confirmed \in BOOLEAN
    /\ registry \in [Ids -> Pks \cup {Foreign, NoPk, Forgotten}]
    /\ toServer \in Seq(Request) /\ toClient \in Seq(Answer)
    /\ faults \in Nat /\ edits \in Nat
    /\ raced \in BOOLEAN /\ silence \in Nat

(* A device that takes its key to be confirmed is registered, with that id *)
(* and key, unless the server has forgotten it, or the id or the key was   *)
(* changed while a registration of the old one was under way.              *)
ConfirmedMeansRegistered ==
    key_confirmed /\ host_key_confirmed /\ ~raced /\ sync # "check" =>
        registry[id] \in {pk, Forgotten}

(* The user interface shows a latency only if the server has answered      *)
(* recently: the two timeouts that withdraw it, and the keep-alive over    *)
(* TCP, cannot be put off by slow, repeated or late answers.               *)
ShownOnlineIsRecent == online = 1 => silence < Patience

(* In the end the server has the current id and key, whatever was changed, *)
(* lost, refused or forgotten.  Over TCP, where nothing is sent once the   *)
(* key is confirmed, this needs that no change raced with a registration   *)
(* and that the server does not forget; a new key needs the former too.    *)
RegisteredInTheEnd ==
    []<>(\/ registry[id] = pk
         \/ raced /\ (tcp \/ pk = RootPk)
         \/ tcp /\ registry[id] = Forgotten)
=============================================================================
