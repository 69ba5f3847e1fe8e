-------------------------- MODULE RendezvousProofs --------------------------
(***************************************************************************)
(* Proofs about src/rendezvous_mediator.rs.  Registration, for every set   *)
(* of ids and all intervals: the device shows the server as online only    *)
(* while it answers, and takes its key to be confirmed only if it is       *)
(* registered.  Mediator, for any number of messages, addresses and        *)
(* changes of options: a peer that asked is served by the task of one of   *)
(* its messages.                                                           *)
(***************************************************************************)
EXTENDS Registration, Mediator, SequenceTheorems, TLAPS

-----------------------------------------------------------------------------
(* Messages under way. *)

HasPk(s) == \E n \in DOMAIN s : s[n].type = "pk"
HasOk(s) == \E n \in DOMAIN s : s[n].type = "ok"
AllFor(s, i, k) ==
    \A n \in DOMAIN s : s[n].type = "pk" => s[n].id = i /\ s[n].pk = k

LEMMA RemoveAtProperties ==
    ASSUME NEW S, NEW s \in Seq(S), NEW i \in DOMAIN s
    PROVE  /\ RemoveAt(s, i) \in Seq(S)
           /\ \A j \in DOMAIN RemoveAt(s, i) :
                 \E k \in DOMAIN s : RemoveAt(s, i)[j] = s[k]
<1> DEFINE a == SubSeq(s, 1, i - 1)
           b == SubSeq(s, i + 1, Len(s))
<1>1. i \in 1 .. Len(s) /\ Len(s) \in Nat
    OBVIOUS
<1>2. /\ a \in Seq(S)
      /\ Len(a) = i - 1
      /\ \A j \in 1 .. i - 1 : a[j] = s[j]
  <2>1. \A j \in 1 .. i - 1 : s[j] \in S
      BY <1>1
  <2>2. 1 \in Int /\ i - 1 \in Int
      BY <1>1
  <2> HIDE DEF a
  <2>3. /\ SubSeq(s, 1, i - 1) \in Seq(S)
        /\ Len(SubSeq(s, 1, i - 1)) =
              IF 1 <= i - 1 THEN i - 1 - 1 + 1 ELSE 0
        /\ \A j \in 1 .. i - 1 - 1 + 1 :
              SubSeq(s, 1, i - 1)[j] = s[1 + j - 1]
      BY ONLY <2>1, <2>2, SubSeqProperties
  <2> QED BY <1>1, <2>3 DEF a
<1>3. /\ b \in Seq(S)
      /\ Len(b) = Len(s) - i
      /\ \A j \in 1 .. Len(s) - i : b[j] = s[i + j]
  <2>1. \A j \in i + 1 .. Len(s) : s[j] \in S
      BY <1>1
  <2>2. i + 1 \in Int /\ Len(s) \in Int
      BY <1>1
  <2>3. /\ SubSeq(s, i + 1, Len(s)) \in Seq(S)
        /\ Len(SubSeq(s, i + 1, Len(s))) =
              IF i + 1 <= Len(s) THEN Len(s) - (i + 1) + 1 ELSE 0
        /\ \A j \in 1 .. Len(s) - (i + 1) + 1 :
              SubSeq(s, i + 1, Len(s))[j] = s[i + 1 + j - 1]
      BY ONLY <2>1, <2>2, SubSeqProperties
  <2> QED BY <1>1, <2>3
<1> HIDE DEF a, b
<1>4. /\ a \o b \in Seq(S)
      /\ Len(a \o b) = Len(a) + Len(b)
      /\ \A j \in 1 .. Len(a) + Len(b) :
            (a \o b)[j] = IF j <= Len(a) THEN a[j] ELSE b[j - Len(a)]
    BY <1>2, <1>3, ConcatProperties
<1>5. RemoveAt(s, i) = a \o b
    BY DEF RemoveAt, a, b
<1>6. ASSUME NEW j \in DOMAIN (a \o b)
      PROVE  \E k \in DOMAIN s : (a \o b)[j] = s[k]
  <2>1. j \in 1 .. Len(s) - 1
      BY <1>1, <1>2, <1>3, <1>4, <1>6
  <2>2. Len(a) + Len(b) = Len(s) - 1
      BY <1>1, <1>2, <1>3
  <2>3. (a \o b)[j] = IF j <= i - 1 THEN a[j] ELSE b[j - (i - 1)]
      BY <1>2, <1>4, <2>1, <2>2
  <2>4. CASE j <= i - 1
    <3>1. j \in 1 .. i - 1 /\ j \in DOMAIN s
        BY <1>1, <2>1, <2>4
    <3> QED BY <1>2, <2>3, <2>4, <3>1
  <2>5. CASE j > i - 1
    <3>1. j - (i - 1) \in 1 .. Len(s) - i
        BY <1>1, <2>1, <2>5
    <3>2. b[j - (i - 1)] = s[i + (j - (i - 1))]
        BY <1>3, <3>1
    <3>3. i + (j - (i - 1)) \in DOMAIN s
        BY <1>1, <3>1
    <3>4. (a \o b)[j] = b[j - (i - 1)]
        BY <1>1, <2>1, <2>3, <2>5
    <3> QED BY <3>2, <3>3, <3>4
  <2> QED BY <1>1, <2>1, <2>4, <2>5
<1> QED BY <1>4, <1>5, <1>6

LEMMA RequestRemoved ==
    ASSUME NEW s \in Seq(Request), NEW n \in DOMAIN s
    PROVE  /\ RemoveAt(s, n) \in Seq(Request)
           /\ HasPk(RemoveAt(s, n)) => HasPk(s)
           /\ \A i, k : AllFor(s, i, k) => AllFor(RemoveAt(s, n), i, k)
BY RemoveAtProperties DEF HasPk, AllFor

LEMMA AnswerRemoved ==
    ASSUME NEW s \in Seq(Answer), NEW n \in DOMAIN s
    PROVE  /\ RemoveAt(s, n) \in Seq(Answer)
           /\ HasOk(RemoveAt(s, n)) => HasOk(s)
BY RemoveAtProperties DEF HasOk

LEMMA Abandoned ==
    ASSUME NEW s \in Seq(Request)
    PROVE  /\ Abandon(s) \in Seq(Request)
           /\ HasPk(Abandon(s)) => HasPk(s)
           /\ \A i, k : AllFor(s, i, k) => AllFor(Abandon(s), i, k)
<1>1. DOMAIN Abandon(s) = 1 .. Len(s)
    BY DEF Abandon
<1>2. \A n \in 1 .. Len(s) :
         /\ Abandon(s)[n] \in Request
         /\ Abandon(s)[n].type = s[n].type
         /\ Abandon(s)[n].id = s[n].id
         /\ Abandon(s)[n].pk = s[n].pk
  <2> SUFFICES ASSUME NEW n \in 1 .. Len(s)
               PROVE  /\ Abandon(s)[n] \in Request
                      /\ Abandon(s)[n].type = s[n].type
                      /\ Abandon(s)[n].id = s[n].id
                      /\ Abandon(s)[n].pk = s[n].pk
      OBVIOUS
  <2>1. s[n] \in Request /\ n \in DOMAIN s
      OBVIOUS
  <2>2. Abandon(s)[n] = [s[n] EXCEPT !.live = FALSE]
      BY <2>1 DEF Abandon
  <2> QED BY <2>1, <2>2 DEF Request
<1>3. Abandon(s) \in Seq(Request)
    BY <1>1, <1>2 DEF Abandon
<1> QED BY <1>1, <1>2, <1>3 DEF HasPk, AllFor

LEMMA Sent ==
    ASSUME NEW s \in Seq(Request), NEW m \in Request, Send(s, m)
    PROVE  /\ toServer' \in Seq(Request)
           /\ m.type # "pk" /\ HasPk(toServer') => HasPk(s)
           /\ AllFor(s, m.id, m.pk) => AllFor(toServer', m.id, m.pk)
<1>1. CASE toServer' = s
    BY <1>1
<1>2. CASE toServer' = Append(s, m)
  <2>1. /\ toServer' \in Seq(Request)
        /\ DOMAIN toServer' = 1 .. Len(s) + 1
        /\ \A n \in 1 .. Len(s) : toServer'[n] = s[n]
        /\ toServer'[Len(s) + 1] = m
      BY <1>2
  <2>2. \A n \in DOMAIN toServer' : n \in DOMAIN s \/ n = Len(s) + 1
      BY <2>1
  <2> QED BY <2>1, <2>2 DEF HasPk, AllFor
<1> QED BY <1>1, <1>2 DEF Send

(* What register_pk and register_peer do to the messages under way. *)
LEMMA RegisteredPk ==
    ASSUME NEW s \in Seq(Request), NEW i \in Ids, pk \in Pks,
           register_pk(s, i)
    PROVE  /\ toServer' \in Seq(Request) /\ marking' = TRUE
           /\ AllFor(s, i, pk) => AllFor(toServer', i, pk)
<1>1. RegisterPkMsg(i, pk) \in Request
    BY DEF RegisterPkMsg, Request
<1>2. RegisterPkMsg(i, pk).id = i /\ RegisterPkMsg(i, pk).pk = pk
    BY DEF RegisterPkMsg
<1> QED BY <1>1, <1>2, Sent DEF register_pk

LEMMA RegisteredPeer ==
    ASSUME NEW s \in Seq(Request), id \in Ids, pk \in Pks,
           marking \in BOOLEAN, register_peer(s)
    PROVE  /\ toServer' \in Seq(Request) /\ marking' \in BOOLEAN
           /\ AllFor(s, id, pk) => AllFor(toServer', id, pk)
           /\ ~marking' /\ HasPk(toServer') => HasPk(s)
<1>1. CASE register_pk(s, id)
    BY <1>1, RegisteredPk
<1>2. CASE ~(~key_confirmed \/ ~host_key_confirmed)
  <2> DEFINE m == [type |-> "peer", id |-> id, pk |-> pk, live |-> TRUE]
  <2>1. m \in Request /\ m.type # "pk" /\ m.id = id /\ m.pk = pk
      BY DEF Request
  <2>2. Send(s, m) /\ marking' = marking
      BY <1>2 DEF register_peer
  <2> HIDE DEF m
  <2> QED BY <2>1, <2>2, Sent
<1> QED BY <1>1, <1>2 DEF register_peer

LEMMA LaterAge ==
    ASSUME NEW cap \in Nat, NEW a \in Nat \cup {Never}
    PROVE  Later(a, cap) \in Nat \cup {Never}
BY DEF Later, Never

LEMMA LaterNat ==
    ASSUME NEW cap \in Nat, NEW a \in Nat
    PROVE  /\ Later(a, cap) \in Nat /\ Later(a, cap) <= a + 1
           /\ a <= cap => Later(a, cap) \in 0 .. cap
           /\ a < cap => Later(a, cap) = a + 1
BY DEF Later, Never

-----------------------------------------------------------------------------
(* Types. *)

ConfigOK ==
    /\ id \in Ids /\ pk \in Pks
    /\ key_confirmed \in BOOLEAN /\ host_key_confirmed \in BOOLEAN
    /\ online \in {-1, 0, 1}
    /\ sent_register_pk \in BOOLEAN /\ tcp \in BOOLEAN
    /\ edit \in Ids \cup {Never}
    /\ sync \in {"todo", "check", "done"}
    /\ root_confirmed \in BOOLEAN
    /\ edits \in Nat /\ raced \in BOOLEAN

LoopOK ==
    /\ phase \in {"down", "udp", "tcp"}
    /\ sent \in Nat \cup {Never} /\ resp \in Nat \cup {Never}
    /\ recv \in Nat
    /\ fails \in 0 .. MAX_FAILS2
    /\ measured \in BOOLEAN
    /\ dns \in 0 .. DNS_INTERVAL + 1
    /\ keep_alive \in KeepAlives
    /\ marking \in BOOLEAN
    /\ silence \in Nat

NetOK ==
    /\ registry \in [Ids -> Pks \cup {Foreign, NoPk, Forgotten}]
    /\ toServer \in Seq(Request) /\ toClient \in Seq(Answer)
    /\ faults \in Nat

LEMMA TypeParts == TypeOK <=> ConfigOK /\ LoopOK /\ NetOK
BY DEF TypeOK, ConfigOK, LoopOK, NetOK

LEMMA InitType == Init => TypeOK
<1> SUFFICES ASSUME Init PROVE TypeOK
    OBVIOUS
<1>1. PICK had \in {NoPk, Foreign, OwnPk, RootPk} :
         /\ registry = [i \in Ids |-> IF i = RootId THEN had ELSE NoPk]
         /\ key_confirmed = (had = OwnPk)
         /\ root_confirmed = (had = RootPk)
    BY DEF Init
<1>2. ConfigOK
  <2>1. /\ key_confirmed \in BOOLEAN /\ root_confirmed \in BOOLEAN
        /\ host_key_confirmed \in BOOLEAN
      BY <1>1, Zenon DEF Init
  <2> QED BY <2>1, IdsAssumption DEF Init, ConfigOK, Pks
<1>3. LoopOK
  <2>1. /\ phase = "down" /\ sent = Never /\ resp = Never
        /\ recv = 0 /\ fails = 0 /\ measured = FALSE /\ dns = 0
        /\ keep_alive = DEFAULT_KEEP_ALIVE
        /\ marking = FALSE /\ silence = 0
      BY DEF Init
  <2>2. 0 \in 0 .. DNS_INTERVAL + 1 /\ 0 \in 0 .. MAX_FAILS2
      BY TimesAssumption DEF MAX_FAILS2
  <2> QED BY <2>1, <2>2, TimesAssumption DEF LoopOK
<1>4. NetOK
    BY <1>1 DEF Init, NetOK, Pks
<1> QED BY <1>2, <1>3, <1>4, TypeParts

LEMMA PatienceType == TypeOK => Patience \in Nat \ {0}
<1> SUFFICES ASSUME TypeOK PROVE Patience \in Nat \ {0}
    OBVIOUS
<1>1. keep_alive \in Nat \ {0}
    BY TimesAssumption DEF TypeOK
<1>2. \A k \in Nat \ {0} : (3 * k) \div 2 \in Nat
    OBVIOUS
<1> QED BY <1>1, <1>2, TimesAssumption DEF Patience, MAX_FAILS1

LEMMA ReceiveTypes ==
    ASSUME TypeOK, NEW type, Receive(type)
    PROVE  /\ toClient' \in Seq(Answer) /\ faults' \in Nat
           /\ HasOk(toClient') => HasOk(toClient)
           /\ type = "ok" => HasOk(toClient)
           /\ keep_alive' \in KeepAlives
           /\ UNCHANGED <<phase, dns, pk, sent_register_pk, others, registry>>
           /\ phase # "down" /\ ~marking
<1>1. PICK i \in DOMAIN toClient :
         /\ phase # "down" /\ ~marking
         /\ toClient[i].type = type
         /\ \E rest \in {RemoveAt(toClient, i), toClient} :
               Taken(toClient, i, rest) /\ toClient' = rest
         /\ keep_alive' = IF toClient[i].keep_alive > 0
                          THEN toClient[i].keep_alive ELSE keep_alive
         /\ UNCHANGED <<phase, dns, pk, sent_register_pk, others, registry>>
    BY DEF Receive
<1>2. toClient \in Seq(Answer) /\ toClient[i] \in Answer
    BY DEF TypeOK
<1>3. toClient' \in Seq(Answer) /\ (HasOk(toClient') => HasOk(toClient))
    BY <1>1, <1>2, AnswerRemoved
<1>4. faults' \in Nat
    BY <1>1 DEF Taken, Fault, TypeOK
<1>5. keep_alive' \in KeepAlives
    BY <1>1, <1>2 DEF Answer, TypeOK
<1>6. type = "ok" => HasOk(toClient)
    BY <1>1 DEF HasOk
<1> QED BY <1>1, <1>3, <1>4, <1>5, <1>6

LEMMA LatencyTypes ==
    ASSUME TypeOK, update_latency
    PROVE  /\ sent' \in Nat \cup {Never} /\ resp' \in Nat \cup {Never}
           /\ recv' \in Nat /\ fails' \in 0 .. MAX_FAILS2
           /\ measured' \in BOOLEAN /\ online' \in {-1, 0, 1}
           /\ silence' \in Nat
<1>1. CASE phase = "tcp"
    BY <1>1 DEF update_latency, TypeOK
<1>2. CASE phase # "tcp"
  <2>1. measured' \in BOOLEAN
    <3>1. CASE sent = 0
        BY <1>2, <3>1 DEF update_latency, TypeOK, Never
    <3>2. CASE sent = Never
        BY <1>2, <3>2 DEF update_latency, TypeOK, Never
    <3>3. CASE sent \notin {Never, 0}
        BY <1>2, <3>3 DEF update_latency, TypeOK
    <3> QED BY <3>1, <3>2, <3>3
  <2>2. online' \in {-1, 0, 1}
      BY <1>2 DEF update_latency, TypeOK
  <2> QED BY <1>2, <2>1, <2>2 DEF update_latency, TypeOK, MAX_FAILS2
<1> QED BY <1>1, <1>2

LEMMA ServeTypes ==
    ASSUME TypeOK, NEW i \in DOMAIN toServer, NEW answers,
           answers \subseteq {"known", "request_pk", "ok", "mismatch",
                             "refused"},
           Serve(i, answers)
    PROVE  /\ toServer' \in Seq(Request) /\ toClient' \in Seq(Answer)
           /\ HasPk(toServer') => HasPk(toServer)
           /\ \A j, k : AllFor(toServer, j, k) => AllFor(toServer', j, k)
           /\ HasOk(toClient') => HasOk(toClient) \/ "ok" \in answers
           /\ UNCHANGED <<phase, session, marking, identity, online,
                          sent_register_pk, others, raced, silence>>
<1>1. toServer \in Seq(Request) /\ toClient \in Seq(Answer)
      /\ toServer[i] \in Request
    BY DEF TypeOK
<1>2. /\ toServer' \in Seq(Request)
      /\ HasPk(toServer') => HasPk(toServer)
      /\ \A j, k : AllFor(toServer, j, k) => AllFor(toServer', j, k)
    BY <1>1, RequestRemoved DEF Serve
<1>3. CASE toClient' = toClient
    BY <1>1, <1>2, <1>3 DEF Serve
<1>4. CASE toClient' # toClient
  <2>1. PICK type \in answers, k \in KeepAlives \cup {0} :
           toClient' = Append(toClient,
              [type |-> type, id |-> toServer[i].id,
               pk |-> toServer[i].pk, keep_alive |-> k])
      BY <1>4 DEF Serve
  <2> DEFINE a == [type |-> type, id |-> toServer[i].id,
                   pk |-> toServer[i].pk, keep_alive |-> k]
  <2>2. a \in Answer /\ a.type = type
      BY <1>1 DEF Request, Answer
  <2> HIDE DEF a
  <2>3. /\ toClient' \in Seq(Answer)
        /\ DOMAIN toClient' = 1 .. Len(toClient) + 1
        /\ \A n \in 1 .. Len(toClient) : toClient'[n] = toClient[n]
        /\ toClient'[Len(toClient) + 1] = a
    <3>1. toClient' = Append(toClient, a)
        BY <2>1 DEF a
    <3> QED BY <1>1, <2>2, <3>1
  <2>4. \A n \in DOMAIN toClient' :
           n \in DOMAIN toClient \/ n = Len(toClient) + 1
      BY <1>1, <2>3
  <2>5. HasOk(toClient') => HasOk(toClient) \/ "ok" \in answers
      BY <2>1, <2>2, <2>3, <2>4 DEF HasOk
  <2> QED BY <1>2, <2>3, <2>5 DEF Serve
<1> QED BY <1>3, <1>4

LEMMA NextType == TypeOK /\ [Next]_vars => TypeOK'
<1> SUFFICES ASSUME TypeOK, [Next]_vars PROVE TypeOK'
    OBVIOUS
<1>0. Patience \in Nat /\ ConfigOK /\ LoopOK /\ NetOK
    BY PatienceType, TypeParts
<1>1. CASE Start
  <2>1. ConfigOK'
    <3>1. host_key_confirmed' \in BOOLEAN
        BY <1>1 DEF Start
    <3> QED BY <1>0, <1>1, <3>1 DEF Start, ConfigOK, others
  <2>2. LoopOK'
    <3>1. 0 \in 0 .. DNS_INTERVAL + 1 /\ 0 \in 0 .. MAX_FAILS2
        BY TimesAssumption DEF MAX_FAILS2
    <3> QED BY <1>0, <1>1, <3>1, TimesAssumption DEF Start, LoopOK
  <2>3. NetOK'
      BY <1>0, <1>1 DEF Start, NetOK, net
  <2> QED BY <2>1, <2>2, <2>3 DEF TypeOK, ConfigOK, LoopOK, NetOK
<1>2. CASE UdpWait \/ UdpRegister
  <2>1. UNCHANGED <<phase, recv, fails, measured, keep_alive, identity,
                    online, sent_register_pk, others, registry, faults,
                    raced, toClient>>
      BY <1>2 DEF UdpWait, UdpRegister, net
  <2>2. /\ resp' \in Nat \cup {Never} /\ dns' \in 0 .. DNS_INTERVAL + 1
        /\ silence' \in Nat
    <3>1. /\ resp' = Later(resp, REG_INTERVAL)
          /\ dns' = Later(dns, DNS_INTERVAL + 1)
          /\ silence' = Later(silence, Patience)
        BY <1>2 DEF UdpWait, UdpRegister, UdpTickLater
    <3>2. dns \in Nat /\ dns <= DNS_INTERVAL + 1 /\ DNS_INTERVAL + 1 \in Nat
        BY <1>0, TimesAssumption DEF LoopOK
    <3> QED
        BY <1>0, <3>1, <3>2, LaterAge, LaterNat, TimesAssumption DEF LoopOK
  <2>3. sent' \in Nat \cup {Never}
    <3>1. sent' = Later(sent, MIN_REG_TIMEOUT) \/ sent' = 0
        BY <1>2 DEF UdpWait, UdpRegister
    <3> QED BY <1>0, <3>1, LaterAge, TimesAssumption DEF LoopOK
  <2>4. toServer' \in Seq(Request) /\ marking' \in BOOLEAN
      BY <1>0, <1>2, RegisteredPeer
         DEF UdpWait, UdpRegister, ConfigOK, LoopOK, NetOK, net
  <2> QED BY <2>1, <2>2, <2>3, <2>4 DEF TypeOK, identity, others
<1>3. CASE UdpTimeout
  <2>1. UNCHANGED <<phase, recv, measured, keep_alive, identity,
                    sent_register_pk, others, registry, faults, raced>>
      BY <1>3 DEF UdpTimeout
  <2>2. /\ resp' \in Nat \cup {Never} /\ silence' \in Nat /\ sent' \in Nat
        /\ fails' \in 0 .. MAX_FAILS2
    <3>1. /\ resp' = Later(resp, REG_INTERVAL)
          /\ silence' = Later(silence, Patience)
          /\ fails' = Later(fails, MAX_FAILS2) /\ sent' = 0
        BY <1>3 DEF UdpTimeout
    <3>2. fails \in Nat /\ fails <= MAX_FAILS2 /\ MAX_FAILS2 \in Nat
        BY <1>0 DEF LoopOK, MAX_FAILS2
    <3> QED
        BY <1>0, <3>1, <3>2, LaterAge, LaterNat, TimesAssumption DEF LoopOK
  <2>3. online' \in {-1, 0, 1}
      BY <1>0, <1>3 DEF UdpTimeout, ShownAfter, ConfigOK
  <2>4. dns' \in 0 .. DNS_INTERVAL + 1
    <3>1. dns' = 0 \/ dns' = Later(dns, DNS_INTERVAL + 1)
        BY <1>3 DEF UdpTimeout
    <3>2. dns \in Nat /\ dns <= DNS_INTERVAL + 1 /\ DNS_INTERVAL + 1 \in Nat
        BY <1>0, TimesAssumption DEF LoopOK
    <3>3. Later(dns, DNS_INTERVAL + 1) \in 0 .. DNS_INTERVAL + 1
        BY <3>2, LaterNat
    <3>4. 0 \in 0 .. DNS_INTERVAL + 1
        BY TimesAssumption
    <3> QED BY <3>1, <3>3, <3>4
  <2>5. toClient' \in Seq(Answer)
      BY <1>0, <1>3 DEF UdpTimeout, NetOK
  <2>6. toServer' \in Seq(Request) /\ marking' \in BOOLEAN
      BY <1>0, <1>3, RegisteredPeer, Abandoned
         DEF UdpTimeout, ConfigOK, LoopOK, NetOK
  <2> QED
      BY <2>1, <2>2, <2>3, <2>4, <2>5, <2>6 DEF TypeOK, identity, others
<1>4. CASE TcpWait \/ TcpRegister
  <2>1. TcpTickLater
      BY <1>4 DEF TcpWait, TcpRegister
  <2>2. recv' \in Nat /\ silence' \in Nat
      BY <1>0, <2>1, LaterNat DEF TcpTickLater, LoopOK
  <2>3. sent' \in Nat \cup {Never}
    <3>1. sent' = Later(sent, REG_INTERVAL) \/ sent' = 0
        BY <1>4 DEF TcpWait, TcpRegister
    <3> QED BY <1>0, <3>1, LaterAge, TimesAssumption DEF LoopOK
  <2>4. marking' \in BOOLEAN /\ toServer' \in Seq(Request)
    <3>1. UNCHANGED <<toServer, marking>> \/ register_pk(toServer, id)
        BY <1>4 DEF TcpWait, TcpRegister
    <3> QED BY <1>0, <3>1, RegisteredPk DEF LoopOK, NetOK, ConfigOK
  <2>5. UNCHANGED <<phase, resp, fails, measured, dns, keep_alive, identity,
                    online, sent_register_pk, others, registry, toClient,
                    faults, raced>>
      BY <2>1 DEF TcpTickLater
  <2> QED BY <2>2, <2>3, <2>4, <2>5 DEF TypeOK, identity, others
<1>5. CASE StoreSent
  <2>1. ConfigOK'
      BY <1>0, <1>5 DEF StoreSent, ConfigOK, identity, others
  <2>2. LoopOK'
      BY <1>0, <1>5 DEF StoreSent, LoopOK, session
  <2>3. NetOK'
      BY <1>0, <1>5 DEF StoreSent, NetOK, net
  <2> QED BY <2>1, <2>2, <2>3 DEF TypeOK, ConfigOK, LoopOK, NetOK
<1>6. ASSUME Exit, faults' \in Nat, edits' \in Nat, tcp' \in BOOLEAN,
             UNCHANGED <<edit, sync, root_confirmed>>
      PROVE  TypeOK'
  <2>1. toServer' \in Seq(Request) /\ toClient' \in Seq(Answer)
      BY <1>0, <1>6, Abandoned DEF Exit, NetOK
  <2> QED BY <1>6, <2>1 DEF Exit, TypeOK, session, identity
<1>7. CASE Restart \/ Fail \/ TcpDead
    BY <1>6, <1>7 DEF Restart, Fail, TcpDead, Fault, TypeOK, others
<1>8. CASE OnKnown \/ OnRefused \/ OnOk
  <2>1. \E t \in {"known", "refused", "ok"} : Receive(t)
      BY <1>8 DEF OnKnown, OnRefused, OnOk
  <2>2. /\ update_latency
        /\ UNCHANGED <<toServer, marking, id, raced>>
        /\ key_confirmed' \in BOOLEAN /\ host_key_confirmed' \in BOOLEAN
      BY <1>8 DEF OnKnown, OnRefused, OnOk, TypeOK
  <2>3. /\ sent' \in Nat \cup {Never} /\ resp' \in Nat \cup {Never}
        /\ recv' \in Nat /\ fails' \in 0 .. MAX_FAILS2
        /\ measured' \in BOOLEAN /\ online' \in {-1, 0, 1}
        /\ silence' \in Nat
      BY <2>2, LatencyTypes
  <2>4. /\ toClient' \in Seq(Answer) /\ faults' \in Nat /\ keep_alive' \in KeepAlives
        /\ UNCHANGED <<phase, dns, pk, sent_register_pk, others, registry>>
      BY <2>1, ReceiveTypes
  <2> QED BY <2>1, <2>2, <2>3, <2>4 DEF TypeOK, others
<1>9. CASE OnRequestPk
  <2>1. toServer' \in Seq(Request) /\ marking' \in BOOLEAN
      BY <1>0, <1>9, RegisteredPk DEF OnRequestPk, ConfigOK, NetOK
  <2>2. /\ Receive("request_pk") /\ update_latency
        /\ UNCHANGED <<id, key_confirmed, host_key_confirmed, raced>>
      BY <1>9 DEF OnRequestPk
  <2>3. /\ sent' \in Nat \cup {Never} /\ resp' \in Nat \cup {Never}
        /\ recv' \in Nat /\ fails' \in 0 .. MAX_FAILS2
        /\ measured' \in BOOLEAN /\ online' \in {-1, 0, 1}
        /\ silence' \in Nat
      BY <2>2, LatencyTypes
  <2>4. /\ toClient' \in Seq(Answer) /\ faults' \in Nat /\ keep_alive' \in KeepAlives
        /\ UNCHANGED <<phase, dns, pk, sent_register_pk, others, registry>>
      BY <2>2, ReceiveTypes
  <2> QED BY <2>1, <2>2, <2>3, <2>4 DEF TypeOK, others
<1>10. CASE OnMismatch
  <2>1. PICK new \in Ids \ {id} : id' = new /\ register_pk(toServer, new)
      BY <1>10 DEF OnMismatch
  <2>2. toServer' \in Seq(Request) /\ marking' \in BOOLEAN
      BY <1>0, <2>1, RegisteredPk DEF ConfigOK, NetOK
  <2>3. /\ Receive("mismatch") /\ update_latency
        /\ raced' \in BOOLEAN /\ key_confirmed' \in BOOLEAN
        /\ host_key_confirmed' \in BOOLEAN
      BY <1>10 DEF OnMismatch
  <2> QED BY <2>1, <2>2, <2>3, ReceiveTypes, LatencyTypes DEF TypeOK, others
<1>11. CASE OnHeartbeat
  <2>1. Receive("heartbeat")
      BY <1>11 DEF OnHeartbeat
  <2> QED BY <1>11, <2>1, ReceiveTypes DEF OnHeartbeat, TypeOK, others
<1>12. CASE EditClears
  <2>1. edit' \in Ids /\ edits' \in Nat
      BY <1>12 DEF EditClears, TypeOK
  <2>2. key_confirmed' \in BOOLEAN /\ host_key_confirmed' \in BOOLEAN
      BY <1>12 DEF EditClears
  <2> QED BY <1>12, <2>1, <2>2 DEF EditClears, TypeOK, session, net
<1>13. CASE EditSets
  <2>1. id' \in Ids /\ edit' = Never /\ raced' \in BOOLEAN
      BY <1>13 DEF EditSets, TypeOK
  <2> QED BY <1>13, <2>1 DEF EditSets, TypeOK, session, net
<1>14. CASE SyncSets
  <2>1. id' \in Ids /\ pk' \in Pks /\ raced' \in BOOLEAN
      BY <1>14, IdsAssumption DEF SyncSets, Pks
  <2> QED BY <1>14, <2>1 DEF SyncSets, TypeOK, session, net
<1>15. CASE CheckIfResendPk
  <2>1. key_confirmed' \in BOOLEAN /\ host_key_confirmed' \in BOOLEAN
      BY <1>15 DEF CheckIfResendPk
  <2> QED BY <1>15, <2>1 DEF CheckIfResendPk, TypeOK, session, net
<1>16. CASE ServePeer
  <2>1. PICK i \in DOMAIN toServer, answers \in SUBSET {"known", "request_pk"} :
           Serve(i, answers)
      BY <1>16 DEF ServePeer
  <2>2. UNCHANGED <<registry, faults>>
      BY <1>16 DEF ServePeer
  <2>3. /\ toServer' \in Seq(Request) /\ toClient' \in Seq(Answer)
        /\ UNCHANGED <<phase, session, marking, identity, online,
                       sent_register_pk, others, raced, silence>>
      BY <2>1, ServeTypes
  <2> QED BY <2>2, <2>3 DEF TypeOK, session, identity, others
<1>17. CASE ServePk
  <2>1. PICK i \in DOMAIN toServer, answers \in SUBSET {"ok", "mismatch"} :
           /\ Serve(i, answers)
           /\ \/ registry' = registry
              \/ registry' =
                    [registry EXCEPT ![toServer[i].id] = toServer[i].pk]
      BY <1>17 DEF ServePk
  <2>2. faults' = faults
      BY <1>17 DEF ServePk
  <2>3. registry' \in [Ids -> Pks \cup {Foreign, NoPk, Forgotten}]
    <3>1. toServer[i] \in Request
        BY DEF TypeOK
    <3> QED BY <2>1, <3>1 DEF TypeOK, Request
  <2>4. /\ toServer' \in Seq(Request) /\ toClient' \in Seq(Answer)
        /\ UNCHANGED <<phase, session, marking, identity, online,
                       sent_register_pk, others, raced, silence>>
      BY <2>1, ServeTypes
  <2> QED BY <2>2, <2>3, <2>4 DEF TypeOK, session, identity, others
<1>18. CASE ServerRefuses
  <2>1. PICK i \in DOMAIN toServer : Serve(i, {"refused"})
      BY <1>18 DEF ServerRefuses
  <2>2. registry' = registry /\ faults' \in Nat
      BY <1>18 DEF ServerRefuses, Fault, TypeOK
  <2>3. /\ toServer' \in Seq(Request) /\ toClient' \in Seq(Answer)
        /\ UNCHANGED <<phase, session, marking, identity, online,
                       sent_register_pk, others, raced, silence>>
      BY <2>1, ServeTypes
  <2> QED BY <2>2, <2>3 DEF TypeOK, session, identity, others
<1>19. CASE ServerHeartbeat
  <2>1. [type |-> "heartbeat", id |-> id, pk |-> pk, keep_alive |-> 0]
           \in Answer
      BY DEF TypeOK, Answer
  <2>2. toClient' \in Seq(Answer)
      BY <1>19, <2>1 DEF ServerHeartbeat
  <2> QED
      BY <1>19, <2>2
         DEF ServerHeartbeat, TypeOK, session, identity, others
<1>20. CASE ServerForgets
    BY <1>20
       DEF ServerForgets, Fault, TypeOK, session, identity, others, net
<1>21. CASE Lose
  <2>1. toServer' \in Seq(Request) /\ toClient' \in Seq(Answer)
      BY <1>21, <1>0, RequestRemoved, AnswerRemoved DEF Lose, NetOK
  <2> QED
      BY <1>21, <2>1
         DEF Lose, Fault, TypeOK, session, identity, others
<1>22. CASE UNCHANGED vars
    BY <1>22 DEF vars, TypeOK, session, identity, others, net
<1> QED
    BY <1>1, <1>2, <1>3, <1>4, <1>5, <1>7, <1>8, <1>9, <1>10, <1>11, <1>12,
       <1>13, <1>14, <1>15, <1>16, <1>17, <1>18, <1>19, <1>20, <1>21, <1>22
       DEF Next, Loop, Resp, Process, Server

(* The state of the registration keeps its types. *)
THEOREM TypeCorrect == Spec => []TypeOK
BY InitType, NextType, PTL DEF Spec

-----------------------------------------------------------------------------
(* What is shown.  While a latency is shown over UDP fewer than MAX_FAILS1 *)
(* timeouts have passed, and the silence is bounded by the age of the last *)
(* answer or, once a registration is due, by the timeouts since; over TCP  *)
(* it is bounded by the age of the last message, which is checked.         *)

UdpShown ==
    phase = "udp" /\ online = 1 =>
        /\ fails < MAX_FAILS1
        /\ sent < MIN_REG_TIMEOUT
        /\ IF sent = Never
           THEN resp # Never /\ resp < REG_INTERVAL /\ silence <= resp
           ELSE silence <= REG_INTERVAL + sent
                             + (IF fails = 0 THEN 0 ELSE MIN_REG_TIMEOUT)

TcpShown == phase = "tcp" => silence <= recv /\ recv <= (3 * keep_alive) \div 2

ShownInv ==
    /\ phase = "down" => online = 0
    /\ UdpShown
    /\ TcpShown

LEMMA KeepAliveHalves ==
    ASSUME NEW k \in KeepAlives
    PROVE  (3 * k) \div 2 \in Nat /\ 0 <= (3 * k) \div 2
<1>1. k \in Nat
    BY TimesAssumption
<1> QED BY <1>1

LEMMA ShownImplies == TypeOK /\ ShownInv => ShownOnlineIsRecent
<1> SUFFICES ASSUME TypeOK, ShownInv, online = 1
             PROVE  silence < Patience
    BY DEF ShownOnlineIsRecent
<1>1. silence \in Nat /\ recv \in Nat /\ fails \in Nat
      /\ sent \in Nat \cup {-1} /\ resp \in Nat \cup {-1}
      /\ MIN_REG_TIMEOUT \in Nat \ {0} /\ REG_INTERVAL \in Nat \ {0}
    BY TimesAssumption DEF TypeOK, MAX_FAILS2, Never
<1>2. CASE phase = "udp"
  <2>1. Patience = REG_INTERVAL + 2 * MIN_REG_TIMEOUT
      BY <1>2 DEF Patience, MAX_FAILS1
  <2> QED
      BY <1>1, <1>2, <2>1 DEF ShownInv, UdpShown, MAX_FAILS1, Never
<1>3. CASE phase = "tcp"
  <2>1. (3 * keep_alive) \div 2 \in Nat
      BY KeepAliveHalves DEF TypeOK
  <2> QED BY <1>1, <1>3, <2>1 DEF ShownInv, TcpShown, Patience
<1> QED BY <1>2, <1>3 DEF TypeOK, ShownInv

LEMMA ShownInit == Init => ShownInv
BY DEF Init, ShownInv, UdpShown, TcpShown

(* An answer over either transport. *)
LEMMA LatencyShown ==
    ASSUME TypeOK, ShownInv, update_latency, phase # "down",
           phase' = phase, keep_alive' \in KeepAlives
    PROVE  ShownInv'
<1>1. (3 * keep_alive') \div 2 \in Nat
    BY KeepAliveHalves
<1>2. CASE phase = "tcp"
    BY <1>1, <1>2 DEF update_latency, ShownInv, UdpShown, TcpShown
<1>3. CASE phase = "udp"
    BY <1>3, TimesAssumption
       DEF update_latency, ShownInv, UdpShown, TcpShown, MAX_FAILS1, Never
<1> QED BY <1>2, <1>3 DEF TypeOK

LEMMA ShownNext == TypeOK /\ ShownInv /\ [Next]_vars => ShownInv'
<1> SUFFICES ASSUME TypeOK, ShownInv, [Next]_vars PROVE ShownInv'
    OBVIOUS
<1>0. /\ silence \in Nat /\ recv \in Nat /\ fails \in 0 .. 4
      /\ sent \in Nat \cup {-1} /\ resp \in Nat \cup {-1}
      /\ MIN_REG_TIMEOUT \in Nat \ {0} /\ REG_INTERVAL \in Nat \ {0}
      /\ Patience \in Nat
    BY TimesAssumption, PatienceType DEF TypeOK, MAX_FAILS2, Never
<1>1. CASE Start
  <2>1. (3 * keep_alive') \div 2 \in Nat
      BY <1>1, KeepAliveHalves, TimesAssumption DEF Start
  <2> QED
      BY <1>1, <2>1 DEF Start, ShownInv, UdpShown, TcpShown
<1>2. CASE UdpWait
  <2>1. /\ phase = "udp" /\ phase' = "udp"
        /\ online' = online /\ fails' = fails
        /\ silence' = Later(silence, Patience)
        /\ resp' = Later(resp, REG_INTERVAL)
        /\ sent' = Later(sent, MIN_REG_TIMEOUT)
        /\ IF sent = Never THEN resp # Never /\ resp' < REG_INTERVAL
                           ELSE sent' < MIN_REG_TIMEOUT
      BY <1>2 DEF UdpWait, UdpTickLater
  <2>2. silence' \in Nat /\ silence' <= silence + 1
      BY <1>0, <2>1, LaterNat
  <2>3. CASE sent = Never
    <3>1. sent' = Never
        BY <2>1, <2>3 DEF Later
    <3>2. resp < REG_INTERVAL => resp' = resp + 1
        BY <1>0, <2>1, <2>3, LaterNat DEF Never
    <3> QED
        BY <1>0, <2>1, <2>2, <2>3, <3>1, <3>2
           DEF ShownInv, UdpShown, TcpShown, Never
  <2>4. CASE sent # Never
    <3>1. sent < MIN_REG_TIMEOUT => sent' = sent + 1
        BY <1>0, <2>1, <2>4, LaterNat DEF Never
    <3> QED
        BY <1>0, <2>1, <2>2, <2>4, <3>1
           DEF ShownInv, UdpShown, TcpShown, Never
  <2> QED BY <2>3, <2>4
<1>3. CASE UdpRegister
  <2>1. /\ phase = "udp" /\ phase' = "udp" /\ sent = Never /\ sent' = 0
        /\ online' = online /\ fails' = fails
        /\ silence' = Later(silence, Patience)
      BY <1>3 DEF UdpRegister, UdpTickLater
  <2>2. silence' \in Nat /\ silence' <= silence + 1
      BY <1>0, <2>1, LaterNat
  <2> QED
      BY <1>0, <2>1, <2>2 DEF ShownInv, UdpShown, TcpShown, Never
<1>4. CASE UdpTimeout
  <2>1. /\ phase = "udp" /\ phase' = "udp" /\ sent # Never /\ sent' = 0
        /\ fails' = Later(fails, MAX_FAILS2)
        /\ online' = ShownAfter(fails')
        /\ silence' = Later(silence, Patience)
      BY <1>4 DEF UdpTimeout
  <2>2. silence' \in Nat /\ silence' <= silence + 1
      BY <1>0, <2>1, LaterNat
  <2>3. fails < 4 => fails' = fails + 1
      BY <1>0, <2>1, LaterNat DEF MAX_FAILS2
  <2>4. fails = 4 => fails' = 4
      BY <2>1 DEF Later, MAX_FAILS2, Never
  <2>5. online' = 1 => online = 1 /\ fails' < 2
      BY <1>0, <2>1, <2>3, <2>4 DEF ShownAfter, MAX_FAILS1, MAX_FAILS2
  <2> QED
      BY <1>0, <2>1, <2>2, <2>3, <2>4, <2>5
         DEF ShownInv, UdpShown, TcpShown, MAX_FAILS1, Never
<1>5. CASE TcpWait \/ TcpRegister
  <2>1. /\ phase = "tcp" /\ phase' = "tcp"
        /\ recv + 1 <= (3 * keep_alive) \div 2 /\ recv' = recv + 1
        /\ silence' = Later(silence, Patience)
        /\ keep_alive' = keep_alive
      BY <1>5 DEF TcpWait, TcpRegister, TcpTickLater
  <2>2. silence' \in Nat /\ silence' <= silence + 1
      BY <1>0, <2>1, LaterNat
  <2>3. (3 * keep_alive) \div 2 \in Nat
      BY KeepAliveHalves DEF TypeOK
  <2>4. TcpShown'
    <3>1. silence <= recv
        BY <2>1 DEF ShownInv, TcpShown
    <3> QED BY <1>0, <2>1, <2>2, <3>1 DEF TcpShown
  <2> QED BY <2>1, <2>4 DEF ShownInv, UdpShown
<1>6. CASE Restart \/ Fail \/ TcpDead
    BY <1>6 DEF Restart, Fail, TcpDead, Exit, ShownInv, UdpShown, TcpShown
<1>7. CASE OnKnown \/ OnRequestPk \/ OnOk \/ OnRefused \/ OnMismatch
  <2>1. /\ update_latency
        /\ \E t \in {"known", "request_pk", "ok", "refused", "mismatch"} :
              Receive(t)
      BY <1>7 DEF OnKnown, OnRequestPk, OnOk, OnRefused, OnMismatch
  <2>2. keep_alive' \in KeepAlives /\ phase' = phase /\ phase # "down"
      BY <2>1, ReceiveTypes
  <2> QED BY <2>1, <2>2, LatencyShown
<1>8. CASE OnHeartbeat
  <2>1. Receive("heartbeat") /\ recv' = 0 /\ silence' = 0
        /\ UNCHANGED <<sent, resp, fails, online>>
      BY <1>8 DEF OnHeartbeat
  <2>2. keep_alive' \in KeepAlives /\ phase' = phase
      BY <2>1, ReceiveTypes
  <2>3. (3 * keep_alive') \div 2 \in Nat
      BY <2>2, KeepAliveHalves
  <2> QED
      BY <1>0, <2>1, <2>2, <2>3 DEF ShownInv, UdpShown, TcpShown, Never
<1>9. ASSUME UNCHANGED <<phase, session, online, silence>>
      PROVE  ShownInv'
    BY <1>9 DEF session, ShownInv, UdpShown, TcpShown
<1>10. CASE StoreSent \/ EditClears \/ EditSets \/ SyncSets
               \/ CheckIfResendPk
    BY <1>9, <1>10
       DEF StoreSent, EditClears, EditSets, SyncSets, CheckIfResendPk
<1>11. CASE ServePeer \/ ServePk \/ ServerRefuses
    BY <1>9, <1>11 DEF ServePeer, ServePk, ServerRefuses, Serve
<1>12. CASE ServerHeartbeat \/ ServerForgets \/ Lose \/ UNCHANGED vars
    BY <1>9, <1>12 DEF ServerHeartbeat, ServerForgets, Lose, vars
<1> QED
    BY <1>1, <1>2, <1>3, <1>4, <1>5, <1>6, <1>7, <1>8, <1>10, <1>11, <1>12
       DEF Next, Loop, Resp, Process, Server

(* A latency is shown only if the server has answered recently, for all    *)
(* intervals, timeouts and keep-alives and however answers are delayed,    *)
(* repeated or lost.                                                       *)
THEOREM ShownOnlineIsRecentHolds == Spec => []ShownOnlineIsRecent
<1>1. Spec => [](TypeOK /\ ShownInv)
    BY InitType, NextType, ShownInit, ShownNext, PTL DEF Spec
<1> QED BY <1>1, ShownImplies, PTL

-----------------------------------------------------------------------------
(* What is confirmed.  Without a race every registration under way is for  *)
(* the current id and key, an acceptance under way is true, and so is a    *)
(* confirmation, also one that came with root's configuration as long as   *)
(* nothing was sent before.                                                *)

Registered == registry[id] \in {pk, Forgotten}

RequestsCurrent == ~raced => AllFor(toServer, id, pk)

AcceptedIsTrue == ~raced /\ HasOk(toClient) => Registered

ConfirmedIsTrue ==
    /\ key_confirmed /\ host_key_confirmed /\ ~raced
    /\ sync # "check" \/ ~sent_register_pk
    => Registered

RootIsTrue ==
    sync = "todo" /\ root_confirmed /\ ~sent_register_pk /\ ~marking =>
        /\ ~HasPk(toServer)
        /\ registry[RootId] \in {RootPk, Forgotten}

RegInv == RequestsCurrent /\ AcceptedIsTrue /\ ConfirmedIsTrue /\ RootIsTrue

LEMMA RegInit == Init => RegInv
<1> SUFFICES ASSUME Init PROVE RegInv
    OBVIOUS
<1>1. PICK had \in {NoPk, Foreign, OwnPk, RootPk} :
         /\ registry = [i \in Ids |-> IF i = RootId THEN had ELSE NoPk]
         /\ key_confirmed = (had = OwnPk)
         /\ root_confirmed = (had = RootPk)
    BY DEF Init
<1>2. registry[RootId] = had
    BY <1>1, IdsAssumption
<1>3. toServer = <<>> /\ toClient = <<>> /\ id = RootId /\ pk = OwnPk
    BY DEF Init
<1>4. ~HasPk(toServer) /\ ~HasOk(toClient) /\ AllFor(toServer, id, pk)
    BY <1>3 DEF HasPk, HasOk, AllFor
<1>5. ConfirmedIsTrue
    BY <1>1, <1>2, <1>3 DEF ConfirmedIsTrue, Registered
<1>6. RootIsTrue
    BY <1>1, <1>2, <1>4 DEF RootIsTrue
<1> QED
    BY <1>4, <1>5, <1>6 DEF RegInv, RequestsCurrent, AcceptedIsTrue

(* Nothing but messages changes. *)
LEMMA RegKept ==
    ASSUME RegInv,
           UNCHANGED <<id, pk, sync, root_confirmed, registry, raced>>,
           AllFor(toServer, id, pk) => AllFor(toServer', id, pk),
           HasOk(toClient') => HasOk(toClient),
           key_confirmed' /\ host_key_confirmed' =>
              \/ key_confirmed /\ host_key_confirmed
              \/ HasOk(toClient),
           ~sent_register_pk' => ~sent_register_pk,
           ~sent_register_pk' /\ ~marking' =>
              ~marking /\ (HasPk(toServer') => HasPk(toServer))
    PROVE  RegInv'
<1>1. RequestsCurrent'
    BY DEF RegInv, RequestsCurrent
<1>2. AcceptedIsTrue'
    BY DEF RegInv, AcceptedIsTrue, Registered
<1>3. ConfirmedIsTrue'
    BY DEF RegInv, AcceptedIsTrue, ConfirmedIsTrue, Registered
<1>4. RootIsTrue'
    BY DEF RegInv, RootIsTrue
<1> QED BY <1>1, <1>2, <1>3, <1>4 DEF RegInv

LEMMA RegNext == TypeOK /\ RegInv /\ [Next]_vars => RegInv'
<1> SUFFICES ASSUME TypeOK, RegInv, [Next]_vars PROVE RegInv'
    OBVIOUS
<1>0. /\ id \in Ids /\ pk \in Pks /\ marking \in BOOLEAN
      /\ toServer \in Seq(Request) /\ toClient \in Seq(Answer)
    BY DEF TypeOK
<1>1. CASE Start
    BY <1>1, RegKept DEF Start, others, net
<1>2. CASE UdpWait \/ TcpWait
    BY <1>2, RegKept
       DEF UdpWait, TcpWait, TcpTickLater, identity, others, net
<1>3. CASE UdpRegister
  <2>1. /\ AllFor(toServer, id, pk) => AllFor(toServer', id, pk)
        /\ ~marking' /\ HasPk(toServer') => HasPk(toServer)
      BY <1>0, <1>3, RegisteredPeer DEF UdpRegister
  <2>2. ~marking /\ UNCHANGED <<toClient, identity, sent_register_pk, others,
                                registry, raced>>
      BY <1>3 DEF UdpRegister
  <2> QED BY <2>1, <2>2, RegKept DEF identity, others
<1>4. CASE UdpTimeout
  <2>1. PICK s \in {toServer, Abandon(toServer)} : register_peer(s)
      BY <1>4 DEF UdpTimeout
  <2>2. /\ s \in Seq(Request)
        /\ AllFor(toServer, id, pk) => AllFor(s, id, pk)
        /\ HasPk(s) => HasPk(toServer)
      BY <1>0, <2>1, Abandoned
  <2>3. /\ AllFor(s, id, pk) => AllFor(toServer', id, pk)
        /\ ~marking' /\ HasPk(toServer') => HasPk(s)
      BY <1>0, <2>1, <2>2, RegisteredPeer
  <2>4. /\ ~marking
        /\ UNCHANGED <<identity, sent_register_pk, others, registry, raced>>
        /\ toClient' \in {<<>>, toClient}
      BY <1>4 DEF UdpTimeout
  <2>5. HasOk(toClient') => HasOk(toClient)
      BY <2>4 DEF HasOk
  <2> QED BY <2>2, <2>3, <2>4, <2>5, RegKept DEF identity, others
<1>5. CASE TcpRegister
  <2>1. /\ AllFor(toServer, id, pk) => AllFor(toServer', id, pk)
        /\ marking' = TRUE
      BY <1>0, <1>5, RegisteredPk DEF TcpRegister
  <2>2. UNCHANGED <<toClient, identity, sent_register_pk, others, registry,
                    raced>>
      BY <1>5 DEF TcpRegister, TcpTickLater
  <2> QED BY <2>1, <2>2, RegKept DEF identity, others
<1>6. CASE StoreSent
    BY <1>6, RegKept DEF StoreSent, identity, others, net
<1>7. CASE Restart \/ Fail \/ TcpDead
  <2>1. /\ toServer' = Abandon(toServer) /\ toClient' = <<>>
        /\ ~marking /\ marking' = marking
        /\ UNCHANGED <<identity, sent_register_pk, registry, raced>>
        /\ UNCHANGED <<sync, root_confirmed>>
      BY <1>7 DEF Restart, Fail, TcpDead, Exit, others
  <2>2. /\ AllFor(toServer, id, pk) => AllFor(toServer', id, pk)
        /\ HasPk(toServer') => HasPk(toServer)
        /\ ~HasOk(toClient')
      BY <1>0, <2>1, Abandoned DEF HasOk
  <2> QED BY <2>1, <2>2, RegKept DEF identity
<1>8. CASE OnKnown \/ OnRefused \/ OnHeartbeat
  <2>1. /\ \E t \in {"known", "refused", "heartbeat"} : Receive(t)
        /\ UNCHANGED <<toServer, marking, id, key_confirmed,
                       host_key_confirmed, raced>>
      BY <1>8 DEF OnKnown, OnRefused, OnHeartbeat
  <2>2. /\ HasOk(toClient') => HasOk(toClient)
        /\ UNCHANGED <<pk, sent_register_pk, others, registry>>
        /\ ~marking
      BY <2>1, ReceiveTypes
  <2> QED BY <2>1, <2>2, RegKept DEF others
<1>9. CASE OnOk
  <2>1. Receive("ok") /\ UNCHANGED <<toServer, marking, id, raced>>
      BY <1>9 DEF OnOk
  <2>2. /\ HasOk(toClient') => HasOk(toClient)
        /\ HasOk(toClient) /\ ~marking
        /\ UNCHANGED <<pk, sent_register_pk, others, registry>>
      BY <2>1, ReceiveTypes
  <2> QED BY <2>1, <2>2, RegKept DEF others
<1>10. CASE OnRequestPk
  <2>1. /\ Receive("request_pk")
        /\ UNCHANGED <<id, key_confirmed, host_key_confirmed, raced>>
        /\ register_pk(toServer, id)
      BY <1>10 DEF OnRequestPk
  <2>2. /\ HasOk(toClient') => HasOk(toClient)
        /\ UNCHANGED <<pk, sent_register_pk, others, registry>>
      BY <2>1, ReceiveTypes
  <2>3. /\ AllFor(toServer, id, pk) => AllFor(toServer', id, pk)
        /\ marking' = TRUE
      BY <1>0, <2>1, RegisteredPk
  <2> QED BY <2>1, <2>2, <2>3, RegKept DEF others
<1>11. CASE OnMismatch
  <2>1. PICK new \in Ids \ {id} : id' = new /\ register_pk(toServer, new)
      BY <1>11 DEF OnMismatch
  <2>2. /\ Receive("mismatch") /\ ~key_confirmed'
        /\ raced' = (raced \/ InFlight(toServer, toClient'))
      BY <1>11 DEF OnMismatch
  <2>3. pk' = pk
      BY <2>2, ReceiveTypes
  <2>4. /\ AllFor(toServer, new, pk) => AllFor(toServer', new, pk)
        /\ marking' = TRUE
      BY <1>0, <2>1, RegisteredPk
  <2>5. ~raced' => ~HasPk(toServer) /\ ~HasOk(toClient')
      BY <2>2 DEF InFlight, HasPk, HasOk
  <2>6. ~HasPk(toServer) => AllFor(toServer, new, pk)
      BY DEF HasPk, AllFor
  <2>7. RequestsCurrent' /\ AcceptedIsTrue'
      BY <2>1, <2>3, <2>4, <2>5, <2>6 DEF RequestsCurrent, AcceptedIsTrue
  <2> QED BY <2>2, <2>4, <2>7 DEF RegInv, ConfirmedIsTrue, RootIsTrue
<1>12. CASE EditClears
  <2>1. /\ UNCHANGED <<id, pk, sync, root_confirmed, registry, net, raced,
                       marking, sent_register_pk>>
        /\ ~key_confirmed'
      BY <1>12 DEF EditClears
  <2> QED BY <2>1, RegKept DEF net
<1>13. CASE EditSets
  <2>1. /\ UNCHANGED <<pk, key_confirmed, host_key_confirmed, sync, marking,
                       root_confirmed, registry, net, sent_register_pk>>
        /\ raced' = (raced \/ key_confirmed \/ InFlight(toServer, toClient))
      BY <1>13 DEF EditSets
  <2>2. ~raced' => ~key_confirmed' /\ ~HasPk(toServer') /\ ~HasOk(toClient')
      BY <2>1 DEF InFlight, HasPk, HasOk, net
  <2>3. RequestsCurrent' /\ AcceptedIsTrue' /\ ConfirmedIsTrue'
      BY <2>2
         DEF RequestsCurrent, AcceptedIsTrue, ConfirmedIsTrue, HasPk, AllFor
  <2>4. RootIsTrue'
      BY <2>1 DEF RegInv, RootIsTrue, net
  <2> QED BY <2>3, <2>4 DEF RegInv
<1>14. CASE SyncSets
  <2>1. /\ UNCHANGED <<marking, root_confirmed, registry, net,
                       sent_register_pk>>
        /\ sync = "todo" /\ sync' = "check"
        /\ id' = RootId /\ pk' = RootPk
        /\ key_confirmed' = root_confirmed
        /\ raced' = (raced \/ InFlight(toServer, toClient))
      BY <1>14 DEF SyncSets
  <2>2. ~raced' => ~marking /\ ~HasPk(toServer') /\ ~HasOk(toClient')
      BY <2>1 DEF InFlight, HasPk, HasOk, net
  <2>3. RequestsCurrent' /\ AcceptedIsTrue'
      BY <2>2 DEF RequestsCurrent, AcceptedIsTrue, HasPk, AllFor
  <2>4. ConfirmedIsTrue'
      BY <2>1, <2>2
         DEF ConfirmedIsTrue, RegInv, RootIsTrue, Registered
  <2>5. RootIsTrue'
      BY <2>1 DEF RootIsTrue
  <2> QED BY <2>3, <2>4, <2>5 DEF RegInv
<1>15. CASE CheckIfResendPk
  <2>1. /\ UNCHANGED <<id, pk, marking, root_confirmed, registry, net, raced,
                       sent_register_pk>>
        /\ sync = "check" /\ sync' = "done"
        /\ key_confirmed' => key_confirmed /\ ~sent_register_pk
        /\ host_key_confirmed' => host_key_confirmed
      BY <1>15 DEF CheckIfResendPk
  <2>2. ConfirmedIsTrue'
      BY <2>1 DEF RegInv, ConfirmedIsTrue, Registered
  <2>3. RequestsCurrent' /\ AcceptedIsTrue' /\ RootIsTrue'
      BY <2>1
         DEF RegInv, RequestsCurrent, AcceptedIsTrue, RootIsTrue,
             Registered, net
  <2> QED BY <2>2, <2>3 DEF RegInv
<1>16. CASE ServePeer
  <2>1. PICK i \in DOMAIN toServer,
             answers \in SUBSET {"known", "request_pk"} :
           Serve(i, answers)
      BY <1>16 DEF ServePeer
  <2>0. /\ "ok" \notin answers
        /\ answers \subseteq {"known", "request_pk", "ok", "mismatch",
                              "refused"}
      OBVIOUS
  <2>2. /\ AllFor(toServer, id, pk) => AllFor(toServer', id, pk)
        /\ HasPk(toServer') => HasPk(toServer)
        /\ HasOk(toClient') => HasOk(toClient)
        /\ UNCHANGED <<marking, identity, sent_register_pk, others, raced>>
      BY <2>0, <2>1, ServeTypes
  <2>3. registry' = registry
      BY <1>16 DEF ServePeer
  <2> QED BY <2>2, <2>3, RegKept DEF identity, others
<1>17. CASE ServePk
  <2>1. PICK i \in DOMAIN toServer :
           /\ toServer[i].type = "pk"
           /\ IF registry[toServer[i].id] = Foreign
              THEN Serve(i, {"mismatch"}) /\ UNCHANGED registry
              ELSE /\ Serve(i, {"ok"})
                   /\ registry' =
                         [registry EXCEPT ![toServer[i].id] = toServer[i].pk]
      BY <1>17 DEF ServePk
  <2>2. CASE Serve(i, {"mismatch"}) /\ UNCHANGED registry
    <3>1. /\ AllFor(toServer, id, pk) => AllFor(toServer', id, pk)
          /\ HasPk(toServer') => HasPk(toServer)
          /\ HasOk(toClient') => HasOk(toClient)
          /\ UNCHANGED <<marking, identity, sent_register_pk, others, raced>>
        BY <2>2, ServeTypes
    <3> QED BY <2>2, <3>1, RegKept DEF identity, others
  <2>3. CASE /\ Serve(i, {"ok"})
             /\ registry' =
                   [registry EXCEPT ![toServer[i].id] = toServer[i].pk]
    <3>1. /\ AllFor(toServer, id, pk) => AllFor(toServer', id, pk)
          /\ UNCHANGED <<marking, identity, sent_register_pk, others, raced>>
        BY <2>3, ServeTypes
    <3>2. HasPk(toServer)
        BY <2>1 DEF HasPk
    <3>3. ~raced => toServer[i].id = id /\ toServer[i].pk = pk
        BY <2>1 DEF RegInv, RequestsCurrent, AllFor
    <3>4. ~raced => registry'[id] = pk
        BY <1>0, <2>3, <3>3 DEF TypeOK
    <3>5. RequestsCurrent'
        BY <3>1 DEF RegInv, RequestsCurrent, identity
    <3>6. AcceptedIsTrue' /\ ConfirmedIsTrue'
        BY <3>1, <3>4
           DEF AcceptedIsTrue, ConfirmedIsTrue, Registered, identity
    <3>7. RootIsTrue'
        BY <3>1, <3>2 DEF RegInv, RootIsTrue, others
    <3> QED BY <3>5, <3>6, <3>7 DEF RegInv
  <2> QED BY <2>1, <2>2, <2>3
<1>18. CASE ServerRefuses
  <2>1. PICK i \in DOMAIN toServer, answers \in SUBSET {"refused"} :
           Serve(i, answers)
      BY <1>18 DEF ServerRefuses
  <2>0. /\ "ok" \notin answers
        /\ answers \subseteq {"known", "request_pk", "ok", "mismatch",
                              "refused"}
      OBVIOUS
  <2>2. /\ AllFor(toServer, id, pk) => AllFor(toServer', id, pk)
        /\ HasPk(toServer') => HasPk(toServer)
        /\ HasOk(toClient') => HasOk(toClient)
        /\ UNCHANGED <<marking, identity, sent_register_pk, others, raced>>
      BY <2>0, <2>1, ServeTypes
  <2>3. registry' = registry
      BY <1>18 DEF ServerRefuses
  <2> QED BY <2>2, <2>3, RegKept DEF identity, others
<1>19. CASE ServerHeartbeat
  <2>1. /\ ~HasOk(toClient')
        /\ UNCHANGED <<toServer, marking, identity, sent_register_pk, others,
                       registry, raced>>
      BY <1>19 DEF ServerHeartbeat, HasOk
  <2> QED BY <2>1, RegKept DEF identity, others
<1>20. CASE ServerForgets
  <2>1. /\ registry' = [registry EXCEPT ![id] = Forgotten]
        /\ UNCHANGED <<net, marking, identity, sent_register_pk, others,
                       raced>>
      BY <1>20 DEF ServerForgets
  <2>2. \A i \in Ids : registry'[i] \in {registry[i], Forgotten}
      BY <2>1 DEF TypeOK
  <2> QED
      BY <1>0, <2>1, <2>2, IdsAssumption
         DEF RegInv, RequestsCurrent, AcceptedIsTrue, ConfirmedIsTrue,
             RootIsTrue, Registered, identity, others, net
<1>21. CASE Lose
  <2>1. /\ AllFor(toServer, id, pk) => AllFor(toServer', id, pk)
        /\ HasPk(toServer') => HasPk(toServer)
        /\ HasOk(toClient') => HasOk(toClient)
      BY <1>0, <1>21, RequestRemoved, AnswerRemoved DEF Lose
  <2>2. UNCHANGED <<marking, identity, sent_register_pk, others, registry,
                    raced>>
      BY <1>21 DEF Lose
  <2> QED BY <2>1, <2>2, RegKept DEF identity, others
<1>22. CASE UNCHANGED vars
    BY <1>22, RegKept DEF vars, identity, others, net
<1> QED
    BY <1>1, <1>2, <1>3, <1>4, <1>5, <1>6, <1>7, <1>8, <1>9, <1>10, <1>11,
       <1>12, <1>13, <1>14, <1>15, <1>16, <1>17, <1>18, <1>19, <1>20, <1>21,
       <1>22
       DEF Next, Loop, Resp, Process, Server

(* A device that takes its key to be confirmed is registered with it, for  *)
(* any ids, whatever the network loses, repeats and reorders, unless the   *)
(* id or the key changed with a registration of the old one under way.     *)
THEOREM ConfirmedMeansRegisteredHolds == Spec => []ConfirmedMeansRegistered
<1>1. Spec => [](TypeOK /\ RegInv)
    BY InitType, NextType, RegInit, RegNext, PTL DEF Spec
<1>2. RegInv => ConfirmedMeansRegistered
    BY DEF RegInv, ConfirmedIsTrue, ConfirmedMeansRegistered, Registered
<1> QED BY <1>1, <1>2, PTL

-----------------------------------------------------------------------------
(***************************************************************************)
(* The mediator.                                                           *)
(***************************************************************************)

FlagsOK == {should_exit, mode, stop, tcp_option, caller, listener, missed}
              \subseteq BOOLEAN

LastOK == last \in [Locks -> [addr : Addrs \cup {NoAddr}, fresh : BOOLEAN]]

RequestsOK ==
    /\ req \in [Requests -> PeerRequest]
    /\ \A r \in Requests : req[r].state = "none" => req[r] = NoRequest

LEMMA MediatorInitType == MediatorInit => MediatorTypeOK
<1> SUFFICES ASSUME MediatorInit PROVE MediatorTypeOK
    OBVIOUS
<1>1. NoRequest \in PeerRequest /\ NoRequest.state = "none"
    BY DEF NoRequest, PeerRequest, Locks
<1>2. RequestsOK
    BY <1>1 DEF MediatorInit, RequestsOK
<1>3. LastOK
    BY DEF MediatorInit, LastOK
<1>4. FlagsOK
    BY DEF MediatorInit, FlagsOK
<1> QED
    BY <1>2, <1>3, <1>4, MediatorBoundsAssumption
       DEF MediatorInit, MediatorTypeOK, RequestsOK, LastOK, FlagsOK

(* A step of one task, or of one connection, keeps the types of req. *)
LEMMA TaskType ==
    ASSUME MediatorTypeOK, NEW r \in Requests, NEW from, NEW to,
           to \in {"read", "write", "decide", "serve", "relay", "connected",
                   "added", "told", "skipped", "over"},
           Task(r, from, to)
    PROVE  MediatorTypeOK'
<1>1. req' \in [Requests -> PeerRequest]
  <2>1. req[r] \in PeerRequest
      BY DEF MediatorTypeOK
  <2>2. [req[r] EXCEPT !.state = to] \in PeerRequest
      BY <2>1 DEF PeerRequest
  <2> QED BY <2>2 DEF Task, MediatorTypeOK
<1>2. \A s \in Requests : req'[s].state = "none" => req'[s] = NoRequest
  <2> SUFFICES ASSUME NEW s \in Requests, req'[s].state = "none"
               PROVE  req'[s] = NoRequest
      OBVIOUS
  <2>1. CASE s = r
    <3>1. req[r] \in PeerRequest /\ req'[r] = [req[r] EXCEPT !.state = to]
        BY DEF MediatorTypeOK, Task
    <3>2. req'[r].state = to
        BY <3>1 DEF PeerRequest
    <3> QED BY <2>1, <3>2
  <2>2. CASE s # r
      BY <2>2 DEF MediatorTypeOK, Task
  <2> QED BY <2>1, <2>2
<1> QED
    BY <1>1, <1>2 DEF Task, MediatorTypeOK, loop, options, directs

LEMMA MediatorNextType == MediatorTypeOK /\ [MediatorNext]_mediatorVars => MediatorTypeOK'
<1> SUFFICES ASSUME MediatorTypeOK, [MediatorNext]_mediatorVars PROVE MediatorTypeOK'
    OBVIOUS
<1> USE DEF loop, options, peers, directs
<1>1. CASE Check
  <2>1. RequestsOK'
    <3>1. CASE req' = req
        BY <3>1 DEF MediatorTypeOK, RequestsOK
    <3>2. CASE req' = Told
      <4>1. \A s \in Requests :
               IF req[s].state = "added"
               THEN req'[s] = [req[s] EXCEPT !.state = "told"]
               ELSE req'[s] = req[s]
          BY <3>2 DEF Told
      <4>2. \A s \in Requests : req[s] \in PeerRequest
          BY DEF MediatorTypeOK
      <4>3. ASSUME NEW s \in Requests
            PROVE  /\ req'[s] \in PeerRequest
                   /\ req'[s].state = "none" => req'[s] = req[s]
        <5>1. CASE req[s].state = "added"
          <6>1. [req[s] EXCEPT !.state = "told"] \in PeerRequest
              BY <4>2 DEF PeerRequest
          <6>2. [req[s] EXCEPT !.state = "told"].state = "told"
              BY <4>2 DEF PeerRequest
          <6> QED BY <4>1, <5>1, <6>1, <6>2
        <5>2. CASE req[s].state # "added"
            BY <4>1, <4>2, <5>2
        <5> QED BY <5>1, <5>2
      <4>4. req' \in [Requests -> PeerRequest]
          BY <3>2, <4>3 DEF Told
      <4> QED BY <4>3, <4>4 DEF MediatorTypeOK, RequestsOK
    <3> QED BY <1>1, <3>1, <3>2 DEF Check
  <2> QED BY <1>1, <2>1 DEF Check, MediatorTypeOK, RequestsOK
<1>2. CASE Reset
  <2>1. missed' \in BOOLEAN
      BY <1>2 DEF Reset
  <2> QED BY <1>2, <2>1 DEF Reset, MediatorTypeOK
<1>3. CASE Begin \/ Wake
    BY <1>3 DEF Begin, Wake, MediatorTypeOK
<1>4. CASE End
    BY <1>4, MediatorBoundsAssumption DEF End, MediatorTypeOK
<1>5. CASE SetOptions
  <2>1. settings' \in 0 .. MaxSettings
      BY <1>5, MediatorBoundsAssumption DEF SetOptions, MediatorTypeOK
  <2>2. stop' \in BOOLEAN /\ tcp_option' \in BOOLEAN /\ caller' \in BOOLEAN
      BY <1>5 DEF SetOptions, MediatorTypeOK
  <2> QED BY <1>5, <2>1, <2>2 DEF SetOptions, MediatorTypeOK
<1>6. CASE RestartMediator
    BY <1>6 DEF RestartMediator, MediatorTypeOK
<1>7. CASE Elapse
  <2>1. last' \in [Locks -> [addr : Addrs \cup {NoAddr}, fresh : BOOLEAN]]
    <3>1. \A l \in Locks :
             [last[l] EXCEPT !.fresh = FALSE]
                \in [addr : Addrs \cup {NoAddr}, fresh : BOOLEAN]
        BY DEF MediatorTypeOK
    <3> QED BY <1>7, <3>1 DEF Elapse
  <2>2. \A s \in Requests :
           /\ req'[s] = [req[s] EXCEPT !.fresh = FALSE]
           /\ req[s] \in PeerRequest
      BY <1>7 DEF Elapse, MediatorTypeOK
  <2>3. ASSUME NEW s \in Requests
        PROVE  req'[s] \in PeerRequest /\ req'[s].state = req[s].state
    <3>1. [req[s] EXCEPT !.fresh = FALSE] \in PeerRequest
        BY <2>2 DEF PeerRequest
    <3>2. [req[s] EXCEPT !.fresh = FALSE].state = req[s].state
        BY <2>2 DEF PeerRequest
    <3> QED BY <2>2, <3>1, <3>2
  <2>4. req' \in [Requests -> PeerRequest]
      BY <1>7, <2>3 DEF Elapse
  <2>5. \A s \in Requests : req'[s].state = "none" => req'[s] = NoRequest
      BY <2>2, <2>3 DEF MediatorTypeOK, NoRequest
  <2> QED BY <1>7, <2>1, <2>4, <2>5 DEF Elapse, MediatorTypeOK
<1>8. CASE DirectCheck
  <2>1. errors' \in 0 .. MaxFails
      BY <1>8, MediatorBoundsAssumption DEF DirectCheck, MediatorTypeOK
  <2>2. listener' \in BOOLEAN /\ direct' \in {"check", "busy", "accept"}
      BY <1>8 DEF DirectCheck, MediatorTypeOK
  <2> QED BY <1>8, <2>1, <2>2 DEF DirectCheck, MediatorTypeOK
<1>9. CASE DirectBusy
    BY <1>9, MediatorBoundsAssumption DEF DirectBusy, MediatorTypeOK
<1>10. CASE DirectTimeout
    BY <1>10 DEF DirectTimeout, MediatorTypeOK
<1>11. ASSUME NEW r \in Requests, NEW new \in PeerRequest, new.state # "none",
              req' = [req EXCEPT ![r] = new]
       PROVE  RequestsOK'
    BY <1>11 DEF MediatorTypeOK, RequestsOK
<1>12. ASSUME NEW r \in Requests, Arrive(r) PROVE MediatorTypeOK'
  <2>1. PICK a \in Addrs, l \in Locks :
           req' = [req EXCEPT ![r].state = "read", ![r].addr = a,
                              ![r].lock = l]
      BY <1>12 DEF Arrive
  <2> DEFINE new == [req[r] EXCEPT !.state = "read", !.addr = a, !.lock = l]
  <2>2. req[r] \in PeerRequest
      BY DEF MediatorTypeOK
  <2>3. new \in PeerRequest /\ new.state # "none"
      BY <2>2 DEF PeerRequest
  <2>4. req' = [req EXCEPT ![r] = new]
      BY <2>1, <2>2 DEF MediatorTypeOK, PeerRequest
  <2> HIDE DEF new
  <2>5. RequestsOK'
      BY <1>11, <2>3, <2>4
  <2> QED BY <1>12, <2>5 DEF Arrive, MediatorTypeOK, RequestsOK
<1>13. ASSUME NEW r \in Requests, ReadLast(r) PROVE MediatorTypeOK'
  <2> DEFINE l == last[req[r].lock]
             new == [req[r] EXCEPT !.state = "write", !.seen = l.addr,
                                   !.fresh = l.fresh]
  <2>1. req[r] \in PeerRequest /\ l \in [addr : Addrs \cup {NoAddr},
                                     fresh : BOOLEAN]
      BY DEF MediatorTypeOK, PeerRequest
  <2>2. new \in PeerRequest /\ new.state # "none"
      BY <2>1 DEF PeerRequest
  <2>3. req' = [req EXCEPT ![r] = new]
      BY <1>13, <2>1 DEF ReadLast, MediatorTypeOK, PeerRequest
  <2> HIDE DEF new
  <2>4. RequestsOK'
      BY <1>11, <2>2, <2>3
  <2> QED BY <1>13, <2>4 DEF ReadLast, MediatorTypeOK, RequestsOK
<1>14. ASSUME NEW r \in Requests, WriteLast(r) PROVE MediatorTypeOK'
  <2> DEFINE new == [req[r] EXCEPT !.state = "decide"]
  <2>1. req[r] \in PeerRequest
      BY DEF MediatorTypeOK
  <2>2. new \in PeerRequest /\ new.state # "none"
      BY <2>1 DEF PeerRequest
  <2>3. req' = [req EXCEPT ![r] = new]
      BY <1>14, <2>1 DEF WriteLast, MediatorTypeOK
  <2>4. last' \in [Locks -> [addr : Addrs \cup {NoAddr}, fresh : BOOLEAN]]
      BY <1>14, <2>1 DEF WriteLast, MediatorTypeOK, PeerRequest
  <2> HIDE DEF new
  <2>5. RequestsOK'
      BY <1>11, <2>2, <2>3
  <2> QED BY <1>14, <2>4, <2>5 DEF WriteLast, MediatorTypeOK, RequestsOK
<1>15. ASSUME NEW r \in Requests, Decide(r) PROVE MediatorTypeOK'
  <2>1. req[r] \in PeerRequest
      BY DEF MediatorTypeOK
  <2>2. PICK st \in {"skipped", "serve"} :
           req' = [req EXCEPT ![r] = [NoRequest EXCEPT
                      !.addr = req[r].addr, !.lock = req[r].lock,
                      !.state = st]]
      BY <1>15 DEF Decide
  <2> DEFINE new == [NoRequest EXCEPT !.addr = req[r].addr,
                        !.lock = req[r].lock, !.state = st]
  <2>3. new \in PeerRequest /\ new.state # "none"
      BY <2>1 DEF PeerRequest, NoRequest
  <2>4. req' = [req EXCEPT ![r] = new]
      BY <2>2
  <2> HIDE DEF new
  <2>5. RequestsOK'
      BY <1>11, <2>3, <2>4
  <2> QED BY <1>15, <2>5 DEF Decide, MediatorTypeOK, RequestsOK
<1>16. ASSUME NEW r \in Requests, ServeRequest(r) \/ Add(r) \/ Leave(r) \/ Hangup(r)
       PROVE  MediatorTypeOK'
    BY <1>16, TaskType DEF ServeRequest, Add, Leave, Hangup
<1>17. ASSUME NEW r \in Requests, DirectAccept(r) PROVE MediatorTypeOK'
  <2> DEFINE new == [req[r] EXCEPT !.state = "connected"]
  <2>1. req[r] \in PeerRequest
      BY DEF MediatorTypeOK
  <2>2. new \in PeerRequest /\ new.state # "none"
      BY <2>1 DEF PeerRequest
  <2>3. req' = [req EXCEPT ![r] = new]
      BY <1>17, <2>1 DEF DirectAccept, MediatorTypeOK
  <2> HIDE DEF new
  <2>4. RequestsOK'
      BY <1>11, <2>2, <2>3
  <2> QED BY <1>17, <2>4 DEF DirectAccept, MediatorTypeOK, RequestsOK
<1>18. CASE UNCHANGED mediatorVars
    BY <1>18 DEF mediatorVars, MediatorTypeOK
<1> QED
    BY <1>1, <1>2, <1>3, <1>4, <1>5, <1>6, <1>7, <1>8, <1>9, <1>10, <1>12,
       <1>13, <1>14, <1>15, <1>16, <1>17, <1>18
       DEF MediatorNext, StartAll, Tasks, DirectServer

(* The state of the mediator keeps its types. *)
THEOREM MediatorTypeCorrect == MediatorSpec => []MediatorTypeOK
BY MediatorInitType, MediatorNextType, PTL DEF MediatorSpec

-----------------------------------------------------------------------------
(* Who serves a peer.  A task that did not find its own address in LAST_MSG*)
(* will serve, and goes on to.  Somebody has done so for the address in    *)
(* LAST_MSG, or is about to, and so for an address that was read there.    *)

Winner(r, a, l) ==
    /\ req[r].addr = a /\ req[r].lock = l
    /\ \/ req[r].state \in {"serve", "relay", "connected", "added", "told",
                             "over"}
       \/ /\ req[r].state \in {"write", "decide"}
          /\ ~(req[r].seen = req[r].addr /\ req[r].fresh)

HasWinner(a, l) == \E r \in Requests : Winner(r, a, l)

LastHasWinner ==
    \A l \in Locks : last[l].addr # NoAddr => HasWinner(last[l].addr, l)

AskedHaveAddress ==
    \A r \in Requests :
        req[r].state \in {"read", "write", "decide", "skipped"} =>
            req[r].addr # NoAddr

SeenHasWinner ==
    \A r \in Requests :
        \/ req[r].state = "skipped"
        \/ req[r].state \in {"write", "decide"} /\ req[r].seen = req[r].addr
        => HasWinner(req[r].addr, req[r].lock)

AskInv == LastHasWinner /\ AskedHaveAddress /\ SeenHasWinner

LEMMA AskImplies == MediatorTypeOK /\ AskInv => AskedIsServed
<1> SUFFICES ASSUME MediatorTypeOK, AskInv, NEW r \in Requests,
                    req[r].state = "skipped"
             PROVE  \E s \in Requests \ {r} :
                       /\ req[s].addr = req[r].addr
                       /\ req[s].lock = req[r].lock
                       /\ req[s].state \notin {"none", "skipped"}
    BY DEF AskedIsServed
<1>1. PICK s \in Requests : Winner(s, req[r].addr, req[r].lock)
    BY DEF AskInv, SeenHasWinner, HasWinner
<1>2. s # r
    BY <1>1 DEF Winner
<1> QED BY <1>1, <1>2 DEF Winner

LEMMA AskInit == MediatorInit => AskInv
BY DEF MediatorInit, AskInv, LastHasWinner, AskedHaveAddress, SeenHasWinner,
       NoRequest, Locks

(* Winners stay winners. *)
LEMMA WinnersStay ==
    ASSUME MediatorTypeOK, [MediatorNext]_mediatorVars, NEW r \in Requests, NEW a, NEW l,
           Winner(r, a, l)
    PROVE  Winner(r, a, l)'
<1> USE DEF loop, options, peers, directs, Winner
<1>0. \A s \in Requests : req[s] \in PeerRequest
    BY DEF MediatorTypeOK
<1>1. CASE req' = req
    BY <1>1
<1>2. CASE Check
  <2>1. req'[r] = req[r] \/ (/\ req[r].state = "added"
                            /\ req'[r] = [req[r] EXCEPT !.state = "told"])
      BY <1>2 DEF Check, Told
  <2> QED BY <1>0, <2>1 DEF PeerRequest
<1>3. CASE Elapse
  <2>1. req'[r] = [req[r] EXCEPT !.fresh = FALSE]
      BY <1>3 DEF Elapse
  <2> QED BY <1>0, <2>1 DEF PeerRequest
<1>4. ASSUME NEW s \in Requests, Arrive(s) \/ ReadLast(s) \/ DirectAccept(s)
      PROVE  Winner(r, a, l)'
  <2>1. s # r
      BY <1>4 DEF Arrive, ReadLast, DirectAccept
  <2>2. req'[r] = req[r]
      BY <1>4, <2>1 DEF Arrive, ReadLast, DirectAccept, MediatorTypeOK
  <2> QED BY <2>2
<1>5. ASSUME NEW s \in Requests, WriteLast(s) PROVE Winner(r, a, l)'
  <2>1. CASE s = r
    <3>1. /\ req[r].state = "write"
          /\ req'[r] = [req[r] EXCEPT !.state = "decide"]
        BY <1>5, <2>1 DEF WriteLast, MediatorTypeOK
    <3> QED BY <1>0, <3>1 DEF PeerRequest
  <2>2. CASE s # r
      BY <1>5, <2>2 DEF WriteLast, MediatorTypeOK
  <2> QED BY <2>1, <2>2
<1>6. ASSUME NEW s \in Requests, Decide(s) PROVE Winner(r, a, l)'
  <2>1. CASE s = r
    <3>1. ~(req[r].seen = req[r].addr /\ req[r].fresh)
        BY <1>6, <2>1 DEF Decide
    <3>2. req'[r] = [NoRequest EXCEPT !.addr = req[r].addr,
                        !.lock = req[r].lock, !.state = "serve"]
        BY <1>6, <2>1, <3>1 DEF Decide, MediatorTypeOK
    <3> QED BY <1>0, <3>2 DEF PeerRequest, NoRequest
  <2>2. CASE s # r
      BY <1>6, <2>2 DEF Decide, MediatorTypeOK
  <2> QED BY <2>1, <2>2
<1>7. ASSUME NEW s \in Requests, ServeRequest(s) \/ Add(s) \/ Leave(s) \/ Hangup(s)
      PROVE  Winner(r, a, l)'
  <2>1. PICK to \in {"relay", "connected", "added", "over"} :
           req' = [req EXCEPT ![s].state = to]
      BY <1>7 DEF ServeRequest, Add, Leave, Hangup, Task
  <2>2. CASE s = r
    <3>1. req'[r] = [req[r] EXCEPT !.state = to]
        BY <2>1, <2>2 DEF MediatorTypeOK
    <3> QED BY <1>0, <2>1, <3>1 DEF PeerRequest
  <2>3. CASE s # r
      BY <2>1, <2>3 DEF MediatorTypeOK
  <2> QED BY <2>2, <2>3
<1> QED
    BY <1>1, <1>2, <1>3, <1>4, <1>5, <1>6, <1>7
       DEF MediatorNext, StartAll, Tasks, DirectServer, Reset, Begin, End, Wake,
           SetOptions, RestartMediator, DirectCheck, DirectBusy, DirectTimeout, mediatorVars

LEMMA AskNext == MediatorTypeOK /\ AskInv /\ [MediatorNext]_mediatorVars => AskInv'
<1> SUFFICES ASSUME MediatorTypeOK, AskInv, [MediatorNext]_mediatorVars PROVE AskInv'
    OBVIOUS
<1> USE DEF loop, options, peers, directs
<1>0. \A s \in Requests : req[s] \in PeerRequest
    BY DEF MediatorTypeOK
<1>1. \A a, l : HasWinner(a, l) => HasWinner(a, l)'
    BY WinnersStay DEF HasWinner
<1>2. ASSUME \A l \in Locks : last'[l].addr = last[l].addr,
             \A r \in Requests :
                \/ req'[r].state \notin {"read", "write", "decide", "skipped"}
                \/ /\ req'[r].state = req[r].state
                   /\ req'[r].addr = req[r].addr
                   /\ req'[r].lock = req[r].lock
                   /\ req'[r].seen = req[r].seen
      PROVE  AskInv'
  <2>1. LastHasWinner'
      BY <1>1, <1>2 DEF AskInv, LastHasWinner
  <2>2. AskedHaveAddress'
      BY <1>2 DEF AskInv, AskedHaveAddress
  <2>3. SeenHasWinner'
      BY <1>1, <1>2 DEF AskInv, SeenHasWinner
  <2> QED BY <2>1, <2>2, <2>3 DEF AskInv
<1>3. CASE UNCHANGED <<req, last>>
    BY <1>2, <1>3
<1>4. CASE Check
  <2>1. last' = last
      BY <1>4 DEF Check
  <2>2. \A r \in Requests :
           req'[r] = req[r] \/ req'[r] = [req[r] EXCEPT !.state = "told"]
      BY <1>4 DEF Check, Told
  <2>3. \A r \in Requests : req'[r] = req[r] \/ req'[r].state = "told"
      BY <1>0, <2>2 DEF PeerRequest
  <2> QED BY <1>2, <2>1, <2>3
<1>5. CASE Elapse
  <2>1. \A l \in Locks : last'[l].addr = last[l].addr
      BY <1>5 DEF Elapse, MediatorTypeOK
  <2>2. \A r \in Requests : req'[r] = [req[r] EXCEPT !.fresh = FALSE]
      BY <1>5 DEF Elapse
  <2>3. \A r \in Requests :
           /\ req'[r].state = req[r].state /\ req'[r].addr = req[r].addr
           /\ req'[r].lock = req[r].lock /\ req'[r].seen = req[r].seen
      BY <1>0, <2>2 DEF PeerRequest
  <2> QED BY <1>2, <2>1, <2>3
<1>6. ASSUME NEW s \in Requests, Arrive(s) PROVE AskInv'
  <2>1. PICK a \in Addrs, l \in Locks :
           req' = [req EXCEPT ![s].state = "read", ![s].addr = a,
                              ![s].lock = l]
      BY <1>6 DEF Arrive
  <2>2. /\ req'[s].state = "read" /\ req'[s].addr = a
        /\ \A r \in Requests \ {s} : req'[r] = req[r]
        /\ last' = last
      BY <1>0, <1>6, <2>1 DEF MediatorTypeOK, PeerRequest, Arrive
  <2>3. LastHasWinner'
      BY <1>1, <2>2 DEF AskInv, LastHasWinner
  <2>4. AskedHaveAddress'
      BY <2>2, AddrsAssumption DEF AskInv, AskedHaveAddress
  <2>5. SeenHasWinner'
      BY <1>1, <2>2 DEF AskInv, SeenHasWinner
  <2> QED BY <2>3, <2>4, <2>5 DEF AskInv
<1>7. ASSUME NEW s \in Requests, ReadLast(s) PROVE AskInv'
  <2>1. /\ req[s].state = "read" /\ req[s].lock \in Locks
        /\ req'[s].state = "write" /\ req'[s].addr = req[s].addr
        /\ req'[s].lock = req[s].lock
        /\ req'[s].seen = last[req[s].lock].addr
        /\ \A r \in Requests \ {s} : req'[r] = req[r]
        /\ last' = last
      BY <1>0, <1>7 DEF MediatorTypeOK, PeerRequest, ReadLast
  <2>2. req[s].addr # NoAddr
      BY <2>1 DEF AskInv, AskedHaveAddress
  <2>3. LastHasWinner'
      BY <1>1, <2>1 DEF AskInv, LastHasWinner
  <2>4. AskedHaveAddress'
      BY <2>1, <2>2 DEF AskInv, AskedHaveAddress
  <2>5. req'[s].seen = req'[s].addr =>
           HasWinner(req[s].addr, req[s].lock)
      BY <2>1, <2>2 DEF AskInv, LastHasWinner
  <2>6. SeenHasWinner'
      BY <1>1, <2>1, <2>5 DEF AskInv, SeenHasWinner
  <2> QED BY <2>3, <2>4, <2>6 DEF AskInv
<1>8. ASSUME NEW s \in Requests, WriteLast(s) PROVE AskInv'
  <2>1. /\ req[s].state = "write" /\ req[s].lock \in Locks
        /\ req'[s] = [req[s] EXCEPT !.state = "decide"]
        /\ \A r \in Requests \ {s} : req'[r] = req[r]
      BY <1>0, <1>8 DEF MediatorTypeOK, PeerRequest, WriteLast
  <2>2. /\ req'[s].state = "decide" /\ req'[s].addr = req[s].addr
        /\ req'[s].lock = req[s].lock /\ req'[s].seen = req[s].seen
      BY <1>0, <2>1 DEF PeerRequest
  <2>3. \A l \in Locks :
           IF l = req[s].lock THEN last'[l].addr = req[s].addr
                              ELSE last'[l] = last[l]
      BY <1>8, <2>1 DEF MediatorTypeOK, WriteLast
  <2>4. HasWinner(req[s].addr, req[s].lock)
    <3>1. CASE req[s].seen = req[s].addr
        BY <2>1, <3>1 DEF AskInv, SeenHasWinner
    <3>2. CASE req[s].seen # req[s].addr
        BY <2>1, <3>2 DEF HasWinner, Winner
    <3> QED BY <3>1, <3>2
  <2>5. LastHasWinner'
      BY <1>1, <2>3, <2>4 DEF AskInv, LastHasWinner
  <2>6. AskedHaveAddress'
    <3>1. \A r \in Requests : req'[r].addr = req[r].addr
        BY <2>1, <2>2
    <3>2. \A r \in Requests \ {s} : req'[r].state = req[r].state
        BY <2>1
    <3> QED BY <2>1, <3>1, <3>2 DEF AskInv, AskedHaveAddress
  <2>7. SeenHasWinner'
    <3>1. HasWinner(req[s].addr, req[s].lock)'
        BY <1>1, <2>2, <2>4
    <3>2. \A r \in Requests \ {s} :
             HasWinner(req[r].addr, req[r].lock) =>
                HasWinner(req[r].addr, req[r].lock)'
        BY <1>1, <2>1
    <3> QED BY <2>1, <3>1, <3>2 DEF AskInv, SeenHasWinner
  <2> QED BY <2>5, <2>6, <2>7 DEF AskInv
<1>9. ASSUME NEW s \in Requests, Decide(s) PROVE AskInv'
  <2>1. PICK st \in {"skipped", "serve"} :
           /\ req' = [req EXCEPT ![s] = [NoRequest EXCEPT
                         !.addr = req[s].addr, !.lock = req[s].lock,
                         !.state = st]]
           /\ st = "skipped" => req[s].seen = req[s].addr
      BY <1>9 DEF Decide
  <2>2. /\ req[s].state = "decide" /\ req'[s].state = st
        /\ req'[s].addr = req[s].addr /\ req'[s].lock = req[s].lock
        /\ \A r \in Requests \ {s} : req'[r] = req[r]
        /\ last' = last
    <3>1. /\ req[s].state = "decide" /\ last' = last
          /\ \A r \in Requests \ {s} : req'[r] = req[r]
        BY <1>9, <2>1 DEF MediatorTypeOK, Decide
    <3>2. req'[s] = [NoRequest EXCEPT !.addr = req[s].addr,
                        !.lock = req[s].lock, !.state = st]
        BY <2>1 DEF MediatorTypeOK
    <3> QED BY <3>1, <3>2 DEF NoRequest
  <2>3. LastHasWinner'
      BY <1>1, <2>2 DEF AskInv, LastHasWinner
  <2>4. AskedHaveAddress'
      BY <2>2 DEF AskInv, AskedHaveAddress
  <2>5. SeenHasWinner'
      BY <1>1, <2>1, <2>2 DEF AskInv, SeenHasWinner
  <2> QED BY <2>3, <2>4, <2>5 DEF AskInv
<1>10. ASSUME NEW s \in Requests,
              ServeRequest(s) \/ Add(s) \/ Leave(s) \/ Hangup(s) \/ DirectAccept(s)
       PROVE  AskInv'
  <2>1. PICK to \in {"relay", "connected", "added", "over"} :
           req' = [req EXCEPT ![s].state = to] /\ last' = last
      BY <1>10 DEF ServeRequest, Add, Leave, Hangup, Task, DirectAccept
  <2>2. /\ req'[s].state = to
        /\ \A r \in Requests \ {s} : req'[r] = req[r]
      BY <1>0, <2>1 DEF MediatorTypeOK, PeerRequest
  <2> QED BY <1>2, <2>1, <2>2
<1> QED
    BY <1>3, <1>4, <1>5, <1>6, <1>7, <1>8, <1>9, <1>10
       DEF MediatorNext, StartAll, Tasks, DirectServer, Reset, Begin, End, Wake,
           SetOptions, RestartMediator, DirectCheck, DirectBusy, DirectTimeout, mediatorVars

(* Tasks for copies of a message never all take another for the one that   *)
(* serves, though each reads and stores the last message in two steps.     *)
THEOREM AskedIsServedHolds == MediatorSpec => []AskedIsServed
<1>1. MediatorSpec => [](MediatorTypeOK /\ AskInv)
    BY MediatorInitType, MediatorNextType, AskInit, AskNext, PTL DEF MediatorSpec
<1> QED BY <1>1, AskImplies, PTL
=============================================================================
