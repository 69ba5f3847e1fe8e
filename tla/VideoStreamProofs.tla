------------------------- MODULE VideoStreamProofs -------------------------
(***************************************************************************)
(* Proofs about the video service of one display, for every finite set of  *)
(* connections and every bound: types, who is sent frames it cannot        *)
(* decode, how many frames are under way, and what becomes of a refresh.   *)
(***************************************************************************)
EXTENDS VideoStream, FiniteSetTheorems, TLAPS

Pcs == {"outside", "clear", "top", "capture", "snapshot", "callback", "drop",
        "dropSwitch", "encode", "sent", "wait", "done"}

Encoders == [started : BOOLEAN, tried : BOOLEAN, fails : 0 .. MAX_FAIL_TIMES - 1,
             hardware : BOOLEAN, repeat : BOOLEAN]

\* Room for the frame that is being made, and for the round of the wait.
Room ==
    /\ pc \in {"snapshot", "callback", "drop", "encode"} =>
         \A c \in Conn : pending[c] < MaxPending
    /\ pc = "wait" => rounds \in 1 .. WaitRounds

\* Nobody is let in beside old subscribers, and everybody who is subscribed
\* to a started encoder has had its first frame or has taken it over.
Keyed ==
    /\ pc \in {"outside", "clear"} => ~encoder.started
    /\ pc = "drop" => subscribes = {}
    /\ encoder.started => subscribes \subseteq keyed \cup handover

\* While no wait was given up and nobody has closed: a frame under way
\* belongs to the wait in progress, and so does every acknowledgement.
Sending == {"sent", "wait"}

Pace ==
    /\ pc \in {"capture", "snapshot", "callback", "drop", "dropSwitch", "encode"} =>
         sendConnIds = {}
    /\ ~disturbed =>
         /\ \A c \in Conn : pending[c] <= 1
         /\ pc \notin Sending => channel = {} /\ \A c \in Conn : pending[c] = 0
         /\ pc = "sent" => channel \subseteq sendConnIds
         /\ pc = "wait" => channel \cup fetched \subseteq sendConnIds
         /\ pc = "sent" => \A c \in Conn : pending[c] # 0 => c \in sendConnIds \ channel
         /\ pc = "wait" =>
              \A c \in Conn : pending[c] # 0 => c \in sendConnIds \ (channel \cup fetched)

\* The inductive invariant.
Inv == TypeOK /\ Room /\ Keyed /\ BlindOnlyAfterHandover /\ Pace

USE DEF service, client, acks, waiting, history, vars, members, Sending

\* Nothing is known, sent or awaited at the start.
LEMMA InitInv == Init => Inv
<1> SUFFICES ASSUME Init PROVE Inv
  OBVIOUS
<1> USE VideoStreamAssumption DEF Init
<1>1. encoder \in Encoders
  BY DEF Encoders, NoEncoder
<1>2. pending \in [Conn -> 0 .. MaxPending] /\ rounds \in 0 .. WaitRounds
  OBVIOUS
<1>3. conn \in [Conn -> {"new", "open", "closing", "gone"}]
  OBVIOUS
<1>4. TypeOK
  BY <1>1, <1>2, <1>3 DEF TypeOK, Encoders
<1> QED
  BY <1>4 DEF Inv, Room, Keyed, BlindOnlyAfterHandover, Pace, NoEncoder

-----------------------------------------------------------------------------
(* Connections. *)

LEMMA SubscribeInv ==
    ASSUME Inv, NEW c \in Conn, Subscribe(c)
    PROVE  Inv'
<1> USE DEF Inv, Subscribe
<1>1. TypeOK'
  BY DEF TypeOK
<1>2. Room' /\ Keyed' /\ BlindOnlyAfterHandover'
  BY DEF Room, Keyed, BlindOnlyAfterHandover
<1>3. Pace'
  BY DEF Pace
<1> QED BY <1>1, <1>2, <1>3

LEMMA LeaveInv ==
    ASSUME Inv, NEW c \in Conn, Leave(c),
           conn' \in [Conn -> {"new", "open", "closing", "gone"}]
    PROVE  Inv'
<1> USE DEF Inv, Leave
<1>1. TypeOK'
  BY DEF TypeOK
<1>2. Room' /\ Keyed' /\ BlindOnlyAfterHandover'
  BY DEF Room, Keyed, BlindOnlyAfterHandover
<1>3. Pace'
  BY DEF Pace
<1> QED BY <1>1, <1>2, <1>3

\* A frame is taken: the acknowledgement goes into the channel, or nowhere.
LEMMA AckInv ==
    ASSUME Inv, NEW c \in Conn, pending[c] > 0,
           pending' = [pending EXCEPT ![c] = @ - 1],
           channel' = channel \cup {c} \/ channel' = channel,
           UNCHANGED <<service, conn, displayConnIds, pc, encoder, waiting, history>>
    PROVE  Inv'
<1> USE DEF Inv
<1>0. /\ \A x \in Conn : pending[x] \in 0 .. MaxPending /\ MaxPending \in Nat
      /\ pending'[c] = pending[c] - 1
      /\ \A x \in Conn \ {c} : pending'[x] = pending[x]
  BY VideoStreamAssumption DEF TypeOK
<1>1. pending' \in [Conn -> 0 .. MaxPending]
  BY <1>0 DEF TypeOK
<1>2. TypeOK'
  BY <1>1 DEF TypeOK
<1>3. Room'
  BY <1>0 DEF Room
<1>4. Keyed' /\ BlindOnlyAfterHandover'
  BY DEF Keyed, BlindOnlyAfterHandover
<1>5. Pace'
  <2>1. CASE disturbed
    BY <2>1 DEF Pace
  <2>2. CASE ~disturbed
    <3>1. pc \in Sending /\ pending[c] = 1 /\ pending'[c] = 0 /\ c \in sendConnIds
      BY <1>0, <2>2 DEF Pace
    <3>2. \A x \in Conn : pending'[x] <= 1
      BY <1>0, <2>2, <3>1 DEF Pace
    <3>3. channel' \subseteq channel \cup {c}
      OBVIOUS
    <3>4. pc = "sent" => channel' \subseteq sendConnIds
      BY <2>2, <3>1, <3>3 DEF Pace
    <3>5. pc = "wait" => channel' \cup fetched \subseteq sendConnIds
      BY <2>2, <3>1, <3>3 DEF Pace
    <3>6. ASSUME NEW x \in Conn, pending'[x] # 0
          PROVE  /\ pc = "sent" => x \in sendConnIds \ channel'
                 /\ pc = "wait" => x \in sendConnIds \ (channel' \cup fetched)
      <4>1. x # c /\ pending[x] # 0
        BY <1>0, <3>1, <3>6
      <4> QED BY <2>2, <3>3, <4>1 DEF Pace
    <3> QED BY <2>2, <3>1, <3>2, <3>4, <3>5, <3>6 DEF Pace
  <2> QED BY <2>1, <2>2
<1> QED BY <1>2, <1>3, <1>4, <1>5

\* A closing connection is a disturbance; what it puts into the channel is
\* no longer constrained.
LEMMA CloseNotifyInv ==
    ASSUME Inv, NEW c \in Conn, CloseNotify(c)
    PROVE  Inv'
<1> USE DEF Inv, CloseNotify, NotifyByConnId
<1>1. TypeOK'
  BY DEF TypeOK
<1>2. Room' /\ Keyed' /\ BlindOnlyAfterHandover'
  BY DEF Room, Keyed, BlindOnlyAfterHandover
<1>3. Pace'
  BY DEF Pace
<1> QED BY <1>1, <1>2, <1>3

LEMMA ClientInv ==
    ASSUME Inv, Client
    PROVE  Inv'
<1>1. PICK c \in Conn :
        \/ Subscribe(c) \/ Unsubscribe(c) \/ RefreshVideo(c)
        \/ FetchFrame(c) \/ VideoReceived(c) \/ CloseNotify(c) \/ CloseRemove(c)
  BY DEF Client
<1>2. CASE Unsubscribe(c) \/ CloseRemove(c)
  BY <1>2, LeaveInv DEF Unsubscribe, CloseRemove, Inv, TypeOK
<1>3. CASE RefreshVideo(c)
  <2> USE <1>3 DEF RefreshVideo, Inv
  <2>1. TypeOK'
    BY DEF TypeOK
  <2>2. Room' /\ Keyed' /\ BlindOnlyAfterHandover' /\ Pace'
    BY DEF Room, Keyed, BlindOnlyAfterHandover, Pace
  <2> QED BY <2>1, <2>2
<1>4. CASE FetchFrame(c)
  BY <1>4, AckInv DEF FetchFrame
<1>5. CASE VideoReceived(c)
  BY <1>5, AckInv DEF VideoReceived, NotifyByConnId
<1> QED BY <1>1, <1>2, <1>3, <1>4, <1>5, SubscribeInv, CloseNotifyInv

-----------------------------------------------------------------------------
(* The thread. *)

\* The inner loop returns; where it returns from, no frame is under way
\* unless the wait is given up.
LEMMA ExitInv ==
    ASSUME Inv, Exit, UNCHANGED <<refresh, client>>,
           subscribes' \subseteq Conn, newSubscribes' \subseteq Conn,
           disturbed' \in BOOLEAN,
           disturbed => disturbed',
           pc \in Sending => disturbed'
    PROVE  Inv'
<1> USE DEF Inv, Exit
<1>1. NoEncoder \in Encoders
  BY VideoStreamAssumption DEF NoEncoder, Encoders
<1>2. TypeOK'
  BY <1>1, VideoStreamAssumption DEF TypeOK, Encoders
<1>3. Room' /\ Keyed' /\ BlindOnlyAfterHandover'
  BY DEF Room, Keyed, BlindOnlyAfterHandover, NoEncoder
<1>4. Pace'
  BY DEF Pace
<1> QED BY <1>2, <1>3, <1>4

LEMMA SetupInv ==
    ASSUME Inv, Setup
    PROVE  Inv'
<1> USE DEF Inv
<1>1. CASE Exit
  BY <1>1, ExitInv DEF Setup, TypeOK
<1>2. CASE encoder' \in NewEncoder /\ pc' = "clear"
           /\ UNCHANGED <<acks, waiting, keyed, blind, handover>>
  <2> USE <1>2 DEF Setup
  <2>1. encoder' \in Encoders /\ ~encoder'.started
    <3>1. 0 \in 0 .. MAX_FAIL_TIMES - 1
      BY VideoStreamAssumption
    <3>2. encoder'.started = FALSE
      BY DEF NewEncoder
    <3> QED BY <3>1, <3>2 DEF NewEncoder, Encoders
  <2>2. TypeOK'
    BY <2>1 DEF TypeOK, Encoders
  <2>3. Room' /\ Keyed' /\ BlindOnlyAfterHandover'
    BY <2>1 DEF Room, Keyed, BlindOnlyAfterHandover
  <2>4. Pace'
    BY DEF Pace
  <2> QED BY <2>2, <2>3, <2>4
<1> QED BY <1>1, <1>2 DEF Setup

LEMMA ClearRefreshInv ==
    ASSUME Inv, ClearRefresh
    PROVE  Inv'
<1> USE DEF Inv, ClearRefresh
<1>1. TypeOK'
  BY DEF TypeOK
<1>2. Room' /\ Keyed' /\ BlindOnlyAfterHandover'
  BY DEF Room, Keyed, BlindOnlyAfterHandover
<1>3. Pace'
  BY DEF Pace
<1> QED BY <1>1, <1>2, <1>3

LEMMA LoopHeadInv ==
    ASSUME Inv, LoopHead
    PROVE  Inv'
<1> USE DEF Inv
<1>1. CASE Exit
  BY <1>1, ExitInv DEF LoopHead, TypeOK
<1>2. CASE pc' = "capture" /\ sendConnIds' = {}
           /\ UNCHANGED <<acks, encoder, fetched, rounds, keyed, blind, handover>>
  <2> USE <1>2 DEF LoopHead
  <2>1. TypeOK'
    BY DEF TypeOK
  <2>2. Room' /\ Keyed' /\ BlindOnlyAfterHandover'
    BY DEF Room, Keyed, BlindOnlyAfterHandover
  <2>3. Pace'
    BY DEF Pace
  <2> QED BY <2>1, <2>2, <2>3
<1> QED BY <1>1, <1>2 DEF LoopHead

\* An iteration without a frame: there is nobody to wait for.
LEMMA NoFrameInv ==
    ASSUME Inv, pc \in {"capture", "encode"}, pc' = "wait",
           fetched' = {}, rounds' = WaitRounds, encoder' \in Encoders,
           encoder'.started = encoder.started,
           UNCHANGED <<service, client, acks, sendConnIds, history>>
    PROVE  Inv'
<1> USE VideoStreamAssumption DEF Inv
<1>1. TypeOK'
  BY DEF TypeOK, Encoders
<1>2. Room' /\ Keyed' /\ BlindOnlyAfterHandover'
  BY DEF Room, Keyed, BlindOnlyAfterHandover
<1>3. Pace'
  BY DEF Pace
<1> QED BY <1>1, <1>2, <1>3

LEMMA CaptureInv ==
    ASSUME Inv, Capture
    PROVE  Inv'
<1> USE DEF Inv
<1>1. CASE Exit
  BY <1>1, ExitInv DEF Capture, TypeOK
<1>2. CASE pc' = "snapshot" /\ (\A c \in Conn : pending[c] < MaxPending)
           /\ UNCHANGED <<acks, encoder, waiting, keyed, blind, handover>>
  <2> USE <1>2 DEF Capture
  <2>1. TypeOK'
    BY DEF TypeOK
  <2>2. Room' /\ Keyed' /\ BlindOnlyAfterHandover'
    BY DEF Room, Keyed, BlindOnlyAfterHandover
  <2>3. Pace'
    BY DEF Pace
  <2> QED BY <2>1, <2>2, <2>3
<1>3. CASE pc' = "wait" /\ fetched' = {} /\ rounds' = WaitRounds
           /\ UNCHANGED <<acks, encoder, sendConnIds, keyed, blind, handover>>
  <2>1. encoder' \in Encoders
    BY <1>3 DEF TypeOK, Encoders
  <2> QED BY <1>3, <2>1, NoFrameInv DEF Capture
<1> QED BY <1>1, <1>2, <1>3 DEF Capture

LEMMA SnapshotInv ==
    ASSUME Inv, SnapshotCheck \/ SnapshotCallback
    PROVE  Inv'
<1> USE DEF Inv, SnapshotCheck, SnapshotCallback
<1>1. TypeOK'
  BY DEF TypeOK
<1>2. Room' /\ Keyed' /\ BlindOnlyAfterHandover'
  BY DEF Room, Keyed, BlindOnlyAfterHandover
<1>3. Pace'
  BY DEF Pace
<1> QED BY <1>1, <1>2, <1>3

LEMMA SwapDropInv ==
    ASSUME Inv, SwapDrop
    PROVE  Inv'
<1> USE DEF Inv
<1>1. CASE pc = "dropSwitch" /\ Exit
  BY <1>1, ExitInv DEF SwapDrop, TypeOK
<1>2. CASE pc = "drop"
  <2> USE <1>2 DEF SwapDrop
  <2>1. TypeOK'
    BY DEF TypeOK
  <2>2. subscribes = {} /\ subscribes' = newSubscribes
    BY DEF Keyed
  <2>3. encoder.started => handover' = handover \cup newSubscribes
    BY <2>2
  <2>4. handover \subseteq handover'
    OBVIOUS
  <2>5. Room' /\ Keyed' /\ BlindOnlyAfterHandover'
    BY <2>2, <2>3, <2>4 DEF Room, Keyed, BlindOnlyAfterHandover
  <2>6. Pace'
    BY DEF Pace
  <2> QED BY <2>1, <2>5, <2>6
<1> QED BY <1>1, <1>2 DEF SwapDrop

\* The frame goes to the subscribers; none of them has another one under way.
LEMMA EncodeSendInv ==
    ASSUME Inv, EncodeSend
    PROVE  Inv'
<1> USE DEF Inv, EncodeSend
<1>0. /\ \A x \in Conn : pending[x] \in 0 .. MaxPending /\ pending[x] < MaxPending
      /\ MaxPending \in Nat
  BY VideoStreamAssumption DEF TypeOK, Room
<1>1. \A x \in Conn : pending'[x] = IF x \in subscribes THEN pending[x] + 1 ELSE pending[x]
  BY <1>0
<1>2. pending' \in [Conn -> 0 .. MaxPending]
  BY <1>0
<1>3. encoder' \in Encoders /\ encoder'.started
  <2>1. encoder \in Encoders /\ 0 \in 0 .. MAX_FAIL_TIMES - 1
    BY VideoStreamAssumption DEF TypeOK, Encoders
  <2>2. encoder' = [encoder EXCEPT !.started = TRUE, !.tried = TRUE, !.fails = 0]
    OBVIOUS
  <2> QED BY <2>1, <2>2 DEF Encoders
<1>4. keyed' \subseteq Conn /\ blind' \subseteq Conn
  BY DEF TypeOK
<1>5. TypeOK'
  BY <1>2, <1>3, <1>4 DEF TypeOK, Encoders
<1>6. Room'
  BY DEF Room
<1>7. Keyed' /\ BlindOnlyAfterHandover'
  <2>1. CASE encoder.started
    BY <1>3, <2>1 DEF Keyed, BlindOnlyAfterHandover
  <2>2. CASE ~encoder.started
    BY <1>3, <2>2 DEF Keyed, BlindOnlyAfterHandover
  <2> QED BY <2>1, <2>2
<1>8. Pace'
  BY <1>0, <1>1 DEF Pace
<1> QED BY <1>5, <1>6, <1>7, <1>8

LEMMA EncodeFailInv ==
    ASSUME Inv, EncodeFail
    PROVE  Inv'
<1> USE DEF Inv
<1>1. CASE Exit
  BY <1>1, ExitInv DEF EncodeFail, TypeOK
<1>2. CASE ~Exit
  <2>1. PICK fails \in {0, encoder.fails + 1} :
          /\ encoder' = [encoder EXCEPT !.tried = TRUE, !.fails = fails]
          /\ fails = 0 \/ ~(fails >= MAX_FAIL_TIMES)
          /\ pc = "encode" /\ pc' = "wait" /\ fetched' = {} /\ rounds' = WaitRounds
          /\ UNCHANGED <<service, client, acks, sendConnIds, history>>
    BY <1>2 DEF EncodeFail
  <2>2. fails \in 0 .. MAX_FAIL_TIMES - 1
    BY <2>1, VideoStreamAssumption DEF TypeOK
  <2>3. encoder' \in Encoders /\ encoder'.started = encoder.started
    BY <2>1, <2>2 DEF TypeOK, Encoders
  <2> QED BY <2>1, <2>3, NoFrameInv
<1> QED BY <1>1, <1>2

LEMMA SetSendInv ==
    ASSUME Inv, SetSend
    PROVE  Inv'
<1> USE VideoStreamAssumption DEF Inv, SetSend
<1>1. TypeOK'
  BY DEF TypeOK
<1>2. Room' /\ Keyed' /\ BlindOnlyAfterHandover'
  BY DEF Room, Keyed, BlindOnlyAfterHandover
<1>3. Pace'
  BY DEF Pace
<1> QED BY <1>1, <1>2, <1>3

\* The test by number is a test by name as long as every acknowledgement is
\* one of the frame that is waited for.
LEMMA AllFetchedMeansAll ==
    ASSUME NEW f, NEW s \in SUBSET Conn, f \subseteq s, Cardinality(f) >= Cardinality(s)
    PROVE  f = s
<1>1. IsFiniteSet(s)
  BY VideoStreamAssumption, FS_Subset
<1>2. IsFiniteSet(f) /\ Cardinality(f) <= Cardinality(s)
      /\ (Cardinality(s) = Cardinality(f) => s = f)
  BY <1>1, FS_Subset
<1>3. Cardinality(f) \in Nat /\ Cardinality(s) \in Nat
  BY <1>1, <1>2, FS_CardinalityType
<1> QED BY <1>2, <1>3

LEMMA WaitNextInv ==
    ASSUME Inv, WaitNext
    PROVE  Inv'
<1> USE DEF Inv
<1>0. /\ pc = "wait" /\ rounds \in 1 .. WaitRounds /\ WaitRounds \in Nat
      /\ UNCHANGED <<service, client, displayConnIds, encoder, sendConnIds, keyed, blind, handover>>
      /\ channel' \subseteq channel /\ fetched' \subseteq fetched \cup channel
      /\ channel' \cup fetched' = channel \cup fetched
      /\ sendConnIds # {} => channel' = {}
  BY VideoStreamAssumption DEF WaitNext, Room
<1>1. /\ pc' \in {"wait", "done"} /\ rounds' \in 0 .. WaitRounds
      /\ pc' = "wait" => rounds' \in 1 .. WaitRounds
      /\ disturbed' \in BOOLEAN /\ (disturbed => disturbed')
      /\ pc' = "done" => AllFetched(fetched') \/ disturbed'
  <2>1. RoundEnds(fetched') /\ disturbed \in BOOLEAN
    BY DEF WaitNext, TypeOK
  <2>2. CASE AllFetched(fetched') /\ pc' = "done" /\ UNCHANGED <<rounds, disturbed>>
    BY <1>0, <2>1, <2>2
  <2>3. CASE /\ ~AllFetched(fetched') /\ rounds' = rounds - 1
             /\ pc' = IF rounds' = 0 THEN "done" ELSE "wait"
             /\ disturbed' = (disturbed \/ rounds' = 0)
    <3>1. CASE rounds' = 0
      <4>1. disturbed' = TRUE
        BY <2>3, <3>1
      <4>2. pc' = "done" /\ 0 \in 0 .. WaitRounds
        BY <1>0, <2>3, <3>1
      <4> QED BY <3>1, <4>1, <4>2
    <3>2. CASE rounds' # 0
      <4>1. pc' = "wait" /\ disturbed' = disturbed
        BY <2>1, <2>3, <3>2
      <4> QED BY <1>0, <2>1, <2>3, <3>2, <4>1
    <3> QED BY <3>1, <3>2
  <2>4. CASE ~AllFetched(fetched') /\ channel # {} /\ UNCHANGED <<pc, rounds, disturbed>>
    BY <1>0, <2>1, <2>4
  <2> QED BY <2>1, <2>2, <2>3, <2>4 DEF RoundEnds
<1>2. TypeOK'
  BY <1>0, <1>1 DEF TypeOK
<1>3. Room' /\ Keyed' /\ BlindOnlyAfterHandover'
  BY <1>0, <1>1 DEF Room, Keyed, BlindOnlyAfterHandover
<1>4. Pace'
  <2>1. CASE disturbed'
    BY <1>0, <1>1, <2>1 DEF Pace
  <2>2. CASE ~disturbed' /\ pc' = "wait"
    BY <1>0, <1>1, <2>2 DEF Pace
  <2>3. CASE ~disturbed' /\ pc' = "done"
    <3>1. ~disturbed /\ Cardinality(fetched') >= Cardinality(sendConnIds)
      BY <1>1, <2>3 DEF AllFetched
    <3>2. fetched' \subseteq sendConnIds /\ channel \cup fetched \subseteq sendConnIds
      BY <1>0, <3>1 DEF Pace
    <3>3. fetched' = sendConnIds
      BY <3>1, <3>2, AllFetchedMeansAll DEF TypeOK
    <3>4. \A c \in Conn : pending[c] = 0
      BY <1>0, <3>1, <3>3 DEF Pace
    <3>5. channel' = {}
      BY <1>0, <3>2
    <3> QED BY <1>0, <2>3, <3>1, <3>4, <3>5 DEF Pace
  <2> QED BY <1>1, <2>1, <2>2, <2>3
<1> QED BY <1>2, <1>3, <1>4

LEMMA FrameDoneInv ==
    ASSUME Inv, FrameDone
    PROVE  Inv'
<1> USE VideoStreamAssumption DEF Inv, FrameDone
<1>1. TypeOK'
  BY DEF TypeOK
<1>2. Room' /\ Keyed' /\ BlindOnlyAfterHandover'
  BY DEF Room, Keyed, BlindOnlyAfterHandover
<1>3. Pace'
  BY DEF Pace
<1> QED BY <1>1, <1>2, <1>3

\* The inductive step, one lemma per action.
LEMMA NextInv == Inv /\ [Next]_vars => Inv'
<1> SUFFICES ASSUME Inv, [Next]_vars PROVE Inv'
  OBVIOUS
<1>1. CASE Switch
  BY <1>1, ExitInv DEF Switch, Inv, TypeOK
<1>2. CASE DisplayChanged
  BY <1>2, ExitInv DEF DisplayChanged, Inv, TypeOK
<1>3. CASE UNCHANGED vars
  <2> USE <1>3 DEF Inv
  <2>1. TypeOK'
    BY DEF TypeOK
  <2>2. Room' /\ Keyed' /\ BlindOnlyAfterHandover' /\ Pace'
    BY DEF Room, Keyed, BlindOnlyAfterHandover, Pace
  <2> QED BY <2>1, <2>2
<1>4. CASE Step
  BY <1>4, SetupInv, ClearRefreshInv, LoopHeadInv, CaptureInv, SnapshotInv, SwapDropInv,
     EncodeSendInv, EncodeFailInv, SetSendInv, WaitNextInv, FrameDoneInv
  DEF Step
<1> QED BY <1>1, <1>2, <1>3, <1>4, ClientInv DEF Next

-----------------------------------------------------------------------------
(* The theorems. *)

\* Every reachable state satisfies the inductive invariant.
THEOREM Invariance == Spec => []Inv
BY InitInv, NextInv, PTL DEF Spec

\* Types of the stream, with the limit on the rounds a frame is waited for
\* and on the failures a hardware encoder is allowed.
THEOREM TypeCorrect == Spec => []TypeOK
BY Invariance, PTL DEF Inv

\* Whoever is sent a later frame of an encoder without its first one took a
\* running encoder over from a subscriber that left.
THEOREM BlindOnlyAfterHandoverHolds == Spec => []BlindOnlyAfterHandover
BY Invariance, PTL DEF Inv

\* As long as no wait was given up and nobody has closed, no connection has
\* two frames under way, although the wait only counts acknowledgements.
THEOREM OneFrameUnderWayHolds == Spec => []OneFrameUnderWay
<1>1. Inv => OneFrameUnderWay
  BY DEF Inv, Pace, OneFrameUnderWay
<1> QED BY <1>1, Invariance, PTL

\* Only the step before the first iteration of a new encoder takes a
\* request to refresh away.
THEOREM RefreshMakesKeyFrameHolds == Spec => RefreshMakesKeyFrame
<1>1. Inv /\ [Next]_vars => [refresh /\ ~refresh' => ~encoder'.started]_vars
  <2> SUFFICES ASSUME Inv, Next, refresh, ~refresh' PROVE ~encoder'.started
    OBVIOUS
  <2>1. ClearRefresh
    BY DEF Next, Client, Step, Subscribe, Unsubscribe, Leave, RefreshVideo, FetchFrame,
           VideoReceived, CloseNotify, CloseRemove, Setup, LoopHead, Capture, SnapshotCheck,
           SnapshotCallback, SwapDrop, EncodeSend, EncodeFail, SetSend, WaitNext, FrameDone,
           Switch, DisplayChanged
  <2> QED BY <2>1 DEF ClearRefresh, Inv, Keyed
<1> QED BY <1>1, Invariance, PTL DEF Spec, RefreshMakesKeyFrame
=============================================================================
