--------------------------- MODULE ServiceProofs ---------------------------
(***************************************************************************)
(* Proofs about the service, for every set of connections and both values  *)
(* of need_snapshot.                                                       *)
(***************************************************************************)
EXTENDS Service, TLAPS

\* A call in progress is about one connection whose task runs; what moved
\* it out of the way of the second read of is_subed has been recorded.
CallInv ==
    /\ call.at \in {"second", "apply"} => call.conn \subseteq tasks
    /\ call.at = "second" => call.conn \cap subscribes \subseteq straddled

\* Nobody waits for a snapshot the service does not make.
NewOnlyForSnapshot == NeedSnapshot \/ newSubscribes = {}

\* The inductive invariant.
Inv ==
    /\ TypeOK
    /\ HeldOnce
    /\ ServesRunningOnly
    /\ SubscribeNeverLost
    /\ UnsubscribeLostOnlyByStraddle
    /\ JoinedIsSilent
    /\ NewOnlyForSnapshot
    /\ CallInv

USE DEF members, Idle, Busy, inner, thread, server, vars

\* The methods of ServiceInner keep the two maps disjoint and inside Conn,
\* and do to the members exactly what their names say.
LEMMA OnSubscribeEffect ==
    ASSUME subscribes \subseteq Conn, newSubscribes \subseteq Conn, HeldOnce,
           NewOnlyForSnapshot, NEW c \in Conn, OnSubscribe(c)
    PROVE  /\ subscribes' \subseteq Conn /\ newSubscribes' \subseteq Conn
           /\ HeldOnce' /\ NewOnlyForSnapshot'
           /\ members' = members \cup {c}
<1> USE DEF OnSubscribe, HeldOnce, NewOnlyForSnapshot
<1>1. CASE c \in subscribes
  BY <1>1
<1>2. CASE c \notin subscribes /\ NeedSnapshot
  <2>1. newSubscribes' = newSubscribes \cup {c} /\ subscribes' = subscribes
    BY <1>2, NeedSnapshotAssumption
  <2> QED BY <1>2, <2>1
<1>3. CASE c \notin subscribes /\ ~NeedSnapshot
  <2>1. subscribes' = subscribes \cup {c} /\ newSubscribes' = newSubscribes
    BY <1>3, NeedSnapshotAssumption
  <2> QED BY <1>3, <2>1
<1> QED BY <1>1, <1>2, <1>3, NeedSnapshotAssumption

LEMMA OnUnsubscribeEffect ==
    ASSUME subscribes \subseteq Conn, newSubscribes \subseteq Conn, HeldOnce,
           NewOnlyForSnapshot, NEW c \in Conn, OnUnsubscribe(c)
    PROVE  /\ subscribes' \subseteq Conn /\ newSubscribes' \subseteq Conn
           /\ HeldOnce' /\ NewOnlyForSnapshot'
           /\ members' = members \ {c}
BY DEF OnUnsubscribe, HeldOnce, NewOnlyForSnapshot

LEMMA SwapEffect ==
    ASSUME subscribes \subseteq Conn, newSubscribes \subseteq Conn, SwapNewSubscribes
    PROVE  /\ subscribes' \subseteq Conn /\ newSubscribes' \subseteq Conn
           /\ HeldOnce' /\ NewOnlyForSnapshot'
           /\ members' = members
BY DEF SwapNewSubscribes, HeldOnce, NewOnlyForSnapshot

\* No service is served, asked for or joined when the Server is created.
LEMMA InitInv == Init => Inv
BY DEF Init, Inv, TypeOK, HeldOnce, ServesRunningOnly, SubscribeNeverLost,
       UnsubscribeLostOnlyByStraddle, JoinedIsSilent, CallInv, NewOnlyForSnapshot, PcAt, CallAt,
       HIBERNATE_TIMEOUT, MAX_ERROR_TIMEOUT

\* A step of the thread that only moves its program counter.
LEMMA GotoInv ==
    ASSUME Inv, NEW from, NEW to \in PcAt, Goto(from, to), from # "exit"
    PROVE  Inv'
BY DEF Goto, Inv, TypeOK, HeldOnce, ServesRunningOnly, SubscribeNeverLost,
       UnsubscribeLostOnlyByStraddle, JoinedIsSilent, CallInv, NewOnlyForSnapshot

\* The inductive step, one case per action.
LEMMA NextInv == Inv /\ [Next]_vars => Inv'
<1> SUFFICES ASSUME Inv, [Next]_vars PROVE Inv'
  OBVIOUS
<1> USE DEF Inv
<1>1. ASSUME NEW c \in Conn, NEW b \in BOOLEAN, AddConnection(c, b)
      PROVE  Inv'
  <2>1. CASE b
    BY <1>1, <2>1, OnSubscribeEffect
    DEF AddConnection, TypeOK, ServesRunningOnly, SubscribeNeverLost,
        UnsubscribeLostOnlyByStraddle, JoinedIsSilent, CallInv, NewOnlyForSnapshot
  <2>2. CASE ~b
    BY <1>1, <2>2
    DEF AddConnection, TypeOK, HeldOnce, ServesRunningOnly, SubscribeNeverLost,
        UnsubscribeLostOnlyByStraddle, JoinedIsSilent, CallInv, NewOnlyForSnapshot
  <2> QED BY <2>1, <2>2
<1>2. ASSUME NEW c \in Conn, NEW b \in BOOLEAN, IsSubedFirstRead(c, b)
      PROVE  Inv'
  <2> USE <1>2 DEF IsSubedFirstRead, Return
  <2>1. call' \in [at : CallAt, conn : SUBSET Conn, sub : BOOLEAN]
    <3>1. \/ call' = Idle("idle")
          \/ call' = Busy("apply", c, b)
          \/ call' = Busy("second", c, b)
      OBVIOUS
    <3>2. /\ Idle("idle") \in [at : CallAt, conn : SUBSET Conn, sub : BOOLEAN]
          /\ Busy("apply", c, b) \in [at : CallAt, conn : SUBSET Conn, sub : BOOLEAN]
          /\ Busy("second", c, b) \in [at : CallAt, conn : SUBSET Conn, sub : BOOLEAN]
      BY DEF CallAt
    <3> QED BY <3>1, <3>2
  <2>4. TypeOK'
    BY <2>1 DEF TypeOK
  <2>5. CallInv' /\ JoinedIsSilent'
    BY DEF CallInv, JoinedIsSilent
  <2>2. /\ HeldOnce' /\ ServesRunningOnly' /\ NewOnlyForSnapshot'
    BY DEF HeldOnce, ServesRunningOnly, NewOnlyForSnapshot
  <2>3. /\ SubscribeNeverLost' /\ UnsubscribeLostOnlyByStraddle'
    BY DEF SubscribeNeverLost, UnsubscribeLostOnlyByStraddle
  <2> QED BY <2>2, <2>3, <2>4, <2>5
<1>3. ASSUME NEW c \in Conn, IsSubedSecondRead(c)
      PROVE  Inv'
  <2> USE <1>3 DEF IsSubedSecondRead, Return
  <2>1. call' \in [at : CallAt, conn : SUBSET Conn, sub : BOOLEAN]
    <3>1. call.sub \in BOOLEAN
      BY DEF TypeOK
    <3>2. call' = Idle("idle") \/ call' = Busy("apply", c, call.sub)
      OBVIOUS
    <3>3. /\ Idle("idle") \in [at : CallAt, conn : SUBSET Conn, sub : BOOLEAN]
          /\ Busy("apply", c, call.sub) \in [at : CallAt, conn : SUBSET Conn, sub : BOOLEAN]
      BY <3>1 DEF CallAt
    <3> QED BY <3>2, <3>3
  <2>4. TypeOK'
    BY <2>1 DEF TypeOK
  <2>5. CallInv' /\ JoinedIsSilent'
    BY DEF CallInv, JoinedIsSilent
  <2>2. /\ HeldOnce' /\ ServesRunningOnly' /\ NewOnlyForSnapshot'
    BY DEF HeldOnce, ServesRunningOnly, NewOnlyForSnapshot
  <2>3. /\ SubscribeNeverLost' /\ UnsubscribeLostOnlyByStraddle'
    BY DEF SubscribeNeverLost, UnsubscribeLostOnlyByStraddle, CallInv, TypeOK
  <2> QED BY <2>2, <2>3, <2>4, <2>5
<1>4. ASSUME NEW c \in Conn, SubscribeApply(c)
      PROVE  Inv'
  <2>1. CASE call.sub
    BY <1>4, <2>1, OnSubscribeEffect
    DEF SubscribeApply, Return, TypeOK, ServesRunningOnly, SubscribeNeverLost,
        UnsubscribeLostOnlyByStraddle, JoinedIsSilent, CallInv, NewOnlyForSnapshot, CallAt
  <2>2. CASE ~call.sub
    BY <1>4, <2>2, OnUnsubscribeEffect
    DEF SubscribeApply, Return, TypeOK, ServesRunningOnly, SubscribeNeverLost,
        UnsubscribeLostOnlyByStraddle, JoinedIsSilent, CallInv, NewOnlyForSnapshot, CallAt
  <2> QED BY <2>1, <2>2
<1>5. ASSUME NEW c \in Conn, RemoveConnection(c)
      PROVE  Inv'
  BY <1>5, OnUnsubscribeEffect
  DEF RemoveConnection, TypeOK, ServesRunningOnly, SubscribeNeverLost,
      UnsubscribeLostOnlyByStraddle, JoinedIsSilent, CallInv, NewOnlyForSnapshot
<1>6. CASE JoinDeactivate \/ JoinTakeHandle \/ JoinWait
  <2> USE <1>6 DEF JoinDeactivate, JoinTakeHandle, JoinWait
  <2>1. TypeOK'
    <3>1. \/ call' = Idle("joining")
          \/ call' = Idle("taken")
          \/ call' = Idle("joined")
      OBVIOUS
    <3>2. \A at \in CallAt : Idle(at) \in [at : CallAt, conn : SUBSET Conn, sub : BOOLEAN]
      OBVIOUS
    <3>3. call' \in [at : CallAt, conn : SUBSET Conn, sub : BOOLEAN]
      BY <3>1, <3>2 DEF CallAt
    <3> QED BY <3>3 DEF TypeOK
  <2> QED
    BY <2>1
    DEF HeldOnce, ServesRunningOnly, SubscribeNeverLost,
        UnsubscribeLostOnlyByStraddle, JoinedIsSilent, CallInv, NewOnlyForSnapshot
<1>7. CASE SwapDrop
  BY <1>7, SwapEffect
  DEF SwapDrop, SwapNewSubscribes, TypeOK, ServesRunningOnly, SubscribeNeverLost,
      UnsubscribeLostOnlyByStraddle, JoinedIsSilent, CallInv, NewOnlyForSnapshot, PcAt
<1>8. CASE BackOff
  <2>1. errorTimeout' \in HIBERNATE_TIMEOUT .. MAX_ERROR_TIMEOUT
    BY <1>8 DEF BackOff, TypeOK, HIBERNATE_TIMEOUT, MAX_ERROR_TIMEOUT
  <2> QED
    BY <1>8, <2>1
    DEF BackOff, TypeOK, HeldOnce, ServesRunningOnly, SubscribeNeverLost,
        UnsubscribeLostOnlyByStraddle, JoinedIsSilent, CallInv, NewOnlyForSnapshot, PcAt
<1>9. CASE \/ RunActive \/ RunHasSubscribes \/ Work \/ SnapshotCheck \/ SnapshotCallback
           \/ SendShared \/ CallbackOk \/ Sleep
  <2>1. PICK from \in PcAt \ {"exit"}, to \in PcAt : Goto(from, to)
    BY <1>9 DEF RunActive, RunHasSubscribes, Work, SnapshotCheck, SnapshotCallback,
                SendShared, CallbackOk, Sleep, PcAt
  <2> QED BY <2>1, GotoInv
<1>11. ASSUME NEW c \in Conn, Start(c)
       PROVE  Inv'
  BY <1>11
  DEF Start, TypeOK, HeldOnce, ServesRunningOnly, SubscribeNeverLost,
      UnsubscribeLostOnlyByStraddle, JoinedIsSilent, CallInv, NewOnlyForSnapshot
<1>10. CASE UNCHANGED vars
  BY <1>10
  DEF TypeOK, HeldOnce, ServesRunningOnly, SubscribeNeverLost,
      UnsubscribeLostOnlyByStraddle, JoinedIsSilent, CallInv, NewOnlyForSnapshot
<1> QED
  BY <1>1, <1>2, <1>3, <1>4, <1>5, <1>6, <1>7, <1>8, <1>9, <1>10, <1>11
  DEF Next, Server, Thread

\* Every reachable state satisfies the inductive invariant.
THEOREM Invariance == Spec => []Inv
BY InitInv, NextInv, PTL DEF Spec

\* Type correctness of the service and of the Server's view of it, with the
\* bounds of the error back-off (service.rs:294-329).
THEOREM TypeCorrect == Spec => []TypeOK
BY Invariance, PTL DEF Inv

\* A connection is in at most one of the two maps of ServiceInner, for any
\* number of connections.
THEOREM HeldOnceHolds == Spec => []HeldOnce
BY Invariance, PTL DEF Inv

\* remove_connection is final: the service serves no connection whose task
\* has ended, also when it subscribed before it was added.
THEOREM ServesRunningOnlyHolds == Spec => []ServesRunningOnly
BY Invariance, PTL DEF Inv

\* Server::subscribe(.., true) is never lost, whatever the two reads of
\* is_subed saw while the thread swapped.
THEOREM SubscribeNeverLostHolds == Spec => []SubscribeNeverLost
BY Invariance, PTL DEF Inv

\* Server::subscribe(.., false) is lost only when a swap fell between the
\* two reads of is_subed.
THEOREM UnsubscribeLostOnlyByStraddleHolds == Spec => []UnsubscribeLostOnlyByStraddle
BY Invariance, PTL DEF Inv

\* After join the thread is gone.
THEOREM JoinedIsSilentHolds == Spec => []JoinedIsSilent
BY Invariance, PTL DEF Inv

\* No step of the service thread changes the members: the swap moves
\* connections from one map to the other and loses none.
THEOREM ThreadKeepsMembersHolds == Spec => ThreadKeepsMembers
<1>1. Inv /\ [Next]_vars => [Thread => members' = members]_vars
  <2> SUFFICES ASSUME Inv, Thread PROVE members' = members
    OBVIOUS
  <2>1. CASE SwapDrop
    BY <2>1, SwapEffect DEF SwapDrop, Inv, TypeOK
  <2>2. CASE ~SwapDrop
    BY <2>2 DEF Thread, RunActive, RunHasSubscribes, Work, SnapshotCheck, SnapshotCallback,
                SendShared, CallbackOk, BackOff, Sleep, Goto
  <2> QED BY <2>1, <2>2
<1> QED BY <1>1, Invariance, PTL DEF Spec, ThreadKeepsMembers

-----------------------------------------------------------------------------
(* The refinement of PubSub. *)

\* While the Server is not being dropped, the service is active.
OpenInv == call.at \in {"idle", "second", "apply"} => active

LEMMA OpenInvariance == Spec => []OpenInv
<1>1. Init => OpenInv
  BY DEF Init, OpenInv
<1>2. OpenInv /\ [Next]_vars => OpenInv'
  BY DEF OpenInv, Next, Server, Thread, Start, AddConnection, IsSubedFirstRead, IsSubedSecondRead,
         SubscribeApply, Return, RemoveConnection, JoinDeactivate, JoinTakeHandle, JoinWait,
         RunActive, RunHasSubscribes, Work, SnapshotCheck, SnapshotCallback, SwapDrop, SendShared,
         CallbackOk, BackOff, Sleep, Goto
<1> QED BY <1>1, <1>2, PTL DEF Spec

\* Every step maps to a step of PubSub or changes nothing there.
LEMMA AbstractStep == Inv /\ OpenInv /\ [Next]_vars => [Abstract!Next]_(Abstract!vars)
<1> SUFFICES ASSUME Inv, OpenInv, [Next]_vars PROVE [Abstract!Next]_(Abstract!vars)
  OBVIOUS
<1> USE DEF Inv, OpenInv, Abstract!Next, Abstract!vars
<1>0. subscribes \subseteq Conn /\ newSubscribes \subseteq Conn
  BY DEF TypeOK
<1>1. ASSUME NEW c \in Conn, NEW b \in BOOLEAN, AddConnection(c, b)
      PROVE  Abstract!Enter(c)
  <2>1. CASE b
    BY <1>0, <1>1, <2>1, OnSubscribeEffect DEF AddConnection, Abstract!Enter
  <2>2. CASE ~b
    BY <1>1, <2>2 DEF AddConnection, Abstract!Enter
  <2> QED BY <2>1, <2>2
<1>2. ASSUME NEW c \in Conn, NEW b \in BOOLEAN,
             IsSubedFirstRead(c, b) \/ IsSubedSecondRead(c)
      PROVE  UNCHANGED Abstract!vars
  BY <1>2 DEF IsSubedFirstRead, IsSubedSecondRead
<1>3. ASSUME NEW c \in Conn, SubscribeApply(c)
      PROVE  Abstract!Subscribe(c) \/ Abstract!Unsubscribe(c)
  <2>1. active /\ active' /\ c \in tasks /\ UNCHANGED <<tasks, connections>>
    BY <1>3 DEF SubscribeApply, CallInv, TypeOK
  <2>2. CASE call.sub
    BY <1>0, <1>3, <2>1, <2>2, OnSubscribeEffect DEF SubscribeApply, Abstract!Subscribe
  <2>3. CASE ~call.sub
    BY <1>0, <1>3, <2>1, <2>3, OnUnsubscribeEffect DEF SubscribeApply, Abstract!Unsubscribe
  <2> QED BY <2>2, <2>3
<1>4. ASSUME NEW c \in Conn, RemoveConnection(c)
      PROVE  Abstract!Leave(c)
  BY <1>0, <1>4, OnUnsubscribeEffect DEF RemoveConnection, Abstract!Leave
<1>5. ASSUME JoinDeactivate
      PROVE  Abstract!Close
  BY <1>5 DEF JoinDeactivate, Abstract!Close
<1>6. CASE SwapDrop
  BY <1>0, <1>6, SwapEffect DEF SwapDrop
<1>7. CASE \/ JoinTakeHandle \/ JoinWait \/ RunActive \/ RunHasSubscribes
           \/ Work \/ SnapshotCheck \/ SnapshotCallback \/ SendShared \/ CallbackOk
           \/ BackOff \/ Sleep
  BY <1>7 DEF JoinTakeHandle, JoinWait, RunActive, RunHasSubscribes, Work, SnapshotCheck,
              SnapshotCallback, SendShared, CallbackOk, BackOff, Sleep, Goto
<1>8. CASE UNCHANGED vars
  BY <1>8
<1>9. ASSUME NEW c \in Conn, Start(c)
      PROVE  Abstract!Start(c)
  BY <1>9 DEF Start, Abstract!Start
<1> QED
  BY <1>1, <1>2, <1>3, <1>4, <1>5, <1>6, <1>7, <1>8, <1>9 DEF Next, Server, Thread

\* The service of service.rs is a set of members that only the Server's
\* calls change: the wait for a snapshot, the swap and the failures of the
\* callback are invisible to the Server.
THEOREM Refinement == Spec => ImplementsPubSub
<1>1. Init => Abstract!Init
  BY DEF Init, Abstract!Init
<1> QED
  BY <1>1, AbstractStep, Invariance, OpenInvariance, PTL
  DEF Spec, ImplementsPubSub, Abstract!Spec
=============================================================================
