------------------------- MODULE DisplaySyncProofs -------------------------
(***************************************************************************)
(* Proofs about the display service, for any set of connections and any    *)
(* set of display lists.                                                   *)
(***************************************************************************)
EXTENDS DisplaySync, TLAPS

-----------------------------------------------------------------------------
(* The inductive invariant. *)

\* As long as no subscriber has left, a thread that has begun an iteration
\* has somebody to serve, and past the snapshot it has old subscribers;
\* is_synced is set only by a thread that is there.
ServedUntilDeparture ==
    ~left => /\ pc \in {"snapshot", "callback", "drop", "dropErr"} => members # {}
             /\ pc \in {"read", "store", "get", "send"} \/ isSynced => subscribes # {}

\* Where the thread is and what it has made of is_synced.
ThreadInv ==
    /\ pc = "drop" /\ subscribes # {} => ~isSynced \/ ignoring # "no"
    /\ pc = "dropErr" => ~isSynced
    /\ pc = "send" => threadGot = displays \/ ~isSynced \/ ignoring # "no"

Inv ==
    /\ TypeOK
    /\ ServedUntilDeparture
    /\ ThreadInv
    /\ SyncedMeansTold
    /\ HandoverNeedsDeparture

-----------------------------------------------------------------------------
LEMMA TypeOKInit == Init => TypeOK
  BY DisplaySyncAssumption DEF Init, TypeOK, members

LEMMA TypeOKStep == TypeOK /\ [Next]_vars => TypeOK'
  <1> SUFFICES ASSUME TypeOK, [Next]_vars PROVE TypeOK'
    OBVIOUS
  <1> USE DisplaySyncAssumption DEF TypeOK, members, sync, service, login, thread, history
  <1>1. CASE \E d \in Displays : Change(d)
    BY <1>1 DEF Change
  <1>2. CASE Settle \/ IgnoreStart \/ IgnoreEnd
    <2>1. CASE Settle
      BY <2>1 DEF Settle
    <2>2. CASE IgnoreStart
      BY <2>2 DEF IgnoreStart
    <2>3. CASE IgnoreEnd
      BY <2>3 DEF IgnoreEnd
    <2> QED BY <1>2, <2>1, <2>2, <2>3
  <1>3. ASSUME NEW c \in Conn, LoginRead(c) \/ LoginRespond(c) PROVE TypeOK'
    BY <1>3 DEF LoginRead, LoginRespond
  <1>4. ASSUME NEW c \in Conn, LoginStore(c) PROVE TypeOK'
    BY <1>4 DEF LoginStore, CheckChanged
  <1>5. ASSUME NEW c \in Conn, Subscribe(c) PROVE TypeOK'
    BY <1>5 DEF Subscribe
  <1>6. ASSUME NEW c \in Conn, Close(c) PROVE TypeOK'
    BY <1>6 DEF Close
  <1>7. CASE VideoRead \/ VideoStore
    <2>1. CASE VideoRead
      BY <2>1 DEF VideoRead
    <2>2. CASE VideoStore
      BY <2>2 DEF VideoStore, CheckChanged
    <2> QED BY <1>7, <2>1, <2>2
  <1>8. CASE Top \/ SnapshotCheck \/ SnapshotCallback
    BY <1>8 DEF Top, SnapshotCheck, SnapshotCallback
  <1>9. CASE SwapDrop
    BY <1>9 DEF SwapDrop
  <1>10. CASE Read \/ ReadFails \/ Store \/ Get
    BY <1>10 DEF Read, ReadFails, Store, Get, CheckChanged
  <1>11. CASE Send
    BY <1>11 DEF Send
  <1>12. CASE UNCHANGED vars
    BY <1>12 DEF vars
  <1> QED
    BY <1>1, <1>2, <1>3, <1>4, <1>5, <1>6, <1>7, <1>8, <1>9, <1>10, <1>11, <1>12
    DEF Next, Thread

\* Each part in turn, one action at a time.
LEMMA ServedStep == Inv /\ [Next]_vars => ServedUntilDeparture'
  <1> SUFFICES ASSUME Inv, [Next]_vars PROVE ServedUntilDeparture'
    OBVIOUS
  <1> USE DEF Inv, TypeOK, ServedUntilDeparture, ThreadInv, members,
              sync, service, login, thread, history
  <1>1. CASE \E d \in Displays : Change(d)
    BY <1>1 DEF Change
  <1>2. CASE Settle \/ IgnoreStart \/ IgnoreEnd
    BY <1>2 DEF Settle, IgnoreStart, IgnoreEnd
  <1>3. ASSUME NEW c \in Conn, LoginRead(c) \/ LoginRespond(c) \/ Subscribe(c)
        PROVE ServedUntilDeparture'
    BY <1>3 DEF LoginRead, LoginRespond, Subscribe
  <1>4. ASSUME NEW c \in Conn, LoginStore(c) PROVE ServedUntilDeparture'
    BY <1>4 DEF LoginStore, CheckChanged
  <1>5. ASSUME NEW c \in Conn, Close(c) PROVE ServedUntilDeparture'
    <2>1. c \in members => left'
      BY <1>5 DEF Close
    <2>2. c \notin members => UNCHANGED <<subscribes, newSubscribes>>
      BY <1>5 DEF Close
    <2>3. UNCHANGED <<pc, isSynced>> /\ (left => left')
      BY <1>5 DEF Close
    <2> QED BY <2>1, <2>2, <2>3
  <1>6. CASE VideoRead \/ VideoStore
    BY <1>6 DEF VideoRead, VideoStore, CheckChanged
  <1>7. CASE Top \/ SnapshotCheck \/ SnapshotCallback
    BY <1>7 DEF Top, SnapshotCheck, SnapshotCallback
  <1>8. CASE SwapDrop
    BY <1>8 DEF SwapDrop
  <1>9. CASE Read \/ ReadFails \/ Store \/ Get \/ Send
    BY <1>9 DEF Read, ReadFails, Store, Get, Send, CheckChanged
  <1>10. CASE UNCHANGED vars
    BY <1>10 DEF vars
  <1> QED
    BY <1>1, <1>2, <1>3, <1>4, <1>5, <1>6, <1>7, <1>8, <1>9, <1>10 DEF Next, Thread

LEMMA ThreadStep == Inv /\ [Next]_vars => ThreadInv'
  <1> SUFFICES ASSUME Inv, [Next]_vars PROVE ThreadInv'
    OBVIOUS
  <1> USE DEF Inv, TypeOK, ThreadInv, members, sync, service, login, thread, history
  <1>1. CASE \E d \in Displays : Change(d)
    BY <1>1 DEF Change
  <1>2. CASE Settle \/ IgnoreStart \/ IgnoreEnd
    BY <1>2 DEF Settle, IgnoreStart, IgnoreEnd
  <1>3. ASSUME NEW c \in Conn, LoginRead(c) \/ LoginRespond(c) \/ Subscribe(c)
        PROVE ThreadInv'
    BY <1>3 DEF LoginRead, LoginRespond, Subscribe
  <1>4. ASSUME NEW c \in Conn, LoginStore(c) PROVE ThreadInv'
    BY <1>4 DEF LoginStore, CheckChanged
  <1>5. ASSUME NEW c \in Conn, Close(c) PROVE ThreadInv'
    BY <1>5 DEF Close
  <1>6. CASE VideoRead \/ VideoStore
    <2>1. CASE VideoRead
      BY <2>1 DEF VideoRead
    <2>2. CASE VideoStore /\ (videoGot = displays \/ ignoring = "yes")
      BY <2>2 DEF VideoStore, CheckChanged
    <2>3. CASE VideoStore /\ ~(videoGot = displays \/ ignoring = "yes")
      BY <2>3 DEF VideoStore, CheckChanged
    <2> QED
      BY <1>6, <2>1, <2>2, <2>3
  <1>7. CASE Top \/ SnapshotCheck \/ SnapshotCallback
    BY <1>7 DEF Top, SnapshotCheck, SnapshotCallback
  <1>8. CASE SwapDrop
    BY <1>8 DEF SwapDrop
  <1>9. CASE Read \/ ReadFails \/ Store \/ Get \/ Send
    BY <1>9 DEF Read, ReadFails, Store, Get, Send, CheckChanged
  <1>10. CASE UNCHANGED vars
    BY <1>10 DEF vars
  <1> QED
    BY <1>1, <1>2, <1>3, <1>4, <1>5, <1>6, <1>7, <1>8, <1>9, <1>10 DEF Next, Thread

LEMMA ToldStep == Inv /\ [Next]_vars => SyncedMeansTold'
  <1> SUFFICES ASSUME Inv, [Next]_vars PROVE SyncedMeansTold'
    OBVIOUS
  <1> USE DEF Inv, TypeOK, ThreadInv, SyncedMeansTold, Quiet, members,
              sync, service, login, thread, history
  <1>1. CASE \E d \in Displays : Change(d)
    BY <1>1 DEF Change
  <1>2. CASE Settle \/ IgnoreStart \/ IgnoreEnd
    BY <1>2 DEF Settle, IgnoreStart, IgnoreEnd
  <1>3. ASSUME NEW c \in Conn, LoginRead(c) \/ Subscribe(c) PROVE SyncedMeansTold'
    BY <1>3 DEF LoginRead, Subscribe
  \* A connection that is sent its login response is no subscriber yet.
  <1>4. ASSUME NEW c \in Conn, LoginRespond(c) PROVE SyncedMeansTold'
    BY <1>4 DEF LoginRespond
  <1>5. ASSUME NEW c \in Conn, LoginStore(c) PROVE SyncedMeansTold'
    BY <1>5 DEF LoginStore, CheckChanged
  <1>6. ASSUME NEW c \in Conn, Close(c) PROVE SyncedMeansTold'
    BY <1>6 DEF Close
  <1>7. CASE VideoRead \/ VideoStore
    BY <1>7 DEF VideoRead, VideoStore, CheckChanged
  <1>8. CASE Top \/ SnapshotCheck \/ SnapshotCallback
    BY <1>8 DEF Top, SnapshotCheck, SnapshotCallback
  \* Who joins is told, or silent; what the others know stays.
  <1>9. CASE SwapDrop
    BY <1>9 DEF SwapDrop
  <1>10. CASE Read \/ ReadFails \/ Store \/ Get
    BY <1>10 DEF Read, ReadFails, Store, Get, CheckChanged
  \* The message holds the list that is stored, or the list is not synced.
  <1>11. CASE Send
    BY <1>11 DEF Send
  <1>12. CASE UNCHANGED vars
    BY <1>12 DEF vars
  <1> QED
    BY <1>1, <1>2, <1>3, <1>4, <1>5, <1>6, <1>7, <1>8, <1>9, <1>10, <1>11, <1>12
    DEF Next, Thread

LEMMA HandoverStep == Inv /\ [Next]_vars => HandoverNeedsDeparture'
  <1> SUFFICES ASSUME Inv, [Next]_vars PROVE HandoverNeedsDeparture'
    OBVIOUS
  <1> USE DEF Inv, TypeOK, HandoverNeedsDeparture, sync, service, login, thread, history
  \* A silent joiner needs is_synced, hence old subscribers if nobody has
  \* left, and beside those the callback has asked for the message.
  <1>1. CASE SwapDrop
    <2>1. CASE isSynced /\ ignoring = "no" /\ ~left
      BY <1>1, <2>1 DEF SwapDrop, ServedUntilDeparture, ThreadInv
    <2>2. CASE ~(isSynced /\ ignoring = "no") \/ left
      BY <1>1, <2>2 DEF SwapDrop
    <2> QED
      BY <2>1, <2>2
  <1>2. CASE Send
    BY <1>2 DEF Send
  <1>3. ASSUME NEW c \in Conn, Close(c) PROVE HandoverNeedsDeparture'
    BY <1>3 DEF Close
  <1>4. CASE UNCHANGED <<handover, left>>
    BY <1>4
  <1>5. CASE \/ \E d \in Displays : Change(d)
             \/ Settle \/ IgnoreStart \/ IgnoreEnd \/ VideoRead \/ VideoStore
    BY <1>4, <1>5 DEF Change, Settle, IgnoreStart, IgnoreEnd, VideoRead, VideoStore
  <1>6. CASE \E c \in Conn : LoginRead(c) \/ LoginStore(c) \/ LoginRespond(c) \/ Subscribe(c)
    BY <1>4, <1>6 DEF LoginRead, LoginStore, LoginRespond, Subscribe
  <1>7. CASE \/ Top \/ SnapshotCheck \/ SnapshotCallback
             \/ Read \/ ReadFails \/ Store \/ Get \/ UNCHANGED vars
    BY <1>4, <1>7 DEF Top, SnapshotCheck, SnapshotCallback, Read, ReadFails, Store, Get, vars
  <1> QED
    BY <1>1, <1>2, <1>3, <1>5, <1>6, <1>7 DEF Next, Thread

-----------------------------------------------------------------------------
(* The theorems. *)

LEMMA InvInit == Init => Inv
  BY TypeOKInit
  DEF Init, Inv, ServedUntilDeparture, ThreadInv, SyncedMeansTold, Quiet, HandoverNeedsDeparture

LEMMA InvHolds == Spec => []Inv
  <1>1. Inv /\ [Next]_vars => Inv'
    BY TypeOKStep, ServedStep, ThreadStep, ToldStep, HandoverStep DEF Inv
  <1> QED
    BY <1>1, InvInit, PTL DEF Spec

\* SYNC_DISPLAYS, the service's maps, the logins and the thread keep their
\* types, and nobody is in both maps.
THEOREM TypeCorrect == Spec => []TypeOK
  BY InvHolds, PTL DEF Inv

\* is_synced means that every subscriber was sent the list in SYNC_DISPLAYS,
\* whatever interleaving of logins, video services and the thread wrote it.
THEOREM SyncedAlwaysMeansTold == Spec => []SyncedMeansTold
  BY InvHolds, PTL DEF Inv

\* A subscriber of the display service is left with an old list only after
\* another one has left.
THEOREM SilentOnlyAfterDeparture == Spec => []HandoverNeedsDeparture
  BY InvHolds, PTL DEF Inv
=============================================================================
