------------------------------ MODULE VideoFps ------------------------------
(***************************************************************************)
(* The frame rate half of VideoQoS (src/server/video_qos.rs): every        *)
(* connection reports network delays, the rate follows the slowest one.    *)
(*                                                                         *)
(* VIDEO_QOS is one mutex, so every method is one step.  Delays are        *)
(* milliseconds from a small set; the quality in force, which the bitrate  *)
(* half decides (module VideoRatio), is an input here.                     *)
(***************************************************************************)
EXTENDS Integers, Sequences, FiniteSets, FiniteSetsExt

CONSTANTS
    User,           \* connection ids
    Delay,          \* delays a TestDelay may report
    Good,           \* the delays of a network that has recovered
    Wanted,         \* frame rates a user may ask for (custom_fps, auto_adjust_fps)
    Quality,        \* qualities that may be in force
    WINDOW_SAMPLES, MIN_SAMPLES     \* of RttCalculator: 60 and 10

ASSUME VideoFpsAssumption ==
    /\ Delay \subseteq Nat /\ Good \subseteq Delay /\ Wanted \subseteq Nat
    /\ Quality \subseteq {"best", "balanced", "low"}
    /\ WINDOW_SAMPLES \in Nat /\ MIN_SAMPLES \in Nat
    /\ 0 < MIN_SAMPLES /\ MIN_SAMPLES <= WINDOW_SAMPLES

FPS == 30
MIN_FPS == 1
MAX_FPS == 120
INIT_FPS == 15
HISTORY_DELAY_LEN == 2
DELAY_THRESHOLD_150MS == 150

\* An absent Option: no rate and no delay that is stored is 0.
None == 0

Least(a, b) == IF a < b THEN a ELSE b
Greatest(a, b) == IF a > b THEN a ELSE b
Clamp(x, lo, hi) == IF x < lo THEN lo ELSE IF x > hi THEN hi ELSE x

VARIABLES
    fps,            \* VideoQoS.fps
    users,          \* VideoQoS.users: [connected users -> UserData]
    recent,         \* new_user_instant is less than a second ago
    healed          \* history: the network has recovered for good

vars == <<fps, users, recent, healed>>

UserData0 ==
    [custom |-> None, auto |-> None, responseDelayed |-> FALSE, history |-> <<>>,
     fps |-> None, quick |-> 0, increase |-> 0,
     minRtt |-> None, samples |-> <<>>, smoothed |-> None]

Init ==
    /\ fps = FPS
    /\ users = <<>>
    /\ recent = TRUE
    /\ healed = FALSE

-----------------------------------------------------------------------------
(* UserDelay and RttCalculator. *)

SeqMin(s) == Min({s[i] : i \in DOMAIN s})

\* VecDeque: drop the oldest beyond the limit, append.
Push(s, x, len) == Append(IF Len(s) >= len THEN Tail(s) ELSE s, x)

AddDelay(u, d) ==
    LET minRtt == IF u.minRtt = None THEN d ELSE Least(d, u.minRtt)
        samples == Push(u.samples, d, WINDOW_SAMPLES) IN
    [u EXCEPT !.history = Push(@, d, HISTORY_DELAY_LEN + 1),
              !.minRtt = minRtt,
              !.samples = samples,
              !.smoothed = IF Len(samples) >= WINDOW_SAMPLES
                           THEN (minRtt + SeqMin(samples)) \div 2 ELSE @]

GetRtt(u) ==
    IF u.smoothed # None THEN u.smoothed
    ELSE IF Len(u.samples) >= MIN_SAMPLES THEN u.minRtt ELSE None

HistorySum(h) ==
    LET at(i) == IF i <= Len(h) THEN h[i] ELSE 0 IN at(1) + at(2) + at(3)

AvgDelay(u) ==
    IF u.history = <<>> THEN DELAY_THRESHOLD_150MS
    ELSE LET avg == HistorySum(u.history) \div Len(u.history)
             rtt == GetRtt(u) IN
         IF rtt # None /\ avg > rtt THEN avg - rtt ELSE avg

-----------------------------------------------------------------------------
(* Rates. *)

UserFps(u) ==
    LET custom == IF u.custom = None THEN FPS ELSE u.custom IN
    IF u.auto # None /\ u.auto < custom THEN u.auto ELSE custom

HighestFps(us) ==
    Clamp(IF DOMAIN us = {} THEN FPS ELSE Min({UserFps(us[i]) : i \in DOMAIN us}),
          MIN_FPS, MAX_FPS)

\* adjust_fps without the limit for a user that does not answer.
AdjustFpsIgnoresDelayed(us, new) ==
    LET slowest == IF DOMAIN us = {} THEN INIT_FPS
                   ELSE Min({IF us[i].fps = None THEN INIT_FPS ELSE us[i].fps : i \in DOMAIN us}) IN
    Clamp(IF new THEN Least(slowest, INIT_FPS) ELSE slowest, MIN_FPS, HighestFps(us))

\* adjust_fps that halts the capture while a user does not answer.
AdjustFpsHalts(us, new) ==
    LET slowest == IF DOMAIN us = {} THEN INIT_FPS
                   ELSE Min({IF us[i].fps = None THEN INIT_FPS ELSE us[i].fps : i \in DOMAIN us}) IN
    IF \E i \in DOMAIN us : us[i].responseDelayed THEN 0
    ELSE Clamp(IF new THEN Least(slowest, INIT_FPS) ELSE slowest, MIN_FPS, HighestFps(us))

\* adjust_fps: the slowest user, slower still when one does not answer or
\* one is new, within what all of them asked for.
AdjustFps(us, new) ==
    LET slowest == IF DOMAIN us = {} THEN INIT_FPS
                   ELSE Min({IF us[i].fps = None THEN INIT_FPS ELSE us[i].fps : i \in DOMAIN us})
        answered == IF \E i \in DOMAIN us : us[i].responseDelayed
                    THEN Least(slowest, MIN_FPS + 1) ELSE slowest IN
    Clamp(IF new THEN Least(answered, INIT_FPS) ELSE answered, MIN_FPS, HighestFps(us))

MinFps(q) == CASE q = "best" -> 8 [] q = "balanced" -> 10 [] q = "low" -> 12
NormalFps(q) == 2 * MinFps(q)

\* devide_fps, ceil(f * 150 / avg).  It is computed in f32: of an exact
\* quotient the rounding may make one more (among rates up to MAX_FPS only
\* from 35 on).
Divided(f, avg) ==
    LET ceil == (f * DELAY_THRESHOLD_150MS + avg - 1) \div avg IN
    {ceil} \cup {c \in {ceil + 1} : f >= 35 /\ (f * DELAY_THRESHOLD_150MS) % avg = 0}

\* The rate for one user before clamping, from the rate in force.
TargetFps(q, f, old, avg, quick, divided) ==
    LET min == MinFps(q)
        step == IF f < NormalFps(q) THEN 1 ELSE 0
        product == (DELAY_THRESHOLD_150MS * min) \div avg IN
    CASE avg < 50 -> Greatest(min, f + (IF quick >= 3 THEN 5 ELSE step))
      [] avg \in 50 .. 99 -> Greatest(min, f + (IF avg < old THEN step ELSE 0))
      [] avg \in 100 .. 149 -> Greatest(min, f)
      [] avg \in 150 .. 199 -> Greatest(min, divided)
      [] avg \in 200 .. 299 -> Least(min, divided)
      [] avg \in 300 .. 599 -> product
      [] avg >= 600 -> Least(product, divided)

\* What user_network_delay makes of the user's record v, to which the delay
\* has been added: avg is its average now, old the one before.
Measured(q, v, avg, old, highest, divided) ==
    LET quick == IF avg < 50 THEN v.quick + 1 ELSE v.quick
        increase == IF avg < DELAY_THRESHOLD_150MS THEN v.increase + 1 ELSE 0
        target == TargetFps(q, fps, old, avg, quick, divided) IN
    [v EXCEPT !.quick = IF avg > 50 \/ (avg < 50 /\ quick >= 3) THEN 0 ELSE quick,
              !.increase = IF increase >= 3 THEN 0 ELSE increase,
              !.fps = Clamp(IF increase >= 3 THEN target + 1 ELSE target, MIN_FPS, highest)]

-----------------------------------------------------------------------------
(* The methods of VideoQoS. *)

Set(u, data) == users' = [users EXCEPT ![u] = data]

SetAdjust(u, data) ==
    \E us \in {[users EXCEPT ![u] = data]} : users' = us /\ fps' = AdjustFps(us, recent)

OnConnectionOpen(u) ==
    /\ u \notin DOMAIN users
    /\ users' = [i \in DOMAIN users \cup {u} |-> IF i = u THEN UserData0 ELSE users[i]]
    /\ recent' = TRUE
    /\ UNCHANGED <<fps, healed>>

\* on_connection_close that starts over whoever is left.
OnConnectionCloseResets(u) ==
    /\ u \in DOMAIN users
    /\ users' = [i \in DOMAIN users \ {u} |-> users[i]]
    /\ fps' = FPS /\ recent' = TRUE
    /\ UNCHANGED healed

\* The last one switches off the light: *self = Default::default().
OnConnectionClose(u) ==
    /\ u \in DOMAIN users
    /\ users' = [i \in DOMAIN users \ {u} |-> users[i]]
    /\ IF DOMAIN users = {u} THEN fps' = FPS /\ recent' = TRUE
                             ELSE UNCHANGED <<fps, recent>>
    /\ UNCHANGED healed

UserCustomFps(u, f) ==
    /\ u \in DOMAIN users /\ f \in MIN_FPS .. MAX_FPS
    /\ Set(u, [users[u] EXCEPT !.custom = f])
    /\ UNCHANGED <<fps, recent, healed>>

UserAutoAdjustFps(u, f) ==
    /\ u \in DOMAIN users /\ f \in MIN_FPS .. MAX_FPS
    /\ Set(u, [users[u] EXCEPT !.auto = f])
    /\ UNCHANGED <<fps, recent, healed>>

UserNetworkDelay(u, d, q) ==
    /\ u \in DOMAIN users
    /\ healed => d \in Good
    /\ \E v \in {AddDelay(users[u], Greatest(d, 10))} :
       \E avg \in {Greatest(AvgDelay(v), 10)} :
       \E divided \in Divided(fps, avg) :
         SetAdjust(u, Measured(q, v, avg, AvgDelay(users[u]), HighestFps(users), divided))
    /\ UNCHANGED <<recent, healed>>

\* The timer that notes a late answer and never its end.
TimerOnlySets(u, elapsed) ==
    /\ u \in DOMAIN users
    /\ healed => elapsed <= 2000
    /\ IF elapsed > 2000
       THEN SetAdjust(u, AddDelay([users[u] EXCEPT !.responseDelayed = TRUE], elapsed))
       ELSE UNCHANGED <<users, fps>>
    /\ UNCHANGED <<recent, healed>>

\* Every second: has the last TestDelay been answered in time?
UserDelayResponseElapsed(u, elapsed) ==
    /\ u \in DOMAIN users
    /\ healed => elapsed <= 2000
    /\ IF elapsed > 2000
       THEN SetAdjust(u, AddDelay([users[u] EXCEPT !.responseDelayed = TRUE], elapsed))
       ELSE /\ Set(u, [users[u] EXCEPT !.responseDelayed = FALSE])
            /\ UNCHANGED fps
    /\ UNCHANGED <<recent, healed>>

\* The video service's update of every second.
UpdateDisplayData ==
    /\ fps' = AdjustFps(users, recent)
    /\ UNCHANGED <<users, recent, healed>>

\* A second has passed since the last user came.
SecondPassed ==
    /\ recent /\ recent' = FALSE
    /\ UNCHANGED <<fps, users, healed>>

\* The environment: from now on the network of the only user is good and
\* nobody comes or goes.
Heal ==
    /\ ~healed /\ Cardinality(DOMAIN users) = 1 /\ healed' = TRUE
    /\ UNCHANGED <<fps, users, recent>>

Elapsed == {0, 2001}

Report(u) == \E d \in Delay, q \in Quality : UserNetworkDelay(u, d, q)
Timer(u) == \E e \in Elapsed : UserDelayResponseElapsed(u, e)

Next ==
    \/ \E u \in User :
        \/ ~healed /\ (OnConnectionOpen(u) \/ OnConnectionClose(u))
        \/ ~healed /\ \E f \in Wanted : UserCustomFps(u, f) \/ UserAutoAdjustFps(u, f)
        \/ Report(u) \/ Timer(u)
    \/ UpdateDisplayData \/ SecondPassed \/ Heal

Spec == Init /\ [][Next]_vars

\* Every connection's event loop runs its timer and answers TestDelay once a
\* second; so does the video service.
FairSpec ==
    /\ Spec
    /\ \A u \in User : WF_vars(Report(u)) /\ WF_vars(Timer(u))
    /\ WF_vars(UpdateDisplayData) /\ WF_vars(SecondPassed)

-----------------------------------------------------------------------------
(* Properties. *)

UserDataType ==
    [custom : 0 .. MAX_FPS, auto : 0 .. MAX_FPS, responseDelayed : BOOLEAN,
     history : Seq(Nat), fps : 0 .. MAX_FPS, quick : 0 .. 2, increase : 0 .. 2,
     minRtt : Nat, samples : Seq(Nat), smoothed : Nat]

UserDataOK(d) ==
    /\ d \in UserDataType
    /\ Len(d.history) <= HISTORY_DELAY_LEN + 1
    /\ Len(d.samples) <= WINDOW_SAMPLES

\* Types, with the bounds of the two counters that decide when the rate may
\* grow and of the sample windows.
TypeOK ==
    /\ fps \in Nat /\ recent \in BOOLEAN /\ healed \in BOOLEAN
    /\ DOMAIN users \subseteq User
    /\ \A u \in DOMAIN users : UserDataOK(users[u])

\* The rate is always one the capturer can be run at: fps() never has to
\* fall back to the default, and seconds per frame are finite.
FpsInRange == fps \in MIN_FPS .. MAX_FPS

\* The slowest user rules: the rate in force never exceeds the one measured
\* for any connected user, whoever reports, falls silent, asks for another
\* rate or leaves.  on_connection_close (video_qos.rs:192) adjusts nothing,
\* so it is what the others left behind that must still fit.
SlowestUserRules ==
    \A u \in DOMAIN users : users[u].fps # None => fps <= users[u].fps

\* As long as one user's answer is overdue the rate stays at two frames per
\* second or less, whatever the other users report or ask for and whoever
\* comes or goes (video_qos.rs:521).
DelayedUserHoldsBack ==
    (\E u \in DOMAIN users : users[u].responseDelayed) => fps <= MIN_FPS + 1

\* When every delay the only user reports is good again, the rate comes back
\* to what that user asked for: "When network delay < DELAY_THRESHOLD_150MS,
\* ... increase fps".  Two users may undo each other's growth, so nothing is
\* said of them.
Recovers == healed ~> fps = HighestFps(users)
=============================================================================
