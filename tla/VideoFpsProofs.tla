--------------------------- MODULE VideoFpsProofs ---------------------------
(***************************************************************************)
(* Proofs about the frame rate controller, for every set of users, every   *)
(* delay and every window size.                                            *)
(***************************************************************************)
EXTENDS VideoFps, WellFoundedInduction, SequenceTheorems, TLAPS

-----------------------------------------------------------------------------
(* The helpers. *)

\* A nonempty set of naturals has a least element, which Min returns.
LEMMA MinNat ==
    ASSUME NEW S, S \subseteq Nat, S # {}
    PROVE  Min(S) \in S /\ \A y \in S : Min(S) <= y
<1> DEFINE Less == {ss \in Nat \X Nat : ss[1] < ss[2]}
<1>1. IsWellFoundedOn(Less, Nat)
  BY NatLessThanWellFounded DEF OpToRel
<1> HIDE DEF Less
<1>2. PICK x \in S : \A y \in S : ~(<<y, x>> \in Less)
  BY <1>1, WFMin
<1>3. \A y \in S : <<y, x>> \in Less <=> y < x
  BY DEF Less
<1>4. ASSUME NEW y \in S PROVE x <= y
  <2>1. ~(y < x)
    BY <1>2, <1>3
  <2>2. x \in Nat /\ y \in Nat
    OBVIOUS
  <2> QED BY <2>1, <2>2
<1> QED BY <1>4 DEF Min

\* clamp stays within its bounds.
LEMMA ClampRange ==
    ASSUME NEW x \in Int, NEW lo \in Int, NEW hi \in Int, lo <= hi
    PROVE  /\ Clamp(x, lo, hi) \in lo .. hi
           /\ \A b \in Int : x <= b /\ lo <= b => Clamp(x, lo, hi) <= b
BY DEF Clamp

\* A quotient of naturals is a natural.
LEMMA DivNat ==
    ASSUME NEW a \in Nat, NEW b \in Nat, b > 0
    PROVE  a \div b \in Nat
BY SMT

\* One user record is a new one, or what a method makes of an old one.
LEMMA NewUserData == UserDataOK(UserData0)
BY VideoFpsAssumption, EmptySeq
   DEF UserDataOK, UserDataType, UserData0, None, MAX_FPS, HISTORY_DELAY_LEN

\* A window of naturals stays one, no longer than its limit.
LEMMA PushWindow ==
    ASSUME NEW s \in Seq(Nat), NEW x \in Nat, NEW len \in Nat, len > 0, Len(s) <= len
    PROVE  Push(s, x, len) \in Seq(Nat) /\ Len(Push(s, x, len)) \in 1 .. len
<1>1. CASE Len(s) >= len
  <2>1. Tail(s) \in Seq(Nat) /\ Len(Tail(s)) = Len(s) - 1
    BY <1>1
  <2> QED BY <1>1, <2>1 DEF Push
<1>2. CASE ~(Len(s) >= len)
  BY <1>2 DEF Push
<1> QED BY <1>1, <1>2

\* The least sample of a nonempty window is a natural.
LEMMA SeqMinNat ==
    ASSUME NEW s \in Seq(Nat), Len(s) > 0
    PROVE  SeqMin(s) \in Nat
<1> DEFINE S == {s[i] : i \in DOMAIN s}
<1>1. S \subseteq Nat
  OBVIOUS
<1>2. s[1] \in S
  BY SMT
<1> QED BY <1>1, <1>2, MinNat DEF SeqMin

\* A sample keeps the record in its type and leaves everything that is not
\* about delays alone.
LEMMA AddDelayOK ==
    ASSUME NEW u, UserDataOK(u), NEW d \in Nat
    PROVE  /\ UserDataOK(AddDelay(u, d))
           /\ AddDelay(u, d).history # <<>>
<1> DEFINE h == Push(u.history, d, HISTORY_DELAY_LEN + 1)
           m == IF u.minRtt = None THEN d ELSE Least(d, u.minRtt)
           w == Push(u.samples, d, WINDOW_SAMPLES)
           r == IF Len(w) >= WINDOW_SAMPLES THEN (m + SeqMin(w)) \div 2 ELSE u.smoothed
<1>0. /\ u \in UserDataType
      /\ u.history \in Seq(Nat) /\ u.samples \in Seq(Nat)
      /\ u.minRtt \in Nat /\ u.smoothed \in Nat
      /\ Len(u.history) <= HISTORY_DELAY_LEN + 1 /\ Len(u.samples) <= WINDOW_SAMPLES
  BY DEF UserDataOK, UserDataType
<1>x. HISTORY_DELAY_LEN + 1 \in Nat /\ HISTORY_DELAY_LEN + 1 > 0
  BY DEF HISTORY_DELAY_LEN
<1>1. h \in Seq(Nat) /\ Len(h) \in 1 .. HISTORY_DELAY_LEN + 1
  BY <1>0, <1>x, PushWindow
<1>2. w \in Seq(Nat) /\ Len(w) \in 1 .. WINDOW_SAMPLES
  BY <1>0, PushWindow, VideoFpsAssumption
<1>3. m \in Nat
  BY <1>0 DEF Least
<1>4. r \in Nat
  <2>1. SeqMin(w) \in Nat
    BY <1>2, SeqMinNat, VideoFpsAssumption
  <2> HIDE DEF w, m
  <2>2. (m + SeqMin(w)) \div 2 \in Nat
    BY <2>1, <1>3, DivNat
  <2> QED BY <2>2, <1>0
<1>5. AddDelay(u, d) = [u EXCEPT !.history = h, !.minRtt = m, !.samples = w, !.smoothed = r]
  BY DEF AddDelay
<1> HIDE DEF h, m, w, r
<1>6. AddDelay(u, d) \in UserDataType
  BY <1>0, <1>1, <1>2, <1>3, <1>4, <1>5 DEF UserDataType
<1>7. AddDelay(u, d).history = h /\ AddDelay(u, d).samples = w
  BY <1>0, <1>5 DEF UserDataType
<1>8. h # <<>>
  BY <1>1, <1>x, EmptySeq
<1>9. Len(h) <= HISTORY_DELAY_LEN + 1 /\ Len(w) <= WINDOW_SAMPLES
  BY <1>1, <1>2, <1>x, VideoFpsAssumption
<1> QED BY <1>6, <1>7, <1>8, <1>9 DEF UserDataOK

\* The average delay is a natural.
LEMMA AvgDelayNat ==
    ASSUME NEW u, UserDataOK(u)
    PROVE  AvgDelay(u) \in Nat
<1>0. /\ u.history \in Seq(Nat) /\ Len(u.history) <= 3
      /\ u.minRtt \in Nat /\ u.smoothed \in Nat
  BY DEF UserDataOK, UserDataType, HISTORY_DELAY_LEN
<1>1. HistorySum(u.history) \in Nat
  BY <1>0 DEF HistorySum
<1>2. GetRtt(u) \in Nat
  BY <1>0 DEF GetRtt, None
<1>3. CASE u.history # <<>>
  <2>1. Len(u.history) > 0 /\ Len(u.history) \in Nat
    BY <1>0, <1>3, EmptySeq
  <2>2. HistorySum(u.history) \div Len(u.history) \in Nat
    BY <1>1, <2>1, DivNat
  <2> QED BY <1>2, <1>3, <2>2 DEF AvgDelay
<1>4. CASE u.history = <<>>
  BY <1>4 DEF AvgDelay, DELAY_THRESHOLD_150MS
<1> QED BY <1>3, <1>4
\* Dividing the rate by the delay gives a natural, rounded either way.
LEMMA DividedNat ==
    ASSUME NEW f \in Nat, NEW avg \in Nat, avg > 0
    PROVE  Divided(f, avg) \subseteq Nat
<1>1. f * DELAY_THRESHOLD_150MS + avg - 1 \in Nat
  BY DEF DELAY_THRESHOLD_150MS
<1>2. (f * DELAY_THRESHOLD_150MS + avg - 1) \div avg \in Nat
  BY <1>1, DivNat
<1> QED BY <1>2 DEF Divided

\* The rate before clamping is a natural for every delay.
LEMMA TargetFpsNat ==
    ASSUME NEW q \in Quality, NEW f \in Nat, NEW old \in Nat, NEW avg \in Nat, avg > 0,
           NEW quick \in Nat, NEW divided \in Nat
    PROVE  TargetFps(q, f, old, avg, quick, divided) \in Nat
<1> DEFINE product == (DELAY_THRESHOLD_150MS * MinFps(q)) \div avg
           step == IF f < NormalFps(q) THEN 1 ELSE 0
<1>1. MinFps(q) \in Nat
  BY VideoFpsAssumption DEF MinFps
<1>2. product \in Nat
  <2>1. DELAY_THRESHOLD_150MS * MinFps(q) \in Nat
    BY <1>1 DEF DELAY_THRESHOLD_150MS
  <2> QED BY <2>1, DivNat
<1>3. step \in Nat
  OBVIOUS
<1>4. TargetFps(q, f, old, avg, quick, divided) =
        CASE avg < 50 -> Greatest(MinFps(q), f + (IF quick >= 3 THEN 5 ELSE step))
          [] avg \in 50 .. 99 -> Greatest(MinFps(q), f + (IF avg < old THEN step ELSE 0))
          [] avg \in 100 .. 149 -> Greatest(MinFps(q), f)
          [] avg \in 150 .. 199 -> Greatest(MinFps(q), divided)
          [] avg \in 200 .. 299 -> Least(MinFps(q), divided)
          [] avg \in 300 .. 599 -> product
          [] avg >= 600 -> Least(product, divided)
  BY DEF TargetFps
<1> HIDE DEF product, step
<1> QED BY <1>1, <1>2, <1>3, <1>4 DEF Greatest, Least

\* user_network_delay keeps the record in its type: in particular the two
\* counters are reset before they reach three, and the rate is one that may
\* be captured at.
LEMMA MeasuredOK ==
    ASSUME FpsInRange, NEW q \in Quality, NEW v, UserDataOK(v),
           NEW avg \in Nat, avg > 0, NEW old \in Nat,
           NEW highest \in MIN_FPS .. MAX_FPS, NEW divided \in Nat
    PROVE  UserDataOK(Measured(q, v, avg, old, highest, divided))
<1> DEFINE quick == IF avg < 50 THEN v.quick + 1 ELSE v.quick
           increase == IF avg < DELAY_THRESHOLD_150MS THEN v.increase + 1 ELSE 0
           target == TargetFps(q, fps, old, avg, quick, divided)
           k == IF avg > 50 \/ (avg < 50 /\ quick >= 3) THEN 0 ELSE quick
           n == IF increase >= 3 THEN 0 ELSE increase
           r == Clamp(IF increase >= 3 THEN target + 1 ELSE target, MIN_FPS, highest)
<1>0. v \in UserDataType /\ v.quick \in 0 .. 2 /\ v.increase \in 0 .. 2
  BY DEF UserDataOK, UserDataType
<1>1. quick \in Nat /\ increase \in 0 .. 3
  BY <1>0
<1>2. target \in Nat
  <2> HIDE DEF quick
  <2>1. fps \in Nat
    BY DEF FpsInRange, MIN_FPS
  <2> QED BY <1>1, <2>1, TargetFpsNat
<1>3. k \in 0 .. 2
  BY <1>0
<1>4. n \in 0 .. 2
  BY <1>1
<1>5. r \in 0 .. MAX_FPS
  <2> HIDE DEF increase, target
  <2>1. (IF increase >= 3 THEN target + 1 ELSE target) \in Int
    BY <1>2
  <2>2. MIN_FPS \in Int /\ highest \in Int /\ MIN_FPS <= highest
    BY DEF MIN_FPS, MAX_FPS
  <2>3. r \in MIN_FPS .. highest
    BY <2>1, <2>2, ClampRange
  <2> HIDE DEF r
  <2> QED BY <2>3 DEF MIN_FPS, MAX_FPS
<1>6. Measured(q, v, avg, old, highest, divided)
        = [v EXCEPT !.quick = k, !.increase = n, !.fps = r]
  BY DEF Measured
<1> HIDE DEF k, n, r
<1>7. Measured(q, v, avg, old, highest, divided) \in UserDataType
  BY <1>0, <1>3, <1>4, <1>5, <1>6 DEF UserDataType
<1>8. /\ Measured(q, v, avg, old, highest, divided).history = v.history
      /\ Measured(q, v, avg, old, highest, divided).samples = v.samples
  BY <1>0, <1>6 DEF UserDataType
<1> QED BY <1>7, <1>8 DEF UserDataOK

-----------------------------------------------------------------------------
(* The rate all users allow, and the rate in force. *)

\* What the users asked for is within what can be captured.
LEMMA HighestFpsRange ==
    ASSUME NEW us, \A i \in DOMAIN us : UserDataOK(us[i])
    PROVE  HighestFps(us) \in MIN_FPS .. MAX_FPS
<1> DEFINE S == {UserFps(us[i]) : i \in DOMAIN us}
           x == IF DOMAIN us = {} THEN FPS ELSE Min(S)
<1>1. S \subseteq Nat
  BY DEF UserDataOK, UserDataType, UserFps, FPS, None
<1>2. x \in Int
  <2>1. CASE DOMAIN us = {}
    BY <2>1 DEF FPS
  <2>2. CASE DOMAIN us # {}
    <3>1. S # {}
      BY <2>2
    <3> HIDE DEF S
    <3>2. Min(S) \in Nat
      BY <1>1, <3>1, MinNat
    <3> QED BY <2>2, <3>2
  <2> QED BY <2>1, <2>2
<1>3. HighestFps(us) = Clamp(x, MIN_FPS, MAX_FPS)
  BY DEF HighestFps
<1> HIDE DEF x
<1>4. MIN_FPS \in Int /\ MAX_FPS \in Int /\ MIN_FPS <= MAX_FPS
  BY DEF MIN_FPS, MAX_FPS
<1> QED BY <1>2, <1>3, <1>4, ClampRange

\* adjust_fps stays below what the users asked for and what was measured for
\* each of them, and at two frames a second while one does not answer.
LEMMA AdjustFpsRange ==
    ASSUME NEW us, \A i \in DOMAIN us : UserDataOK(us[i]), NEW new \in BOOLEAN
    PROVE  /\ AdjustFps(us, new) \in MIN_FPS .. HighestFps(us)
           /\ (\E i \in DOMAIN us : us[i].responseDelayed)
                => AdjustFps(us, new) <= MIN_FPS + 1
           /\ \A i \in DOMAIN us : us[i].fps # None => AdjustFps(us, new) <= us[i].fps
<1> DEFINE S == {IF us[i].fps = None THEN INIT_FPS ELSE us[i].fps : i \in DOMAIN us}
           late == \E i \in DOMAIN us : us[i].responseDelayed
           slowest == IF DOMAIN us = {} THEN INIT_FPS ELSE Min(S)
           answered == IF late THEN Least(slowest, MIN_FPS + 1) ELSE slowest
           x == IF new THEN Least(answered, INIT_FPS) ELSE answered
<1>1. S \subseteq Nat
  BY DEF UserDataOK, UserDataType, INIT_FPS, None
<1>2. slowest \in Nat
  <2>1. CASE DOMAIN us = {}
    BY <2>1 DEF INIT_FPS
  <2>2. CASE DOMAIN us # {}
    <3>1. S # {}
      BY <2>2
    <3> HIDE DEF S
    <3>2. Min(S) \in Nat
      BY <1>1, <3>1, MinNat
    <3> QED BY <2>2, <3>2
  <2> QED BY <2>1, <2>2
<1>7. ASSUME NEW i \in DOMAIN us, us[i].fps # None
      PROVE  slowest <= us[i].fps /\ us[i].fps \in Nat /\ MIN_FPS <= us[i].fps
  <2>1. us[i].fps \in S
    BY <1>7
  <2>2. us[i].fps \in Nat /\ MIN_FPS <= us[i].fps
    <3>1. us[i] \in UserDataType
      BY DEF UserDataOK
    <3>2. us[i].fps \in 0 .. 120
      BY <3>1 DEF UserDataType, MAX_FPS
    <3> HIDE DEF S
    <3> QED BY <1>7, <3>2 DEF None, MIN_FPS
  <2>3. slowest = Min(S)
    BY <1>7
  <2> HIDE DEF S, slowest
  <2> QED BY <1>1, <2>1, <2>2, <2>3, MinNat
<1>3. AdjustFps(us, new) = Clamp(x, MIN_FPS, HighestFps(us))
  BY DEF AdjustFps
<1>4. HighestFps(us) \in MIN_FPS .. MAX_FPS
  BY HighestFpsRange
<1> HIDE DEF slowest, late
<1>5. x \in Int /\ (late => x <= MIN_FPS + 1) /\ x <= slowest
  BY <1>2 DEF Least, MIN_FPS, INIT_FPS
<1> HIDE DEF x
<1> DEFINE c == Clamp(x, MIN_FPS, HighestFps(us))
<1>6. c \in MIN_FPS .. HighestFps(us) /\ (late => c <= MIN_FPS + 1)
  <2>1. /\ MIN_FPS \in Int /\ HighestFps(us) \in Int /\ MIN_FPS <= HighestFps(us)
        /\ MIN_FPS + 1 \in Int /\ MIN_FPS <= MIN_FPS + 1
    BY <1>4 DEF MIN_FPS, MAX_FPS
  <2> QED BY <1>5, <2>1, ClampRange
<1>8. ASSUME NEW i \in DOMAIN us, us[i].fps # None
      PROVE  c <= us[i].fps
  <2>1. x <= us[i].fps /\ MIN_FPS <= us[i].fps /\ us[i].fps \in Int
    BY <1>2, <1>5, <1>7, <1>8
  <2>2. MIN_FPS \in Int /\ HighestFps(us) \in Int /\ MIN_FPS <= HighestFps(us)
    BY <1>4 DEF MIN_FPS, MAX_FPS
  <2> QED BY <1>5, <2>1, <2>2, ClampRange
<1> HIDE DEF c
<1>9. AdjustFps(us, new) = c
  BY <1>3 DEF c
<1> QED BY <1>6, <1>8, <1>9 DEF late
-----------------------------------------------------------------------------
(* The invariant, and what a step may do to the rate. *)

Inv == TypeOK /\ FpsInRange

\* The users of the next state bring nothing that the rate in force would
\* have to follow: nobody's measured rate changes, nobody falls silent.
Kept ==
    \A i \in DOMAIN users' :
        \/ /\ i \in DOMAIN users
           /\ users'[i].fps = users[i].fps
           /\ users'[i].responseDelayed => users[i].responseDelayed
        \/ users'[i].fps = None /\ ~users'[i].responseDelayed

\* What every step keeps: the rate is the outcome of adjust_fps for the
\* users of the next state, or nobody is left, or it stays because nothing
\* it depends on has changed.
RateStep ==
    \/ fps' = AdjustFps(users', recent)
    \/ DOMAIN users' = {}
    \/ fps' = fps /\ Kept

\* Replacing one user's record by a well typed one.
LEMMA SetUser ==
    ASSUME TypeOK, NEW u \in DOMAIN users, NEW data, UserDataOK(data),
           NEW us, us = [users EXCEPT ![u] = data]
    PROVE  /\ DOMAIN us = DOMAIN users
           /\ \A i \in DOMAIN us : UserDataOK(us[i])
BY DEF TypeOK

\* A record replaced and the rate adjusted.
LEMMA SetAdjustOK ==
    ASSUME Inv, NEW u \in DOMAIN users, NEW data, UserDataOK(data), SetAdjust(u, data),
           UNCHANGED <<recent, healed>>
    PROVE  Inv' /\ RateStep
<1>1. /\ users' = [users EXCEPT ![u] = data]
      /\ fps' = AdjustFps(users', recent)
  BY DEF SetAdjust
<1>2. DOMAIN users' = DOMAIN users /\ \A i \in DOMAIN users' : UserDataOK(users'[i])
  BY <1>1, SetUser DEF Inv
<1>3. fps' \in MIN_FPS .. HighestFps(users') /\ HighestFps(users') \in MIN_FPS .. MAX_FPS
  BY <1>1, <1>2, AdjustFpsRange, HighestFpsRange DEF Inv, TypeOK
<1>4. FpsInRange' /\ fps' \in Nat
  BY <1>3 DEF FpsInRange, MIN_FPS, MAX_FPS
<1>5. TypeOK'
  BY <1>2, <1>4 DEF Inv, TypeOK
<1> QED BY <1>1, <1>4, <1>5 DEF Inv, RateStep

\* A rate that is asked for keeps the record in its type.
LEMMA AskedOK ==
    ASSUME NEW d, UserDataOK(d), NEW f \in 0 .. MAX_FPS
    PROVE  UserDataOK([d EXCEPT !.custom = f]) /\ UserDataOK([d EXCEPT !.auto = f])
<1>0. d \in UserDataType
  BY DEF UserDataOK
<1>1. [d EXCEPT !.custom = f] \in UserDataType /\ [d EXCEPT !.auto = f] \in UserDataType
  BY <1>0 DEF UserDataType
<1>2. /\ [d EXCEPT !.custom = f].history = d.history /\ [d EXCEPT !.custom = f].samples = d.samples
      /\ [d EXCEPT !.auto = f].history = d.history /\ [d EXCEPT !.auto = f].samples = d.samples
  BY <1>0 DEF UserDataType
<1> QED BY <1>1, <1>2 DEF UserDataOK

\* A record replaced and nothing else.
LEMMA SetOK ==
    ASSUME Inv, NEW u \in DOMAIN users, NEW data, UserDataOK(data), Set(u, data),
           data.fps = users[u].fps, data.responseDelayed => users[u].responseDelayed,
           UNCHANGED <<fps, recent, healed>>
    PROVE  Inv' /\ RateStep
<1>1. DOMAIN users' = DOMAIN users /\ \A i \in DOMAIN users' : UserDataOK(users'[i])
  BY SetUser DEF Inv, Set
<1>2. Kept
  BY <1>1 DEF Set, Kept
<1> QED BY <1>1, <1>2 DEF Inv, TypeOK, FpsInRange, RateStep

\* Every step keeps the invariant and changes the rate only by adjust_fps.
LEMMA StepOK ==
    ASSUME Inv, [Next]_vars
    PROVE  Inv' /\ RateStep
<1>0. TypeOK /\ FpsInRange /\ \A i \in DOMAIN users : UserDataOK(users[i])
  BY DEF Inv, TypeOK
<1>1. ASSUME NEW u \in User, OnConnectionOpen(u) PROVE Inv' /\ RateStep
  <2>1. DOMAIN users' = DOMAIN users \cup {u}
    BY <1>1 DEF OnConnectionOpen
  <2>2. \A i \in DOMAIN users' : UserDataOK(users'[i])
    BY <1>0, <1>1, <2>1, NewUserData DEF OnConnectionOpen
  <2>3. Kept
    BY <1>1, <2>1 DEF OnConnectionOpen, Kept, UserData0, None
  <2> QED BY <1>0, <1>1, <2>1, <2>2, <2>3 DEF OnConnectionOpen, Inv, TypeOK, FpsInRange, RateStep
<1>2. ASSUME NEW u \in User, OnConnectionClose(u) PROVE Inv' /\ RateStep
  <2>1. DOMAIN users' = DOMAIN users \ {u}
    BY <1>2 DEF OnConnectionClose
  <2>2. \A i \in DOMAIN users' : UserDataOK(users'[i])
    BY <1>0, <1>2, <2>1 DEF OnConnectionClose
  <2>3. recent' \in BOOLEAN /\ healed' \in BOOLEAN
    BY <1>0, <1>2 DEF OnConnectionClose, TypeOK
  <2>4. fps' \in MIN_FPS .. MAX_FPS /\ fps' \in Nat
    BY <1>0, <1>2 DEF OnConnectionClose, FpsInRange, FPS, MIN_FPS, MAX_FPS
  <2>5. RateStep
    BY <1>2, <2>1 DEF OnConnectionClose, RateStep, Kept
  <2> QED BY <1>0, <2>1, <2>2, <2>3, <2>4, <2>5 DEF Inv, TypeOK, FpsInRange
<1>3. ASSUME NEW u \in User, NEW f \in Wanted, UserCustomFps(u, f) PROVE Inv' /\ RateStep
  <2> DEFINE data == [users[u] EXCEPT !.custom = f]
  <2>1. f \in 0 .. MAX_FPS /\ u \in DOMAIN users
    BY <1>3 DEF UserCustomFps, MIN_FPS, MAX_FPS
  <2>2. UserDataOK(data)
    BY <1>0, <2>1, AskedOK
  <2>3. data.fps = users[u].fps /\ data.responseDelayed = users[u].responseDelayed
    BY <1>0, <2>1 DEF UserDataOK, UserDataType
  <2> HIDE DEF data
  <2>4. Set(u, data) /\ UNCHANGED <<fps, recent, healed>>
    BY <1>3 DEF UserCustomFps, data
  <2> QED BY <2>1, <2>2, <2>3, <2>4, SetOK
<1>4. ASSUME NEW u \in User, NEW f \in Wanted, UserAutoAdjustFps(u, f) PROVE Inv' /\ RateStep
  <2> DEFINE data == [users[u] EXCEPT !.auto = f]
  <2>1. f \in 0 .. MAX_FPS /\ u \in DOMAIN users
    BY <1>4 DEF UserAutoAdjustFps, MIN_FPS, MAX_FPS
  <2>2. UserDataOK(data)
    BY <1>0, <2>1, AskedOK
  <2>3. data.fps = users[u].fps /\ data.responseDelayed = users[u].responseDelayed
    BY <1>0, <2>1 DEF UserDataOK, UserDataType
  <2> HIDE DEF data
  <2>4. Set(u, data) /\ UNCHANGED <<fps, recent, healed>>
    BY <1>4 DEF UserAutoAdjustFps, data
  <2> QED BY <2>1, <2>2, <2>3, <2>4, SetOK
<1>5. ASSUME NEW u \in User, NEW d \in Delay, NEW q \in Quality, UserNetworkDelay(u, d, q)
      PROVE Inv' /\ RateStep
  <2> DEFINE v == AddDelay(users[u], Greatest(d, 10))
             avg == Greatest(AvgDelay(v), 10)
             old == AvgDelay(users[u])
             highest == HighestFps(users)
  <2>1. Greatest(d, 10) \in Nat
    BY VideoFpsAssumption DEF Greatest
  <2>2. UserDataOK(v) /\ UserDataOK(users[u])
    BY <1>0, <1>5, <2>1, AddDelayOK DEF UserNetworkDelay
  <2>3. avg \in Nat /\ avg > 0 /\ old \in Nat
    <3>1. AvgDelay(v) \in Nat /\ old \in Nat
      BY <2>2, AvgDelayNat
    <3> QED BY <3>1 DEF Greatest
  <2>4. highest \in MIN_FPS .. MAX_FPS
    BY <1>0, HighestFpsRange
  <2>5. PICK divided \in Divided(fps, avg) :
            SetAdjust(u, Measured(q, v, avg, old, highest, divided))
    BY <1>5 DEF UserNetworkDelay
  <2> HIDE DEF v, avg, old, highest
  <2>6. divided \in Nat
    BY <1>0, <2>3, DividedNat DEF TypeOK
  <2>7. UserDataOK(Measured(q, v, avg, old, highest, divided))
    BY <1>0, <2>2, <2>3, <2>4, <2>6, MeasuredOK
  <2>8. u \in DOMAIN users /\ UNCHANGED <<recent, healed>>
    BY <1>5 DEF UserNetworkDelay
  <2> QED BY <2>5, <2>7, <2>8, SetAdjustOK
<1>6. ASSUME NEW u \in User, NEW e \in Elapsed, UserDelayResponseElapsed(u, e)
      PROVE Inv' /\ RateStep
  <2>1. u \in DOMAIN users /\ UserDataOK(users[u]) /\ UNCHANGED <<recent, healed>>
    BY <1>0, <1>6 DEF UserDelayResponseElapsed
  <2>2. /\ UserDataOK([users[u] EXCEPT !.responseDelayed = TRUE])
        /\ UserDataOK([users[u] EXCEPT !.responseDelayed = FALSE])
    BY <2>1 DEF UserDataOK, UserDataType
  <2>3. CASE e > 2000
    <3> DEFINE data == AddDelay([users[u] EXCEPT !.responseDelayed = TRUE], e)
    <3>0. e \in Nat
      BY DEF Elapsed
    <3>1. UserDataOK(data)
      BY <2>2, <3>0, AddDelayOK
    <3>2. SetAdjust(u, data)
      BY <1>6, <2>3 DEF UserDelayResponseElapsed
    <3> HIDE DEF data
    <3> QED BY <2>1, <3>1, <3>2, SetAdjustOK
  <2>4. CASE ~(e > 2000)
    <3>1. Set(u, [users[u] EXCEPT !.responseDelayed = FALSE]) /\ UNCHANGED fps
      BY <1>6, <2>4 DEF UserDelayResponseElapsed
    <3> DEFINE data == [users[u] EXCEPT !.responseDelayed = FALSE]
    <3>2. data.fps = users[u].fps /\ ~data.responseDelayed
      BY <2>1 DEF UserDataOK, UserDataType
    <3>3. Set(u, data) /\ UserDataOK(data)
      BY <2>2, <3>1
    <3> HIDE DEF data
    <3> QED BY <2>1, <3>1, <3>2, <3>3, SetOK
  <2> QED BY <2>3, <2>4
<1>7. CASE UpdateDisplayData
  <2>1. fps' = AdjustFps(users, recent) /\ UNCHANGED <<users, recent, healed>>
    BY <1>7 DEF UpdateDisplayData
  <2>2. fps' \in MIN_FPS .. HighestFps(users) /\ HighestFps(users) \in MIN_FPS .. MAX_FPS
    BY <1>0, <2>1, AdjustFpsRange, HighestFpsRange DEF TypeOK
  <2>3. fps' \in MIN_FPS .. MAX_FPS /\ fps' \in Nat
    BY <2>2 DEF MIN_FPS, MAX_FPS
  <2> QED BY <1>0, <2>1, <2>3 DEF Inv, TypeOK, FpsInRange, RateStep
<1>8. CASE SecondPassed
  BY <1>0, <1>8 DEF SecondPassed, Inv, TypeOK, FpsInRange, RateStep, Kept
<1>9. CASE Heal
  BY <1>0, <1>9 DEF Heal, Inv, TypeOK, FpsInRange, RateStep, Kept
<1>10. CASE UNCHANGED vars
  BY <1>0, <1>10 DEF vars, Inv, TypeOK, FpsInRange, RateStep, Kept
<1> QED BY <1>1, <1>2, <1>3, <1>4, <1>5, <1>6, <1>7, <1>8, <1>9, <1>10 DEF Next, Report, Timer

\* The initial state satisfies the invariant.
LEMMA InitOK == Init => Inv
<1> SUFFICES ASSUME Init PROVE Inv
  OBVIOUS
<1>1. DOMAIN users = {}
  BY DEF Init
<1>2. fps \in Nat /\ FpsInRange
  BY DEF Init, FpsInRange, FPS, MIN_FPS, MAX_FPS
<1>3. recent \in BOOLEAN /\ healed \in BOOLEAN
  BY DEF Init
<1> QED BY <1>1, <1>2, <1>3 DEF Inv, TypeOK

\* The invariant holds of every reachable state.
THEOREM Invariance == Spec => []Inv
<1>1. Inv /\ [Next]_vars => Inv'
  BY StepOK
<1> QED BY <1>1, InitOK, PTL DEF Spec

\* Records, counters and windows of VideoQoS stay well typed, whatever
\* delays, timeouts and requests arrive.
THEOREM TypeCorrect == Spec => []TypeOK
<1>1. Inv => TypeOK
  BY DEF Inv
<1> QED BY <1>1, Invariance, PTL

\* VideoQoS.fps is always a rate the capturer can be run at.
THEOREM FpsAlwaysInRange == Spec => []FpsInRange
<1>1. Inv => FpsInRange
  BY DEF Inv
<1> QED BY <1>1, Invariance, PTL

\* Both rules about the slowest user, for every step: either adjust_fps has
\* just applied them to the users of the next state, or neither the rate nor
\* what it depends on has changed.
LEMMA SlowestStep ==
    ASSUME Inv, [Next]_vars, SlowestUserRules, DelayedUserHoldsBack
    PROVE  SlowestUserRules' /\ DelayedUserHoldsBack'
<1>1. Inv' /\ RateStep /\ Inv
  BY StepOK
<1>2. CASE fps' = AdjustFps(users', recent)
  <2>1. recent \in BOOLEAN /\ \A i \in DOMAIN users' : UserDataOK(users'[i])
    BY <1>1 DEF Inv, TypeOK
  <2>2. /\ (\E i \in DOMAIN users' : users'[i].responseDelayed) => fps' <= MIN_FPS + 1
        /\ \A i \in DOMAIN users' : users'[i].fps # None => fps' <= users'[i].fps
    BY <1>2, <2>1, AdjustFpsRange
  <2> QED BY <2>2 DEF SlowestUserRules, DelayedUserHoldsBack, MIN_FPS
<1>3. CASE DOMAIN users' = {}
  BY <1>3 DEF SlowestUserRules, DelayedUserHoldsBack
<1>4. CASE fps' = fps /\ Kept
  BY <1>4 DEF Kept, SlowestUserRules, DelayedUserHoldsBack, MIN_FPS
<1> QED BY <1>1, <1>2, <1>3, <1>4 DEF RateStep

\* The rate never exceeds the one measured for any connected user, for any
\* number of users that come, report, fall silent and leave.
THEOREM SlowestUserAlwaysRules == Spec => []SlowestUserRules
<1>1. Init => SlowestUserRules /\ DelayedUserHoldsBack
  BY DEF Init, SlowestUserRules, DelayedUserHoldsBack
<1>2. /\ Inv /\ [Next]_vars /\ SlowestUserRules /\ DelayedUserHoldsBack
      => (SlowestUserRules /\ DelayedUserHoldsBack)'
  BY SlowestStep
<1> QED BY <1>1, <1>2, Invariance, PTL DEF Spec

\* While one user does not answer, the rate stays at two frames a second or
\* less, whoever reports what.
THEOREM DelayedUserAlwaysHoldsBack == Spec => []DelayedUserHoldsBack
<1>1. Init => SlowestUserRules /\ DelayedUserHoldsBack
  BY DEF Init, SlowestUserRules, DelayedUserHoldsBack
<1>2. /\ Inv /\ [Next]_vars /\ SlowestUserRules /\ DelayedUserHoldsBack
      => (SlowestUserRules /\ DelayedUserHoldsBack)'
  BY SlowestStep
<1> QED BY <1>1, <1>2, Invariance, PTL DEF Spec
=============================================================================
