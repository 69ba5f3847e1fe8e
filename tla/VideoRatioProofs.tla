-------------------------- MODULE VideoRatioProofs --------------------------
(***************************************************************************)
(* Proofs about the bitrate controller: for every number of users and      *)
(* services, every quality, delay and bitrate.                             *)
(***************************************************************************)
EXTENDS VideoRatio, TLAPS

-----------------------------------------------------------------------------
(* The arithmetic of adjust_ratio. *)

\* A quotient of naturals is a natural.
LEMMA DivNat ==
    ASSUME NEW a \in Nat, NEW b \in Nat, b > 0
    PROVE  a \div b \in Nat
BY SMT

\* clamp stays within its bounds when they are in order.
LEMMA ClampRange ==
    ASSUME NEW x \in Int, NEW lo \in Int, NEW hi \in Int, lo <= hi
    PROVE  Clamp(x, lo, hi) \in lo .. hi
BY DEF Clamp

\* The order of the limits.
LEMMA Bounds ==
    /\ BR_MIN_HIGH_RESOLUTION \in Nat /\ BR_MIN \in Nat /\ BR_MAX \in Nat
    /\ BR_MIN_HIGH_RESOLUTION <= BR_MIN /\ BR_MIN <= BR_MAX
    /\ BR_BALANCED \in Nat /\ BR_MIN <= BR_BALANCED /\ BR_BALANCED <= BR_MAX
BY DEF BR_MIN, BR_MAX, BR_MIN_HIGH_RESOLUTION, BR_BALANCED

\* Intervals of integers.
LEMMA InRange ==
    ASSUME NEW x \in BR_MIN .. BR_MAX
    PROVE  x \in Int /\ BR_MIN_HIGH_RESOLUTION \in Int /\ BR_MIN_HIGH_RESOLUTION <= x
BY Bounds

\* What convert_quality can return: a known kind, with a ratio not below
\* what the kind's lower bound may become.
LEMMA QualityRange ==
    ASSUME NEW q \in Quality
    PROVE  /\ q.kind \in {"best", "balanced", "low", "custom"}
           /\ q.ratio \in BR_MIN .. BR_MAX
           /\ q.kind = "best" => q.ratio = BR_BEST
           /\ q.kind = "balanced" => q.ratio = BR_BALANCED
<1> USE DEF BR_MIN, BR_MAX, BR_BEST, BR_BALANCED, BR_SPEED
<1>1. CASE q = Best
  <2>1. q.kind = "best" /\ q.ratio = BR_BEST
    BY <1>1 DEF Best
  <2> QED BY <2>1
<1>3. CASE q = Balanced
  <2>1. q.kind = "balanced" /\ q.ratio = BR_BALANCED
    BY <1>3 DEF Balanced
  <2> QED BY <2>1
<1>4. CASE q = Low
  <2>1. q.kind = "low" /\ q.ratio = BR_SPEED
    BY <1>4 DEF Low
  <2> QED BY <2>1
<1> HIDE DEF BR_MIN, BR_MAX, BR_BEST, BR_BALANCED, BR_SPEED
<1>2. ASSUME NEW raw \in Custom, q = CustomQuality(raw)
      PROVE  q.kind = "custom" /\ q.ratio \in BR_MIN .. BR_MAX
  <2>1. raw * 20 \in Int
    BY VideoRatioAssumption
  <2>2. BR_MIN \in Int /\ BR_MAX \in Int /\ BR_MIN <= BR_MAX
    BY DEF BR_MIN, BR_MAX
  <2>3. Clamp(raw * 20, BR_MIN, BR_MAX) \in BR_MIN .. BR_MAX
    BY <2>1, <2>2, ClampRange
  <2> QED BY <1>2, <2>3 DEF CustomQuality
<1> QED BY <1>1, <1>3, <1>4, <1>2 DEF Quality

\* The lower bound for every quality, ratio and bitrate.
LEMMA MinRatioRange ==
    ASSUME NEW q \in Quality, NEW r \in Nat, NEW b \in Nat
    PROVE  MinRatio(q, r, b) \in BR_MIN_HIGH_RESOLUTION .. q.ratio
<1> DEFINE mbps == Greatest((r * 1000) \div b, BR_MIN_HIGH_RESOLUTION)
           atMost(m) == IF b > 0 /\ m > mbps THEN mbps ELSE m
<1>1. b > 0 => mbps \in Nat /\ mbps >= BR_MIN_HIGH_RESOLUTION
  <2> SUFFICES ASSUME b > 0 PROVE mbps \in Nat /\ mbps >= BR_MIN_HIGH_RESOLUTION
    OBVIOUS
  <2>1. (r * 1000) \div b \in Nat
    BY DivNat
  <2> QED BY <2>1 DEF Greatest, BR_MIN_HIGH_RESOLUTION
<1> HIDE DEF mbps
<1>2. ASSUME NEW m \in Nat, m >= BR_MIN_HIGH_RESOLUTION
      PROVE  atMost(m) \in Nat /\ atMost(m) >= BR_MIN_HIGH_RESOLUTION /\ atMost(m) <= m
  BY <1>1, <1>2 DEF BR_MIN_HIGH_RESOLUTION
<1>3. (BR_BEST * 2) \div 5 = 600 /\ Least(BR_BALANCED \div 2, 400) = 335
  BY DEF BR_BEST, BR_BALANCED, Least
<1>4. MinRatio(q, r, b) =
        CASE q.kind = "best" -> Greatest(atMost(600), BR_MIN)
          [] q.kind = "balanced" -> Greatest(atMost(335), BR_MIN_HIGH_RESOLUTION)
          [] OTHER -> BR_MIN_HIGH_RESOLUTION
  BY <1>3 DEF MinRatio, mbps
<1>m. BR_MIN_HIGH_RESOLUTION = 100
  BY DEF BR_MIN_HIGH_RESOLUTION
<1> HIDE DEF atMost
<1>5. /\ atMost(600) \in 100 .. 600 /\ atMost(335) \in 100 .. 335
  <2>1. atMost(600) \in Nat /\ atMost(600) >= 100 /\ atMost(600) <= 600
    BY <1>2, <1>m
  <2>2. atMost(335) \in Nat /\ atMost(335) >= 100 /\ atMost(335) <= 335
    BY <1>2, <1>m
  <2> QED BY <2>1, <2>2
<1>6. CASE q.kind = "best"
  BY <1>4, <1>5, <1>6, QualityRange DEF Greatest, BR_MIN, BR_BEST, BR_MIN_HIGH_RESOLUTION
<1>7. CASE q.kind = "balanced"
  BY <1>4, <1>5, <1>7, QualityRange DEF Greatest, BR_BALANCED, BR_MIN_HIGH_RESOLUTION
<1>8. CASE q.kind # "best" /\ q.kind # "balanced"
  <2>1. q.ratio \in BR_MIN .. BR_MAX
    BY QualityRange
  <2>2. MinRatio(q, r, b) = BR_MIN_HIGH_RESOLUTION
    BY <1>4, <1>8
  <2>3. q.ratio \in Int /\ BR_MIN_HIGH_RESOLUTION \in Int /\ BR_MIN_HIGH_RESOLUTION <= q.ratio
    BY <2>1, InRange
  <2> QED BY <2>2, <2>3
<1> QED BY <1>6, <1>7, <1>8

\* adjust_ratio stays between the lower bound of every quality and the
\* quality in force, from any ratio, bitrate and delay.
LEMMA AdjustRatioRange ==
    ASSUME NEW q \in Quality, NEW r \in Nat, NEW b \in Nat, NEW delay \in Nat,
           NEW dynamic \in BOOLEAN
    PROVE  AdjustRatio(q, r, b, delay, dynamic) \in BR_MIN_HIGH_RESOLUTION .. q.ratio
<1> DEFINE v == (r * Percent(delay, dynamic)) \div 100
<1>1. Percent(delay, dynamic) \in Nat
  BY DEF Percent
<1>2. v \in Nat
  <2>1. r * Percent(delay, dynamic) \in Nat
    BY <1>1
  <2> QED BY <2>1, DivNat
<1> HIDE DEF v
<1>3. Limited(v, r, b) \in Int
  <2>1. CASE b > 0
    <3>1. (b + 150) * r \in Nat
      OBVIOUS
    <3>2. ((b + 150) * r) \div b \in Nat
      BY <2>1, <3>1, DivNat
    <3> QED BY <1>2, <3>2 DEF Limited
  <2>2. CASE ~(b > 0)
    BY <1>2, <2>2 DEF Limited
  <2> QED BY <2>1, <2>2
<1>4. MinRatio(q, r, b) \in BR_MIN_HIGH_RESOLUTION .. q.ratio
  BY MinRatioRange
<1>5. q.ratio \in Int /\ BR_MIN_HIGH_RESOLUTION \in Int
  <2>1. q.ratio \in BR_MIN .. BR_MAX
    BY QualityRange
  <2> QED BY <2>1, InRange
<1>6. Clamp(Limited(v, r, b), MinRatio(q, r, b), q.ratio) \in MinRatio(q, r, b) .. q.ratio
  <2>1. MinRatio(q, r, b) \in Int /\ MinRatio(q, r, b) <= q.ratio
    BY <1>4, <1>5
  <2> QED BY <1>3, <1>5, <2>1, ClampRange
<1>7. AdjustRatio(q, r, b, delay, dynamic) \in MinRatio(q, r, b) .. q.ratio
  BY <1>6 DEF AdjustRatio, v
<1> QED BY <1>4, <1>5, <1>7
-----------------------------------------------------------------------------
(* Who chose last. *)

\* Taking a user out of the order leaves the others, each once.
LEMMA OthersOK ==
    ASSUME NEW u, NEW ord \in Seq(User),
           \A i, j \in DOMAIN ord : ord[i] = ord[j] => i = j
    PROVE  /\ Others(ord, u) \in Seq(User)
           /\ \A i \in DOMAIN Others(ord, u) :
                \E k \in DOMAIN ord : Others(ord, u)[i] = ord[k] /\ ord[k] # u
           /\ \A i, j \in DOMAIN Others(ord, u) :
                Others(ord, u)[i] = Others(ord, u)[j] => i = j
<1>1. CASE ~(\E i \in DOMAIN ord : ord[i] = u)
  <2>1. Others(ord, u) = ord
    BY <1>1 DEF Others
  <2> QED BY <1>1, <2>1
<1>2. CASE \E i \in DOMAIN ord : ord[i] = u
  <2> DEFINE at == CHOOSE i \in DOMAIN ord : ord[i] = u
             rest == [i \in 1 .. Len(ord) - 1 |-> IF i < at THEN ord[i] ELSE ord[i + 1]]
  <2>1. at \in DOMAIN ord /\ ord[at] = u
    BY <1>2
  <2>2. Others(ord, u) = rest
    BY <1>2 DEF Others
  <2> HIDE DEF at
  <2>3. Len(ord) \in Nat /\ at \in 1 .. Len(ord) /\ Len(ord) - 1 \in Nat
    BY <2>1
  <2>4. \A i \in 1 .. Len(ord) - 1 : \E k \in 1 .. Len(ord) :
            /\ k # at /\ rest[i] = ord[k]
            /\ k = IF i < at THEN i ELSE i + 1
    BY <2>3
  <2>5. rest \in Seq(User) /\ DOMAIN rest = 1 .. Len(ord) - 1
    <3>1. \A i \in 1 .. Len(ord) - 1 : rest[i] \in User
      BY <2>3
    <3> QED BY <2>3, <3>1
  <2> HIDE DEF rest
  <2>6. \A i \in DOMAIN rest : \E k \in DOMAIN ord : rest[i] = ord[k] /\ ord[k] # u
    <3> SUFFICES ASSUME NEW i \in DOMAIN rest
                 PROVE  \E k \in DOMAIN ord : rest[i] = ord[k] /\ ord[k] # u
      OBVIOUS
    <3>1. PICK k \in 1 .. Len(ord) : k # at /\ rest[i] = ord[k]
      BY <2>4, <2>5
    <3>2. k \in DOMAIN ord /\ ord[k] # u
      BY <2>1, <3>1
    <3> QED BY <3>1, <3>2
  <2>7. \A i, j \in DOMAIN rest : rest[i] = rest[j] => i = j
    <3> SUFFICES ASSUME NEW i \in DOMAIN rest, NEW j \in DOMAIN rest, rest[i] = rest[j]
                 PROVE  i = j
      OBVIOUS
    <3>1. PICK k \in 1 .. Len(ord) : rest[i] = ord[k] /\ k = IF i < at THEN i ELSE i + 1
      BY <2>4, <2>5
    <3>2. PICK l \in 1 .. Len(ord) : rest[j] = ord[l] /\ l = IF j < at THEN j ELSE j + 1
      BY <2>4, <2>5
    <3>3. k = l
      <4>1. k \in DOMAIN ord /\ l \in DOMAIN ord
        OBVIOUS
      <4>2. ord[k] = ord[l]
        BY <3>1, <3>2
      <4> QED BY <4>1, <4>2
    <3> QED BY <2>3, <2>5, <3>1, <3>2, <3>3
  <2> QED BY <2>2, <2>5, <2>6, <2>7
<1> QED BY <1>1, <1>2

\* The quality in force is one that users can choose.
LEMMA LatestOK ==
    ASSUME TypeOK
    PROVE  LatestQuality(users, order) \in Quality
<1>1. CASE order = <<>>
  BY <1>1 DEF LatestQuality, Quality
<1>2. CASE order # <<>>
  <2>1. order \in Seq(User) /\ Len(order) \in DOMAIN order
    BY <1>2 DEF TypeOK
  <2>2. order[Len(order)] \in DOMAIN users
    BY <2>1 DEF TypeOK
  <2> QED BY <1>2, <2>2 DEF LatestQuality, TypeOK
<1> QED BY <1>1, <1>2
-----------------------------------------------------------------------------
(* The invariant. *)

Inv == TypeOK /\ RatioInRange

\* What a step does to the ratio.
RatioStep == ratio' = ratio \/ ratio' <= LatestQuality(users', order').ratio

\* In range, ratio() is the stored ratio.
LEMMA RatioIsStored == ASSUME RatioInRange PROVE Ratio = ratio
BY Bounds DEF Ratio, RatioInRange

\* A ratio between the smallest one and a quality's is in range.
LEMMA Below ==
    ASSUME NEW top \in BR_MIN .. BR_MAX
    PROVE  /\ top \in BR_MIN_HIGH_RESOLUTION .. BR_MAX
           /\ \A x \in BR_MIN_HIGH_RESOLUTION .. top :
                x \in BR_MIN_HIGH_RESOLUTION .. BR_MAX /\ x \in Nat /\ x <= top
BY Bounds

\* Every quality's ratio is in range, and what adjust_ratio returns.
LEMMA InForce ==
    ASSUME NEW q \in Quality
    PROVE  /\ q.ratio \in BR_MIN_HIGH_RESOLUTION .. BR_MAX
           /\ \A x \in BR_MIN_HIGH_RESOLUTION .. q.ratio :
                x \in BR_MIN_HIGH_RESOLUTION .. BR_MAX /\ x \in Nat /\ x <= q.ratio
<1>1. q.ratio \in BR_MIN .. BR_MAX
  BY QualityRange
<1> QED BY <1>1, Below

\* update_display_data keeps the ratio or leaves it within the quality in
\* force.
LEMMA UpdateOK ==
    ASSUME Inv, NEW b \in Nat, NEW due \in BOOLEAN, NEW delay \in MaxDelay,
           NEW dynamic \in BOOLEAN
    PROVE  LET r == UpdateDisplayData(ratio, b, due, delay, dynamic) IN
           /\ r \in BR_MIN_HIGH_RESOLUTION .. BR_MAX /\ r \in Nat
           /\ r = ratio \/ r <= LatestQuality(users, order).ratio
<1> DEFINE q == LatestQuality(users, order)
           r == UpdateDisplayData(ratio, b, due, delay, dynamic)
           a == AdjustRatio(q, ratio, b, delay, dynamic)
<1>1. q \in Quality /\ delay \in Nat /\ ratio \in Nat
  BY LatestOK, VideoRatioAssumption DEF Inv, TypeOK
<1>2. r = q.ratio \/ r = a \/ r = ratio
  BY DEF UpdateDisplayData
<1> HIDE DEF q, r
<1>3. CASE r = q.ratio
  <2>1. q.ratio \in BR_MIN_HIGH_RESOLUTION .. BR_MAX
    BY <1>1, InForce
  <2>2. r \in BR_MIN_HIGH_RESOLUTION .. BR_MAX
    BY <1>3, <2>1
  <2>3. r \in Nat
    BY <2>2, Bounds
  <2>4. r <= q.ratio
    BY <1>3, <2>3
  <2> QED BY <2>2, <2>3, <2>4 DEF q, r
<1>4. CASE r = a
  <2>1. a \in BR_MIN_HIGH_RESOLUTION .. q.ratio
    BY <1>1, AdjustRatioRange
  <2> HIDE DEF a
  <2> QED BY <1>1, <1>4, <2>1, InForce DEF q, r
<1>5. CASE r = ratio
  BY <1>1, <1>5 DEF Inv, RatioInRange, r
<1> QED BY <1>2, <1>3, <1>4, <1>5

\* Starting, stopping and following leaves users alone: the type invariant
\* then only depends on what the step writes.
LEMMA ServiceStepOK ==
    ASSUME Inv, ratio' \in Nat, RatioInRange', bitrate' \in Nat,
           UNCHANGED <<abr, users, order, settled>>,
           DOMAIN displays' \subseteq Service,
           \A v \in DOMAIN displays' : displays'[v] \in BOOLEAN,
           svc' \in [Service -> [pc : {"idle", "begun", "made", "stored", "running"},
                                 changeable : BOOLEAN, seen : Nat, applied : Nat,
                                 missed : BOOLEAN]]
    PROVE  Inv'
BY DEF Inv, TypeOK
\* Every step keeps the invariant and the ratio within the quality in force.
LEMMA StepOK ==
    ASSUME Inv, [Next]_vars
    PROVE  Inv' /\ RatioStep
<1> DEFINE Svc == [pc : {"idle", "begun", "made", "stored", "running"},
                   changeable : BOOLEAN, seen : Nat, applied : Nat, missed : BOOLEAN]
<1>0. TypeOK /\ RatioInRange /\ ratio \in Nat /\ Ratio = ratio /\ bitrate \in Nat
  BY RatioIsStored DEF Inv, TypeOK
<1>1. ASSUME NEW u \in User, OnConnectionOpen(u) PROVE Inv' /\ RatioStep
  <2>1. DOMAIN users' = DOMAIN users \cup {u} /\ \A w \in DOMAIN users : users'[w] = users[w] \/ w = u
    BY <1>1 DEF OnConnectionOpen, With
  <2>2. users'[u] = [quality |-> Balanced, measured |-> FALSE]
    BY <1>1 DEF OnConnectionOpen, With
  <2>3. users'[u] \in [quality : Quality, measured : BOOLEAN]
    BY <2>2 DEF Quality
  <2>4. abr' \in BOOLEAN
    BY <1>1, VideoRatioAssumption DEF OnConnectionOpen
  <2>5. UNCHANGED <<ratio, bitrate, order, displays, svc, settled>>
    BY <1>1 DEF OnConnectionOpen
  <2>6. TypeOK'
    BY <1>0, <2>1, <2>3, <2>4, <2>5 DEF TypeOK
  <2> QED BY <1>0, <2>5, <2>6 DEF Inv, RatioInRange, RatioStep
<1>2. ASSUME NEW u \in User, OnConnectionClose(u) PROVE Inv' /\ RatioStep
  <2>1. DOMAIN users' = DOMAIN users \ {u} /\ \A w \in DOMAIN users' : users'[w] = users[w]
    BY <1>2 DEF OnConnectionClose, Without
  <2>2. order' = Others(order, u) /\ UNCHANGED <<svc, settled>>
    BY <1>2 DEF OnConnectionClose
  <2>3. /\ order' \in Seq(User)
        /\ \A i \in DOMAIN order' : \E k \in DOMAIN order : order'[i] = order[k] /\ order[k] # u
        /\ \A i, j \in DOMAIN order' : order'[i] = order'[j] => i = j
    BY <1>0, <2>2, OthersOK DEF TypeOK
  <2>4. \A i \in DOMAIN order' : order'[i] \in DOMAIN users'
    BY <1>0, <2>1, <2>3 DEF TypeOK
  <2>5. CASE DOMAIN users = {u}
    <3>1. /\ ratio' = BR_BALANCED /\ bitrate' = 0 /\ abr' = TRUE /\ displays' = <<>>
      BY <1>2, <2>5 DEF OnConnectionClose
    <3>2. ratio' \in Nat /\ RatioInRange' /\ bitrate' \in Nat /\ abr' \in BOOLEAN
      BY <3>1, Bounds DEF RatioInRange
    <3>3. DOMAIN displays' = {}
      BY <3>1
    <3>4. TypeOK'
      BY <1>0, <2>1, <2>2, <2>3, <2>4, <3>2, <3>3 DEF TypeOK
    <3>5. order' = <<>>
      <4>1. DOMAIN order' = {}
        BY <2>1, <2>4, <2>5
      <4> QED BY <2>3, <4>1
    <3>6. LatestQuality(users', order').ratio = BR_BALANCED
      BY <3>5 DEF LatestQuality, Balanced
    <3> QED BY <3>1, <3>2, <3>4, <3>6 DEF Inv, RatioStep
  <2>6. CASE DOMAIN users # {u}
    <3>1. UNCHANGED <<ratio, bitrate, abr, displays>>
      BY <1>2, <2>6 DEF OnConnectionClose
    <3>2. TypeOK'
      BY <1>0, <2>1, <2>2, <2>3, <2>4, <3>1 DEF TypeOK
    <3> QED BY <1>0, <3>1, <3>2 DEF Inv, RatioInRange, RatioStep
  <2> QED BY <2>5, <2>6
<1>3. ASSUME NEW u \in User, NEW q \in Quality, UserImageQuality(u, q) PROVE Inv' /\ RatioStep
  <2> DEFINE rest == Others(order, u)
  <2>1. /\ u \in DOMAIN users /\ users' = [users EXCEPT ![u].quality = q]
        /\ order' = Append(rest, u) /\ ratio' = q.ratio
        /\ UNCHANGED <<bitrate, abr, displays, svc, settled>>
    BY <1>3 DEF UserImageQuality
  <2>2. /\ rest \in Seq(User)
        /\ \A i \in DOMAIN rest : \E k \in DOMAIN order : rest[i] = order[k] /\ order[k] # u
        /\ \A i, j \in DOMAIN rest : rest[i] = rest[j] => i = j
    BY <1>0, OthersOK DEF TypeOK
  <2>3. /\ DOMAIN users' = DOMAIN users /\ users'[u].quality = q
        /\ \A w \in DOMAIN users' : users'[w] \in [quality : Quality, measured : BOOLEAN]
    BY <1>0, <2>1 DEF TypeOK
  <2> HIDE DEF rest
  <2>4. /\ order' \in Seq(User) /\ Len(order') = Len(rest) + 1 /\ Len(rest) \in Nat
        /\ order'[Len(order')] = u /\ order' # <<>>
        /\ \A i \in 1 .. Len(rest) : order'[i] = rest[i] /\ rest[i] # u /\ rest[i] \in DOMAIN users
    <3>1. /\ order' \in Seq(User) /\ Len(order') = Len(rest) + 1 /\ Len(rest) \in Nat
          /\ order'[Len(rest) + 1] = u
          /\ \A i \in 1 .. Len(rest) : order'[i] = rest[i]
      BY <2>1, <2>2
    <3>2. order' # <<>>
      BY <3>1
    <3>3. \A i \in 1 .. Len(rest) : rest[i] # u /\ rest[i] \in DOMAIN users
      BY <1>0, <2>2 DEF TypeOK
    <3> QED BY <3>1, <3>2, <3>3
  <2>5. \A i \in DOMAIN order' : order'[i] \in DOMAIN users'
    BY <2>1, <2>3, <2>4
  <2>6. \A i, j \in DOMAIN order' : order'[i] = order'[j] => i = j
    <3> SUFFICES ASSUME NEW i \in DOMAIN order', NEW j \in DOMAIN order', order'[i] = order'[j]
                 PROVE  i = j
      OBVIOUS
    <3>1. i \in 1 .. Len(rest) + 1 /\ j \in 1 .. Len(rest) + 1
      BY <2>4
    <3>2. CASE i \in 1 .. Len(rest) /\ j \in 1 .. Len(rest)
      BY <2>2, <2>4, <3>2
    <3>3. CASE i = Len(rest) + 1 \/ j = Len(rest) + 1
      BY <2>4, <3>1, <3>3
    <3> QED BY <2>4, <3>1, <3>2, <3>3
  <2>7. LatestQuality(users', order') = q
    BY <2>3, <2>4 DEF LatestQuality
  <2>8. ratio' \in BR_MIN_HIGH_RESOLUTION .. BR_MAX
    BY <2>1, InForce
  <2>9. ratio' \in Nat
    BY <2>8, Bounds
  <2>10. TypeOK'
    BY <1>0, <2>1, <2>3, <2>4, <2>5, <2>6, <2>9 DEF TypeOK
  <2>11. ratio' <= q.ratio
    BY <2>1, <2>9
  <2> QED BY <2>7, <2>8, <2>10, <2>11 DEF Inv, RatioInRange, RatioStep
<1>4. ASSUME NEW u \in User, NEW delay \in MaxDelay, FirstNetworkDelay(u, delay)
      PROVE Inv' /\ RatioStep
  <2> DEFINE q == LatestQuality(users, order)
             a == AdjustRatio(q, ratio, bitrate, delay, FALSE)
  <2>1. /\ u \in DOMAIN users /\ users' = [users EXCEPT ![u].measured = TRUE]
        /\ ratio' = ratio \/ ratio' = a
        /\ UNCHANGED <<bitrate, abr, order, displays, svc, settled>>
    BY <1>4 DEF FirstNetworkDelay
  <2>2. q \in Quality /\ delay \in Nat
    BY <1>0, LatestOK, VideoRatioAssumption
  <2>3. a \in BR_MIN_HIGH_RESOLUTION .. q.ratio
    BY <1>0, <2>2, AdjustRatioRange
  <2>4. /\ DOMAIN users' = DOMAIN users
        /\ \A w \in DOMAIN users' : /\ users'[w] \in [quality : Quality, measured : BOOLEAN]
                                    /\ users'[w].quality = users[w].quality
    BY <1>0, <2>1 DEF TypeOK
  <2>5. LatestQuality(users', order') = q
    <3>1. CASE order = <<>>
      BY <2>1, <3>1 DEF LatestQuality
    <3>2. CASE order # <<>>
      <4>1. order[Len(order)] \in DOMAIN users
        BY <1>0, <3>2 DEF TypeOK
      <4> QED BY <2>1, <2>4, <3>2, <4>1 DEF LatestQuality
    <3> QED BY <3>1, <3>2
  <2> HIDE DEF q, a
  <2>6. /\ ratio' \in BR_MIN_HIGH_RESOLUTION .. BR_MAX /\ ratio' \in Nat
        /\ ratio' = ratio \/ ratio' <= q.ratio
    BY <1>0, <2>1, <2>2, <2>3, InForce DEF RatioInRange
  <2>7. TypeOK'
    BY <1>0, <2>1, <2>4, <2>6 DEF TypeOK
  <2> QED BY <2>5, <2>6, <2>7 DEF Inv, RatioInRange, RatioStep
<1>5. ASSUME NEW v \in Service, Begin(v) PROVE Inv' /\ RatioStep
  <2>1. displays' = With(displays, v, FALSE) /\ UNCHANGED <<ratio, bitrate, abr, users, order, settled>>
    BY <1>5 DEF Begin
  <2>2. DOMAIN displays' \subseteq Service /\ \A w \in DOMAIN displays' : displays'[w] \in BOOLEAN
    BY <1>0, <2>1 DEF TypeOK, With
  <2>3. svc' \in [Service -> Svc]
    BY <1>0, <1>5 DEF TypeOK, Begin
  <2> QED BY <1>0, <2>1, <2>2, <2>3, ServiceStepOK DEF RatioInRange, RatioStep
<1>6. ASSUME NEW v \in Service, NEW c \in Changeable, SetupEncoder(v, c) PROVE Inv' /\ RatioStep
  <2>1. ratio' = ratio /\ UNCHANGED <<bitrate, abr, users, order, displays, settled>>
    BY <1>0, <1>6 DEF SetupEncoder
  <2>2. c \in BOOLEAN
    BY VideoRatioAssumption
  <2>3. svc' \in [Service -> Svc]
    BY <1>0, <1>6, <2>2 DEF TypeOK, SetupEncoder
  <2> QED BY <1>0, <2>1, <2>3, ServiceStepOK DEF TypeOK, RatioInRange, RatioStep
<1>7. ASSUME NEW v \in Service, NEW b \in Bitrate, StoreBitrate(v, b) PROVE Inv' /\ RatioStep
  <2>1. bitrate' = b /\ UNCHANGED <<ratio, abr, users, order, displays, settled>>
    BY <1>7 DEF StoreBitrate
  <2>2. bitrate' \in Nat
    BY <2>1, VideoRatioAssumption
  <2>3. svc' \in [Service -> Svc]
    BY <1>0, <1>7 DEF TypeOK, StoreBitrate
  <2> QED BY <1>0, <2>1, <2>2, <2>3, ServiceStepOK DEF TypeOK, RatioInRange, RatioStep
<1>8. ASSUME NEW v \in Service, SetSupportChangingQuality(v) PROVE Inv' /\ RatioStep
  <2>1. UNCHANGED <<ratio, bitrate, abr, users, order, settled>>
    BY <1>8 DEF SetSupportChangingQuality
  <2>2. svc[v].changeable \in BOOLEAN
    BY <1>0 DEF TypeOK
  <2>3. DOMAIN displays' \subseteq Service /\ \A w \in DOMAIN displays' : displays'[w] \in BOOLEAN
    BY <1>0, <1>8, <2>2 DEF TypeOK, SetSupportChangingQuality
  <2>4. svc' \in [Service -> Svc]
    BY <1>0, <1>8 DEF TypeOK, SetSupportChangingQuality
  <2> QED BY <1>0, <2>1, <2>3, <2>4, ServiceStepOK DEF RatioInRange, RatioStep
<1>9. ASSUME NEW v \in Service, NEW b \in Bitrate, NEW second \in BOOLEAN, NEW due \in BOOLEAN,
             NEW dynamic \in BOOLEAN, NEW delay \in MaxDelay,
             CheckQos(v, b, second, due, delay, dynamic)
      PROVE Inv' /\ RatioStep
  <2> DEFINE next == UpdateDisplayData(ratio, bitrate', due, delay, dynamic)
  <2>1. /\ UNCHANGED <<abr, users, order, settled>>
        /\ bitrate' = bitrate \/ bitrate' = b
        /\ ratio' = ratio \/ ratio' = next
        /\ displays' = displays \/ displays' = Without(displays, v)
    BY <1>0, <1>9 DEF CheckQos
  <2>2. bitrate' \in Nat
    BY <1>0, <2>1, VideoRatioAssumption
  <2>3. /\ next \in BR_MIN_HIGH_RESOLUTION .. BR_MAX /\ next \in Nat
        /\ next = ratio \/ next <= LatestQuality(users, order).ratio
    BY <2>2, UpdateOK
  <2> HIDE DEF next
  <2>4. ratio' \in Nat /\ RatioInRange' /\ RatioStep
    BY <1>0, <2>1, <2>3 DEF RatioInRange, RatioStep
  <2>5. DOMAIN displays' \subseteq Service /\ \A w \in DOMAIN displays' : displays'[w] \in BOOLEAN
    BY <1>0, <2>1 DEF TypeOK, Without
  <2>6. svc' \in [Service -> Svc]
    <3>1. \/ svc' = [svc EXCEPT ![v] = Idle]
          \/ \E m \in BOOLEAN :
               svc' = [svc EXCEPT ![v].seen = ratio,
                                  ![v].applied = IF svc[v].changeable THEN ratio ELSE @,
                                  ![v].missed = m]
      BY <1>0, <1>9 DEF CheckQos
    <3>2. Idle \in Svc
      BY DEF Idle
    <3>3. svc \in [Service -> Svc] /\ svc[v] \in Svc
      BY <1>0 DEF TypeOK
    <3>4. CASE svc' = [svc EXCEPT ![v] = Idle]
      BY <3>2, <3>3, <3>4
    <3>5. ASSUME NEW m \in BOOLEAN,
                 svc' = [svc EXCEPT ![v].seen = ratio,
                                    ![v].applied = IF svc[v].changeable THEN ratio ELSE @,
                                    ![v].missed = m]
          PROVE  svc' \in [Service -> Svc]
      <4> DEFINE x == IF svc[v].changeable THEN ratio ELSE svc[v].applied
                 new == [svc[v] EXCEPT !.seen = ratio, !.applied = x, !.missed = m]
      <4>1. x \in Nat
        BY <1>0, <3>3
      <4>2. svc' = [svc EXCEPT ![v] = new]
        BY <3>3, <3>5
      <4> HIDE DEF x
      <4>3. new \in Svc
        BY <1>0, <3>3, <4>1
      <4> HIDE DEF new, Svc
      <4> QED BY <3>3, <4>2, <4>3
    <3> QED BY <3>1, <3>4, <3>5
  <2> QED BY <2>1, <2>2, <2>4, <2>5, <2>6, ServiceStepOK
<1>10. ASSUME NEW v \in Service, Stop(v) PROVE Inv' /\ RatioStep
  <2>1. displays' = Without(displays, v) /\ UNCHANGED <<ratio, bitrate, abr, users, order, settled>>
    BY <1>10 DEF Stop
  <2>2. DOMAIN displays' \subseteq Service /\ \A w \in DOMAIN displays' : displays'[w] \in BOOLEAN
    BY <1>0, <2>1 DEF TypeOK, Without
  <2>3. svc' \in [Service -> Svc]
    <3>1. Idle \in Svc
      BY DEF Idle
    <3> QED BY <1>0, <1>10, <3>1 DEF TypeOK, Stop
  <2> QED BY <1>0, <2>1, <2>2, <2>3, ServiceStepOK DEF RatioInRange, RatioStep
<1>11. CASE Settle
  BY <1>0, <1>11 DEF Settle, qos, Inv, TypeOK, RatioInRange, RatioStep
<1>12. CASE UNCHANGED vars
  BY <1>0, <1>12 DEF vars, Inv, TypeOK, RatioInRange, RatioStep
<1> QED
  BY <1>1, <1>2, <1>3, <1>4, <1>5, <1>6, <1>7, <1>8, <1>9, <1>10, <1>11, <1>12
  DEF Next, Setup, Store, Check

\* The initial state satisfies the invariant.
LEMMA InitOK == Init => Inv
<1> SUFFICES ASSUME Init PROVE Inv
  OBVIOUS
<1>1. DOMAIN users = {} /\ DOMAIN order = {} /\ DOMAIN displays = {} /\ order \in Seq(User)
  BY DEF Init
<1>2. ratio \in Nat /\ RatioInRange /\ bitrate \in Nat
  BY Bounds DEF Init, RatioInRange
<1>3. abr \in BOOLEAN /\ settled \in BOOLEAN
  BY DEF Init
<1>4. svc \in [Service -> [pc : {"idle", "begun", "made", "stored", "running"},
                           changeable : BOOLEAN, seen : Nat, applied : Nat, missed : BOOLEAN]]
  BY DEF Init, Idle
<1> QED BY <1>1, <1>2, <1>3, <1>4 DEF Inv, TypeOK

\* The invariant holds of every reachable state.
THEOREM Invariance == Spec => []Inv
<1>1. Inv /\ [Next]_vars => Inv'
  BY StepOK
<1> QED BY <1>1, InitOK, PTL DEF Spec

\* Types of VideoQoS and of the services; who chose a quality is connected
\* and listed once (video_qos.rs:98-129).
THEOREM TypeCorrect == Spec => []TypeOK
BY Invariance, PTL DEF Inv

\* VideoQoS's ratio stays one that ratio() hands out, for any number of
\* users, qualities, delays and bitrates.
THEOREM RatioAlwaysInRange == Spec => []RatioInRange
<1>1. Inv => RatioInRange
  BY DEF Inv
<1> QED BY <1>1, Invariance, PTL

\* The clamp of adjust_ratio never has its bounds crossed, so it never
\* panics.
THEOREM ClampAlwaysOrdered == Spec => []ClampOrdered
<1>1. Inv => ClampOrdered
  <2> SUFFICES ASSUME Inv, NEW q, q = LatestQuality(users, order)
               PROVE  MinRatio(q, ratio, bitrate) <= q.ratio
    BY DEF ClampOrdered
  <2>1. q \in Quality /\ ratio \in Nat /\ bitrate \in Nat
    BY LatestOK DEF Inv, TypeOK
  <2>2. MinRatio(q, ratio, bitrate) \in BR_MIN_HIGH_RESOLUTION .. q.ratio
    BY <2>1, MinRatioRange
  <2> QED BY <2>2
<1> QED BY <1>1, Invariance, PTL

\* No change of the ratio exceeds the quality chosen last by those present.
THEOREM NeverBetterThanChosen == Spec => NoBetterThanChosen
<1>1. Inv /\ [Next]_vars
        => [ratio' # ratio => ratio' <= LatestQuality(users', order').ratio]_vars
  BY StepOK DEF RatioStep
<1> QED BY <1>1, Invariance, PTL DEF Spec, NoBetterThanChosen
=============================================================================
