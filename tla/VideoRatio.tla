----------------------------- MODULE VideoRatio -----------------------------
(***************************************************************************)
(* The bitrate half of VideoQoS (src/server/video_qos.rs) and the video    *)
(* services that follow it (check_qos of src/server/video_service.rs):     *)
(* users choose image qualities, the ratio adapts to the network, and      *)
(* every service hands the ratio to its encoder, restarting the encoder if *)
(* it cannot change its quality.                                           *)
(*                                                                         *)
(* VIDEO_QOS is one mutex: a step is what is done under one lock.  Ratios  *)
(* are in thousandths.  Two users never choose in the same millisecond.    *)
(***************************************************************************)
EXTENDS Integers, Sequences, FiniteSets

CONSTANTS
    User,           \* connection ids
    Service,        \* video services: one per display
    Custom,         \* custom qualities as sent: (q >> 8) & 0xFFF
    MaxDelay,       \* the largest average delay of the users
    Bitrate,        \* bitrates encoders report, in kbps
    Abr,            \* values of the option enable-abr
    Changeable      \* what support_changing_quality of an encoder may return

ASSUME VideoRatioAssumption ==
    /\ Custom \subseteq 0 .. 4095 /\ MaxDelay \subseteq Nat /\ Bitrate \subseteq Nat
    /\ Abr \subseteq BOOLEAN /\ Changeable \subseteq BOOLEAN

BR_MAX == 40000
BR_BEST == 1500
BR_BALANCED == 670
BR_SPEED == 500
BR_MIN == 200
BR_MIN_HIGH_RESOLUTION == 100

Least(a, b) == IF a < b THEN a ELSE b
Greatest(a, b) == IF a > b THEN a ELSE b
Clamp(x, lo, hi) == IF x < lo THEN lo ELSE IF x > hi THEN hi ELSE x

-----------------------------------------------------------------------------
(* Qualities and the adjustment of the ratio. *)

Best == [kind |-> "best", ratio |-> BR_BEST]
Balanced == [kind |-> "balanced", ratio |-> BR_BALANCED]
Low == [kind |-> "low", ratio |-> BR_SPEED]

\* A custom quality taken as it is sent.
CustomQualityAsSent(raw) == [kind |-> "custom", ratio |-> raw * 20]

\* convert_quality of a custom one: hundredths of twice the value, in range.
CustomQuality(raw) == [kind |-> "custom", ratio |-> Clamp(raw * 20, BR_MIN, BR_MAX)]

Quality == {Best, Balanced, Low} \cup {CustomQuality(raw) : raw \in Custom}

\* The lowest ratio for quality q: for best and balanced about 1 Mbps.
MinRatio(q, r, b) ==
    LET mbps == Greatest((r * 1000) \div b, BR_MIN_HIGH_RESOLUTION)
        atMost(m) == IF b > 0 /\ m > mbps THEN mbps ELSE m IN
    CASE q.kind = "best" -> Greatest(atMost((BR_BEST * 2) \div 5), BR_MIN)
      [] q.kind = "balanced" -> Greatest(atMost(Least(BR_BALANCED \div 2, 400)),
                                         BR_MIN_HIGH_RESOLUTION)
      [] OTHER -> BR_MIN_HIGH_RESOLUTION

\* What the delay makes of the ratio before the limits, in percent.
Percent(delay, dynamic) ==
    CASE delay < 50 -> IF dynamic THEN 115 ELSE 100
      [] delay \in 50 .. 99 -> IF dynamic THEN 110 ELSE 100
      [] delay \in 100 .. 149 -> IF dynamic THEN 105 ELSE 100
      [] delay \in 150 .. 199 -> 95
      [] delay \in 200 .. 299 -> 90
      [] delay \in 300 .. 499 -> 85
      [] delay >= 500 -> 80

\* At most 150 kbps more at a time.
Limited(v, r, b) ==
    LET add == ((b + 150) * r) \div b IN
    IF b > 0 /\ v > add /\ add > r /\ r >= BR_SPEED THEN add ELSE v

\* adjust_ratio that grows beyond the quality chosen.
AdjustRatioUnlimited(q, r, b, delay, dynamic) ==
    LET v == (r * Percent(delay, dynamic)) \div 100 IN
    Clamp(Limited(v, r, b), MinRatio(q, r, b), BR_MAX)

\* adjust_ratio without the final clamp.
AdjustRatioUnclamped(q, r, b, delay, dynamic) ==
    Limited((r * Percent(delay, dynamic)) \div 100, r, b)

AdjustRatio(q, r, b, delay, dynamic) ==
    LET v == (r * Percent(delay, dynamic)) \div 100 IN
    Clamp(Limited(v, r, b), MinRatio(q, r, b), q.ratio)

-----------------------------------------------------------------------------
VARIABLES
    ratio,          \* VideoQoS.ratio
    bitrate,        \* VideoQoS.bitrate_store
    abr,            \* VideoQoS.abr_config
    users,          \* VideoQoS.users: [connected users -> [quality, measured]]
    order,          \* the users that chose a quality, the latest last
    displays,       \* VideoQoS.displays: [services -> support_changing_quality]
    svc,            \* the service threads and their encoders
    settled         \* history: nobody comes, goes or chooses any more

vars == <<ratio, bitrate, abr, users, order, displays, svc, settled>>
qos == <<ratio, bitrate, abr, users, order, displays>>

\* `missed' is history: a change of the ratio was seen and not applied.
Idle == [pc |-> "idle", changeable |-> FALSE, seen |-> 0, applied |-> 0, missed |-> FALSE]

Init ==
    /\ ratio = BR_BALANCED /\ bitrate = 0 /\ abr = TRUE
    /\ users = <<>> /\ order = <<>> /\ displays = <<>>
    /\ svc = [v \in Service |-> Idle]
    /\ settled = FALSE

LatestQuality(us, ord) ==
    IF ord = <<>> THEN Balanced ELSE us[ord[Len(ord)]].quality

InVbrState == abr /\ \A v \in DOMAIN displays : displays[v]

Without(f, x) == [y \in DOMAIN f \ {x} |-> f[y]]
With(f, x, val) == [y \in DOMAIN f \cup {x} |-> IF y = x THEN val ELSE f[y]]

\* The order without u, which occurs at most once.
Others(ord, u) ==
    IF \E i \in DOMAIN ord : ord[i] = u
    THEN LET at == CHOOSE i \in DOMAIN ord : ord[i] = u IN
         [i \in 1 .. Len(ord) - 1 |-> IF i < at THEN ord[i] ELSE ord[i + 1]]
    ELSE ord

-----------------------------------------------------------------------------
(* Users. *)

OnConnectionOpen(u) ==
    /\ ~settled /\ u \notin DOMAIN users
    /\ users' = With(users, u, [quality |-> Balanced, measured |-> FALSE])
    /\ abr' \in Abr
    /\ UNCHANGED <<ratio, bitrate, order, displays, svc, settled>>

\* The last one resets everything, the displays of running services too.
OnConnectionClose(u) ==
    /\ ~settled /\ u \in DOMAIN users
    /\ users' = Without(users, u)
    /\ order' = Others(order, u)
    /\ IF DOMAIN users = {u}
       THEN /\ ratio' = BR_BALANCED /\ bitrate' = 0 /\ abr' = TRUE
            /\ displays' = <<>>
       ELSE UNCHANGED <<ratio, bitrate, abr, displays>>
    /\ UNCHANGED <<svc, settled>>

UserImageQuality(u, q) ==
    /\ ~settled /\ u \in DOMAIN users
    /\ users' = [users EXCEPT ![u].quality = q]
    /\ order' = Append(Others(order, u), u)
    /\ ratio' = q.ratio
    /\ UNCHANGED <<bitrate, abr, displays, svc, settled>>

\* The first delay a user reports adjusts the ratio at once (not on Linux).
FirstNetworkDelay(u, delay) ==
    /\ ~settled /\ u \in DOMAIN users /\ ~users[u].measured
    /\ users' = [users EXCEPT ![u].measured = TRUE]
    /\ ratio' \in {ratio, IF InVbrState
                          THEN AdjustRatio(LatestQuality(users, order), ratio, bitrate, delay, FALSE)
                          ELSE ratio}
    /\ UNCHANGED <<bitrate, abr, order, displays, svc, settled>>

-----------------------------------------------------------------------------
(* The video services. *)

\* ratio(): out of range it becomes balanced.
Ratio == IF ratio < BR_MIN_HIGH_RESOLUTION \/ ratio > BR_MAX THEN BR_BALANCED ELSE ratio

\* run() starts: Raii::new registers the display.
Begin(v) ==
    /\ svc[v].pc = "idle"
    /\ displays' = With(displays, v, FALSE)
    /\ svc' = [svc EXCEPT ![v].pc = "begun"]
    /\ UNCHANGED <<ratio, bitrate, abr, users, order, settled>>

\* The ratio is read and the encoder made with it.
SetupEncoder(v, changeable) ==
    /\ svc[v].pc = "begun"
    /\ ratio' = Ratio
    /\ svc' = [svc EXCEPT ![v] = [pc |-> "made", changeable |-> changeable,
                                  seen |-> Ratio, applied |-> Ratio, missed |-> FALSE]]
    /\ UNCHANGED <<bitrate, abr, users, order, displays, settled>>

StoreBitrate(v, b) ==
    /\ svc[v].pc = "made"
    /\ bitrate' = b
    /\ svc' = [svc EXCEPT ![v].pc = "stored"]
    /\ UNCHANGED <<ratio, abr, users, order, displays, settled>>

SetSupportChangingQuality(v) ==
    /\ svc[v].pc = "stored"
    /\ displays' = IF v \in DOMAIN displays
                   THEN [displays EXCEPT ![v] = svc[v].changeable] ELSE displays
    /\ svc' = [svc EXCEPT ![v].pc = "running"]
    /\ UNCHANGED <<ratio, bitrate, abr, users, order, settled>>

\* update_display_data, once a second, from ratio r: due when three seconds
\* have passed since the last adjustment, dynamic when enough was sent.
UpdateDisplayData(r, b, due, delay, dynamic) ==
    LET q == LatestQuality(users, order) IN
    IF ~InVbrState THEN q.ratio
    ELSE IF due /\ DOMAIN users # {} THEN AdjustRatio(q, r, b, delay, dynamic) ELSE r

\* check_qos that takes the new ratio without looking whether the encoder
\* can be told of it.
CheckQosNeverSwitches(v, b, second, due, delay, dynamic) ==
    /\ svc[v].pc = "running"
    /\ bitrate' = IF svc[v].changeable THEN b ELSE bitrate
    /\ svc' = [svc EXCEPT ![v].seen = Ratio,
                          ![v].applied = IF svc[v].changeable THEN Ratio ELSE @]
    /\ ratio' = IF second THEN UpdateDisplayData(Ratio, bitrate', due, delay, dynamic) ELSE Ratio
    /\ UNCHANGED <<abr, users, order, displays, settled>>

\* check_qos: a changed ratio goes to the encoder; an encoder that cannot
\* change is made anew (SWITCH: run returns, Raii drops the display), but
\* not for an adaptive or a custom quality.
CheckQos(v, b, second, due, delay, dynamic) ==
    /\ svc[v].pc = "running"
    /\ \E changed \in {svc[v].seen # Ratio} :
         IF changed /\ ~svc[v].changeable /\ ~InVbrState
              /\ LatestQuality(users, order).kind # "custom"
         THEN /\ ratio' = Ratio
              /\ displays' = Without(displays, v)
              /\ svc' = [svc EXCEPT ![v] = Idle]
              /\ UNCHANGED bitrate
         ELSE /\ bitrate' = IF changed /\ svc[v].changeable THEN b ELSE bitrate
              /\ svc' = [svc EXCEPT ![v].seen = Ratio,
                                    ![v].applied = IF svc[v].changeable THEN Ratio ELSE @,
                                    ![v].missed = @ \/ (changed /\ ~svc[v].changeable)]
              /\ ratio' = IF second THEN UpdateDisplayData(Ratio, bitrate', due, delay, dynamic)
                          ELSE Ratio
              /\ UNCHANGED displays
    /\ UNCHANGED <<abr, users, order, settled>>

\* run() ends for another reason: nobody watches, or a SWITCH of its own.
Stop(v) ==
    /\ ~settled /\ svc[v].pc # "idle"
    /\ displays' = Without(displays, v)
    /\ svc' = [svc EXCEPT ![v] = Idle]
    /\ UNCHANGED <<ratio, bitrate, abr, users, order, settled>>

\* The environment: from now on the services only follow the controller.
Settle == ~settled /\ settled' = TRUE /\ UNCHANGED <<qos, svc>>

Setup(v) == \E c \in Changeable : SetupEncoder(v, c)
Store(v) == \E b \in Bitrate : StoreBitrate(v, b)
Check(v) ==
    \E b \in Bitrate, second, due, dynamic \in BOOLEAN, delay \in MaxDelay :
        CheckQos(v, b, second, due, delay, dynamic)
CheckEverySecond(v) ==
    \E b \in Bitrate, due, dynamic \in BOOLEAN, delay \in MaxDelay :
        CheckQos(v, b, TRUE, due, delay, dynamic)

Next ==
    \/ \E u \in User :
        \/ OnConnectionOpen(u) \/ OnConnectionClose(u)
        \/ \E q \in Quality : UserImageQuality(u, q)
        \/ \E delay \in MaxDelay : FirstNetworkDelay(u, delay)
    \/ \E v \in Service :
        Begin(v) \/ Setup(v) \/ Store(v) \/ SetSupportChangingQuality(v) \/ Check(v) \/ Stop(v)
    \/ Settle

Spec == Init /\ [][Next]_vars

\* A service thread that runs keeps running.
FairSpec ==
    /\ Spec
    /\ \A v \in Service :
        /\ WF_vars(Begin(v)) /\ WF_vars(Setup(v)) /\ WF_vars(Store(v))
        /\ WF_vars(SetSupportChangingQuality(v)) /\ WF_vars(CheckEverySecond(v))

-----------------------------------------------------------------------------
(* Properties. *)

\* Types; who chose a quality is connected and listed once.
TypeOK ==
    /\ ratio \in Nat /\ bitrate \in Nat /\ abr \in BOOLEAN /\ settled \in BOOLEAN
    /\ DOMAIN users \subseteq User
    /\ \A u \in DOMAIN users : users[u] \in [quality : Quality, measured : BOOLEAN]
    /\ order \in Seq(User) /\ \A i \in DOMAIN order : order[i] \in DOMAIN users
    /\ \A i, j \in DOMAIN order : order[i] = order[j] => i = j
    /\ DOMAIN displays \subseteq Service
    /\ \A v \in DOMAIN displays : displays[v] \in BOOLEAN
    /\ svc \in [Service -> [pc : {"idle", "begun", "made", "stored", "running"},
                            changeable : BOOLEAN, seen : Nat, applied : Nat,
                            missed : BOOLEAN]]

\* The stored ratio is one that ratio() hands out: no sequence of choices,
\* delays and departures makes it fall back to balanced.
RatioInRange == ratio \in BR_MIN_HIGH_RESOLUTION .. BR_MAX

\* The bounds of the clamp in adjust_ratio are in order for every quality
\* that may be in force (f32::clamp panics otherwise, with VIDEO_QOS locked).
ClampOrdered ==
    \A q \in {LatestQuality(users, order)} : MinRatio(q, ratio, bitrate) <= q.ratio

\* Whenever the ratio changes, it does not exceed the quality chosen last by
\* those who are still there.
NoBetterThanChosen ==
    [][ratio' # ratio => ratio' <= LatestQuality(users', order').ratio]_vars

\* Once everybody has made up their mind, and the ratio is not adaptive, the
\* encoder of every service that is still registered comes to work at the
\* quality chosen last, one that cannot change its quality too.  Exempt is
\* an encoder that cannot change and saw a change while a custom quality or
\* the adaptation was in force: check_qos has taken note of that ratio
\* (video_service.rs:1322) and does not look at it again.
QualityReachesEncoder ==
    settled ~> [](~abr /\ LatestQuality(users, order).kind # "custom" =>
                    \A v \in DOMAIN displays :
                        svc[v].pc = "running" /\ ~svc[v].missed => svc[v].applied = ratio)
=============================================================================
