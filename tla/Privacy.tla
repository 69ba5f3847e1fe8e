------------------------------ MODULE Privacy ------------------------------
(***************************************************************************)
(* The privacy mode of the controlled side on Windows                      *)
(* (src/privacy_mode.rs with its implementations in src/privacy_mode/, and *)
(* its use by src/server/connection.rs): one implementation at a time      *)
(* covers the local screen and blocks the local input on behalf of one     *)
(* connection.                                                             *)
(*                                                                         *)
(* PRIVACY_MODE is locked for the whole of a turning on or off, so that a  *)
(* critical section is one step; what happens between two of them, in the  *)
(* connections, in the threads of turn_on_privacy_async and in the thread  *)
(* of the input hook, is interleaved.  A call that the system refuses is a *)
(* fault.                                                                  *)
(***************************************************************************)
EXTENDS Naturals

CONSTANTS
    Conn,       \* connections; an id is never used again
    NoConn,     \* INVALID_PRIVACY_MODE_CONN_ID
    Amyuni,     \* is_amyuni_idd: virtual displays are plugged in slowly
    MaxFaults   \* bound: calls to the system that fail

ASSUME PrivacyAssumption ==
    NoConn \notin Conn /\ Amyuni \in BOOLEAN /\ MaxFaults \in Nat

VARIABLES
    mode,       \* PRIVACY_MODE, what it has done to the screen, the input hook
    conn,       \* where each connection is
    want,       \* the implementation its turn_on_privacy is about
    result,     \* what the thread of turn_on_privacy_async has answered
    late,       \* threads nobody waits for any more: <<connection, implementation>>
    faults,     \* calls of the system that have failed
    outlived,   \* history: connections that gave up waiting for their thread
    newcomers   \* history: connections that logged in when one that had
                \* counted nobody was about to reset the virtual displays

history == <<outlived, newcomers>>
privacyVars == <<mode, conn, want, result, late, faults, history>>

\* A connection has an entry in AUTHED_CONNS from its login to its Drop.
Counted == {"in", "sync", "turning", "check", "failed", "turnOff", "turnOffAny",
            "closing", "gone"}

\* The loop of the connection is over.
Over == {"gone", "left", "reset", "dropped"}

\* A window over the screen (win_topmost_window, which two of the
\* implementations use), or virtual displays in place of the physical ones.
Impl == {"window", "displays"}

\* CUR_HOOK_THREAD_ID is 0 when hook is "none"; the thread of the hook is
\* "leaving" from the message of unhook to its end.  Two fields are history:
\* the displays were turned on and the input left free; a turning off has
\* failed, and what it should have undone is not followed any further.
New(k, hook, stuck) ==
    [impl |-> k, holder |-> NoConn, covered |-> FALSE,
     hook |-> hook, free |-> FALSE, stuck |-> stuck]

PrivacyInit ==
    /\ \E k \in Impl : mode = New(k, "none", FALSE)
    /\ conn = [c \in Conn |-> "new"]
    /\ want = [c \in Conn |-> "none"] /\ result = [c \in Conn |-> "none"]
    /\ late = {} /\ faults = 0 /\ outlived = {} /\ newcomers = {}

-----------------------------------------------------------------------------
(* The implementations.  An operation on m has a set of outcomes: the mode *)
(* after it, what it answers, and how many calls have failed in it.        *)

Outcome(m, answer, n) == [mode |-> m, answer |-> answer, faults |-> n]

Then(outcomes, Operation(_)) ==
    UNION {{Outcome(next.mode, next.answer, o.faults + next.faults) :
                next \in Operation(o.mode)} : o \in outcomes}

\* check_off_conn_id that lets everybody.
MayTurnOffAny(m, id) == TRUE

MayTurnOff(m, id) == m.holder = NoConn \/ id = NoConn \/ m.holder = id

Unhook(m) == [m EXCEPT !.hook = IF @ = "set" THEN "leaving" ELSE @]

\* unhook()? comes first; then the window may not be found.
TurnOff(m, id) ==
    IF ~MayTurnOff(m, id) THEN {Outcome(m, "err", 0)}
    ELSE {Outcome([Unhook(m) EXCEPT !.holder = NoConn, !.covered = FALSE, !.free = FALSE],
                  "ok", 0)}
      \cup {Outcome([n EXCEPT !.stuck = TRUE], "err", 1) :
              n \in {x \in {m, Unhook(m)} : m.hook # "none" \/ m.impl = "window"}}

\* The Drop of an implementation turns off what is on; then the new one.
Replace(m, k) ==
    Then(IF m.holder = NoConn THEN {Outcome(m, "ok", 0)} ELSE TurnOff(m, m.holder),
         LAMBDA n : {Outcome(New(k, n.hook, n.stuck), "ok", 0)})

\* A window that is shown whether or not the input could be hooked.
TurnOnWindowAnyway(m, c) ==
    {Outcome([m EXCEPT !.hook = IF @ = "none" THEN "set" ELSE @,
                       !.covered = TRUE, !.holder = c], "ok", 0)}

\* The window: Ok(false) without its DLL; the hook is needed.
TurnOnWindow(m, c) ==
    {Outcome(m, "plugin", 0), Outcome(m, "err", 1)}
      \cup (IF m.hook = "none"
            THEN {Outcome([m EXCEPT !.hook = "set", !.covered = TRUE, !.holder = c], "ok", 0)}
            ELSE {Outcome(m, "err", 0)})

\* The displays: on an error TurnOnGuard turns off what was begun.  The mode
\* is on whether or not the input can be hooked.
TurnOnDisplays(m, c) ==
    LET covered == [m EXCEPT !.covered = TRUE]
        on == [covered EXCEPT !.holder = c] IN
    {Outcome(m, "err", 1), Outcome([on EXCEPT !.free = TRUE], "ok", 1),
     IF m.hook = "none" THEN Outcome([on EXCEPT !.hook = "set"], "ok", 0)
                        ELSE Outcome([on EXCEPT !.free = TRUE], "ok", 0)}
      \cup {Outcome(o.mode, "err", o.faults + 1) : o \in TurnOff(covered, NoConn)}

TurnOnImpl(m, c) ==
    IF m.holder = c THEN {Outcome(m, "ok", 0)}
    ELSE IF m.impl = "window" THEN TurnOnWindow(m, c) ELSE TurnOnDisplays(m, c)

\* Occupied by another one; or, if need be after clear() and the Drop of
\* the implementation there was, turn_on_privacy of the one that is asked for.
TurnOnSync(m, k, c) ==
    IF m.holder \notin {c, NoConn} THEN {Outcome(m, "err", 0)}
    ELSE IF m.impl = k THEN TurnOnImpl(m, c)
    ELSE Then(Then(TurnOff(m, m.holder), LAMBDA n : Replace(n, k)),
              LAMBDA n : TurnOnImpl(n, c))

-----------------------------------------------------------------------------
(* Critical sections. *)

Apply(o) ==
    /\ faults + o.faults <= MaxFaults /\ faults' = faults + o.faults
    /\ mode' = o.mode

Off(id) == \E o \in TurnOff(mode, id) : Apply(o)

Goto(c, from, to) == conn[c] = from /\ conn' = [conn EXCEPT ![c] = to]

\* At login (file transfers and the like excepted) nobody is let in while
\* the mode is on.
Login(c) ==
    /\ Goto(c, "new", IF mode.holder = NoConn THEN "in" ELSE "refused")
    /\ newcomers' = IF \E d \in Conn : conn[d] = "reset" THEN newcomers \cup {c} ELSE newcomers
    /\ UNCHANGED <<mode, want, result, late, faults, outlived>>

\* turn_on_privacy asks the present implementation whether it is slow.
Ask(c, k) ==
    /\ Goto(c, "in", IF mode.impl = "displays" /\ Amyuni THEN "turning" ELSE "sync")
    /\ want' = [want EXCEPT ![c] = k]
    /\ UNCHANGED <<mode, result, late, faults, history>>

Answered(answer) ==
    CASE answer = "ok" -> "check" [] answer = "plugin" -> "in" [] answer = "err" -> "failed"

TurnOnPrivacy(c) ==
    /\ \E o \in TurnOnSync(mode, want[c], c) : Apply(o) /\ Goto(c, "sync", Answered(o.answer))
    /\ want' = [want EXCEPT ![c] = "none"]
    /\ UNCHANGED <<result, late, history>>

\* The spawned thread, and the loop of the connection that waits for it.
Thread(c) ==
    /\ conn[c] = "turning" /\ result[c] = "none"
    /\ \E o \in TurnOnSync(mode, want[c], c) :
         Apply(o) /\ result' = [result EXCEPT ![c] = o.answer]
    /\ want' = [want EXCEPT ![c] = "none"]
    /\ UNCHANGED <<conn, late, history>>

Receive(c) ==
    /\ result[c] # "none" /\ Goto(c, "turning", Answered(result[c]))
    /\ result' = [result EXCEPT ![c] = "none"]
    /\ UNCHANGED <<mode, want, late, faults, history>>

\* 7.5 seconds are over; the thread goes on.
Timeout(c) ==
    /\ result[c] = "none" /\ Goto(c, "turning", "failed")
    /\ late' = late \cup {<<c, want[c]>>} /\ outlived' = outlived \cup {c}
    /\ want' = [want EXCEPT ![c] = "none"]
    /\ UNCHANGED <<mode, result, faults, newcomers>>

LateThread(c, k) ==
    /\ <<c, k>> \in late /\ late' = late \ {<<c, k>>}
    /\ \E o \in TurnOnSync(mode, k, c) : Apply(o)
    /\ UNCHANGED <<conn, want, result, history>>

\* check_privacy_mode_err: with the magnifier a capturer is tried.
CheckErr(c) ==
    /\ \/ Goto(c, "check", "in") /\ UNCHANGED faults
       \/ /\ mode.impl = "window" /\ faults < MaxFaults /\ faults' = faults + 1
          /\ Goto(c, "check", "turnOff")
    /\ UNCHANGED <<mode, want, result, late, history>>

\* After an error whatever mode is on is turned off, whoever holds it.
FailedCheck(c) ==
    /\ Goto(c, "failed", IF mode.holder # NoConn THEN "turnOffAny" ELSE "in")
    /\ UNCHANGED <<mode, want, result, late, faults, history>>

TurnOffAny(c) ==
    /\ Goto(c, "turnOffAny", "in") /\ Off(NoConn)
    /\ UNCHANGED <<want, result, late, history>>

\* turn_off_privacy_to_msg for the connection itself: after the check above,
\* on request, and at its end.
TurnOffPrivacy(c) ==
    /\ Goto(c, "turnOff", "in") \/ Goto(c, "in", "in") \/ Goto(c, "closing", "gone")
    /\ Off(c)
    /\ UNCHANGED <<want, result, late, history>>

\* A loop that ends without looking at the privacy mode.
CloseForgets(c) ==
    /\ Goto(c, "in", "gone")
    /\ UNCHANGED <<mode, want, result, late, faults, history>>

\* The loop has ended: get_privacy_mode_conn_id.
Close(c) ==
    /\ Goto(c, "in", IF mode.holder = c THEN "closing" ELSE "gone")
    /\ UNCHANGED <<mode, want, result, late, faults, history>>

\* The Drop of AuthedConnID: the connection takes its entry out, and counts
\* the others under another lock.  The last one resets the virtual displays;
\* others may have logged in since it counted.
Leave(c) ==
    /\ Goto(c, "gone", "left")
    /\ UNCHANGED <<mode, want, result, late, faults, history>>

Count(c) ==
    /\ Goto(c, "left", IF Amyuni /\ \A d \in Conn : conn[d] \notin Counted
                       THEN "reset" ELSE "dropped")
    /\ UNCHANGED <<mode, want, result, late, faults, history>>

ResetAll(c) ==
    /\ Goto(c, "reset", "dropped") /\ Off(NoConn)
    /\ UNCHANGED <<want, result, late, history>>

\* The owner of the machine presses Ctrl + P: the keyboard hook sees it.
CtrlP ==
    /\ mode.hook # "none" /\ Off(NoConn)
    /\ UNCHANGED <<conn, want, result, late, history>>

\* The option for the implementation is set.
SwitchImpl(k) ==
    /\ mode.impl # k
    /\ \E o \in Replace(mode, k) : Apply(o)
    /\ UNCHANGED <<conn, want, result, late, history>>

\* The thread of the hook takes the message, unhooks and forgets its id.
HookExit ==
    /\ mode.hook = "leaving" /\ mode' = [mode EXCEPT !.hook = "none"]
    /\ UNCHANGED <<conn, want, result, late, faults, history>>

\* What a connection, or its thread, does on its own behalf.
Own(c) ==
    \/ Login(c) \/ TurnOnPrivacy(c) \/ Thread(c) \/ Receive(c) \/ Timeout(c)
    \/ CheckErr(c) \/ FailedCheck(c) \/ TurnOffPrivacy(c) \/ Close(c) \/ Leave(c) \/ Count(c)
    \/ \E k \in Impl : Ask(c, k) \/ LateThread(c, k)

PrivacyNext ==
    \/ \E c \in Conn : Own(c) \/ TurnOffAny(c) \/ ResetAll(c)
    \/ CtrlP \/ HookExit
    \/ \E k \in Impl : SwitchImpl(k)

PrivacySpec == PrivacyInit /\ [][PrivacyNext]_privacyVars

-----------------------------------------------------------------------------
(* Properties. *)

\* Types; only a turning on that is under way has an implementation.
PrivacyTypeOK ==
    /\ mode \in [impl : Impl, holder : Conn \cup {NoConn}, covered : BOOLEAN,
                 hook : {"none", "set", "leaving"}, free : BOOLEAN, stuck : BOOLEAN]
    /\ conn \in [Conn -> {"new", "refused", "in", "sync", "turning", "check", "failed",
                          "turnOff", "turnOffAny", "closing"} \cup Over]
    /\ want \in [Conn -> Impl \cup {"none"}]
    /\ result \in [Conn -> {"none", "ok", "plugin", "err"}]
    /\ \A c \in Conn : conn[c] = "sync" \/ (conn[c] = "turning" /\ result[c] = "none")
                      => want[c] \in Impl
    /\ late \subseteq outlived \X Impl /\ outlived \subseteq Conn /\ newcomers \subseteq Conn
    /\ faults \in 0 .. MaxFaults

\* No connection that has gone still holds the mode, which would lock the
\* machine's owner and every new connection out; except one whose thread
\* turned the mode on after the 7.5 seconds, and after a turning off that
\* the system refused.
NoGhostHolds ==
    mode.holder # NoConn /\ conn[mode.holder] \in Over =>
        mode.holder \in outlived \/ mode.stuck

\* The screen is covered and the input blocked exactly while somebody holds
\* the mode, also while implementations are switched, fail half-way or meet
\* the hook of the mode before (win_input.rs:32).  The displays may be turned
\* on with the input left free.
CoveredIsHeld ==
    \/ mode.stuck
    \/ /\ mode.covered = (mode.holder # NoConn)
       /\ (mode.hook = "set") = (mode.holder # NoConn /\ ~mode.free)

\* No step a connection takes for itself, whatever it asks for and however
\* late, ends or takes over the mode of another one.  Two steps it takes
\* regardless of the holder may: after a turning on that failed it turns off
\* whatever is on (connection.rs:4072), of which nothing is said here; and
\* the last one to go resets the virtual displays, which hits nobody but who
\* logged in after it had counted (connection.rs:5520-5534), a connection
\* that is over itself, and what a refused turning off has left.
OnlyOwnMode ==
    [][\A c \in Conn :
         /\ Own(c) => mode.holder \in {c, NoConn, mode'.holder}
         /\ ResetAll(c) => \/ mode.holder \in {c, NoConn, mode'.holder}
                           \/ mode.holder \in newcomers \cup outlived
                           \/ mode.stuck]_privacyVars
=============================================================================
