----------------------------- MODULE Connection -----------------------------
(***************************************************************************)
(* One connection of a peer that sees a screen or a camera                 *)
(* (src/server/connection.rs): what it is subscribed to, while the user at *)
(* this machine switches its permissions in the window of the connection   *)
(* manager, the peer sets its options, voice calls come and go, displays   *)
(* are chosen, and the login is answered at once or after a session of     *)
(* Windows has been chosen.                                                *)
(*                                                                         *)
(* An OptionMessage with several fields is handled field by field, as if   *)
(* there were a message for each, and those of the login request after     *)
(* `authorized' is set and before the connection is added.  How a peer     *)
(* comes to be authorized is left out, and so are the services that every  *)
(* connection has, the one-way options of the build, and the permissions   *)
(* that no subscription depends on (restart, recording, block_input).      *)
(* The rest of what a subscription means is the subject of Service.        *)
(***************************************************************************)
EXTENDS Naturals, FiniteSets

CONSTANTS
    Displays,           \* displays, or cameras
    PRIMARY_DISPLAY_IDX

ASSUME DisplaysAssumption ==
    PRIMARY_DISPLAY_IDX \in Displays /\ IsFiniteSet(Displays)

VARIABLES
    kind,               \* "remote" or, with view_camera, "camera"
    newer,              \* the peer supports several displays at a time
    phase,              \* "login", "options" and, with authorized, "wait",
                        \* "on" (services_subed) and "ended"
    perm,               \* perm[n]: self.keyboard, self.clipboard, ...
    opt,                \* opt[o]: self.disable_keyboard, ...
    asked,              \* voice_call_request_timestamp is set
    voice_calling,
    subs,               \* services it is subscribed to
    shown,              \* displays it is subscribed to
    display_idx,
    multi_ui_session

login == <<kind, newer>>
voice == <<asked, voice_calling>>
video == <<shown, display_idx, multi_ui_session>>
vars == <<login, phase, perm, opt, voice, subs, video>>

Permissions == {"keyboard", "clipboard", "audio", "file"}
Options == {"disable_keyboard", "disable_clipboard", "disable_audio",
            "enable_file_transfer", "show_remote_cursor",
            "follow_remote_window"}
Services == {"cursor", "pos", "focus", "clipboard", "file_clipboard", "audio"}

(* The phases in which the event loop takes messages of an authorized peer. *)
Open == {"wait", "on"}

-----------------------------------------------------------------------------
(* What the connection may have, with permissions p and options o. *)

peer_keyboard_enabled(p, o) == p["keyboard"] /\ ~o["disable_keyboard"]

clipboard_enabled(p, o) == p["clipboard"] /\ ~o["disable_clipboard"]

can_sub_clipboard_service(p, o) ==
    clipboard_enabled(p, o) /\ peer_keyboard_enabled(p, o)

audio_enabled(p, o) == p["audio"] /\ ~o["disable_audio"]

file_transfer_enabled(p, o) == p["file"] /\ o["enable_file_transfer"]

can_sub_file_clipboard_service(p, o) ==
    clipboard_enabled(p, o) /\ file_transfer_enabled(p, o)

SeesCursor(p, o) == peer_keyboard_enabled(p, o) \/ o["show_remote_cursor"]

(* The services that the permissions and options forbid. *)
noperms(p, o) ==
    {n \in Services :
        \/ n = "cursor" /\ ~SeesCursor(p, o)
        \/ n = "pos" /\ ~o["show_remote_cursor"]
        \/ n = "focus" /\ ~o["follow_remote_window"]
        \/ n = "clipboard" /\ ~can_sub_clipboard_service(p, o)
        \/ n = "file_clipboard" /\ ~can_sub_file_clipboard_service(p, o)
        \/ n = "audio" /\ ~audio_enabled(p, o)}

(* Calls of Server::subscribe, one for each name in the domain of wanted. *)
Subscribed(wanted) ==
    (subs \ DOMAIN wanted) \cup {n \in DOMAIN wanted : wanted[n]}

(* The call for the audio service, which a camera has for calls only. *)
Audio(p, o) ==
    IF kind = "camera" /\ ~voice_calling /\ audio_enabled(p, o)
    THEN [audio |-> "audio" \in subs] ELSE [audio |-> audio_enabled(p, o)]

-----------------------------------------------------------------------------
(* Data::SwitchPermission of the connection manager, whose window shows    *)
(* the switches before the login is accepted too; for a camera only audio. *)

Switch(name, enabled) ==
    /\ phase \in {"login"} \cup Open
    /\ perm' = [perm EXCEPT ![name] = enabled]
    /\ UNCHANGED <<login, phase, opt, voice, video>>

(* The same with a cursor that only the keyboard decides on. *)
SwitchKeyboardHidesCursor(enabled) ==
    /\ kind = "remote"
    /\ Switch("keyboard", enabled)
    /\ subs' = Subscribed(
          [clipboard |-> can_sub_clipboard_service(perm', opt),
           file_clipboard |-> can_sub_file_clipboard_service(perm', opt),
           cursor |-> enabled])

SwitchKeyboard(enabled) ==
    /\ kind = "remote"
    /\ Switch("keyboard", enabled)
    /\ subs' = Subscribed(
          [clipboard |-> can_sub_clipboard_service(perm', opt),
           file_clipboard |-> can_sub_file_clipboard_service(perm', opt),
           cursor |-> enabled \/ opt["show_remote_cursor"]])

SwitchClipboard(enabled) ==
    /\ kind = "remote"
    /\ Switch("clipboard", enabled)
    /\ subs' = Subscribed(
          [clipboard |-> can_sub_clipboard_service(perm', opt)])

SwitchAudio(enabled) ==
    /\ Switch("audio", enabled)
    /\ subs' = IF phase = "login" THEN subs
               ELSE Subscribed(Audio(perm', opt))

SwitchFile(enabled) ==
    /\ kind = "remote"
    /\ Switch("file", enabled)
    /\ subs' = Subscribed(
          [file_clipboard |-> can_sub_file_clipboard_service(perm', opt)])

-----------------------------------------------------------------------------
(* update_options: one field of an OptionMessage that is set. *)

Option(name, yes) ==
    /\ phase \in {"options"} \cup Open
    /\ opt' = [opt EXCEPT ![name] = yes]
    /\ UNCHANGED <<login, phase, perm, voice, video>>

ShowRemoteCursor(yes) ==
    /\ Option("show_remote_cursor", yes)
    /\ subs' = Subscribed([cursor |-> SeesCursor(perm, opt'), pos |-> yes])

FollowRemoteWindow(yes) ==
    /\ Option("follow_remote_window", yes)
    /\ subs' = Subscribed([focus |-> yes])

DisableAudio(yes) ==
    /\ Option("disable_audio", yes)
    /\ subs' = Subscribed(Audio(perm, opt'))

EnableFileTransfer(yes) ==
    /\ Option("enable_file_transfer", yes)
    /\ subs' = Subscribed(
          [file_clipboard |-> can_sub_file_clipboard_service(perm, opt')])

DisableClipboard(yes) ==
    /\ Option("disable_clipboard", yes)
    /\ subs' = Subscribed(
          [clipboard |-> can_sub_clipboard_service(perm, opt')])

(* The same without the call for the clipboard. *)
DisableKeyboardCursorOnly(yes) ==
    /\ Option("disable_keyboard", yes)
    /\ subs' = Subscribed([cursor |-> SeesCursor(perm, opt')])

DisableKeyboard(yes) ==
    /\ Option("disable_keyboard", yes)
    /\ subs' = Subscribed(
          [clipboard |-> can_sub_clipboard_service(perm, opt'),
           file_clipboard |-> can_sub_file_clipboard_service(perm, opt'),
           cursor |-> SeesCursor(perm, opt')])

-----------------------------------------------------------------------------
(* The login, and the end. *)

(* send_logon_response: authorized; the options of the login follow. *)
Authorize ==
    /\ phase = "login"
    /\ phase' = "options"
    /\ UNCHANGED <<login, perm, opt, voice, subs, video>>

(* try_sub_monitor_services with add_connection; try_sub_camera_displays.  *)
(* A service that noperms does not name is joined; none is left.           *)
Add ==
    /\ subs' = IF kind = "camera" THEN subs
               ELSE subs \cup (Services \ noperms(perm, opt))
    /\ \/ shown' = shown \cup {PRIMARY_DISPLAY_IDX}
       \/ kind = "camera" /\ UNCHANGED shown       \* there is no camera
    /\ UNCHANGED <<login, opt, voice, display_idx, multi_ui_session>>

(* The end of send_logon_response: the connection is added, unless a       *)
(* session of Windows has to be chosen or the displays cannot be listed.   *)
LoggedOn ==
    /\ phase = "options"
    /\ perm' = [perm EXCEPT !["keyboard"] = @ /\ kind # "camera"]
    /\ \/ phase' = "on" /\ Add
       \/ /\ phase' = "wait"
          /\ UNCHANGED <<login, opt, voice, subs, video>>

(* A session is chosen; again for a connection that has been added. *)
SelectedSid ==
    /\ phase = "wait" \/ (phase = "on" /\ kind = "camera")
    /\ phase' = "on"
    /\ Add
    /\ UNCHANGED perm

(* Every way out of the loop, up to remove_connection. *)
End ==
    /\ phase \notin {"options", "ended"}
    /\ phase' = "ended"
    /\ subs' = {} /\ shown' = {}
    /\ UNCHANGED <<login, perm, opt, voice, display_idx, multi_ui_session>>

-----------------------------------------------------------------------------
(* Voice calls: a request, the answer of the user, the end by either side. *)

VoiceCallRequest ==
    /\ phase \in Open
    /\ asked' = TRUE
    /\ UNCHANGED <<login, phase, perm, opt, voice_calling, subs, video>>

handle_voice_call(accepted) ==
    /\ phase \in Open
    /\ asked
    /\ asked' = FALSE
    /\ voice_calling' = accepted
    /\ subs' = IF kind = "camera"
               THEN Subscribed(
                       [audio |-> audio_enabled(perm, opt) /\ accepted])
               ELSE subs
    /\ UNCHANGED <<login, phase, perm, opt, video>>

(* The same with the audio service kept. *)
close_voice_call_keeps_audio ==
    /\ phase \in Open
    /\ voice_calling' = FALSE
    /\ UNCHANGED <<login, phase, perm, opt, asked, subs, video>>

close_voice_call ==
    /\ phase \in Open
    /\ voice_calling' = FALSE
    /\ subs' = IF kind = "camera" THEN subs \ {"audio"} ELSE subs
    /\ UNCHANGED <<login, phase, perm, opt, asked, video>>

-----------------------------------------------------------------------------
(* Displays. *)

(* handle_switch_display: a peer that knows of several displays at a time  *)
(* follows it with a message for capture_displays.                         *)
SwitchDisplay(d) ==
    /\ phase \in Open
    /\ d # display_idx
    /\ shown' = (IF newer THEN shown ELSE shown \ {display_idx}) \cup {d}
    /\ display_idx' = d
    /\ UNCHANGED <<login, phase, perm, opt, voice, subs, multi_ui_session>>

(* Displays are added; or all but those of a list are dropped, which is    *)
(* what sub does; or a list is shown and nothing else.                     *)
CaptureDisplays(add, sub, set) ==
    /\ phase \in Open
    /\ shown' = IF add # {} THEN shown \cup add
                ELSE IF sub # {} THEN shown \cap sub ELSE set
    /\ multi_ui_session' = (Cardinality(shown') > 1)
    /\ subs' = IF opt["follow_remote_window"]
               THEN Subscribed([focus |-> ~multi_ui_session']) ELSE subs
    /\ UNCHANGED <<login, phase, perm, opt, voice, display_idx>>

-----------------------------------------------------------------------------
Init ==
    /\ kind \in {"remote", "camera"} /\ newer \in BOOLEAN
    /\ phase = "login"
    /\ perm \in [Permissions -> BOOLEAN]
    /\ opt = [o \in Options |-> FALSE]
    /\ asked = FALSE /\ voice_calling = FALSE
    /\ subs = {} /\ shown = {}
    /\ display_idx = PRIMARY_DISPLAY_IDX /\ multi_ui_session = FALSE

SwitchPermission(b) ==
    \/ SwitchKeyboard(b) \/ SwitchClipboard(b) \/ SwitchAudio(b)
    \/ SwitchFile(b)
update_options(b) ==
    \/ ShowRemoteCursor(b) \/ FollowRemoteWindow(b) \/ DisableAudio(b)
    \/ EnableFileTransfer(b) \/ DisableClipboard(b) \/ DisableKeyboard(b)

Next ==
    \/ \E b \in BOOLEAN :
          SwitchPermission(b) \/ update_options(b) \/ handle_voice_call(b)
    \/ Authorize \/ LoggedOn \/ SelectedSid \/ End
    \/ VoiceCallRequest \/ close_voice_call
    \/ \E d \in Displays : SwitchDisplay(d)
    \/ \E ds \in SUBSET Displays :
          \/ CaptureDisplays(ds, {}, {}) \/ CaptureDisplays({}, ds, {})
          \/ CaptureDisplays({}, {}, ds)

Spec == Init /\ [][Next]_vars

-----------------------------------------------------------------------------
TypeOK ==
    /\ kind \in {"remote", "camera"} /\ newer \in BOOLEAN
    /\ phase \in {"login", "options", "wait", "on", "ended"}
    /\ perm \in [Permissions -> BOOLEAN] /\ opt \in [Options -> BOOLEAN]
    /\ asked \in BOOLEAN /\ voice_calling \in BOOLEAN
    /\ subs \subseteq Services /\ shown \subseteq Displays
    /\ display_idx \in Displays /\ multi_ui_session \in BOOLEAN

(* Nothing comes from a service that the permissions and options of the    *)
(* moment forbid, whatever was switched, set, accepted or chosen before    *)
(* and in whichever order: also before the login and between the login and *)
(* the choice of a session.  For the cursor disable_keyboard counts only   *)
(* as long as the keyboard is not switched, for files the clipboard is     *)
(* not looked at again.                                                    *)
NothingForbidden ==
    kind = "remote" =>
        /\ "clipboard" \in subs => can_sub_clipboard_service(perm, opt)
        /\ "audio" \in subs => audio_enabled(perm, opt)
        /\ "file_clipboard" \in subs => file_transfer_enabled(perm, opt)
        /\ "cursor" \in subs => perm["keyboard"] \/ opt["show_remote_cursor"]
        /\ "pos" \in subs => opt["show_remote_cursor"]
        /\ "focus" \in subs => opt["follow_remote_window"]

(* And nothing that they allow is missing once the connection is added.    *)
(* Files copied here are not offered any more after the clipboard was      *)
(* disabled and enabled again, and the focused window is not followed      *)
(* while several displays are shown.                                       *)
NothingMissing ==
    kind = "remote" /\ phase = "on" =>
        /\ can_sub_clipboard_service(perm, opt) => "clipboard" \in subs
        /\ audio_enabled(perm, opt) => "audio" \in subs
        /\ SeesCursor(perm, opt) => "cursor" \in subs
        /\ opt["show_remote_cursor"] => "pos" \in subs
        /\ opt["follow_remote_window"] /\ ~multi_ui_session =>
              "focus" \in subs

(* Who watches a camera hears this machine in a voice call, if permitted,  *)
(* and at no other time.                                                   *)
CameraHearsCalls ==
    kind = "camera" /\ phase # "ended" =>
        ("audio" \in subs <=> voice_calling /\ audio_enabled(perm, opt))
=============================================================================
